------------------------------ MODULE RelayLeases ------------------------------
(***************************************************************************)
(* The relay's lease table (src/relay/relay_lease_table.cpp) as operators  *)
(* on a table value: the entries, indexed by endpoint key, and the two     *)
(* indexes kept beside them, the endpoints of each device and the devices  *)
(* of each tenant.  An entry's rem is the time left of its lease.          *)
(***************************************************************************)
EXTENDS RelayTtl

CONSTANTS LeaseCapacity, DeviceEndpointCapacity, TenantDeviceCapacity

Device(k) == k[1]

NoLeases(devices, tenants) ==
  [entries   |-> Empty,
   by_device |-> [d \in devices |-> {}],
   by_tenant |-> [t \in tenants |-> {}]]

(* unlink: the device leaves its tenant's index with any of its endpoints. *)
unlink(t, k) ==
  IF k \notin DOMAIN t.entries THEN t
  ELSE [entries   |-> Without(t.entries, k),
        by_device |-> [t.by_device EXCEPT ![Device(k)] = @ \ {k}],
        by_tenant |-> [t.by_tenant EXCEPT ![t.entries[k].tenant] =
                         @ \ {Device(k)}]]

(* Unlinking a set of keys is order independent. *)
unlink_all(t, ks) ==
  [entries   |-> [k \in DOMAIN t.entries \ ks |-> t.entries[k]],
   by_device |-> [d \in DOMAIN t.by_device |-> t.by_device[d] \ ks],
   by_tenant |-> [n \in DOMAIN t.by_tenant |->
                    t.by_tenant[n] \ {Device(k) : k \in
                        {j \in ks \cap DOMAIN t.entries :
                            t.entries[j].tenant = n}}]]

lease_expire(t) ==
  unlink_all(t, DOMAIN t.entries \ LiveKeys(t.entries))

lease_age(t) == [t EXCEPT !.entries = Age(@)]

lease_get(t, k) == k \in LiveKeys(t.entries)

(* What heartbeat works on after dropping its own dead entry and, at       *)
(* capacity, every dead entry.                                             *)
lease_pressed(t, k) ==
  LET mine == IF lease_get(t, k) THEN t ELSE unlink(t, k)
  IN  IF Cardinality(DOMAIN mine.entries) < LeaseCapacity
      THEN mine ELSE lease_expire(mine)

heartbeat_ok(t, k, tenant) ==
  IF lease_get(t, k) THEN t.entries[k].tenant = tenant
  ELSE LET p == lease_pressed(t, k)
       IN  /\ Cardinality(DOMAIN p.entries) < LeaseCapacity
           /\ Cardinality(p.by_device[Device(k)]) < DeviceEndpointCapacity
           /\ \/ Device(k) \in p.by_tenant[tenant]
              \/ Cardinality(p.by_tenant[tenant]) < TenantDeviceCapacity

heartbeat(t, k, tenant, duration) ==
  IF lease_get(t, k)
  THEN IF t.entries[k].tenant = tenant
       THEN [t EXCEPT !.entries[k].rem = duration] ELSE t
  ELSE LET p == lease_pressed(t, k)
       IN  IF ~heartbeat_ok(t, k, tenant) THEN p
           ELSE [entries   |-> With(p.entries, k,
                                    [tenant |-> tenant, rem |-> duration]),
                 by_device |-> [p.by_device EXCEPT ![Device(k)] = @ \cup {k}],
                 by_tenant |-> [p.by_tenant EXCEPT ![tenant] =
                                  @ \cup {Device(k)}]]

online_device(t, d) == {k \in t.by_device[d] : lease_get(t, k)}

online_tenant(t, tenant) ==
  UNION {online_device(t, d) : d \in t.by_tenant[tenant]}
===============================================================================
