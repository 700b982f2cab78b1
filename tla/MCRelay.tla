-------------------------------- MODULE MCRelay --------------------------------
EXTENDS RelayServer

K(d, e) == <<d, e>>
Dev(s, g) ==
  [status |-> s, gen |-> g, tenant |-> IF s = "none" THEN None ELSE "A"]
Load(m, d1, d2, k1, k2, recs) ==
  [mode |-> m, devices |-> [d1 |-> d1, d2 |-> d2],
   owner |-> [c1 |-> k1, c2 |-> k2], records |-> recs]

MCLoads ==
  { \* a revoked device enrolls again with a token, over two connections
    Load("token", Dev("revoked", 1), Dev("none", 0),
         K("d1", "e1"), K("d1", "e1"), {}),
    \* a client reconnects while its old session is still there
    Load("closed", Dev("active", 1), Dev("none", 0),
         K("d1", "e1"), K("d1", "e1"),
         {<<1, "a">>, <<1, "b">>, <<2, "a">>}),
    \* two endpoints of one device, which a password may enroll anew
    Load("password", Dev("active", 1), Dev("none", 0),
         K("d1", "e1"), K("d1", "e2"), {<<1, "a">>}) }
===============================================================================
