-------------------------------- MODULE NodePair --------------------------------
(***************************************************************************)
(* Two nodes, as the models of what they negotiate name them.  Node "a" is *)
(* the offer owner of the pair: its endpoint key is the smaller one.       *)
(***************************************************************************)

CONSTANT None

Ends == {"a", "b"}
Peer(n) == IF n = "a" THEN "b" ELSE "a"
is_lan_offer_owner(n) == n = "a"
=================================================================================
