---------------------------- MODULE MCByteStream ----------------------------
(* Instances of ByteStream for TLC.                                        *)
EXTENDS ByteStream

Both(n) == [a |-> n, b |-> n]
Two == Both(2)
Eight == Both(8)
Twelve == Both(12)
FourFromA == [a |-> 4, b |-> 0]
NineFromA == [a |-> 9, b |-> 0]
=============================================================================
