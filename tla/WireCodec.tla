----------------------------- MODULE WireCodec -----------------------------
(***************************************************************************)
(* The hand-written protobuf codec of src/core/proto_codec.hpp and the     *)
(* loops around it.  Every parse_X of the code is the same loop - read the *)
(* next tagged field, dispatch on its number, convert the value, remember  *)
(* that it was seen - followed by presence and domain checks; every        *)
(* encode_X is a domain check followed by a list of append_ calls.  This   *)
(* module gives the loop and the append_ calls once.  PeerCodecs and       *)
(* RelayCodecs describe the messages.                                      *)
(*                                                                         *)
(* A message on the wire is a sequence of occurrences <<number, wire type, *)
(* value>>.  An integer keeps its width: Word stands for 2^32, and Top for *)
(* the upper end of a field's domain (the last status, the longest lease,  *)
(* the largest port).  A byte string is a class: "ok" and "other" are two  *)
(* different good values, "zero" is the all-zero identity, "short" has not *)
(* the size the field wants (or is a nested message its own parser         *)
(* refuses), "bad" has wrong content, "long" exceeds the field's bound,    *)
(* and a payload is "full" at its limit and "huge" one byte beyond.        *)
(*                                                                         *)
(* The result of a parser or an encoder is a set: empty when the code      *)
(* returns a failure, else the one value it returns.                       *)
(***************************************************************************)
EXTENDS Integers, Sequences, FiniteSets

CONSTANTS Word, Top

ASSUME WordAssumption == Word \in Nat /\ Top \in Nat /\ 1 < Top /\ Top + 1 < Word

Absent == -9
Unset == "none"
MaxList == 2

Numbers == {0, 1, Top, Top + 1, Word, Word + 1}
Narrow == {v \in Numbers : v < Word}
Identities == {"ok", "other", "zero"}
Texts == {"ok", "other", "empty", "bad", "long"}
Payloads == {"ok", "empty", "full", "huge"}

Number(o) == o[1]
Wire(o) == o[2]
Value(o) == o[3]

append_uint(n, v) == <<<<n, 0, v>>>>
append_bytes(n, v) == <<<<n, 2, v>>>>
append_if(shown, s) == IF shown THEN s ELSE <<>>
append_each(n, w, vs) == [i \in DOMAIN vs |-> <<n, w, vs[i]>>]

Emit(allowed, s) == IF allowed THEN {s} ELSE {}

(***************************************************************************)
(* A case of a parser's switch: the number it reads, the wire type it      *)
(* wants, the values it takes, those it reads without effect, what it      *)
(* makes of one, whether it collects a list, and the value its variable    *)
(* starts with.  "values" and "sent" are the record values and the wire    *)
(* values worth trying; "good" is one the domain checks accept.            *)
(***************************************************************************)
Case(n, name, wire, sent, takes, values, good, start) ==
  [n |-> n, name |-> name, wire |-> wire, sent |-> sent, takes |-> takes,
   blank |-> {}, as |-> "same", list |-> FALSE, values |-> values,
   good |-> good, start |-> start]

Fixed(n, name) ==
  Case(n, name, 2, Identities \cup {"short"}, Identities, Identities, "ok", "zero")
OptFixed(n, name) ==
  Case(n, name, 2, Identities \cup {"short"}, Identities,
       Identities \cup {Unset}, "ok", Unset)
Text(n, name) == Case(n, name, 2, Texts, Texts, Texts, "ok", "empty")
OptText(n, name) == Case(n, name, 2, Texts, Texts, Texts \cup {Unset}, "ok", Unset)
Payload(n, name) == Case(n, name, 2, Payloads, Payloads, Payloads, "ok", "empty")
Uint64(n, name) == Case(n, name, 0, Numbers, Numbers, Numbers, 1, 0)
OptUint64(n, name) ==
  Case(n, name, 0, Numbers, Numbers, Numbers \cup {Absent}, 1, Absent)
Uint32(n, name) == Case(n, name, 0, Numbers, Narrow, Narrow, 1, 0)
Cut32(n, name) ==
  [Case(n, name, 0, Numbers, Numbers, Narrow, 1, 0) EXCEPT !.as = "cut"]
Flag(n, name) ==
  [Case(n, name, 0, Numbers, Numbers, BOOLEAN, TRUE, FALSE) EXCEPT !.as = "flag"]
Signed32(n, name) ==
  [Case(n, name, 0, Numbers, Narrow, {-1, 0, 1, Absent}, 1, Absent)
     EXCEPT !.as = "zigzag"]
TextList(n, name) ==
  [Case(n, name, 2, {"ok", "other", "bad", "short"}, {"ok", "other", "bad"},
        {<<>>, <<"ok">>, <<"ok", "other">>, <<"other", "ok">>, <<"bad">>},
        <<"ok">>, <<>>) EXCEPT !.list = TRUE]
UintList(n, name) ==
  [Case(n, name, 0, Numbers, Numbers, {<<>>, <<0>>, <<0, 1>>, <<1, 1>>},
        <<0>>, <<>>) EXCEPT !.list = TRUE]

(* The encoder's and the parser's halves of zigzag. *)
zigzag_encode(v) == IF v >= 0 THEN 2 * v ELSE -2 * v - 1
zigzag_decode(v) == IF v % 2 = 0 THEN v \div 2 ELSE -((v + 1) \div 2)

Convert(f, v) ==
  IF f.as = "cut" THEN v % Word
  ELSE IF f.as = "flag" THEN v # 0
  ELSE IF f.as = "zigzag" THEN zigzag_decode(v)
  ELSE v

(***************************************************************************)
(* How a loop treats a number it has no case for, a case's number with     *)
(* another wire type, and an occurrence of a case that is already set.     *)
(***************************************************************************)
Lenient == [unknown |-> TRUE, mistyped |-> TRUE, repeats |-> TRUE]
Checked == [unknown |-> TRUE, mistyped |-> FALSE, repeats |-> TRUE]
Strict == [unknown |-> FALSE, mistyped |-> FALSE, repeats |-> FALSE]

(* The positions a case of the switch matches, and those that set it. *)
Seen(f, w) == {i \in DOMAIN w : Number(w[i]) = f.n /\ Wire(w[i]) = f.wire}
Kept(f, w) == {i \in Seen(f, w) : Value(w[i]) \notin f.blank}

Items(f, w) ==
  LET mine == SelectSeq(w, LAMBDA o : Number(o) = f.n /\ Wire(o) = f.wire)
  IN [i \in DOMAIN mine |-> Convert(f, Value(mine[i]))]

Last(f, w) == CHOOSE i \in Kept(f, w) : \A j \in Kept(f, w) : j <= i

Read(f, w) ==
  IF f.list THEN Items(f, w)
  ELSE IF Kept(f, w) = {} THEN f.start
  ELSE Convert(f, Value(w[Last(f, w)]))

(***************************************************************************)
(* s is [style, cases, needs, whole]: needs are the names whose absence is *)
(* an error, whole says that the body as a whole may not exceed the limit  *)
(* of its payload field (so a body with a full payload is refused).  Lists *)
(* of texts and of nested messages are bounded, lists of numbers are not.  *)
(***************************************************************************)
Reads(s, w) ==
  /\ \A i \in DOMAIN w : \/ s.style.unknown
                         \/ \E k \in DOMAIN s.cases : s.cases[k].n = Number(w[i])
  /\ \A k \in DOMAIN s.cases : LET f == s.cases[k] IN
       /\ \A i \in DOMAIN w : Number(w[i]) = f.n =>
            s.style.mistyped \/ Wire(w[i]) = f.wire
       /\ s.style.repeats \/ f.list \/ \A i \in Kept(f, w), j \in Seen(f, w) : j <= i
       /\ \A i \in Seen(f, w) : Value(w[i]) \in f.takes \cup f.blank
       /\ f.list /\ f.wire = 2 => Cardinality(Seen(f, w)) <= MaxList
       /\ f.name \in s.needs => Kept(f, w) # {}
  /\ s.whole => \A i \in DOMAIN w : Wire(w[i]) = 2 => Value(w[i]) \notin {"full", "huge"}

Record(s, w) ==
  [x \in {s.cases[k].name : k \in DOMAIN s.cases} |->
     Read(s.cases[CHOOSE k \in DOMAIN s.cases : s.cases[k].name = x], w)]

Message(style, cases, needs) ==
  [style |-> style, cases |-> cases, needs |-> needs, whole |-> FALSE]

(* Every name of a message's cases. *)
Names(cases) == {cases[k].name : k \in DOMAIN cases}

(* The record the cases' good values make. *)
Sample(s) ==
  [x \in Names(s.cases) |->
     s.cases[CHOOSE k \in DOMAIN s.cases : s.cases[k].name = x].good]
=============================================================================
