---------------------------- MODULE MCRegModbus -----------------------------
(***************************************************************************)
(* RegModbus with words of four values, eight word addresses and a table   *)
(* of four entries, for TLC.                                               *)
(***************************************************************************)
EXTENDS RegModbus, TLC

Row(type, perm, min, max, hooks) ==
  [type |-> type, perm |-> perm, min |-> min, max |-> max,
   onWrite |-> "w" \in hooks, onRead |-> "r" \in hooks, onChange |-> FALSE]

(* A setpoint in -1 .. 1, a two-word counter the program owns, a two-word  *)
(* setpoint, a guarded switch at the top of the address space.             *)
MCTable == 0 :> Row("I16", "RW", 15, 1, {})
        @@ 1 :> Row("U32", "RO", 0, 0, {"r"})
        @@ 2 :> Row("I32", "RW", 0, 0, {})
        @@ 3 :> Row("BOOL", "RW", 0, 0, {"w"})
MCAddr  == 0 :> 4 @@ 1 :> 1 @@ 2 :> 5 @@ 3 :> 7

Pdu(fc, whole, start, qty, data) ==
  [fc |-> fc, whole |-> whole, start |-> start, qty |-> qty, data |-> data]

Reads   == {Pdu("read", TRUE, s, q, <<>>) : s \in 0 .. 7, q \in {0, 1, 2, 3, 5}}
Singles == {Pdu("write1", TRUE, s, 1, <<d>>) : s \in 0 .. 7, d \in {1, 2, 3}}
Writes  == {Pdu("write", TRUE, s, q, SubSeq(<<d, 1, 3>>, 1, q)) :
              s \in 4 .. 7, q \in 0 .. 3, d \in {1, 2, 3}}
Bad     == {Pdu(fc, FALSE, 4, 1, <<1>>) : fc \in {"read", "write1", "write"}}
             \cup {Pdu("other", TRUE, 4, 1, <<1>>),
                   Pdu("write", TRUE, 4, 4, <<1, 1, 1, 1>>)}
MCPDUs  == Reads \cup Singles \cup Writes \cup Bad

MCSamples == 0 :> {1} @@ 1 :> {9} @@ 2 :> {5} @@ 3 :> {1}
MCBoot  == {[i \in 0 .. 3 |-> 0]}
=============================================================================
