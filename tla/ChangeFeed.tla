----------------------------- MODULE ChangeFeed -----------------------------
(***************************************************************************)
(* What change tracking promises, without a bitmap, a cursor or a hook: a  *)
(* set of items that have values, a listener for each, and the items whose *)
(* listener is owed a call.  Items may be updated at any time, also while  *)
(* a listener runs.  A listener is told the value of that moment, so       *)
(* updates may be merged and one that is undone may be told of in vain,    *)
(* but no difference between a value and what its listener knows is ever   *)
(* left without a call to come.                                            *)
(***************************************************************************)
CONSTANTS Items, Values

VARIABLES val, told, owed

vars == <<val, told, owed>>

Init ==
  /\ val \in [Items -> Values]
  /\ told = val
  /\ owed = {}

Update(i, v) ==
  /\ val'  = [val EXCEPT ![i] = v]
  /\ owed' = owed \cup {i}
  /\ UNCHANGED told

Tell(i) ==
  /\ i \in owed
  /\ told' = [told EXCEPT ![i] = val[i]]
  /\ owed' = owed \ {i}
  /\ UNCHANGED val

Next == \E i \in Items : Tell(i) \/ \E v \in Values : Update(i, v)

Spec     == Init /\ [][Next]_vars
FairSpec == Spec /\ \A i \in Items : WF_vars(Tell(i))

(* The promise itself: nothing differs unnoticed.                          *)
NothingMissed == \A i \in Items : val[i] # told[i] => i \in owed
=============================================================================
