--------------------------- MODULE RegCore_proofs ---------------------------
(***************************************************************************)
(* The table at run time keeps its promises for every table, every width   *)
(* and any number of requests between passes.                              *)
(***************************************************************************)
EXTENDS RegCore, Rules_proofs, SequenceTheorems

(***************************************************************************)
(* The strengthening.  A pending reg_set_raw has been through the checks:  *)
(* without it the store after the on_write hook could put anything into    *)
(* the variable, and the comparison of old and new raw, which decides      *)
(* about the mark, would not be one of the value stored.  And between two  *)
(* hooks reg_poll has the context to itself: nobody is half-way through an *)
(* assignment or a write when it clears a bit.                             *)
(***************************************************************************)
OneContext == pos # Loop /\ ~hook => unmarked = {} /\ calls = <<>>

Checked(c) ==
  \E raw \in Raw : /\ CheckRaw(Table[c.entry], raw) = "OK"
                   /\ c.raw = Canonical(Table[c.entry].type, raw)

CallAccepted == \A k \in DOMAIN calls : Checked(calls[k])

IInv == TypeOK /\ OneContext /\ CallAccepted /\ NoLostChange /\ WireValuesAllowed

-----------------------------------------------------------------------------
(* What the assumption says of an index: a register's type and its contract.*)
LEMMA TableFacts ==
  ASSUME NEW i \in Index
  PROVE  Table[i] \in Entry /\ Sane(Table[i]) /\ Table[i].type \in Types
BY TableAssumption DEF Index, Entry

(* The entries are numbered 0 .. N-1; N is no entry, and neither is Loop.  *)
LEMMA IndexFacts == N \in Nat /\ N \notin Index /\ Loop \notin Index /\ Index \subseteq Int
BY TableAssumption DEF Index, Loop

(* The set of the calls that can be waiting for their hooks.               *)
Call == [entry : Index, raw : Raw]

(* The call whose hook is running was checked, like those around it, and   *)
(* its return leaves them.                                                 *)
LEMMA CallReturns ==
  ASSUME TypeOK, CallAccepted, calls # <<>>
  PROVE  /\ Head(calls).entry \in Index /\ Checked(Head(calls))
         /\ Tail(calls) \in Seq(Call)
         /\ \A k \in DOMAIN Tail(calls) : Checked(Tail(calls)[k])
<1>1. calls \in Seq(Call)
  BY DEF TypeOK, Call
<1>2. Head(calls) \in Call /\ Tail(calls) \in Seq(Call) /\ Head(calls) = calls[1]
  BY <1>1, HeadTailProperties
<1>3. 1 \in DOMAIN calls
  BY <1>1, EmptySeq, LenProperties
<1>4. \A k \in DOMAIN Tail(calls) : k + 1 \in DOMAIN calls /\ Tail(calls)[k] = calls[k + 1]
  <2> SUFFICES ASSUME NEW k \in DOMAIN Tail(calls)
               PROVE  k + 1 \in DOMAIN calls /\ Tail(calls)[k] = calls[k + 1]
    OBVIOUS
  <2>1. Len(Tail(calls)) = Len(calls) - 1
    BY <1>1, HeadTailProperties
  <2>2. DOMAIN calls = 1 .. Len(calls) /\ DOMAIN Tail(calls) = 1 .. Len(Tail(calls)) /\ Len(calls) \in Nat
    BY <1>1, <1>2, LenProperties
  <2>3. k \in 1 .. Len(Tail(calls))
    BY <2>2
  <2> QED BY <1>1, <2>1, <2>2, <2>3, HeadTailProperties
<1> QED BY <1>2, <1>3, <1>4 DEF Call, CallAccepted, Checked

(* A call that has been checked joins those that have.                     *)
LEMMA CallBegins ==
  ASSUME TypeOK, CallAccepted, NEW c \in Call, Checked(c), calls' = <<c>> \o calls
  PROVE  calls' \in Seq(Call) /\ CallAccepted'
<1>1. calls \in Seq(Call) /\ <<c>> \in Seq(Call) /\ Len(<<c>>) = 1 /\ <<c>>[1] = c
  BY DEF TypeOK, Call
<1>2. calls' \in Seq(Call) /\ Len(calls') = Len(calls) + 1
  BY <1>1, ConcatProperties
<1>3. DOMAIN calls = 1 .. Len(calls) /\ DOMAIN calls' = 1 .. Len(calls') /\ Len(calls) \in Nat
  BY <1>1, <1>2, LenProperties
<1>4. ASSUME NEW k \in DOMAIN calls' PROVE Checked(calls'[k])
  <2>1. k \in 1 .. (Len(calls) + 1)
    BY <1>2, <1>3, <1>4
  <2>2. calls'[k] = IF k <= 1 THEN c ELSE calls[k - 1]
    BY <1>1, <2>1, ConcatProperties
  <2>3. CASE k = 1
    BY <2>2, <2>3
  <2>4. CASE k # 1
    <3>1. k - 1 \in DOMAIN calls
      BY <1>3, <2>1, <2>4
    <3>2. calls'[k] = calls[k - 1]
      BY <2>1, <2>2, <2>4
    <3> QED BY <3>1, <3>2 DEF CallAccepted
  <2> QED BY <2>3, <2>4
<1>5. CallAccepted'
  BY <1>4 DEF CallAccepted, Checked
<1> QED BY <1>2, <1>5

(* The bits there are: those of entries, as many as the bitmap has.        *)
Bits == {i \in Index : i < MaxEntries}

(* reg_mark_dirty sets at most one bit, that of an entry of the table, and *)
(* none of a table that was refused.                                       *)
LEMMA MarkFacts ==
  ASSUME NEW bits \in SUBSET Bits, NEW i \in Index \cup {N}
  PROVE  /\ MarkDirty(bits, i) \subseteq Bits
         /\ bits \subseteq MarkDirty(bits, i)
         /\ Bound /\ i \in Index => MarkDirty(bits, i) = bits \cup {i}
         /\ ~Bound \/ i = N => MarkDirty(bits, i) = bits
BY TableAssumption DEF MarkDirty, Index, Bits, Bound

(* What TypeOK says of the bitmap.                                         *)
LEMMA BitsFacts == TypeOK => dirty \subseteq Bits
BY DEF TypeOK, Bits

(* What load_raw returns is a raw word.                                    *)
LEMMA ValInRaw ==
  ASSUME TypeOK, NEW i \in Index
  PROVE  Val(i) \in Raw
BY TableFacts, LoadRawInRaw DEF TypeOK, Val

(* An assignment by application code leaves a value of the C type.         *)
LEMMA CellUpdate ==
  ASSUME TypeOK, NEW i \in Index, NEW c \in CellOf(Table[i].type)
  PROVE  LET new == [cell EXCEPT ![i] = c] IN
         /\ new \in [Index -> Int]
         /\ \A j \in Index : new[j] \in CellOf(Table[j].type)
<1>1. c \in Int
  BY TableFacts, HalfBounds, WidthAssumption DEF CellOf
<1> QED BY <1>1 DEF TypeOK

(***************************************************************************)
(* The three statements that end reg_set_raw, on a value that passed the   *)
(* checks: the value is the one stored, and a difference to what the hook  *)
(* last saw is on record afterwards.                                       *)
(***************************************************************************)
LEMMA CommitKeeps ==
  ASSUME TypeOK, NoLostChange, WireValuesAllowed,
         NEW i \in Index, NEW raw \in Raw, CheckRaw(Table[i], raw) = "OK",
         Commit(i, Canonical(Table[i].type, raw)),
         UNCHANGED <<unmarked, seen>>
  PROVE  /\ cell' \in [Index -> Int] /\ \A j \in Index : cell'[j] \in CellOf(Table[j].type)
         /\ dirty' \subseteq Bits
         /\ writer' \in [Index -> {"wire", "app"}]
         /\ NoLostChange' /\ WireValuesAllowed'
<1> DEFINE new == Canonical(Table[i].type, raw)
<1>1. new \in Raw
  BY TableFacts, AcceptedFits, EntryIsRow
<1>2. StoreRaw(Table[i].type, new) \in CellOf(Table[i].type)
  BY <1>1, TableFacts, StoreRawInCell
<1>3. cell' \in [Index -> Int] /\ \A j \in Index : cell'[j] \in CellOf(Table[j].type)
  BY <1>2, CellUpdate DEF Commit
<1>4. dirty' \subseteq Bits /\ dirty \subseteq dirty' /\ (Bound /\ Val(i) # new => i \in dirty')
  BY BitsFacts, MarkFacts DEF Commit
<1>5. writer' \in [Index -> {"wire", "app"}]
  BY DEF Commit, TypeOK
<1>6. cell'[i] = StoreRaw(Table[i].type, new) /\ \A j \in Index \ {i} : cell'[j] = cell[j]
  BY DEF Commit, TypeOK
<1>7. Val(i)' = new
  BY <1>6, TableFacts, StoredIsLoadedBack, EntryIsRow DEF Val
<1>8. \A j \in Index \ {i} : Val(j)' = Val(j)
  BY <1>6 DEF Val
<1>9. NoLostChange'
  <2> SUFFICES ASSUME NEW j \in Tracked, Val(j)' # seen'[j]
               PROVE  j \in dirty' \cup unmarked'
    BY DEF NoLostChange, Tracked
  <2>1. j \in Index /\ Bound /\ (Val(j) # seen[j] => j \in dirty \cup unmarked)
    BY DEF NoLostChange, Tracked
  <2>2. CASE j # i
    BY <2>1, <2>2, <1>8, <1>4
  <2>3. CASE j = i
    BY <2>1, <2>3, <1>7, <1>4
  <2> QED BY <2>2, <2>3
<1>10. WireValuesAllowed'
  <2> SUFFICES ASSUME NEW j \in Index, writer'[j] = "wire"
               PROVE  Allowed(Table[j], Val(j)')
    BY DEF WireValuesAllowed
  <2>1. CASE j # i
    BY <2>1, <1>8 DEF Commit, TypeOK, WireValuesAllowed
  <2>2. CASE j = i
    BY <2>2, <1>7, TableFacts, AcceptedIsAllowed, EntryIsRow
  <2> QED BY <2>1, <2>2
<1> QED BY <1>3, <1>4, <1>5, <1>9, <1>10

-----------------------------------------------------------------------------
(* reg_table_init establishes the inductive invariant.                     *)
LEMMA InitEstablishes == Init => IInv
<1> SUFFICES ASSUME Init PROVE IInv
  OBVIOUS
<1>1. cell \in [Index -> Int]
  <2>1. \A type \in Types : CellOf(type) \subseteq Int
    BY HalfBounds, WidthAssumption DEF CellOf
  <2> QED BY <2>1 DEF Init
<1>2. \A i \in Index : cell[i] \in CellOf(Table[i].type)
  BY DEF Init
<1>3. \A i \in Index : Val(i) \in Raw
  BY <1>2, TableFacts, LoadRawInRaw DEF Val
<1>4. seen \in [Index -> Raw] /\ \A i \in Index : seen[i] = Val(i)
  BY <1>3 DEF Init
<1>5. TypeOK
  <2>1. pos \in Loop .. N /\ ops \in 0 .. MaxOps
    BY TableAssumption DEF Init, Loop
  <2>2. calls \in Seq([entry : Index, raw : Raw]) /\ hook = FALSE
    BY DEF Init
  <2>3. writer \in [Index -> {"wire", "app"}] /\ dirty = {} /\ unmarked = {}
    BY DEF Init
  <2> QED BY <1>1, <1>2, <1>4, <2>1, <2>2, <2>3 DEF TypeOK
<1>6. CallAccepted
  BY DEF Init, CallAccepted, Checked
<1>7. NoLostChange
  BY <1>4 DEF NoLostChange, Tracked
<1>8. WireValuesAllowed
  BY DEF Init, WireValuesAllowed
<1>9. OneContext
  BY DEF Init, OneContext
<1> QED BY <1>5, <1>6, <1>7, <1>8, <1>9 DEF IInv

(* A step that moves no value, clears no bit, forgets no pending mark and  *)
(* lets no hook see anything leaves both contracts as they are.            *)
LEMMA QuietStep ==
  ASSUME NoLostChange, WireValuesAllowed, UNCHANGED <<cell, seen, writer>>,
         Bound => dirty \cup unmarked \subseteq dirty' \cup unmarked'
  PROVE  NoLostChange' /\ WireValuesAllowed'
BY DEF NoLostChange, WireValuesAllowed, Val, Tracked

(* An assignment by the application to entry i, of which the mark is noted. *)
LEMMA AssignStep ==
  ASSUME TypeOK, NoLostChange, WireValuesAllowed, NEW i \in Index,
         NEW c \in CellOf(Table[i].type),
         cell' = [cell EXCEPT ![i] = c], writer' = [writer EXCEPT ![i] = "app"],
         UNCHANGED seen, dirty \cup unmarked \subseteq dirty' \cup unmarked',
         i \in Tracked => i \in dirty' \cup unmarked'
  PROVE  NoLostChange' /\ WireValuesAllowed'
<1>1. \A j \in Index \ {i} : Val(j)' = Val(j)
  BY DEF Val, TypeOK
<1>2. NoLostChange'
  BY <1>1 DEF NoLostChange, Tracked
<1>3. WireValuesAllowed'
  BY <1>1 DEF WireValuesAllowed, TypeOK
<1> QED BY <1>2, <1>3

(* No step breaks in on a pass.                                            *)
LEMMA ContextStep == TypeOK /\ OneContext /\ [Next]_vars => OneContext'
<1> SUFFICES ASSUME TypeOK, OneContext, [Next]_vars PROVE OneContext'
  OBVIOUS
<1> USE DEF OneContext
<1>1. CASE Adapter
  <2>1. (pos = Loop \/ hook) /\ UNCHANGED <<pos, hook>>
    BY <1>1 DEF Adapter, SetRefused, SetDirect, SetBegin, GetRaw, MayServe
  <2> QED BY <2>1
<1>2. CASE OnWriteReturn
  BY <1>2 DEF OnWriteReturn, SetVetoed, SetEnd
<1>3. CASE Application
  BY <1>3 DEF Application, AppAssign, AppMark, AppTouch, MayServe
<1>4. CASE Poll
  BY <1>4, IndexFacts DEF Poll, PollStart, PollSkip, PollVisit, HookReturn, PollEnd, Scanning
<1>5. CASE UNCHANGED vars
  BY <1>5 DEF vars
<1> QED BY <1>1, <1>2, <1>3, <1>4, <1>5 DEF Next

(* Every step of the core keeps the inductive invariant.                   *)
LEMMA StepKeeps == IInv /\ [Next]_vars => IInv'
<1> SUFFICES ASSUME IInv, [Next]_vars PROVE IInv'
  OBVIOUS
<1> USE DEF IInv
<1>0. OneContext'
  BY ContextStep
<1> DEFINE CellOK == cell' \in [Index -> Int] /\ \A j \in Index : cell'[j] \in CellOf(Table[j].type)
<1>1. ASSUME NEW i \in Index, NEW raw \in Commands, SetRefused(i, raw) PROVE IInv'
  <2>1. ops' \in 0 .. MaxOps
    BY <1>1, TableAssumption DEF SetRefused, MayServe, TypeOK
  <2>2. TypeOK' /\ CallAccepted'
    BY <1>1, <2>1 DEF SetRefused, TypeOK, CallAccepted, Checked
  <2> QED BY <1>0, <1>1, <2>2, QuietStep DEF SetRefused
<1>2. ASSUME NEW i \in Index, NEW raw \in Commands, SetDirect(i, raw) PROVE IInv'
  <2>1. raw \in Raw /\ CheckRaw(Table[i], raw) = "OK" /\ UNCHANGED <<unmarked, seen>>
        /\ Commit(i, Canonical(Table[i].type, raw))
    BY <1>2, TableAssumption DEF SetDirect
  <2>2. /\ CellOK /\ dirty' \subseteq Bits /\ writer' \in [Index -> {"wire", "app"}]
        /\ NoLostChange' /\ WireValuesAllowed'
    BY <2>1, CommitKeeps
  <2>3. ops' \in 0 .. MaxOps
    BY <1>2, TableAssumption DEF SetDirect, MayServe, TypeOK
  <2>4. TypeOK' /\ CallAccepted'
    BY <1>2, <2>2, <2>3 DEF SetDirect, TypeOK, CallAccepted, Checked, Bits
  <2> QED BY <1>0, <2>2, <2>4
<1>3. ASSUME NEW i \in Index, NEW raw \in Commands, SetBegin(i, raw) PROVE IInv'
  <2>1. raw \in Raw /\ CheckRaw(Table[i], raw) = "OK"
        /\ calls' = <<[entry |-> i, raw |-> Canonical(Table[i].type, raw)]>> \o calls
    BY <1>3, TableAssumption DEF SetBegin
  <2>2. Canonical(Table[i].type, raw) \in Raw
    BY <2>1, TableFacts, AcceptedFits, EntryIsRow
  <2>3. ops' \in 0 .. MaxOps
    BY <1>3, TableAssumption DEF SetBegin, MayServe, TypeOK
  <2> DEFINE c == [entry |-> i, raw |-> Canonical(Table[i].type, raw)]
  <2>4. c \in Call /\ Checked(c)
    BY <2>1, <2>2 DEF Call, Checked
  <2>5. calls' \in Seq(Call) /\ CallAccepted'
    BY <2>1, <2>4, CallBegins
  <2>6. TypeOK'
    BY <1>3, <2>3, <2>5 DEF SetBegin, TypeOK, Call
  <2> QED BY <1>0, <1>3, <2>5, <2>6, QuietStep DEF SetBegin
<1>4. CASE SetVetoed
  <2>1. TypeOK' /\ CallAccepted'
    BY <1>4, CallReturns DEF SetVetoed, TypeOK, CallAccepted, Call, Checked
  <2> QED BY <1>0, <1>4, <2>1, QuietStep DEF SetVetoed
<1>5. CASE SetEnd
  <2> DEFINE c == Head(calls)
  <2>1. c.entry \in Index /\ Checked(c)
    BY <1>5, CallReturns DEF SetEnd
  <2>2. PICK raw \in Raw : /\ CheckRaw(Table[c.entry], raw) = "OK"
                           /\ c.raw = Canonical(Table[c.entry].type, raw)
    BY <2>1 DEF Checked
  <2>3. Commit(c.entry, Canonical(Table[c.entry].type, raw)) /\ UNCHANGED <<unmarked, seen>>
    BY <1>5, <2>2 DEF SetEnd
  <2>4. /\ CellOK /\ dirty' \subseteq Bits /\ writer' \in [Index -> {"wire", "app"}]
        /\ NoLostChange' /\ WireValuesAllowed'
    BY <2>1, <2>2, <2>3, CommitKeeps
  <2>5. TypeOK' /\ CallAccepted'
    BY <1>5, <2>4, CallReturns DEF SetEnd, TypeOK, CallAccepted, Call, Checked, Bits
  <2> QED BY <1>0, <2>4, <2>5
<1>6. ASSUME NEW i \in Index, GetRaw(i) PROVE IInv'
  <2>1. PICK c \in CellOf(Table[i].type) : cell' = [cell EXCEPT ![i] = c]
    BY <1>6 DEF GetRaw
  <2>2. CellOK
    BY <2>1, CellUpdate
  <2>3. ops' \in 0 .. MaxOps
    BY <1>6, TableAssumption DEF GetRaw, MayServe, TypeOK
  <2>4. TypeOK' /\ CallAccepted'
    BY <1>6, <2>2, <2>3 DEF GetRaw, TypeOK, CallAccepted, Checked
  <2>5. i \notin Tracked
    BY <1>6 DEF GetRaw, Tracked
  <2> QED BY <1>0, <1>6, <2>1, <2>4, <2>5, AssignStep DEF GetRaw
<1>7. ASSUME NEW i \in Index, AppAssign(i) PROVE IInv'
  <2>1. PICK c \in CellOf(Table[i].type) : cell' = [cell EXCEPT ![i] = c]
    BY <1>7 DEF AppAssign
  <2>2. CellOK
    BY <2>1, CellUpdate
  <2>3. ops' \in 0 .. MaxOps
    BY <1>7, TableAssumption DEF AppAssign, MayServe, TypeOK
  <2>4. TypeOK' /\ CallAccepted'
    BY <1>7, <2>2, <2>3 DEF AppAssign, TypeOK, CallAccepted, Checked
  <2> QED BY <1>0, <1>7, <2>1, <2>4, AssignStep DEF AppAssign
<1>8. ASSUME NEW i \in Index, AppMark(i) PROVE IInv'
  <2>1. dirty' \subseteq Bits /\ (Bound => dirty' = dirty \cup {i})
    BY <1>8, BitsFacts, MarkFacts DEF AppMark
  <2>2. TypeOK' /\ CallAccepted'
    BY <1>8, <2>1 DEF AppMark, TypeOK, CallAccepted, Checked, Bits
  <2> QED BY <1>0, <1>8, <2>1, <2>2, QuietStep DEF AppMark
<1>9. ASSUME NEW i \in Index \cup {N}, AppTouch(i) PROVE IInv'
  <2>1. dirty' \subseteq Bits /\ dirty \subseteq dirty'
    BY <1>9, BitsFacts, MarkFacts DEF AppTouch
  <2>2. ops' \in 0 .. MaxOps
    BY <1>9, TableAssumption DEF AppTouch, MayServe, TypeOK
  <2>3. TypeOK' /\ CallAccepted'
    BY <1>9, <2>1, <2>2 DEF AppTouch, TypeOK, CallAccepted, Checked, Bits
  <2> QED BY <1>0, <1>9, <2>1, <2>3, QuietStep DEF AppTouch
<1>10. CASE PollStart
  <2>1. pos' \in Loop .. N /\ ops' \in 0 .. MaxOps /\ ~hook
    BY <1>10, TableAssumption, IndexFacts DEF PollStart, TypeOK, Loop
  <2>2. TypeOK' /\ CallAccepted'
    BY <1>10, <2>1 DEF PollStart, TypeOK, CallAccepted, Checked
  <2> QED BY <1>0, <1>10, <2>2, QuietStep DEF PollStart
<1>11. CASE PollSkip
  <2>1. pos' \in Loop .. N
    BY <1>11, TableAssumption DEF PollSkip, Scanning, Index, Loop
  <2>2. TypeOK' /\ CallAccepted'
    BY <1>11, <2>1 DEF PollSkip, Scanning, TypeOK, CallAccepted, Checked
  <2> QED BY <1>0, <1>11, <2>2, QuietStep DEF PollSkip
<1>12. CASE PollVisit
  <2>1. pos \in Index /\ ~hook /\ dirty' = dirty \ {pos} /\ UNCHANGED <<cell, unmarked, calls, writer>>
    BY <1>12 DEF PollVisit, Scanning
  <2>2. Val(pos) \in Raw
    BY <2>1, ValInRaw
  <2>3. CallAccepted' /\ WireValuesAllowed'
    BY <2>1 DEF CallAccepted, Checked, WireValuesAllowed, Val
  <2>4. CASE Table[pos].onChange
    <3>1. hook' = TRUE /\ seen' = [seen EXCEPT ![pos] = Val(pos)] /\ ops' = 0 /\ pos' = pos
      BY <1>12, <2>4 DEF PollVisit
    <3>2. TypeOK'
      BY <2>1, <2>2, <3>1, TableAssumption DEF TypeOK
    <3>3. NoLostChange'
      BY <2>1, <3>1 DEF NoLostChange, Tracked, Val, TypeOK
    <3> QED BY <1>0, <2>3, <3>2, <3>3
  <2>5. CASE ~Table[pos].onChange
    <3>1. pos' = pos + 1 /\ UNCHANGED <<hook, seen, ops>>
      BY <1>12, <2>5 DEF PollVisit
    <3>2. pos' \in Loop .. N
      BY <2>1, <3>1, TableAssumption DEF Index, Loop
    <3>3. TypeOK'
      BY <2>1, <3>1, <3>2 DEF TypeOK
    <3>4. NoLostChange'
      BY <2>1, <2>5, <3>1 DEF NoLostChange, Tracked, Val
    <3> QED BY <1>0, <2>3, <3>3, <3>4
  <2> QED BY <1>0, <2>4, <2>5
<1>13. CASE HookReturn
  <2>1. pos' \in Loop .. N
    BY <1>13, TableAssumption DEF HookReturn, TypeOK, Index, Loop
  <2>2. TypeOK' /\ CallAccepted'
    BY <1>13, <2>1 DEF HookReturn, TypeOK, CallAccepted, Checked
  <2> QED BY <1>0, <1>13, <2>2, QuietStep DEF HookReturn
<1>14. CASE PollEnd
  <2>1. pos' \in Loop .. N /\ ops' \in 0 .. MaxOps /\ ~hook
    BY <1>14, TableAssumption, IndexFacts DEF PollEnd, TypeOK, Loop
  <2>2. TypeOK' /\ CallAccepted'
    BY <1>14, <2>1 DEF PollEnd, TypeOK, CallAccepted, Checked
  <2> QED BY <1>0, <1>14, <2>2, QuietStep DEF PollEnd
<1>15. CASE UNCHANGED vars
  <2>1. TypeOK' /\ CallAccepted'
    BY <1>15 DEF vars, TypeOK, CallAccepted, Checked
  <2> QED BY <1>0, <1>15, <2>1, QuietStep DEF vars
<1> QED
  BY <1>1, <1>2, <1>3, <1>4, <1>5, <1>6, <1>7, <1>8, <1>9, <1>10, <1>11, <1>12, <1>13, <1>14, <1>15
     DEF Next, Adapter, OnWriteReturn, Application, Poll

-----------------------------------------------------------------------------
(* The invariant, of which the promises below are parts.                   *)
THEOREM Invariance == Spec => []IInv
BY InitEstablishes, StepKeeps, PTL DEF Spec

(***************************************************************************)
(* Every variable keeps its C type, the bitmap has bits of entries only    *)
(* and the cursor stays inside the table.                                  *)
(***************************************************************************)
THEOREM TypeCorrect == Spec => []TypeOK
<1>1. IInv => TypeOK
  BY DEF IInv
<1> QED BY <1>1, Invariance, PTL

(***************************************************************************)
(* No change is lost: a variable that differs from what its hook last saw  *)
(* is marked or about to be, whatever the hooks do while a pass runs.      *)
(***************************************************************************)
THEOREM ChangesAreKept == Spec => []NoLostChange
<1>1. IInv => NoLostChange
  BY DEF IInv
<1> QED BY <1>1, Invariance, PTL

(***************************************************************************)
(* No adapter gets a value past the checks of reg_set_raw, on_write hook   *)
(* or not: what stands in a variable because of a write is allowed there.  *)
(***************************************************************************)
THEOREM WireIsChecked == Spec => []WireValuesAllowed
<1>1. IInv => WireValuesAllowed
  BY DEF IInv
<1> QED BY <1>1, Invariance, PTL

(***************************************************************************)
(* An on_write hook is asked only about values the entry can take, in      *)
(* their final form, and the value it allowed will be loaded back.         *)
(***************************************************************************)
THEOREM HooksAskedAboutAllowed == Spec => []HookAskedAboutAllowed
<1>1. ASSUME TypeOK, CallAccepted, NEW k \in DOMAIN calls
      PROVE  LET e == Table[calls[k].entry] IN
             /\ Allowed(e, calls[k].raw)
             /\ LoadRaw(e.type, StoreRaw(e.type, calls[k].raw)) = calls[k].raw
  <2> DEFINE c == calls[k]
  <2>1. PICK raw \in Raw : /\ CheckRaw(Table[c.entry], raw) = "OK"
                           /\ c.raw = Canonical(Table[c.entry].type, raw)
    BY <1>1 DEF CallAccepted, Checked
  <2>2. c \in Call
    BY <1>1, ElementOfSeq, LenProperties, ZenonT(60) DEF TypeOK, Call
  <2>3. Table[c.entry] \in Entry /\ Sane(Table[c.entry])
    BY <2>2, TableFacts DEF Call
  <2> HIDE DEF c
  <2>4. /\ Allowed(Table[c.entry], c.raw)
        /\ LoadRaw(Table[c.entry].type, StoreRaw(Table[c.entry].type, c.raw)) = c.raw
    BY <2>1, <2>3, AcceptedIsAllowed, EntryIsRow, StoredIsLoadedBack
  <2> QED BY <2>4 DEF c
<1>2. IInv => HookAskedAboutAllowed
  BY <1>1 DEF IInv, HookAskedAboutAllowed
<1> QED BY <1>2, Invariance, PTL
-----------------------------------------------------------------------------
(***************************************************************************)
(* The refinement.  What the feed sees of a state: the values of the       *)
(* tracked entries, what their hooks last saw, and which bits or marks are *)
(* outstanding.                                                            *)
(***************************************************************************)
Vals  == [i \in Tracked |-> Val(i)]
Told  == [i \in Tracked |-> seen[i]]
Owed  == Tracked \cap (dirty \cup unmarked)

(* A step that changes nothing of this is a stutter of the feed.           *)
LEMMA FeedStutters ==
  ASSUME UNCHANGED <<cell, seen>>, Owed' = Owed
  PROVE  UNCHANGED Feed!vars
<1>1. Vals' = Vals /\ Told' = Told
  BY DEF Vals, Told, Val
<1> QED BY <1>1 DEF Feed!vars, Vals, Told, Owed

(* A step that gives entry i a value and puts it on record is an update,   *)
(* and nothing the feed can see if the entry is not tracked.               *)
LEMMA FeedUpdates ==
  ASSUME TypeOK, TypeOK', NEW i \in Index,
         \A j \in Index \ {i} : cell'[j] = cell[j],
         UNCHANGED seen,
         dirty' \cup unmarked' = dirty \cup unmarked \cup {i}
  PROVE  Feed!Next \/ UNCHANGED Feed!vars
<1>1. Told' = Told
  BY DEF Told
<1>2. \A j \in Index \ {i} : Val(j)' = Val(j)
  BY DEF Val
<1>3. CASE i \in Tracked
  <2>1. Val(i)' \in Raw
    <3>1. cell'[i] \in CellOf(Table[i].type)
      BY DEF TypeOK
    <3> QED BY <3>1, TableFacts, LoadRawInRaw DEF Val
  <2>2. Vals' = [Vals EXCEPT ![i] = Val(i)']
    BY <1>2, <1>3 DEF Vals, Tracked
  <2>3. Owed' = Owed \cup {i}
    BY <1>3 DEF Owed
  <2>4. Feed!Update(i, Val(i)')
    BY <2>2, <2>3, <1>1 DEF Feed!Update, Vals, Told, Owed
  <2> QED BY <2>1, <2>4, <1>3 DEF Feed!Next
<1>4. CASE i \notin Tracked
  <2>1. Vals' = Vals
    BY <1>2, <1>4 DEF Vals, Tracked
  <2>2. Owed' = Owed
    BY <1>4 DEF Owed
  <2> QED BY <2>1, <2>2, <1>1 DEF Feed!vars, Vals, Told, Owed
<1> QED BY <1>3, <1>4

(* The end of reg_set_raw is an update if the value changes, and otherwise *)
(* nothing happened.                                                       *)
LEMMA FeedCommits ==
  ASSUME Bound, TypeOK, TypeOK', NEW i \in Index, NEW raw \in Raw, CheckRaw(Table[i], raw) = "OK",
         Commit(i, Canonical(Table[i].type, raw)), UNCHANGED <<unmarked, seen>>
  PROVE  Feed!Next \/ UNCHANGED Feed!vars
<1> DEFINE new == Canonical(Table[i].type, raw)
<1>1. cell'[i] = StoreRaw(Table[i].type, new) /\ \A j \in Index \ {i} : cell'[j] = cell[j]
  BY DEF Commit, TypeOK
<1>2. CASE Val(i) # new
  <2>1. dirty' = dirty \cup {i}
    BY <1>2, BitsFacts, MarkFacts DEF Commit
  <2> QED BY <2>1, <1>1, FeedUpdates
<1>3. CASE Val(i) = new
  <2>1. Val(i)' = Val(i)
    BY <1>1, <1>3, TableFacts, StoredIsLoadedBack, EntryIsRow DEF Val
  <2>2. \A j \in Index : Val(j)' = Val(j)
    BY <1>1, <2>1 DEF Val
  <2>3. Vals' = Vals /\ Told' = Told
    BY <2>2 DEF Vals, Told, Tracked
  <2>4. Owed' = Owed
    BY <1>3 DEF Commit, Owed
  <2> QED BY <2>3, <2>4 DEF Feed!vars, Vals, Told, Owed
<1> QED BY <1>2, <1>3

(* The feed of a table that was refused is empty, and always the same.     *)
LEMMA NoFeed ==
  ASSUME ~Bound
  PROVE  UNCHANGED Feed!vars
<1>1. Tracked = {}
  BY DEF Tracked
<1> QED BY <1>1 DEF Feed!vars

(* Every step of the core is a step or a stutter of the feed.              *)
LEMMA StepIsFeedStep ==
  IInv /\ IInv' /\ [Next]_vars => [Feed!Next]_(Feed!vars)
<1> SUFFICES ASSUME Bound, IInv, IInv', [Next]_vars
             PROVE  Feed!Next \/ UNCHANGED Feed!vars
  BY NoFeed
<1> USE DEF IInv
<1>1. ASSUME NEW i \in Index, NEW raw \in Commands, SetDirect(i, raw)
      PROVE  Feed!Next \/ UNCHANGED Feed!vars
  <2>1. raw \in Raw /\ CheckRaw(Table[i], raw) = "OK" /\ UNCHANGED <<unmarked, seen>>
        /\ Commit(i, Canonical(Table[i].type, raw))
    BY <1>1, TableAssumption DEF SetDirect
  <2> QED BY <2>1, FeedCommits
<1>2. CASE SetEnd
  <2> DEFINE c == Head(calls)
  <2>1. c.entry \in Index /\ Checked(c)
    BY <1>2, CallReturns DEF SetEnd
  <2>2. PICK raw \in Raw : /\ CheckRaw(Table[c.entry], raw) = "OK"
                           /\ c.raw = Canonical(Table[c.entry].type, raw)
    BY <2>1 DEF Checked
  <2>3. Commit(c.entry, Canonical(Table[c.entry].type, raw)) /\ UNCHANGED <<unmarked, seen>>
    BY <1>2, <2>2 DEF SetEnd
  <2> QED BY <2>1, <2>2, <2>3, FeedCommits
<1>3. ASSUME NEW i \in Index, GetRaw(i)
      PROVE  Feed!Next \/ UNCHANGED Feed!vars
  <2>1. i \notin Tracked /\ UNCHANGED <<dirty, unmarked, seen>>
    BY <1>3 DEF GetRaw, Tracked
  <2>2. \A j \in Index \ {i} : cell'[j] = cell[j]
    BY <1>3 DEF GetRaw, TypeOK
  <2>3. Vals' = Vals /\ Told' = Told /\ Owed' = Owed
    BY <2>1, <2>2 DEF Vals, Told, Owed, Val, Tracked
  <2> QED BY <2>3 DEF Feed!vars, Vals, Told, Owed
<1>4. ASSUME NEW i \in Index, AppAssign(i)
      PROVE  Feed!Next \/ UNCHANGED Feed!vars
  <2>1. \A j \in Index \ {i} : cell'[j] = cell[j]
    BY <1>4 DEF AppAssign, TypeOK
  <2>2. dirty' \cup unmarked' = dirty \cup unmarked \cup {i} /\ UNCHANGED seen
    BY <1>4 DEF AppAssign
  <2> QED BY <2>1, <2>2, FeedUpdates
<1>5. ASSUME NEW i \in Index, AppMark(i)
      PROVE  Feed!Next \/ UNCHANGED Feed!vars
  <2>1. dirty' = dirty \cup {i}
    BY <1>5, BitsFacts, MarkFacts DEF AppMark
  <2>2. Owed' = Owed
    BY <1>5, <2>1 DEF AppMark, Owed
  <2> QED BY <1>5, <2>2, FeedStutters DEF AppMark
<1>6. ASSUME NEW i \in Index \cup {N}, AppTouch(i)
      PROVE  Feed!Next \/ UNCHANGED Feed!vars
  <2>1. UNCHANGED <<cell, seen, unmarked>> /\ dirty' = MarkDirty(dirty, i)
    BY <1>6 DEF AppTouch
  <2>2. CASE i \in Index
    <3>1. dirty' = dirty \cup {i}
      BY <2>1, <2>2, BitsFacts, MarkFacts
    <3> QED BY <2>1, <2>2, <3>1, FeedUpdates
  <2>3. CASE i = N
    <3>1. dirty' = dirty
      BY <2>1, <2>3, TableAssumption DEF MarkDirty
    <3> QED BY <2>1, <3>1, FeedStutters DEF Owed
  <2> QED BY <2>2, <2>3
<1>7. CASE PollVisit
  <2>1. pos \in Index /\ pos \in dirty /\ dirty' = dirty \ {pos} /\ UNCHANGED <<cell, unmarked>>
    BY <1>7 DEF PollVisit, Scanning
  <2>2. Vals' = Vals
    BY <2>1 DEF Vals, Val
  <2>3. CASE pos \in Tracked
    <3>1. seen' = [seen EXCEPT ![pos] = Val(pos)]
      BY <1>7, <2>3 DEF PollVisit, Tracked
    <3>2. Told' = [Told EXCEPT ![pos] = Vals[pos]]
      BY <2>3, <3>1 DEF Told, Vals, Tracked, TypeOK
    <3>3. unmarked = {}
      BY <1>7, <2>1, IndexFacts DEF OneContext, PollVisit, Scanning
    <3>4. Owed' = Owed \ {pos} /\ pos \in Owed
      BY <2>1, <2>3, <3>3 DEF Owed
    <3>5. PICK i \in Tracked : i = pos
      BY <2>3
    <3>6. Feed!Tell(i)
      BY <2>2, <3>2, <3>4, <3>5 DEF Feed!Tell, Vals, Told, Owed
    <3> QED BY <3>6 DEF Feed!Next
  <2>4. CASE pos \notin Tracked
    <3>1. Owed' = Owed
      BY <2>1, <2>4 DEF Owed
    <3>2. Told' = Told
      BY <1>7, <2>4 DEF PollVisit, Told, Tracked, TypeOK
    <3> QED BY <2>2, <3>1, <3>2 DEF Feed!vars, Vals, Told, Owed
  <2> QED BY <2>3, <2>4
<1>8. ASSUME UNCHANGED <<cell, seen, dirty, unmarked>>
      PROVE  UNCHANGED Feed!vars
  BY <1>8, FeedStutters DEF Owed
<1>9. ASSUME NEW i \in Index, NEW raw \in Commands, SetRefused(i, raw) \/ SetBegin(i, raw)
      PROVE  UNCHANGED Feed!vars
  BY <1>8, <1>9 DEF SetRefused, SetBegin
<1>10. CASE SetVetoed \/ PollStart \/ PollSkip \/ HookReturn \/ PollEnd \/ UNCHANGED vars
  BY <1>8, <1>10 DEF SetVetoed, PollStart, PollSkip, HookReturn, PollEnd, vars
<1> QED
  BY <1>1, <1>2, <1>3, <1>4, <1>5, <1>6, <1>7, <1>9, <1>10
     DEF Next, Adapter, OnWriteReturn, Application, Poll

(* reg_table_init is an initial state of the feed.                         *)
LEMMA InitIsFeedInit == Init => Feed!Init
<1> SUFFICES ASSUME Init PROVE Feed!Init
  OBVIOUS
<1>1. IInv
  BY InitEstablishes
<1>2. \A i \in Tracked : Val(i) \in Raw
  BY <1>1, ValInRaw DEF IInv, Tracked
<1>3. Told = Vals
  BY DEF Told, Vals, Init, Tracked
<1>4. Owed = {}
  BY DEF Owed, Init
<1> QED BY <1>2, <1>3, <1>4 DEF Feed!Init, Vals, Told, Owed

(***************************************************************************)
(* The table, its bitmap and its poll loop implement the change feed: every *)
(* behaviour of the core, hooks that write while a pass runs included, is  *)
(* one in which values change, are owed, and are told.                     *)
(***************************************************************************)
THEOREM CoreImplementsFeed == Spec => ImplementsFeed
<1> QED BY Invariance, InitIsFeedInit, StepIsFeedStep, PTL DEF Spec, ImplementsFeed, Feed!Spec
=============================================================================
