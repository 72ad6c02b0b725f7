--------------------------- MODULE RegRace_proofs ---------------------------
(***************************************************************************)
(* Both ways README, Concurrency, names to use a table beside an interrupt *)
(* are sound: for any number of entries, any values, and any number of     *)
(* commands and interrupts.                                                *)
(***************************************************************************)
EXTENDS RegRace, TLAPS

(***************************************************************************)
(* The strengthening.  Whoever is inside the table is alone there: with    *)
(* critical sections because the lock says whose turn it is, with an own   *)
(* variable because the interrupt never enters.  So what the loop or the   *)
(* interrupt has loaded, a value or the word of the bitmap, is still what  *)
(* memory holds when it is stored back, and a bit the loop found set stays *)
(* set until the loop itself clears it, and then clear until after the     *)
(* hook.                                                                   *)
(***************************************************************************)
Alone ==
  /\ pattern \in {"critical section", "own variable"}
  /\ pattern = "critical section" =>
       /\ pc # "idle" <=> irq = "loop"
       /\ ipc # "idle" <=> irq = "isr"
       /\ pc # "pick" /\ ipc # "flag"
  /\ pattern = "own variable" => irq = "free" /\ ipc \in {"idle", "flag"}

LoadedIsCurrent ==
  /\ pc \in {"load", "store"} => raw \in Values
  /\ pc \in {"mark store", "clear store"} => word = dirty
  /\ ipc = "mark store" => iword = dirty

BitFound ==
  /\ pc \in {"clear load", "clear store"} => at \in dirty
  /\ pc = "hook" => at \notin dirty

HistoryOK == seen \in [Index -> Values] /\ taken \in [Index -> Values]

IInv == TypeOK /\ HistoryOK /\ Alone /\ LoadedIsCurrent /\ BitFound
          /\ ReplacesWhatItCompared /\ NothingUnread

-----------------------------------------------------------------------------
(* The entries are numbered from 0, and the loop's cursor ends behind them. *)
LEMMA IndexFacts ==
  /\ 0 \in 0 .. N /\ \A i \in Index : i \in 0 .. N /\ i + 1 \in 0 .. N
  /\ \A k \in 0 .. N : k < N => k \in Index
BY RaceAssumption DEF Index

LEMMA InitEstablishes == Init => IInv
BY IndexFacts DEF Init, IInv, TypeOK, HistoryOK, Alone, LoadedIsCurrent, BitFound, ReplacesWhatItCompared, NothingUnread

LEMMA StepKeeps == IInv /\ [Next]_vars => IInv'
<1> SUFFICES ASSUME IInv, [Next]_vars PROVE IInv'
  OBVIOUS
<1> USE IndexFacts DEF IInv, TypeOK, HistoryOK, Alone, LoadedIsCurrent, BitFound, ReplacesWhatItCompared,
        NothingUnread, loop, isr, table, extra, bounds, Off, On, Return
<1>1. CASE SetLoad
  BY <1>1 DEF SetLoad
<1>2. CASE SetStore
  BY <1>2 DEF SetStore
<1>3. CASE MarkLoad
  BY <1>3 DEF MarkLoad
<1>4. CASE MarkStore
  BY <1>4 DEF MarkStore
<1>5. CASE PollTest
  BY <1>5 DEF PollTest
<1>6. CASE PollClearLoad
  BY <1>6 DEF PollClearLoad
<1>7. CASE PollClearStore
  BY <1>7 DEF PollClearStore
<1>8. CASE PollHook
  BY <1>8 DEF PollHook
<1>9. CASE PollEnd
  BY <1>9 DEF PollEnd
<1>10. CASE PickFetch
  <2>1. at \in Index /\ own[at] \in Values
    BY <1>10 DEF PickFetch
  <2>2. TypeOK'
    BY <2>1, <1>10 DEF PickFetch
  <2>3. NothingUnread'
    BY <2>1, <1>10 DEF PickFetch
  <2> QED BY <2>2, <2>3, <1>10 DEF PickFetch
<1>11. CASE IsrMarkLoad
  BY <1>11 DEF IsrMarkLoad
<1>12. CASE IsrMarkStore
  BY <1>12 DEF IsrMarkStore
<1>13. CASE IsrFlag
  BY <1>13 DEF IsrFlag
<1>14. CASE PollBegin
  BY <1>14 DEF PollBegin
<1>15. ASSUME NEW i \in Index, PickFlag(i) PROVE IInv'
  BY <1>15 DEF PickFlag
<1>16. ASSUME NEW i \in Index, NEW v \in Values, SetBegin(i, v) PROVE IInv'
  BY <1>16 DEF SetBegin
<1>17. ASSUME NEW i \in Index, NEW v \in Values, IsrAssign(i, v) PROVE IInv'
  BY <1>17 DEF IsrAssign
<1>18. ASSUME NEW i \in Index, NEW v \in Values, IsrOwn(i, v) PROVE IInv'
  BY <1>18 DEF IsrOwn
<1>19. CASE UNCHANGED vars
  BY <1>19, ZenonT(60) DEF vars
<1> QED
  BY <1>1, <1>2, <1>3, <1>4, <1>5, <1>6, <1>7, <1>8, <1>9, <1>10, <1>11, <1>12, <1>13, <1>14, <1>15, <1>16, <1>17, <1>18, <1>19 DEF Next, Call, IsrOn, Begin

(***************************************************************************)
(* The inductive invariant holds throughout.                               *)
(***************************************************************************)
THEOREM Invariance == Spec => []IInv
BY InitEstablishes, StepKeeps, PTL DEF Spec

(***************************************************************************)
(* The cursors of the loop and of the interrupt stay inside the table      *)
(* whenever they are used, and the bitmap has bits of entries only.        *)
(***************************************************************************)
THEOREM TypeCorrect == Spec => []TypeOK
<1>1. IInv => TypeOK
  BY DEF IInv
<1> QED BY <1>1, Invariance, PTL

(***************************************************************************)
(* reg_set_raw is atomic at the register level: no interrupt comes between *)
(* the load it compares with and the store that replaces it.               *)
(***************************************************************************)
THEOREM SetIsAtomic == Spec => []ReplacesWhatItCompared
<1>1. IInv => ReplacesWhatItCompared
  BY DEF IInv
<1> QED BY <1>1, Invariance, PTL

(***************************************************************************)
(* Flag first, variable second: the loop cannot miss what an interrupt     *)
(* left in its own variable, whenever it cuts in.                          *)
(***************************************************************************)
THEOREM InterruptIsHeard == Spec => []NothingUnread
<1>1. IInv => NothingUnread
  BY DEF IInv
<1> QED BY <1>1, Invariance, PTL

-----------------------------------------------------------------------------
(* Nobody's debt and no value changes: the feed stutters.                  *)
LEMMA FeedStutters ==
  ASSUME UNCHANGED <<cell, seen>>, Owed' = Owed
  PROVE  UNCHANGED Feed!vars
BY DEF Feed!vars

(* A store into a register is an Update of the feed, and the debt is noted. *)
LEMMA FeedUpdates ==
  ASSUME NEW i \in Index, NEW v \in Values,
         cell' = [cell EXCEPT ![i] = v], UNCHANGED seen, Owed' = Owed \cup {i}
  PROVE  Feed!Next
<1>1. Feed!Update(i, v)
  BY DEF Feed!Update
<1> QED BY <1>1 DEF Feed!Next

(* The hook's run is a Tell, to a listener that is owed it.                *)
LEMMA FeedTells ==
  ASSUME NEW i \in Index, i \in Owed,
         seen' = [seen EXCEPT ![i] = cell[i]], UNCHANGED cell, Owed' = Owed \ {i}
  PROVE  Feed!Next
<1>1. Feed!Tell(i)
  BY DEF Feed!Tell
<1> QED BY <1>1 DEF Feed!Next

LEMMA InitIsFeedInit == Init => Feed!Init
BY DEF Init, Feed!Init, Owed

LEMMA StepIsFeedStep == IInv /\ [Next]_vars => [Feed!Next]_(Feed!vars)
<1> SUFFICES ASSUME IInv, [Next]_vars PROVE Feed!Next \/ UNCHANGED Feed!vars
  OBVIOUS
<1> USE IndexFacts DEF IInv, TypeOK, HistoryOK, Alone, LoadedIsCurrent, BitFound,
        ReplacesWhatItCompared, loop, isr, table, extra, bounds, Off, On, Return
<1>1. CASE SetLoad
  BY <1>1, FeedStutters DEF SetLoad, Owed
<1>2. CASE MarkLoad
  BY <1>2, FeedStutters DEF MarkLoad, Owed
<1>3. CASE MarkStore
  BY <1>3, FeedStutters DEF MarkStore, Owed
<1>4. CASE PollTest
  BY <1>4, FeedStutters DEF PollTest, Owed
<1>5. CASE PollClearLoad
  BY <1>5, FeedStutters DEF PollClearLoad, Owed
<1>6. CASE PollClearStore
  BY <1>6, FeedStutters DEF PollClearStore, Owed
<1>7. CASE PollEnd
  BY <1>7, FeedStutters DEF PollEnd, Owed
<1>8. CASE IsrMarkLoad
  BY <1>8, FeedStutters DEF IsrMarkLoad, Owed
<1>9. CASE IsrMarkStore
  BY <1>9, FeedStutters DEF IsrMarkStore, Owed
<1>10. CASE IsrFlag
  BY <1>10, FeedStutters DEF IsrFlag, Owed
<1>11. CASE PollBegin
  BY <1>11, FeedStutters DEF PollBegin, Owed
<1>12. CASE SetStore
  <2>1. CASE old = raw
    <3>1. cell' = cell
      BY <2>1, <1>12 DEF SetStore
    <3> QED BY <3>1, <2>1, <1>12, FeedStutters DEF SetStore, Owed
  <2>2. CASE old # raw
    <3>1. at \in Index /\ raw \in Values
      BY <1>12 DEF SetStore
    <3>2. Owed' = Owed \cup {at}
      BY <2>2, <1>12 DEF SetStore, Owed
    <3> QED BY <3>1, <3>2, <1>12, FeedUpdates DEF SetStore
  <2> QED BY <2>1, <2>2
<1>13. CASE PollHook
  <2>1. at \in Index /\ at \in Owed
    BY <1>13 DEF PollHook, Owed
  <2>2. Owed' = Owed \ {at}
    BY <1>13 DEF PollHook, Owed
  <2> QED BY <2>1, <2>2, <1>13, FeedTells DEF PollHook
<1>14. CASE PickFetch
  <2>1. at \in Index /\ own[at] \in Values
    BY <1>14 DEF PickFetch
  <2>2. Owed' = Owed \cup {at}
    BY <1>14 DEF PickFetch, Owed
  <2> QED BY <2>1, <2>2, <1>14, FeedUpdates DEF PickFetch
<1>15. ASSUME NEW i \in Index, PickFlag(i) PROVE UNCHANGED Feed!vars
  BY <1>15, FeedStutters DEF PickFlag, Owed
<1>16. ASSUME NEW i \in Index, NEW v \in Values, SetBegin(i, v) PROVE UNCHANGED Feed!vars
  BY <1>16, FeedStutters DEF SetBegin, Owed
<1>17. ASSUME NEW i \in Index, NEW v \in Values, IsrAssign(i, v) PROVE Feed!Next
  <2>1. Owed' = Owed \cup {i}
    BY <1>17 DEF IsrAssign, Owed
  <2> QED BY <2>1, <1>17, FeedUpdates DEF IsrAssign
<1>18. ASSUME NEW i \in Index, NEW v \in Values, IsrOwn(i, v) PROVE UNCHANGED Feed!vars
  BY <1>18, FeedStutters DEF IsrOwn, Owed
<1>19. CASE UNCHANGED vars
  BY <1>19, FeedStutters DEF vars, Owed
<1> QED
  BY <1>1, <1>2, <1>3, <1>4, <1>5, <1>6, <1>7, <1>8, <1>9, <1>10, <1>11, <1>12, <1>13, <1>14, <1>15, <1>16, <1>17, <1>18, <1>19 DEF Next, Call, IsrOn, Begin

(***************************************************************************)
(* One memory access at a time and interrupts in between, the table is     *)
(* still the change feed its header promises: no mark is lost to a         *)
(* read-modify-write of the bitmap, no hook runs unowed.                   *)
(***************************************************************************)
THEOREM RaceImplementsFeed == Spec => ImplementsFeed
BY Invariance, InitIsFeedInit, StepIsFeedStep, PTL DEF Spec, ImplementsFeed, Feed!Spec
=============================================================================
