------------------------------- MODULE RegRace ------------------------------
(***************************************************************************)
(* reg_set_raw, reg_mark_dirty and reg_poll, one memory access per step,   *)
(* against an interrupt (or another task) that may cut in between any two  *)
(* of them.  regtable takes no locks; README, Concurrency, names the two   *)
(* ways an application may keep this sound, and this module checks both:   *)
(*                                                                         *)
(*   "critical section"  the interrupt assigns the variable and marks it,  *)
(*                       and every call of the loop runs with interrupts   *)
(*                       off;                                              *)
(*   "own variable"      the interrupt keeps out of the table: it writes   *)
(*                       its own variable and raises a flag, and the loop  *)
(*                       copies it and marks.                              *)
(*                                                                         *)
(* The entries share one word of the dirty bitmap; their values are U8 or  *)
(* narrower than a bus access, so each load and store is one step.  The    *)
(* checks of reg_set_raw and its hook are over before its first load and   *)
(* belong to module RegCore, and so does a table that reg_table_init       *)
(* refused, whose bitmap nobody touches: this one is bound.                *)
(***************************************************************************)
EXTENDS Integers

CONSTANTS
  MaxEntries,    \* REGTABLE_MAX_ENTRIES
  N,             \* t->count
  Values,
  MaxCommands,   \* bound: reg_set_raw calls
  MaxInterrupts  \* bound: runs of the interrupt

ASSUME RaceAssumption ==
  /\ N \in Nat /\ MaxEntries \in Nat /\ N <= MaxEntries
  /\ MaxCommands \in Nat /\ MaxInterrupts \in Nat

Index == 0 .. (N - 1)

VARIABLES
  pattern,                 \* what the application does, for good
  cell, dirty,             \* the variables, the word of the bitmap
  irq,                     \* who may run alone: "free", "loop", "isr"
  pc, at,                  \* the loop: its next access, and of which entry
  raw, old, word,          \* its locals: the command, the value loaded, the word loaded
  ipc, iat, iword,         \* the interrupt: next access, entry, the word it loaded
  own, flag,               \* the interrupt's own variables and flags
  commands, interrupts,    \* how many there were
  \* history:
  seen,                    \* what entry i's on_change last saw
  taken                    \* what the loop last copied from own[i]

table == <<cell, dirty>>
loop  == <<pc, at, raw, old, word>>
isr   == <<ipc, iat, iword>>
extra == <<own, flag, taken>>
bounds == <<commands, interrupts>>
vars  == <<pattern, table, irq, loop, isr, extra, bounds, seen>>

Init ==
  /\ pattern \in {"critical section", "own variable"}
  /\ cell \in [Index -> Values] /\ dirty = {}
  /\ irq = "free"
  /\ pc = "idle" /\ at = 0
  /\ raw = cell[0] /\ old = cell[0] /\ word = {}
  /\ ipc = "idle" /\ iat = 0 /\ iword = {}
  /\ own = cell /\ flag = {}
  /\ commands = 0 /\ interrupts = 0
  /\ seen = cell /\ taken = cell

-----------------------------------------------------------------------------
(* disable_irq, enable_irq.  With an own variable nobody locks.            *)
Off(who) == irq = "free" /\ irq' = (IF pattern = "critical section" THEN who ELSE "free")
On       == irq' = "free"

(* The call is over.                                                       *)
Return   == pc' = "idle" /\ at' = 0 /\ On

-----------------------------------------------------------------------------
(* reg_set_raw: load *ptr, store it, mark it if it is another value.       *)
SetBeginUnlocked(i, v) ==                 \* faulty: interrupts stay on
  /\ pc = "idle" /\ commands < MaxCommands
  /\ pc' = "load" /\ at' = i /\ raw' = v
  /\ commands' = commands + 1
  /\ UNCHANGED <<pattern, irq, table, old, word, isr, extra, interrupts, seen>>

SetBegin(i, v) ==
  /\ pc = "idle" /\ commands < MaxCommands
  /\ Off("loop")
  /\ pc' = "load" /\ at' = i /\ raw' = v
  /\ commands' = commands + 1
  /\ UNCHANGED <<pattern, table, old, word, isr, extra, interrupts, seen>>

SetLoad ==
  /\ pc = "load"
  /\ old' = cell[at] /\ pc' = "store"
  /\ UNCHANGED <<pattern, table, irq, at, raw, word, isr, extra, bounds, seen>>

SetStore ==
  /\ pc = "store"
  /\ cell' = [cell EXCEPT ![at] = raw]
  /\ IF old # raw THEN pc' = "mark load" /\ UNCHANGED <<pattern, at, irq>> ELSE Return
  /\ UNCHANGED <<pattern, dirty, raw, old, word, isr, extra, bounds, seen>>

(* t->dirty[idx / 32] |= bit                                               *)
MarkLoad ==
  /\ pc = "mark load"
  /\ word' = dirty /\ pc' = "mark store"
  /\ UNCHANGED <<pattern, table, irq, at, raw, old, isr, extra, bounds, seen>>

MarkStoreLowersFlag ==                    \* faulty: the flag is cleared when done
  /\ pc = "mark store"
  /\ dirty' = word \cup {at}
  /\ flag' = flag \ {at}
  /\ Return
  /\ UNCHANGED <<pattern, cell, raw, old, word, isr, own, taken, bounds, seen>>

MarkStore ==
  /\ pc = "mark store"
  /\ dirty' = word \cup {at}
  /\ Return
  /\ UNCHANGED <<pattern, cell, raw, old, word, isr, extra, bounds, seen>>

-----------------------------------------------------------------------------
(* reg_poll: test, then `&= ~bit`, then the hook, which reads its variable. *)
PollBeginUnlocked ==                      \* faulty: interrupts stay on
  /\ pc = "idle"
  /\ pc' = "test" /\ at' = 0
  /\ UNCHANGED <<pattern, irq, table, raw, old, word, isr, extra, bounds, seen>>

PollBegin ==
  /\ pc = "idle"
  /\ Off("loop")
  /\ pc' = "test" /\ at' = 0
  /\ UNCHANGED <<pattern, table, raw, old, word, isr, extra, bounds, seen>>

PollTestPastEnd ==                        \* faulty: idx <= t->count
  /\ pc = "test" /\ at <= N
  /\ IF at \in dirty THEN pc' = "clear load" /\ at' = at
                     ELSE pc' = "test" /\ at' = at + 1
  /\ UNCHANGED <<pattern, table, irq, raw, old, word, isr, extra, bounds, seen>>

PollTest ==
  /\ pc = "test" /\ at < N
  /\ IF at \in dirty THEN pc' = "clear load" /\ at' = at
                     ELSE pc' = "test" /\ at' = at + 1
  /\ UNCHANGED <<pattern, table, irq, raw, old, word, isr, extra, bounds, seen>>

PollClearLoad ==
  /\ pc = "clear load"
  /\ word' = dirty /\ pc' = "clear store"
  /\ UNCHANGED <<pattern, table, irq, at, raw, old, isr, extra, bounds, seen>>

PollClearStore ==
  /\ pc = "clear store"
  /\ dirty' = word \ {at} /\ pc' = "hook"
  /\ UNCHANGED <<pattern, cell, irq, at, raw, old, word, isr, extra, bounds, seen>>

PollHook ==
  /\ pc = "hook"
  /\ seen' = [seen EXCEPT ![at] = cell[at]]
  /\ pc' = "test" /\ at' = at + 1
  /\ UNCHANGED <<pattern, table, irq, raw, old, word, isr, extra, bounds>>

PollEndEarly ==                           \* faulty: the last entry is not waited for
  /\ pc = "test" /\ at >= N - 1
  /\ Return
  /\ UNCHANGED <<pattern, table, raw, old, word, isr, extra, bounds, seen>>

PollEnd ==
  /\ pc = "test" /\ at = N
  /\ Return
  /\ UNCHANGED <<pattern, table, raw, old, word, isr, extra, bounds, seen>>

-----------------------------------------------------------------------------
(* The loop picks up what the interrupt left: the flag first, then the     *)
(* variable, then reg_mark_dirty.                                          *)
PickFlag(i) ==
  /\ pattern = "own variable" /\ pc = "idle" /\ i \in flag
  /\ flag' = flag \ {i}
  /\ at' = i /\ pc' = "pick"
  /\ UNCHANGED <<pattern, table, irq, raw, old, word, isr, own, taken, bounds, seen>>

PickFetchUnmarked ==                      \* faulty: nobody tells the table
  /\ pc = "pick"
  /\ cell' = [cell EXCEPT ![at] = own[at]]
  /\ taken' = [taken EXCEPT ![at] = own[at]]
  /\ Return
  /\ UNCHANGED <<pattern, dirty, raw, old, word, isr, own, flag, bounds, seen>>

PickFetch ==
  /\ pc = "pick"
  /\ cell' = [cell EXCEPT ![at] = own[at]]
  /\ taken' = [taken EXCEPT ![at] = own[at]]
  /\ pc' = "mark load"
  /\ UNCHANGED <<pattern, dirty, irq, at, raw, old, word, isr, own, flag, bounds, seen>>

-----------------------------------------------------------------------------
(* The interrupt of the first pattern: *ptr = v, then reg_mark_dirty.      *)
IsrAssign(i, v) ==
  /\ pattern = "critical section" /\ ipc = "idle" /\ interrupts < MaxInterrupts
  /\ Off("isr")
  /\ cell' = [cell EXCEPT ![i] = v]
  /\ ipc' = "mark load" /\ iat' = i
  /\ interrupts' = interrupts + 1
  /\ UNCHANGED <<pattern, dirty, loop, iword, extra, commands, seen>>

IsrMarkLoad ==
  /\ ipc = "mark load"
  /\ iword' = dirty /\ ipc' = "mark store"
  /\ UNCHANGED <<pattern, table, irq, loop, iat, extra, bounds, seen>>

IsrMarkStore ==
  /\ ipc = "mark store"
  /\ dirty' = iword \cup {iat}
  /\ ipc' = "idle" /\ On
  /\ UNCHANGED <<pattern, cell, loop, iat, iword, extra, bounds, seen>>

(* The interrupt of the second: its variable, then its flag.               *)
IsrOwn(i, v) ==
  /\ pattern = "own variable" /\ ipc = "idle" /\ interrupts < MaxInterrupts
  /\ own' = [own EXCEPT ![i] = v]
  /\ ipc' = "flag" /\ iat' = i
  /\ interrupts' = interrupts + 1
  /\ UNCHANGED <<pattern, table, irq, loop, iword, flag, taken, commands, seen>>

IsrFlag ==
  /\ ipc = "flag"
  /\ flag' = flag \cup {iat} /\ ipc' = "idle"
  /\ UNCHANGED <<pattern, table, irq, loop, iat, iword, own, taken, bounds, seen>>

-----------------------------------------------------------------------------
Call  == SetLoad \/ SetStore \/ MarkLoad \/ MarkStore
           \/ PollTest \/ PollClearLoad \/ PollClearStore \/ PollHook \/ PollEnd
           \/ PickFetch
IsrOn == IsrMarkLoad \/ IsrMarkStore \/ IsrFlag
Begin == \/ PollBegin
         \/ \E i \in Index : PickFlag(i)

Next ==
  \/ Call \/ IsrOn \/ Begin
  \/ \E i \in Index, v \in Values : SetBegin(i, v) \/ IsrAssign(i, v) \/ IsrOwn(i, v)

Spec == Init /\ [][Next]_vars

(***************************************************************************)
(* Fairness: the loop and the interrupt finish what they have begun, the   *)
(* loop polls and looks at the flags again and again.                      *)
(***************************************************************************)
FairSpec == /\ Spec /\ WF_vars(Call) /\ WF_vars(IsrOn)
            /\ SF_vars(PollBegin) /\ \A i \in Index : SF_vars(PickFlag(i))

-----------------------------------------------------------------------------
(* The variables keep their types and no cursor runs past the last entry.  *)
TypeOK ==
  /\ cell \in [Index -> Values] /\ dirty \subseteq Index
  /\ irq \in {"free", "loop", "isr"}
  /\ pc \in {"idle", "load", "store", "mark load", "mark store", "test",
             "clear load", "clear store", "hook", "pick"}
  /\ at \in 0 .. N /\ (pc \notin {"idle", "test"} => at \in Index)
  /\ ipc \in {"idle", "mark load", "mark store", "flag"}
  /\ iat \in 0 .. N /\ (ipc # "idle" => iat \in Index)
  /\ own \in [Index -> Values] /\ flag \subseteq Index

(***************************************************************************)
(* README, Atomicity: each reg_set_raw call is atomic at the register      *)
(* level.  The value it compares with, to decide whether to report a       *)
(* change, is the very value that its store replaces.                      *)
(***************************************************************************)
ReplacesWhatItCompared == pc = "store" => cell[at] = old

(***************************************************************************)
(* The interrupt's own variable is not missed: if it differs from what the *)
(* loop copied, the flag is up, about to go up, or just seen by the loop.  *)
(***************************************************************************)
NothingUnread ==
  \A i \in Index : own[i] # taken[i] =>
    i \in flag \/ (ipc = "flag" /\ iat = i) \/ (pc = "pick" /\ at = i)

(***************************************************************************)
(* The interleaved system is still the change feed of ChangeFeed: a        *)
(* listener is owed a call while its bit is set, while whoever changed the *)
(* variable is on the way to setting it, and while reg_poll is on the way  *)
(* from clearing it to the hook.  No lost bit, no change unreported.       *)
(***************************************************************************)
Owed == dirty \cup (IF pc \in {"mark load", "mark store", "hook"} THEN {at} ELSE {})
              \cup (IF ipc \in {"mark load", "mark store"} THEN {iat} ELSE {})

Feed == INSTANCE ChangeFeed WITH Items <- Index, val <- cell, told <- seen, owed <- Owed

ImplementsFeed == Feed!Spec

(***************************************************************************)
(* Once commands and interrupts have ceased, every hook has seen the value *)
(* its variable has, and the loop has what the interrupt last left.        *)
(***************************************************************************)
Settles == <>[](seen = cell /\ own = taken)
=============================================================================
