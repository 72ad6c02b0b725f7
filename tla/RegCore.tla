------------------------------- MODULE RegCore ------------------------------
(***************************************************************************)
(* A register table at run time: the variables behind the entries, the     *)
(* dirty bitmap, and the code of one main loop around them.                *)
(*                                                                         *)
(*   - a protocol adapter calls reg_set_raw (SetBegin .. SetEnd, with the  *)
(*     on_write hook running in between) or reg_get_raw (GetRaw);          *)
(*   - application code assigns a variable and then calls reg_mark_dirty   *)
(*     (AppAssign, AppMark);                                               *)
(*   - the loop calls reg_poll (PollStart, PollSkip, PollVisit,            *)
(*     HookReturn, PollEnd).                                               *)
(*                                                                         *)
(* The hooks are application code as well: before it returns, an on_change *)
(* or on_write hook may do all that the loop does between two passes, on   *)
(* its own entry or on any other, a further reg_set_raw included.          *)
(*                                                                         *)
(* All of it is one context: this is the use README, Concurrency, asks no  *)
(* locks for.  Module RegRace takes the same statements apart for code     *)
(* that an interrupt may cut into.                                         *)
(***************************************************************************)
EXTENDS RegTypes, Sequences

CONSTANTS
  MaxEntries, \* REGTABLE_MAX_ENTRIES, the bits of the bitmap
  N,          \* the entries before the terminator
  Table,      \* the entries themselves
  Commands,   \* the raw values adapters may be asked to write
  MaxOps      \* requests served between two passes, and by one hook run

ASSUME TableAssumption ==
  /\ MaxEntries \in Nat \ {0} /\ N \in Nat
  /\ Table \in [0 .. (N - 1) -> Entry]
  /\ \A i \in 0 .. (N - 1) : Sane(Table[i])
  /\ Commands \subseteq Raw
  /\ MaxOps \in Nat

VARIABLES
  cell,       \* cell[i]: the C variable entry i points at
  dirty,      \* the indices whose bit is set in t->dirty
  unmarked,   \* assigned by application code that has yet to mark them
  calls,      \* the reg_set_raw calls in their on_write hooks, the last first
  pos,        \* the idx of the running reg_poll, or Loop
  hook,       \* is the on_change of entry pos running
  ops,        \* requests served since the last pass or hook began
  \* history, not in the code:
  seen,       \* the value entry i's on_change last saw
  writer      \* who stored the value cell[i] has: "wire" or "app"

vars == <<cell, dirty, unmarked, calls, pos, hook, ops, seen, writer>>

Index  == 0 .. (N - 1)
Loop   == -1
Val(i) == LoadRaw(Table[i].type, cell[i])

(***************************************************************************)
(* reg_table_init refuses a table the bitmap is too small for and leaves   *)
(* it unbound.  A program that does not look at the result, like the one   *)
(* of README, Quick start on the MCU, runs on: reg_set_raw and reg_get_raw *)
(* name an entry and need no table, reg_mark_dirty and reg_poll return at  *)
(* once.                                                                   *)
(***************************************************************************)
Bound == N <= MaxEntries

(***************************************************************************)
(* reg_mark_dirty of a pointer: N stands for one that points just past the *)
(* table, at the terminator, which no bit belongs to.                      *)
(***************************************************************************)
MarkDirtyUpToHi(bits, i) ==               \* faulty: p > hi
  IF Bound THEN bits \cup {i} ELSE bits
MarkDirty(bits, i) == IF Bound /\ i < N THEN bits \cup {i} ELSE bits

(***************************************************************************)
(* The table as reg_table_init leaves it: bound or not, all bits clear.    *)
(* The variables hold whatever the program gave them, and the first pass   *)
(* has nothing to report.                                                  *)
(***************************************************************************)
Init ==
  /\ cell \in [Index -> UNION {CellOf(type) : type \in Types}]
  /\ \A i \in Index : cell[i] \in CellOf(Table[i].type)
  /\ dirty = {} /\ unmarked = {}
  /\ calls = <<>> /\ pos = Loop /\ hook = FALSE /\ ops = 0
  /\ seen = [i \in Index |-> Val(i)]
  /\ writer = [i \in Index |-> "app"]

(* The loop, or the body of a hook, about to call into the core again.     *)
MayServe == (pos = Loop \/ hook) /\ ops < MaxOps

-----------------------------------------------------------------------------
(* load_raw, store_raw, and the mark if the raw values differ.             *)
Commit(i, raw) ==
  /\ cell'   = [cell EXCEPT ![i] = StoreRaw(Table[i].type, raw)]
  /\ dirty'  = IF Val(i) # raw THEN MarkDirty(dirty, i) ELSE dirty
  /\ writer' = [writer EXCEPT ![i] = "wire"]

(* reg_set_raw of a refused value: an error code and nothing else.         *)
SetRefused(i, raw) ==
  /\ MayServe
  /\ CheckRaw(Table[i], raw) # "OK"
  /\ ops' = ops + 1
  /\ UNCHANGED <<cell, dirty, unmarked, calls, pos, hook, seen, writer>>

(* reg_set_raw of an entry without an on_write hook.                       *)
SetDirect(i, raw) ==
  /\ MayServe
  /\ CheckRaw(Table[i], raw) = "OK"
  /\ ~Table[i].onWrite
  /\ Commit(i, Canonical(Table[i].type, raw))
  /\ ops' = ops + 1
  /\ UNCHANGED <<unmarked, calls, pos, hook, seen>>

(* reg_set_raw up to its call of on_write ...                              *)
SetBeginHookFirst(i, raw) ==              \* faulty: the hook before the checks
  /\ MayServe /\ Table[i].onWrite
  /\ calls' = <<[entry |-> i, raw |-> Canonical(Table[i].type, raw)]>> \o calls
  /\ ops' = ops + 1
  /\ UNCHANGED <<cell, dirty, unmarked, pos, hook, seen, writer>>

SetBegin(i, raw) ==
  /\ MayServe
  /\ CheckRaw(Table[i], raw) = "OK"
  /\ Table[i].onWrite
  /\ calls' = <<[entry |-> i, raw |-> Canonical(Table[i].type, raw)]>> \o calls
  /\ ops' = ops + 1
  /\ UNCHANGED <<cell, dirty, unmarked, pos, hook, seen, writer>>

(* ... and after it: the hook refuses, or the value is stored.             *)
SetVetoed ==
  /\ calls # <<>>
  /\ calls' = Tail(calls)
  /\ UNCHANGED <<cell, dirty, unmarked, pos, hook, ops, seen, writer>>

SetEnd ==
  /\ calls # <<>>
  /\ Commit(Head(calls).entry, Head(calls).raw)
  /\ calls' = Tail(calls)
  /\ UNCHANGED <<unmarked, pos, hook, ops, seen>>

(* reg_get_raw: on_read fills *ptr from its source, unasked and unmarked.  *)
GetRaw(i) ==
  /\ MayServe
  /\ Table[i].onRead
  /\ \E c \in CellOf(Table[i].type) : cell' = [cell EXCEPT ![i] = c]
  /\ writer' = [writer EXCEPT ![i] = "app"]
  /\ ops' = ops + 1
  /\ UNCHANGED <<dirty, unmarked, calls, pos, hook, seen>>

-----------------------------------------------------------------------------
(* temp = read_sensor(): from the loop, an on_change hook or an on_write.  *)
AppAssign(i) ==
  /\ MayServe
  /\ \E c \in CellOf(Table[i].type) : cell' = [cell EXCEPT ![i] = c]
  /\ unmarked' = unmarked \cup {i}
  /\ writer' = [writer EXCEPT ![i] = "app"]
  /\ ops' = ops + 1
  /\ UNCHANGED <<dirty, calls, pos, hook, seen>>

(* reg_mark_dirty of what was assigned.                                    *)
AppMark(i) ==
  /\ i \in unmarked
  /\ dirty' = MarkDirty(dirty, i)
  /\ unmarked' = unmarked \ {i}
  /\ UNCHANGED <<cell, calls, pos, hook, ops, seen, writer>>

(* reg_mark_dirty of an entry nobody assigned, or of no entry at all.      *)
AppTouch(i) ==
  /\ MayServe
  /\ dirty' = MarkDirty(dirty, i)
  /\ ops' = ops + 1
  /\ UNCHANGED <<cell, unmarked, calls, pos, hook, seen, writer>>

-----------------------------------------------------------------------------
(* reg_poll, called from the loop once it has served its requests and made *)
(* its marks.                                                              *)
PollStart ==
  /\ pos = Loop /\ calls = <<>> /\ unmarked = {}
  /\ pos' = (IF Bound THEN 0 ELSE Loop)
  /\ ops' = 0
  /\ UNCHANGED <<cell, dirty, unmarked, calls, hook, seen, writer>>

Scanning == pos \in Index /\ ~hook

PollSkip ==
  /\ Scanning /\ pos \notin dirty
  /\ pos' = pos + 1
  /\ UNCHANGED <<cell, dirty, unmarked, calls, hook, ops, seen, writer>>

(* A set bit: clear it first, then run the hook, if there is one.          *)
PollVisitClearsAll ==                     \* faulty: t->dirty[idx / 32] = 0
  /\ Scanning /\ pos \in dirty /\ Table[pos].onChange
  /\ dirty' = {}
  /\ hook' = TRUE /\ ops' = 0
  /\ seen' = [seen EXCEPT ![pos] = Val(pos)]
  /\ UNCHANGED <<cell, unmarked, calls, pos, writer>>

PollVisit ==
  /\ Scanning /\ pos \in dirty
  /\ dirty' = dirty \ {pos}
  /\ IF Table[pos].onChange
     THEN /\ hook' = TRUE
          /\ seen' = [seen EXCEPT ![pos] = Val(pos)]
          /\ ops' = 0
          /\ pos' = pos
     ELSE /\ pos' = pos + 1
          /\ UNCHANGED <<hook, seen, ops>>
  /\ UNCHANGED <<cell, unmarked, calls, writer>>

HookReturnClears ==                       \* faulty: run first, then clear
  /\ hook /\ calls = <<>> /\ unmarked = {}
  /\ hook' = FALSE /\ pos' = pos + 1
  /\ dirty' = dirty \ {pos}
  /\ UNCHANGED <<cell, unmarked, calls, ops, seen, writer>>

HookReturnStays ==                        \* faulty: while the bit is set
  /\ hook /\ calls = <<>> /\ unmarked = {}
  /\ hook' = FALSE
  /\ UNCHANGED <<cell, dirty, unmarked, calls, pos, ops, seen, writer>>

HookReturnOnePerPass ==                   \* faulty: return after one hook
  /\ hook /\ calls = <<>> /\ unmarked = {}
  /\ hook' = FALSE /\ pos' = N
  /\ UNCHANGED <<cell, dirty, unmarked, calls, ops, seen, writer>>

HookReturn ==
  /\ hook /\ calls = <<>> /\ unmarked = {}
  /\ hook' = FALSE
  /\ pos' = pos + 1
  /\ UNCHANGED <<cell, dirty, unmarked, calls, ops, seen, writer>>

PollEnd ==
  /\ pos = N
  /\ pos' = Loop /\ ops' = 0
  /\ UNCHANGED <<cell, dirty, unmarked, calls, hook, seen, writer>>

-----------------------------------------------------------------------------
Adapter == \E i \in Index :
             \/ \E raw \in Commands : \/ SetRefused(i, raw)
                                      \/ SetDirect(i, raw)
                                      \/ SetBegin(i, raw)
             \/ GetRaw(i)
OnWriteReturn == SetVetoed \/ SetEnd
Application   == \/ \E i \in Index : AppAssign(i) \/ AppMark(i)
                 \/ \E i \in Index \cup {N} : AppTouch(i)
Poll          == PollStart \/ PollSkip \/ PollVisit \/ HookReturn \/ PollEnd

Next == Adapter \/ OnWriteReturn \/ Application \/ Poll

(***************************************************************************)
(* Fairness: the main loop runs on.  It calls reg_poll again and again,    *)
(* reg_poll takes its steps, hooks return, and code that assigned a        *)
(* variable gets to the next statement, the mark.  Nothing is assumed of   *)
(* the requests.                                                           *)
(***************************************************************************)
Fairness ==
  /\ WF_vars(PollStart) /\ WF_vars(PollSkip) /\ WF_vars(PollVisit)
  /\ WF_vars(HookReturn) /\ WF_vars(PollEnd)
  /\ WF_vars(OnWriteReturn)
  /\ \A i \in Index : WF_vars(AppMark(i))

Spec     == Init /\ [][Next]_vars
FairSpec == Spec /\ Fairness

-----------------------------------------------------------------------------
(* The variables hold values of their C types, and no bit is set past the  *)
(* bitmap or the table, whatever pointer reg_mark_dirty was given.         *)
TypeOK ==
  /\ cell \in [Index -> Int] /\ \A i \in Index : cell[i] \in CellOf(Table[i].type)
  /\ dirty \subseteq Index /\ unmarked \subseteq Index
  /\ \A i \in dirty : i < MaxEntries          \* there is a bit for it
  /\ calls \in Seq([entry : Index, raw : Raw])
  /\ pos \in Loop .. N /\ hook \in BOOLEAN /\ (hook => pos \in Index)
  /\ ops \in 0 .. MaxOps
  /\ seen \in [Index -> Raw]
  /\ writer \in [Index -> {"wire", "app"}]

(***************************************************************************)
(* The change-tracking contract of regtable_core.h (reg_mark_dirty,        *)
(* reg_poll): whenever a variable differs from what its on_change hook     *)
(* last saw, the table remembers it, or the code that assigned it has its  *)
(* mark still to make.  It covers writes and marks made by the hooks while *)
(* a pass is running.  A variable that an on_read hook refills is excepted: *)
(* reg_get_raw changes it and marks nothing; and so is a table that        *)
(* reg_table_init refused.                                                 *)
(***************************************************************************)
Tracked == {i \in Index : Bound /\ Table[i].onChange /\ ~Table[i].onRead}

NoLostChange ==
  \A i \in Tracked : Val(i) # seen[i] => i \in dirty \cup unmarked

(***************************************************************************)
(* Every adapter goes through reg_set_raw and none can get past it: a      *)
(* value that stands in a variable because an adapter wrote it is a number *)
(* of the entry's type inside the entry's interval, and the entry is RW.   *)
(***************************************************************************)
WireValuesAllowed ==
  \A i \in Index : writer[i] = "wire" => Allowed(Table[i], Val(i))

(***************************************************************************)
(* on_write "runs after perm and range checks" (regtable_core.h): no hook, *)
(* nor one that runs inside another, is asked about a value the entry      *)
(* could not hold, a BOOL it is asked about is 0 or 1, and what it allowed *)
(* is what will be loaded back.                                            *)
(***************************************************************************)
HookAskedAboutAllowed ==
  \A k \in DOMAIN calls :
    LET e == Table[calls[k].entry] IN
    /\ Allowed(e, calls[k].raw)
    /\ LoadRaw(e.type, StoreRaw(e.type, calls[k].raw)) = calls[k].raw

(***************************************************************************)
(* A pass comes to its end although the hooks it runs keep writing to the  *)
(* table, to their own entry and to entries before and behind them.        *)
(***************************************************************************)
PassEnds == pos # Loop ~> pos = Loop

(***************************************************************************)
(* The core is the change feed its header promises (module ChangeFeed);    *)
(* and, the main loop running on, every listener that is owed a call gets  *)
(* it: a set bit is not forgotten, also behind a hook that marks for ever. *)
(***************************************************************************)
Feed == INSTANCE ChangeFeed WITH
          Items  <- Tracked,
          Values <- Raw,
          val    <- [i \in Tracked |-> Val(i)],
          told   <- [i \in Tracked |-> seen[i]],
          owed   <- Tracked \cap (dirty \cup unmarked)

ImplementsFeed     == Feed!Spec
ImplementsFairFeed == Feed!FairSpec
=============================================================================
