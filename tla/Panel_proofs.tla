---------------------------- MODULE Panel_proofs ----------------------------
(***************************************************************************)
(* What the panel shows is so, for any number of attempts to connect and   *)
(* whatever the cable, the device and the user do: its coroutines work on  *)
(* one port, one after the other, and on one command at a time.            *)
(***************************************************************************)
EXTENDS Panel, SequenceTheorems, WellFoundedInduction, NaturalsInduction, TLAPS

Jobs   == [do : {"list", "get", "set", "raw"}, by : Attempts \cup {"user", "poll"}]
Early  == {"openPort", "boot", "cleanup"}
Asking == {"list1", "list2"}

Typed ==
  /\ connState \in {"disconnected", "opening", "ready", "closing"}
  /\ {port, reader, writer} \subseteq Attempts \cup {None}
  /\ open \subseteq Attempts /\ running \subseteq Attempts /\ cancelled \subseteq Attempts
  /\ opener \in [Attempts -> [at : {"idle", "slow"} \cup Early \cup Asking, died : BOOLEAN]]
  /\ tear \in [Callers -> {"no", "cancel", "pipe", "close"}]
  /\ pollOn \in BOOLEAN /\ polling \in {"off", "get", "sleep"}
  /\ cmdQueue \in Seq(Jobs) /\ (waiting => cmdQueue # <<>>)

(***************************************************************************)
(* An attempt waits for a list it has in the queue, once.                  *)
(***************************************************************************)
Turns ==
  /\ \A k \in DOMAIN cmdQueue :
       cmdQueue[k].by \in Attempts => opener[cmdQueue[k].by].at \in Asking
  /\ \A j, k \in DOMAIN cmdQueue :
       cmdQueue[j].by \in Attempts /\ cmdQueue[k].by \in Attempts => j = k

(***************************************************************************)
(* A patient user has one attempt at work; the panel is opening while it   *)
(* opens, waits or cleans up.  It dies only before the panel is ready.     *)
(***************************************************************************)
OneAttempt ==
  /\ \A a, b \in Attempts : opener[a].at # "idle" /\ opener[b].at # "idle" => a = b
  /\ connState = "opening" <=> \E a \in Attempts : opener[a].at \in Early
  /\ \A a \in Attempts : opener[a].at \in {"openPort", "slow"} \cup Asking => ~opener[a].died

(***************************************************************************)
(* One teardown at a time: of a panel that is closing, or of an attempt    *)
(* that cleans up.                                                         *)
(***************************************************************************)
OneTeardown ==
  /\ \A o, p \in Callers : tear[o] # "no" /\ tear[p] # "no" => o = p
  /\ \A o \in Callers : tear[o] # "no" =>
       IF o[1] = "attempt" THEN opener[o[2]].at = "cleanup" ELSE connState = "closing"

(***************************************************************************)
(* Who holds what: nothing but `port` is open and no loop but `reader`'s   *)
(* runs; an attempt's port is its own; what a teardown has released stays  *)
(* released.                                                               *)
(***************************************************************************)
Released == port = None /\ reader = None /\ writer = None

Holds ==
  /\ open \subseteq {port} /\ running \subseteq {reader}
  /\ connState = "disconnected" => Released
  /\ connState = "ready" => port \in running
  /\ \A a \in Attempts :
       /\ opener[a].at = "openPort" => Released
       /\ opener[a].at = "boot" => port = a /\ (opener[a].died \/ a \in running)
       /\ opener[a].at = "cleanup" => port \in {a, None}
  /\ \A o \in Callers :
       /\ tear[o] = "cancel" => reader \in cancelled \cup {None}
       /\ tear[o] \in {"pipe", "close"} => reader = None
       /\ tear[o] = "close" => writer = None

(* Polling is on only while the panel is ready, and then its loop is alive. *)
Polls == pollOn => connState = "ready" /\ polling # "off"

IInv == Typed /\ Turns /\ OneAttempt /\ OneTeardown /\ Holds /\ Polls

(***************************************************************************)
(* With nothing owed when a command is sent, whatever comes in while it    *)
(* waits is its own.                                                       *)
(***************************************************************************)
Whose == {"this", "earlier"}
Lines == [is : {"echo", "json"}, to : Whose]

Owned ==
  /\ wire \in Seq(Lines) /\ owed \in Seq(Whose)
  /\ waiting => /\ readBuf \in Seq(Lines)
                /\ \A k \in DOMAIN readBuf : readBuf[k].to = "this"
                /\ \A k \in DOMAIN wire : wire[k].to = "this"
                /\ \A k \in DOMAIN owed : owed[k] = "this"

-----------------------------------------------------------------------------
LEMMA QueueFacts ==
  ASSUME NEW S, NEW q \in Seq(S)
  PROVE  /\ DOMAIN q = 1 .. Len(q) /\ Len(q) \in Nat
         /\ \A k \in DOMAIN q : q[k] \in S
         /\ q # <<>> =>
              /\ 1 \in DOMAIN q /\ Head(q) = q[1] /\ Head(q) \in S
              /\ Tail(q) \in Seq(S)
              /\ \A k \in DOMAIN Tail(q) : k + 1 \in DOMAIN q /\ Tail(q)[k] = q[k + 1]
                                           /\ k \in Int /\ k >= 1
         /\ \A e \in S :
              /\ Append(q, e) \in Seq(S) /\ Append(q, e) # <<>>
              /\ \A k \in DOMAIN Append(q, e) : \/ k \in DOMAIN q /\ Append(q, e)[k] = q[k]
                                                \/ k = Len(q) + 1 /\ Append(q, e)[k] = e
OBVIOUS

(* Two queues in a row.                                                    *)
LEMMA JoinedQueues ==
  ASSUME NEW S, NEW p \in Seq(S), NEW q \in Seq(S)
  PROVE  /\ p \o q \in Seq(S)
         /\ \A k \in DOMAIN (p \o q) :
              \/ k \in DOMAIN p /\ (p \o q)[k] = p[k]
              \/ k - Len(p) \in DOMAIN q /\ (p \o q)[k] = q[k - Len(p)]
OBVIOUS

(* A part of a queue.                                                      *)
LEMMA PartOfQueue ==
  ASSUME NEW S, NEW q \in Seq(S), NEW m \in Nat \ {0}, NEW n \in Nat, n <= Len(q)
  PROVE  /\ SubSeq(q, m, n) \in Seq(S)
         /\ \A k \in DOMAIN SubSeq(q, m, n) : k + m - 1 \in DOMAIN q /\ SubSeq(q, m, n)[k] = q[k + m - 1]
OBVIOUS

-----------------------------------------------------------------------------
(***************************************************************************)
(* The lines and who they answer.                                          *)
(***************************************************************************)
LEMMA DisownFacts ==
  ASSUME NEW s \in Seq(Lines)
  PROVE  Disown(s) \in Seq(Lines)
<1>1. \A k \in DOMAIN s : [s[k] EXCEPT !.to = "earlier"] \in Lines
  <2>1. \A k \in DOMAIN s : s[k] \in Lines
    OBVIOUS
  <2> QED BY <2>1 DEF Lines, Whose
<1>2. DOMAIN s = 1 .. Len(s) /\ Len(s) \in Nat
  OBVIOUS
<1> QED BY <1>1, <1>2 DEF Disown

LEMMA FinishedOwned ==
  ASSUME Owned, NEW b, Finish(b), wire' \in Seq(Lines)
  PROVE  Owned'
<1>1. waiting' = FALSE /\ owed' = [k \in DOMAIN owed |-> "earlier"]
  BY DEF Finish
<1>2. owed' \in Seq(Whose)
  <2>1. DOMAIN owed = 1 .. Len(owed) /\ Len(owed) \in Nat
    BY DEF Owned
  <2> QED BY <1>1, <2>1 DEF Whose
<1> QED BY <1>1, <1>2 DEF Owned

(* A buffer that is emptied, and a port that closes or loses its device.   *)
LEMMA EmptiedOwned ==
  ASSUME Owned, ~crossed, wire' \in {wire, <<>>}, owed' \in {owed, <<>>},
         readBuf' \in {readBuf, <<>>}, waiting' = waiting, crossed' = crossed
  PROVE  Owned' /\ ~crossed'
<1>1. \A S : <<>> \in Seq(S) /\ DOMAIN <<>> = {}
  OBVIOUS
<1> QED BY <1>1 DEF Owned

(* The first of some positions.                                            *)
LEMMA LeastOf ==
  ASSUME NEW S, S \subseteq Nat, S # {}
  PROVE  Min(S) \in S
<1> DEFINE R == OpToRel(<, Nat)
<1>1. IsWellFoundedOn(R, Nat)
  BY NatLessThanWellFounded
<1>2. \A x, y \in Nat : y < x => <<y, x>> \in R
  BY DEF OpToRel
<1>3. \E x \in S : \A y \in S : ~(<<y, x>> \in R)
  <2> HIDE DEF R
  <2> QED BY <1>1, WFMin
<1>4. PICK x \in S : \A y \in S : ~(<<y, x>> \in R)
  BY <1>3
<1>5. ASSUME NEW y \in S PROVE x <= y
  <2> HIDE DEF R
  <2>1. ~(y < x)
    BY <1>2, <1>4
  <2> QED BY <2>1
<1> QED BY <1>5 DEF Min

LEMMA StartOwned ==
  ASSUME Behind = 0, Owned, ~crossed, Start
  PROVE  Owned' /\ ~crossed'
<1>1. readBuf' = <<>> /\ crossed' = crossed /\ wire' = wire /\ Len(owed) + Len(wire) <= 0
  BY DEF Start, StartWith
<1>2. wire = <<>> /\ owed = <<>>
  BY <1>1 DEF Owned
<1>3. CASE writer = None \/ writer \in plugged
  <2>1. owed' = <<>> \/ owed' = <<"this">>
    <3>1. owed' = owed \/ owed' = Append(owed, "this")
      BY <1>3 DEF Start, StartWith
    <3>2. Append(<<>>, "this") = <<"this">>
      OBVIOUS
    <3> QED BY <1>2, <3>1, <3>2
  <2>2. readBuf' \in Seq(Lines) /\ wire' \in Seq(Lines) /\ DOMAIN readBuf' = {} /\ DOMAIN wire' = {}
    BY <1>1, <1>2
  <2>3. owed' \in Seq(Whose) /\ \A k \in DOMAIN owed' : owed'[k] = "this"
    <3>1. <<>> \in Seq(Whose) /\ <<"this">> \in Seq(Whose)
      BY DEF Whose
    <3>2. DOMAIN <<>> = {} /\ DOMAIN <<"this">> = {1} /\ <<"this">>[1] = "this"
      OBVIOUS
    <3> QED BY <2>1, <3>1, <3>2
  <2> QED BY <1>1, <2>2, <2>3 DEF Owned
<1>4. CASE ~(writer = None \/ writer \in plugged)
  <2>1. Finish(FALSE)
    BY <1>4 DEF Start, StartWith
  <2>2. wire' \in Seq(Lines)
    BY <1>1 DEF Owned
  <2> QED BY <1>1, <2>1, <2>2, FinishedOwned
<1> QED BY <1>3, <1>4

LEMMA AnswerOwned ==
  ASSUME Owned, ~crossed, Answer
  PROVE  Owned' /\ ~crossed'
<1>1. PICK lines \in Answers :
        /\ owed # <<>> /\ owed' = Tail(owed) /\ UNCHANGED <<readBuf, waiting, crossed>>
        /\ wire' = IF port \in plugged
                   THEN wire \o [k \in DOMAIN lines |-> Line(lines[k], Head(owed))]
                   ELSE wire
  BY DEF Answer, jobs
<1>2. /\ Head(owed) \in Whose /\ (waiting => Head(owed) = "this")
      /\ owed' \in Seq(Whose) /\ (waiting => \A k \in DOMAIN owed' : owed'[k] = "this")
  BY <1>1, QueueFacts DEF Owned
<1> DEFINE more == [k \in DOMAIN lines |-> Line(lines[k], Head(owed))]
<1>3. more \in Seq(Lines) /\ \A k \in DOMAIN more : more[k].to = Head(owed)
  <2>1. lines \in Seq({"echo", "json"})
    <3> DEFINE Is == {"echo", "json"}
    <3>1. <<>> \in Seq(Is) /\ <<"echo", "echo">> \in Seq(Is)
      OBVIOUS
    <3>2. <<"json">> \in Seq(Is) /\ <<"echo", "json">> \in Seq(Is)
      OBVIOUS
    <3> HIDE DEF Is
    <3>3. lines \in Seq(Is)
      BY <3>1, <3>2 DEF Answers
    <3> QED BY <3>3 DEF Is
  <2>2. DOMAIN lines = 1 .. Len(lines) /\ Len(lines) \in Nat
    BY <2>1
  <2>3. \A k \in DOMAIN lines : Line(lines[k], Head(owed)) \in Lines
    <3>1. \A k \in DOMAIN lines : lines[k] \in {"echo", "json"}
      BY <2>1
    <3> QED BY <1>2, <3>1 DEF Line, Lines
  <2>4. \A k \in DOMAIN lines : Line(lines[k], Head(owed)).to = Head(owed)
    BY DEF Line
  <2> QED BY <2>2, <2>3, <2>4
<1>4. wire' \in Seq(Lines) /\ (waiting => \A k \in DOMAIN wire' : wire'[k].to = "this")
  <2> HIDE DEF more
  <2>1. wire \in Seq(Lines) /\ (waiting => \A k \in DOMAIN wire : wire[k].to = "this")
    BY DEF Owned
  <2>2. wire' = wire \/ wire' = wire \o more
    BY <1>1 DEF more
  <2>3. CASE wire' = wire \o more
    BY <1>2, <1>3, <2>1, <2>3, JoinedQueues
  <2> QED BY <2>1, <2>2, <2>3
<1> QED BY <1>1, <1>2, <1>4 DEF Owned

(* What is taken from own lines is own.                                    *)
LEMMA TakeOwned ==
  ASSUME Owned, ~crossed, waiting, NEW buffer \in Seq(Lines), NEW after \in Seq(Lines),
         \A k \in DOMAIN buffer : buffer[k].to = "this",
         \A k \in DOMAIN after : after[k].to = "this",
         Take(buffer, after)
  PROVE  Owned' /\ ~crossed'
<1>1. DOMAIN buffer = 1 .. Len(buffer) /\ Len(buffer) \in Nat /\ Disown(after) \in Seq(Lines)
  BY DisownFacts
<1>2. <<>> \in Seq(Lines) /\ DOMAIN <<>> = {}
  OBVIOUS
<1> DEFINE left  == Tries - tries
           found == {k \in 1..Len(buffer) : buffer[k].is = "json" /\ k <= left}
<1>3. CASE Head(cmdQueue).do = "raw"
  <2>1. /\ readBuf' = <<>> /\ wire' = after /\ UNCHANGED <<waiting, owed>>
        /\ crossed' = (crossed \/ \E k \in 1..Len(buffer) : buffer[k].to # "this")
    BY <1>3 DEF Take
  <2> QED BY <1>1, <1>2, <2>1 DEF Owned
<1>4. CASE Head(cmdQueue).do # "raw" /\ found # {}
  <2>1. Min(found) \in 1 .. Len(buffer)
    <3>1. found \subseteq 1 .. Len(buffer) /\ found \subseteq Nat
      OBVIOUS
    <3> HIDE DEF found
    <3> QED BY <1>4, <3>1, LeastOf
  <2>2. /\ wire' = Disown(after) /\ Finish(TRUE)
        /\ crossed' = (crossed \/ buffer[Min(found)].to # "this")
    BY <1>4 DEF Take
  <2>3. ~crossed'
    BY <1>1, <2>1, <2>2
  <2> HIDE DEF found
  <2> QED BY <1>1, <2>2, <2>3, FinishedOwned
<1>5. CASE Head(cmdQueue).do # "raw" /\ found = {} /\ Len(buffer) >= left
  <2>1. wire' = Disown(after) /\ Finish(FALSE) /\ crossed' = crossed
    BY <1>5 DEF Take
  <2> QED BY <1>1, <2>1, FinishedOwned
<1>6. CASE Head(cmdQueue).do # "raw" /\ found = {} /\ ~(Len(buffer) >= left)
  <2>1. readBuf' = <<>> /\ wire' = after /\ UNCHANGED <<waiting, owed, crossed>>
    BY <1>6 DEF Take
  <2> QED BY <1>2, <2>1 DEF Owned
<1> QED BY <1>3, <1>4, <1>5, <1>6

LEMMA OnDataOwned ==
  ASSUME Owned, ~crossed, NEW n \in 1 .. Len(wire), OnData(n)
  PROVE  Owned' /\ ~crossed'
<1> DEFINE after  == SubSeq(wire, n + 1, Len(wire))
           chunk  == SubSeq(wire, 1, n)
           buffer == readBuf \o chunk
<1>1. wire \in Seq(Lines) /\ Len(wire) \in Nat /\ n \in Nat /\ n <= Len(wire)
      /\ n + 1 \in Nat \ {0} /\ 1 \in Nat \ {0}
  BY DEF Owned
<1>2. /\ after \in Seq(Lines)
      /\ \A k \in DOMAIN after : k + (n + 1) - 1 \in DOMAIN wire /\ after[k] = wire[k + (n + 1) - 1]
      /\ chunk \in Seq(Lines)
      /\ \A k \in DOMAIN chunk : k + 1 - 1 \in DOMAIN wire /\ chunk[k] = wire[k + 1 - 1]
  <2> HIDE DEF after, chunk
  <2> QED BY <1>1, PartOfQueue, SMTT(60) DEF after, chunk
<1>3. CASE waiting
  <2>1. /\ readBuf \in Seq(Lines) /\ \A k \in DOMAIN readBuf : readBuf[k].to = "this"
        /\ \A k \in DOMAIN wire : wire[k].to = "this"
    BY <1>3 DEF Owned
  <2>2. buffer \in Seq(Lines) /\ \A k \in DOMAIN buffer : buffer[k].to = "this"
    <3> HIDE DEF chunk
    <3>1. \A k \in DOMAIN chunk : chunk[k].to = "this"
      BY <1>2, <2>1
    <3> QED BY <1>2, <2>1, <3>1, JoinedQueues
  <2>3. \A k \in DOMAIN after : after[k].to = "this"
    <3> HIDE DEF after
    <3> QED BY <1>2, <2>1
  <2>4. Take(buffer, after)
    BY <1>3 DEF OnData
  <2> HIDE DEF buffer, after
  <2> QED BY <1>2, <1>3, <2>2, <2>3, <2>4, TakeOwned
<1>4. CASE ~waiting
  <2>1. wire' = after /\ UNCHANGED <<waiting, owed, crossed>>
    BY <1>4 DEF OnData
  <2> HIDE DEF after
  <2> QED BY <1>2, <1>4, <2>1 DEF Owned
<1> QED BY <1>3, <1>4

LEMMA TimeoutOwned ==
  ASSUME Owned, ~crossed, Timeout
  PROVE  Owned' /\ ~crossed'
<1>1. wire' \in Seq(Lines) /\ crossed' = crossed
  BY DisownFacts DEF Timeout, Owned
<1>2. \E b : Finish(b)
  BY DEF Timeout
<1> QED BY <1>1, <1>2, FinishedOwned

(* Nobody else touches what is owed or taken.                              *)
LEMMA OthersOwned ==
  ASSUME Owned, ~crossed,
         \/ \E a \in Attempts : Connect(a) \/ Disconnect(a) \/ AttemptStep(a) \/ LoopEnds(a) \/ Unplug(a)
         \/ \E o \in Callers : TeardownStep(o)
         \/ PollWakes \/ RefreshAll \/ SetValue \/ SendConsole \/ ToggleAutoPoll
         \/ UNCHANGED vars
  PROVE  Owned' /\ ~crossed'
<1> SUFFICES /\ wire' \in {wire, <<>>} /\ owed' \in {owed, <<>>} /\ readBuf' \in {readBuf, <<>>}
             /\ waiting' = waiting /\ crossed' = crossed
  BY EmptiedOwned
<1>1. ASSUME NEW a \in Attempts, Connect(a) \/ Disconnect(a) \/ LoopEnds(a) \/ Unplug(a)
      PROVE  /\ wire' \in {wire, <<>>} /\ owed' \in {owed, <<>>} /\ readBuf' \in {readBuf, <<>>}
             /\ waiting' = waiting /\ crossed' = crossed
  BY <1>1 DEF Connect, Disconnect, LoopEnds, LoopEndsWith, Unplug, jobs, line
<1>2. ASSUME NEW a \in Attempts, AttemptStep(a)
      PROVE  /\ wire' \in {wire, <<>>} /\ owed' \in {owed, <<>>} /\ readBuf' \in {readBuf, <<>>}
             /\ waiting' = waiting /\ crossed' = crossed
  BY <1>2 DEF AttemptStep, OpenPort, OpenFails, Booted, TriedAgain, jobs, line
<1>3. ASSUME NEW o \in Callers, TeardownStep(o)
      PROVE  /\ wire' \in {wire, <<>>} /\ owed' \in {owed, <<>>} /\ readBuf' \in {readBuf, <<>>}
             /\ waiting' = waiting /\ crossed' = crossed
  BY <1>3 DEF TeardownStep, Cancelled, PipeDone, Closed, jobs, line
<1>4. ASSUME PollWakes \/ RefreshAll \/ SetValue \/ SendConsole \/ ToggleAutoPoll \/ UNCHANGED vars
      PROVE  /\ wire' \in {wire, <<>>} /\ owed' \in {owed, <<>>} /\ readBuf' \in {readBuf, <<>>}
             /\ waiting' = waiting /\ crossed' = crossed
  BY <1>4 DEF PollWakes, RefreshAll, SetValue, SendConsole, Ask, ToggleAutoPoll, vars, jobs, line
<1> QED BY <1>1, <1>2, <1>3, <1>4

(***************************************************************************)
(* With a device that owes nothing when a command is sent, no command is   *)
(* answered with the answer to another: enqueue and the emptied buffer are *)
(* enough, however the coroutines interleave, for any number of attempts,  *)
(* commands, tries and lines, and with an impatient user as well.          *)
(***************************************************************************)
THEOREM OwnReplies ==
  ASSUME Behind = 0
  PROVE  Spec => []RepliesAreOwn
<1>1. Init => Owned /\ ~crossed
  <2>1. \A S : <<>> \in Seq(S)
    OBVIOUS
  <2> QED BY <2>1 DEF Init, Owned
<1>2. Owned /\ ~crossed /\ [Next]_vars => Owned' /\ ~crossed'
  BY OthersOwned, OnDataOwned, StartOwned, TimeoutOwned, AnswerOwned DEF Next
<1>3. ~crossed => RepliesAreOwn
  BY DEF RepliesAreOwn
<1> QED BY <1>1, <1>2, <1>3, PTL DEF Spec

-----------------------------------------------------------------------------
(***************************************************************************)
(* The attempts, the port and the teardowns of a patient user.             *)
(***************************************************************************)
LEMMA Names ==
  /\ None \notin Attempts
  /\ \A a \in Attempts : a # "user" /\ a # "poll"
  /\ \A a \in Attempts : /\ <<"click", a>> \in Callers /\ <<"loop", a>> \in Callers
                         /\ <<"attempt", a>> \in Callers
  /\ \A o \in Callers : o[1] \in {"click", "loop", "attempt"} /\ o[2] \in Attempts
BY PanelAssumption DEF Callers

LEMMA InitInv == Init => IInv
<1> SUFFICES ASSUME Init PROVE IInv
  OBVIOUS
<1>1. cmdQueue \in Seq(Jobs) /\ DOMAIN cmdQueue = {}
  BY DEF Init
<1>2. Typed
  BY <1>1 DEF Init, Typed
<1>3. Turns /\ OneAttempt /\ OneTeardown
  BY <1>1 DEF Init, Turns, OneAttempt, OneTeardown, Early
<1>4. Holds /\ Polls
  BY DEF Init, Holds, Polls, Released
<1> QED BY <1>2, <1>3, <1>4 DEF IInv

(* While an attempt opens or cleans up, and when none is at work, no job   *)
(* in the queue is an attempt's.                                           *)
LEMMA NobodyAsks ==
  ASSUME Typed, Turns, OneAttempt,
         \/ \E a \in Attempts : opener[a].at \in Early \cup {"slow"}
         \/ \A a \in Attempts : opener[a].at = "idle"
  PROVE  \A k \in DOMAIN cmdQueue : cmdQueue[k].by \notin Attempts
<1> SUFFICES ASSUME NEW k \in DOMAIN cmdQueue, cmdQueue[k].by \in Attempts PROVE FALSE
  OBVIOUS
<1>1. opener[cmdQueue[k].by].at \in Asking
  BY DEF Turns
<1> QED BY <1>1 DEF OneAttempt, Asking, Early

LEMMA TurnsKept ==
  ASSUME Typed, Turns, cmdQueue' = cmdQueue,
         \A a \in Attempts : opener[a].at \in Asking => opener'[a].at \in Asking
  PROVE  Turns'
BY DEF Turns

LEMMA TurnsFree ==
  ASSUME cmdQueue' = cmdQueue, \A k \in DOMAIN cmdQueue : cmdQueue[k].by \notin Attempts
  PROVE  Turns'
BY DEF Turns

(* A job at the end of the queue.                                          *)
LEMMA QueueGrows ==
  ASSUME Typed, Turns, NEW j \in Jobs, cmdQueue' = Append(cmdQueue, j),
         \/ j.by \notin Attempts /\ opener' = opener
         \/ /\ j.by \in Attempts /\ opener'[j.by].at \in Asking
            /\ \A k \in DOMAIN cmdQueue : cmdQueue[k].by \notin Attempts
  PROVE  Turns' /\ cmdQueue' \in Seq(Jobs) /\ cmdQueue' # <<>>
<1>1. cmdQueue \in Seq(Jobs)
  BY DEF Typed
<1>2. /\ cmdQueue' \in Seq(Jobs) /\ cmdQueue' # <<>>
      /\ \A k \in DOMAIN cmdQueue' : \/ k \in DOMAIN cmdQueue /\ cmdQueue'[k] = cmdQueue[k]
                                     \/ k = Len(cmdQueue) + 1 /\ cmdQueue'[k] = j
  BY <1>1, QueueFacts
<1>3. CASE j.by \notin Attempts /\ opener' = opener
  BY <1>2, <1>3 DEF Turns
<1>4. CASE /\ j.by \in Attempts /\ opener'[j.by].at \in Asking
           /\ \A k \in DOMAIN cmdQueue : cmdQueue[k].by \notin Attempts
  BY <1>2, <1>4 DEF Turns
<1> QED BY <1>2, <1>3, <1>4

LEMMA JobFacts ==
  /\ \A a \in Attempts : Job("list", a) \in Jobs /\ Job("list", a).by = a
  /\ \A what \in {"list", "get", "set", "raw"} :
       /\ Job(what, "user") \in Jobs /\ Job(what, "user").by = "user"
       /\ Job(what, "poll") \in Jobs /\ Job(what, "poll").by = "poll"
BY DEF Job, Jobs

(* Steps of the command queue, which leave the link as it is.              *)
LEMMA LinkKept ==
  ASSUME OneAttempt, OneTeardown, Holds, Typed,
         UNCHANGED <<connState, link, tear>>,
         \/ opener' = opener
         \/ \E a \in Attempts :
              /\ opener[a].at \in Asking \cup {"slow"} /\ opener'[a].at \in {"idle", "slow"} \cup Asking
              /\ opener'[a].died = opener[a].died
              /\ \A b \in Attempts \ {a} : opener'[b] = opener[b]
  PROVE  OneAttempt' /\ OneTeardown' /\ Holds'
<1> USE DEF link
<1>1. CASE opener' = opener
  BY <1>1 DEF OneAttempt, OneTeardown, Holds, Released
<1>2. ASSUME NEW a \in Attempts,
             opener[a].at \in Asking \cup {"slow"}, opener'[a].at \in {"idle", "slow"} \cup Asking,
             opener'[a].died = opener[a].died,
             \A b \in Attempts \ {a} : opener'[b] = opener[b]
      PROVE  OneAttempt' /\ OneTeardown' /\ Holds'
  <2>1. \A b \in Attempts : opener[b].at \in Early \/ opener'[b].at \in Early => opener'[b] = opener[b]
    BY <1>2 DEF Early, Asking
  <2>2. OneAttempt'
    BY <1>2, <2>1 DEF OneAttempt, Early, Asking
  <2>3. OneTeardown'
    BY <2>1, Names DEF OneTeardown, Early
  <2>4. Holds'
    BY <2>1 DEF Holds, Released, Early
  <2> QED BY <2>2, <2>3, <2>4
<1> QED BY <1>1, <1>2

(***************************************************************************)
(* Finish: only an attempt that asked goes on, and only to wait or to its  *)
(* end.                                                                    *)
(***************************************************************************)
LEMMA FinishInv ==
  ASSUME IInv, cmdQueue # <<>>, NEW b, Finish(b), UNCHANGED <<connState, link, tear, pollOn>>
  PROVE  IInv'
<1> DEFINE job == Head(cmdQueue)
           rest == Tail(cmdQueue)
<1>1. /\ cmdQueue \in Seq(Jobs) /\ job = cmdQueue[1] /\ 1 \in DOMAIN cmdQueue /\ job \in Jobs
      /\ rest \in Seq(Jobs)
      /\ \A k \in DOMAIN rest : k + 1 \in DOMAIN cmdQueue /\ rest[k] = cmdQueue[k + 1]
                                /\ k \in Int /\ k >= 1
  BY QueueFacts DEF IInv, Typed
<1>2. waiting' = FALSE
      /\ cmdQueue' \in {rest, Append(rest, Job("get", "user")), Append(rest, Job("get", "poll"))}
      /\ polling' \in {polling, "sleep"}
  BY DEF Finish
<1>3. \/ opener' = opener /\ job.by \notin Attempts
      \/ /\ job.by \in Attempts /\ opener[job.by].at \in Asking
         /\ opener'[job.by].at \in {"idle", "slow"}
         /\ opener'[job.by].died = opener[job.by].died
         /\ \A a \in Attempts \ {job.by} : opener'[a] = opener[a]
         /\ opener' \in [Attempts -> [at : {"idle", "slow"} \cup Early \cup Asking, died : BOOLEAN]]
  <2>1. CASE job.by \notin Attempts
    BY <2>1 DEF Finish
  <2>2. CASE job.by \in Attempts
    <3>1. opener[job.by].at \in Asking
      BY <1>1, <2>2 DEF IInv, Turns
    <3>2. PICK x \in {"idle", "slow"} : opener' = [opener EXCEPT ![job.by].at = x]
      <4>1. opener' = [opener EXCEPT ![job.by].at =
                         IF @ = "list1" /\ ~registers' THEN "slow" ELSE "idle"]
        BY <2>2 DEF Finish
      <4> HIDE DEF job
      <4>2. CASE opener[job.by].at = "list1" /\ ~registers'
        BY <2>2, <4>1, <4>2
      <4>3. CASE ~(opener[job.by].at = "list1" /\ ~registers')
        BY <2>2, <4>1, <4>3
      <4> QED BY <4>2, <4>3
    <3> HIDE DEF job
    <3> QED BY <2>2, <3>1, <3>2 DEF IInv, Typed
  <2> QED BY <2>1, <2>2
<1>4. /\ \A k \in DOMAIN rest :
           rest[k].by \in Attempts => job.by \notin Attempts /\ opener[rest[k].by].at \in Asking
      /\ \A j, k \in DOMAIN rest : rest[j].by \in Attempts /\ rest[k].by \in Attempts => j = k
  <2>1. ASSUME NEW k \in DOMAIN rest, rest[k].by \in Attempts
        PROVE  job.by \notin Attempts /\ opener[rest[k].by].at \in Asking
    <3>1. k + 1 # 1 /\ k + 1 \in DOMAIN cmdQueue /\ rest[k] = cmdQueue[k + 1]
      BY <1>1
    <3> HIDE DEF rest
    <3> QED BY <1>1, <2>1, <3>1 DEF IInv, Turns
  <2>2. ASSUME NEW j \in DOMAIN rest, NEW k \in DOMAIN rest,
               rest[j].by \in Attempts, rest[k].by \in Attempts
        PROVE  j = k
    <3>1. j + 1 = k + 1 /\ j \in Int /\ k \in Int
      BY <1>1, <2>2 DEF IInv, Turns
    <3> QED BY <3>1
  <2> QED BY <2>1, <2>2
<1> HIDE DEF job, rest
<1>5. Turns' /\ cmdQueue' \in Seq(Jobs)
  <2>1. ASSUME NEW j \in Jobs, j.by \notin Attempts, cmdQueue' = Append(rest, j)
        PROVE  Turns' /\ cmdQueue' \in Seq(Jobs)
    <3>1. /\ cmdQueue' \in Seq(Jobs)
          /\ \A k \in DOMAIN cmdQueue' : \/ k \in DOMAIN rest /\ cmdQueue'[k] = rest[k]
                                         \/ k = Len(rest) + 1 /\ cmdQueue'[k] = j
      BY <1>1, <2>1, QueueFacts
    <3> QED BY <1>3, <1>4, <2>1, <3>1 DEF Turns
  <2>2. CASE cmdQueue' = rest
    BY <1>1, <1>3, <1>4, <2>2 DEF Turns
  <2>3. /\ Job("get", "user") \in Jobs /\ Job("get", "user").by \notin Attempts
        /\ Job("get", "poll") \in Jobs /\ Job("get", "poll").by \notin Attempts
    BY JobFacts, Names
  <2> QED BY <1>2, <2>1, <2>2, <2>3
<1>6. Typed'
  BY <1>2, <1>3, <1>5 DEF IInv, Typed, link
<1>7. OneAttempt' /\ OneTeardown' /\ Holds'
  BY <1>3, LinkKept DEF IInv
<1>8. Polls'
  BY <1>2 DEF IInv, Polls
<1> QED BY <1>5, <1>6, <1>7, <1>8 DEF IInv

(* Steps that leave the link, the attempts and the queue.                  *)
LEMMA QuietInv ==
  ASSUME IInv, UNCHANGED <<connState, port, reader, writer, open, running, cancelled, opener, tear,
                           poll, cmdQueue, waiting>>
  PROVE  IInv'
<1>1. Typed'
  BY DEF IInv, Typed, poll
<1>2. Turns' /\ OneAttempt' /\ OneTeardown'
  BY DEF IInv, Turns, OneAttempt, OneTeardown
<1>3. Holds' /\ Polls'
  BY DEF IInv, Holds, Released, Polls, poll
<1> QED BY <1>1, <1>2, <1>3 DEF IInv

LEMMA LineInv ==
  ASSUME IInv, (\E n \in 1 .. Len(wire) : OnData(n)) \/ Start \/ Timeout \/ Answer
  PROVE  IInv'
<1>1. CASE \E n \in 1 .. Len(wire) : OnData(n)
  <2>1. UNCHANGED <<connState, link, tear, pollOn>>
    BY <1>1, Zenon DEF OnData
  <2>2. \/ UNCHANGED <<cmdQueue, waiting, opener, polling>>
        \/ \E b \in BOOLEAN : Finish(b) /\ waiting
    BY <1>1, ZenonT(60) DEF OnData, Take
  <2>3. CASE UNCHANGED <<cmdQueue, waiting, opener, polling>>
    BY <2>1, <2>3, QuietInv DEF link, poll
  <2>4. CASE \E b \in BOOLEAN : Finish(b) /\ waiting
    BY <2>1, <2>4, FinishInv DEF IInv, Typed
  <2> QED BY <2>2, <2>3, <2>4
<1>2. CASE Start
  <2>1. UNCHANGED <<connState, link, tear, pollOn>> /\ cmdQueue # <<>>
    BY <1>2 DEF Start, StartWith
  <2>2. CASE writer = None \/ writer \in plugged
    <3>1. UNCHANGED <<opener, polling, cmdQueue>>
      BY <1>2, <2>2 DEF Start, StartWith
    <3>2. Typed'
      BY <2>1, <3>1 DEF IInv, Typed, link
    <3>3. OneAttempt' /\ OneTeardown' /\ Holds' /\ Turns' /\ Polls'
      BY <2>1, <3>1 DEF IInv, OneAttempt, OneTeardown, Holds, Released, Turns, Polls, link
    <3> QED BY <3>2, <3>3 DEF IInv
  <2>3. CASE ~(writer = None \/ writer \in plugged)
    BY <1>2, <2>1, <2>3, FinishInv DEF Start, StartWith
  <2> QED BY <2>2, <2>3
<1>3. CASE Timeout
  <2>1. UNCHANGED <<connState, link, tear, pollOn>> /\ waiting
    BY <1>3 DEF Timeout
  <2>2. \E b : Finish(b)
    BY <1>3 DEF Timeout
  <2> QED BY <2>1, <2>2, FinishInv DEF IInv, Typed
<1>4. CASE Answer
  BY <1>4, QuietInv DEF Answer, link, jobs
<1> QED BY <1>1, <1>2, <1>3, <1>4

(* A job more, of the user or the poll loop.                               *)
LEMMA AskedInv ==
  ASSUME IInv, UNCHANGED <<connState, link, opener, tear, waiting>>,
         pollOn' \in BOOLEAN, polling' \in {"off", "get", "sleep"}, Polls',
         \/ cmdQueue' = cmdQueue
         \/ \E what \in {"list", "get", "set", "raw"}, by \in {"user", "poll"} :
              cmdQueue' = Append(cmdQueue, Job(what, by))
  PROVE  IInv'
<1>1. Turns' /\ cmdQueue' \in Seq(Jobs) /\ (cmdQueue' = cmdQueue \/ cmdQueue' # <<>>)
  <2>1. CASE cmdQueue' = cmdQueue
    BY <2>1 DEF IInv, Turns, Typed
  <2>2. ASSUME NEW what \in {"list", "get", "set", "raw"}, NEW by \in {"user", "poll"},
               cmdQueue' = Append(cmdQueue, Job(what, by))
        PROVE  Turns' /\ cmdQueue' \in Seq(Jobs) /\ cmdQueue' # <<>>
    <3>1. Job(what, by) \in Jobs /\ Job(what, by).by \notin Attempts
      BY JobFacts, Names
    <3> QED BY <2>2, <3>1, QueueGrows DEF IInv
  <2> QED BY <2>1, <2>2
<1>2. Typed'
  BY <1>1 DEF IInv, Typed, link
<1>3. OneAttempt' /\ OneTeardown' /\ Holds'
  BY LinkKept DEF IInv
<1> QED BY <1>1, <1>2, <1>3 DEF IInv

LEMMA UserInv ==
  ASSUME IInv, RefreshAll \/ SetValue \/ SendConsole \/ ToggleAutoPoll \/ PollWakes
  PROVE  IInv'
<1>1. CASE RefreshAll \/ SetValue \/ SendConsole
  <2>1. UNCHANGED <<connState, link, opener, tear, poll, waiting>>
    BY <1>1 DEF RefreshAll, SetValue, SendConsole, Ask
  <2>2. \E what \in {"list", "set", "raw"} : cmdQueue' = Append(cmdQueue, Job(what, "user"))
    BY <1>1 DEF RefreshAll, SetValue, SendConsole, Ask, Enqueue
  <2>3. Polls' /\ pollOn' \in BOOLEAN /\ polling' \in {"off", "get", "sleep"}
    BY <2>1 DEF IInv, Polls, Typed, poll
  <2> QED BY <2>1, <2>2, <2>3, AskedInv
<1>2. ASSUME PollRound(cmdQueue), pollOn' \in BOOLEAN,
             UNCHANGED <<connState, link, opener, tear, waiting>>,
             pollOn' => connState = "ready"
      PROVE  IInv'
  <2>1. /\ polling' \in {"off", "get", "sleep"} /\ (pollOn' /\ connState' = "ready" => polling' # "off")
        /\ cmdQueue' \in {cmdQueue, Append(cmdQueue, Job("get", "poll"))}
    BY <1>2 DEF PollRound
  <2>2. Polls'
    BY <1>2, <2>1 DEF Polls
  <2> QED BY <1>2, <2>1, <2>2, AskedInv
<1>3. CASE ToggleAutoPoll
  <2>1. connState = "ready" /\ pollOn' \in BOOLEAN /\ UNCHANGED <<connState, link, opener, tear, waiting>>
    BY <1>3 DEF ToggleAutoPoll
  <2>2. CASE pollOn' /\ polling = "off"
    BY <1>2, <1>3, <2>1, <2>2 DEF ToggleAutoPoll
  <2>3. CASE ~(pollOn' /\ polling = "off")
    <3>1. polling' = polling /\ cmdQueue' = cmdQueue
      BY <1>3, <2>3 DEF ToggleAutoPoll
    <3>2. Polls'
      BY <2>1, <2>3, <3>1 DEF Polls
    <3> QED BY <2>1, <3>1, <3>2, AskedInv DEF IInv, Typed
  <2> QED BY <2>2, <2>3
<1>4. CASE PollWakes
  <2>1. PollRound(cmdQueue) /\ UNCHANGED <<connState, link, opener, tear, waiting, pollOn>>
    BY <1>4 DEF PollWakes
  <2> QED BY <1>2, <2>1 DEF IInv, Typed, Polls
<1> QED BY <1>1, <1>3, <1>4

-----------------------------------------------------------------------------
(* The user connects only when nothing is held and nobody is at work.      *)
LEMMA ConnectInv ==
  ASSUME ~Impatient, IInv, NEW a \in Attempts, Connect(a)
  PROVE  IInv'
<1>1. /\ connState = "disconnected" /\ connState' = "opening"
      /\ \A b \in Attempts : opener[b].at = "idle"
      /\ opener' = [b \in Attempts |->
                      IF b = a THEN [at |-> "openPort", died |-> FALSE]
                      ELSE [opener[b] EXCEPT !.died = opener[b].at # "idle"]]
      /\ UNCHANGED <<link, tear, poll, cmdQueue, waiting>>
  BY DEF Connect, jobs
<1>2. /\ opener' \in [Attempts -> [at : {"idle", "slow"} \cup Early \cup Asking, died : BOOLEAN]]
      /\ opener'[a].at = "openPort" /\ ~opener'[a].died
      /\ \A b \in Attempts \ {a} : opener'[b].at = "idle"
  <2>1. \A b \in Attempts : opener[b] \in [at : {"idle", "slow"} \cup Early \cup Asking, died : BOOLEAN]
    BY DEF IInv, Typed
  <2> QED BY <1>1, <2>1 DEF Early
<1>3. Typed'
  BY <1>1, <1>2 DEF IInv, Typed, link, poll
<1>4. Turns'
  BY <1>1, TurnsFree, NobodyAsks DEF IInv
<1>5. OneAttempt'
  BY <1>1, <1>2 DEF OneAttempt, Early, Asking
<1>6. \A o \in Callers : tear[o] = "no"
  BY <1>1, Names DEF IInv, OneTeardown
<1>7. OneTeardown'
  BY <1>1, <1>6 DEF OneTeardown
<1>8. Holds'
  BY <1>1, <1>2, <1>6 DEF IInv, Holds, Released, link, Typed
<1>9. Polls'
  BY <1>1 DEF IInv, Polls, poll
<1> QED BY <1>3, <1>4, <1>5, <1>7, <1>8, <1>9 DEF IInv

(* A teardown begins, of a panel that was ready.                           *)
LEMMA ClosingInv ==
  ASSUME IInv, NEW o \in Callers, o[1] # "attempt", connState = "ready", connState' = "closing",
         Teardown(o), running' \subseteq running,
         UNCHANGED <<port, reader, writer, open, opener, polling, cmdQueue, waiting>>
  PROVE  IInv'
<1>1. /\ \A p \in Callers : tear[p] = "no"
      /\ \A a \in Attempts : opener[a].at \notin Early
  BY Names DEF IInv, OneTeardown, OneAttempt, Early
<1>2. tear'[o] = "cancel" /\ \A p \in Callers \ {o} : tear'[p] = "no"
  BY <1>1 DEF Teardown, IInv, Typed
<1>3. pollOn' = FALSE /\ cancelled' = cancelled \cup ({reader} \ {None})
  BY DEF Teardown
<1>4. Typed'
  BY <1>3 DEF IInv, Typed, Teardown
<1>5. Turns'
  BY TurnsKept DEF IInv
<1>6. OneAttempt'
  BY <1>1 DEF IInv, OneAttempt
<1>7. OneTeardown'
  BY <1>2 DEF OneTeardown
<1>8. Holds'
  BY <1>1, <1>2, <1>3 DEF IInv, Holds, Released, Early
<1>9. Polls'
  BY <1>3 DEF Polls
<1> QED BY <1>4, <1>5, <1>6, <1>7, <1>8, <1>9 DEF IInv

(* An attempt that fails, or finds it has died, cleans up after itself.    *)
LEMMA FailInv ==
  ASSUME IInv, NEW a \in Attempts, opener[a].at \in {"openPort", "boot"}, Fail(a),
         UNCHANGED <<connState, port, reader, writer, open, running, polling, cmdQueue, waiting>>
  PROVE  IInv'
<1> DEFINE o == <<"attempt", a>>
<1>1. o \in Callers /\ o[1] = "attempt" /\ o[2] = a
  BY Names
<1>2. opener[a].at \in Early /\ connState = "opening" /\ \A b \in Attempts \ {a} : opener[b].at = "idle"
  BY DEF IInv, OneAttempt, Early
<1>3. \A p \in Callers : tear[p] = "no"
  BY <1>2, Names DEF IInv, OneTeardown, Early
<1> HIDE DEF o
<1>4. /\ tear' = [tear EXCEPT ![o] = "cancel"]
      /\ pollOn' = FALSE /\ cancelled' = cancelled \cup ({reader} \ {None})
      /\ opener' = [opener EXCEPT ![a].at = "cleanup"]
  BY DEF Fail, Teardown, o
<1>5. tear'[o] = "cancel" /\ \A p \in Callers \ {o} : tear'[p] = "no"
  BY <1>1, <1>3, <1>4 DEF IInv, Typed
<1>6. opener'[a].at = "cleanup" /\ \A b \in Attempts \ {a} : opener'[b] = opener[b]
  BY <1>4 DEF IInv, Typed
<1>7. Typed'
  <2>1. opener' \in [Attempts -> [at : {"idle", "slow"} \cup Early \cup Asking, died : BOOLEAN]]
    BY <1>4 DEF IInv, Typed, Early
  <2>2. tear' \in [Callers -> {"no", "cancel", "pipe", "close"}]
    BY <1>4 DEF IInv, Typed
  <2> QED BY <1>4, <2>1, <2>2 DEF IInv, Typed
<1>8. Turns'
  BY <1>2, TurnsFree, NobodyAsks DEF IInv
<1>9. OneAttempt'
  BY <1>2, <1>6 DEF IInv, OneAttempt, Early, Asking
<1>10. OneTeardown'
  BY <1>1, <1>5, <1>6 DEF OneTeardown
<1>11. Holds'
  <2>1. port \in {a, None}
    BY DEF IInv, Holds, Released
  <2> QED BY <1>2, <1>4, <1>5, <1>6, <2>1 DEF IInv, Holds, Released, Typed
<1>12. Polls'
  BY <1>4 DEF Polls
<1> QED BY <1>7, <1>8, <1>9, <1>10, <1>11, <1>12 DEF IInv

LEMMA OpenPortInv ==
  ASSUME IInv, NEW a \in Attempts, OpenPort(a)
  PROVE  IInv'
<1>1. /\ opener[a].at = "openPort" /\ opener' = [opener EXCEPT ![a].at = "boot"]
      /\ port' = a /\ reader' = a /\ writer' = a
      /\ open' = open \cup {a} /\ running' = running \cup {a} /\ cancelled' = cancelled \ {a}
      /\ UNCHANGED <<connState, tear, poll, cmdQueue, waiting>>
  BY DEF OpenPort, jobs
<1>2. opener[a].at \in Early /\ connState = "opening" /\ \A b \in Attempts \ {a} : opener[b].at = "idle"
  BY <1>1 DEF IInv, OneAttempt, Early
<1>3. Released /\ open = {} /\ running = {}
  BY <1>1, Names DEF IInv, Holds, Released, Typed
<1>4. \A p \in Callers : tear[p] = "no"
  BY <1>1, <1>2, Names DEF IInv, OneTeardown, Early
<1>5. opener'[a].at = "boot" /\ \A b \in Attempts \ {a} : opener'[b] = opener[b]
  BY <1>1 DEF IInv, Typed
<1>6. Typed'
  <2>1. opener' \in [Attempts -> [at : {"idle", "slow"} \cup Early \cup Asking, died : BOOLEAN]]
    BY <1>1 DEF IInv, Typed, Early
  <2> QED BY <1>1, <2>1 DEF IInv, Typed, poll
<1>7. Turns'
  BY <1>1, <1>2, TurnsFree, NobodyAsks DEF IInv
<1>8. OneAttempt' /\ OneTeardown'
  BY <1>1, <1>2, <1>4, <1>5 DEF IInv, OneAttempt, OneTeardown, Early, Asking
<1>9. Holds'
  BY <1>1, <1>2, <1>3, <1>4, <1>5 DEF Holds
<1>10. Polls'
  BY <1>1 DEF IInv, Polls, poll
<1> QED BY <1>6, <1>7, <1>8, <1>9, <1>10 DEF IInv

(* The second drain is over: ready, if the loop has not ended meanwhile.   *)
LEMMA BootedInv ==
  ASSUME IInv, NEW a \in Attempts, Booted(a)
  PROVE  IInv'
<1>1. /\ opener[a].at = "boot"
      /\ UNCHANGED <<port, reader, writer, open, running, polling, waiting>>
  BY DEF Booted
<1>2. CASE opener[a].died
  BY <1>1, <1>2, FailInv DEF Booted
<1>3. CASE ~opener[a].died
  <2>1. /\ connState' = "ready" /\ opener' = [opener EXCEPT ![a].at = "list1"]
        /\ cmdQueue' = Append(cmdQueue, Job("list", a))
        /\ UNCHANGED <<tear, pollOn, cancelled>>
    BY <1>3 DEF Booted, Enqueue
  <2>2. opener[a].at \in Early /\ connState = "opening" /\ \A b \in Attempts \ {a} : opener[b].at = "idle"
    BY <1>1 DEF IInv, OneAttempt, Early
  <2>3. port = a /\ a \in running /\ \A p \in Callers : tear[p] = "no"
    BY <1>1, <1>3, <2>2, Names DEF IInv, Holds, OneTeardown, Early
  <2>4. opener'[a].at = "list1" /\ opener'[a].died = opener[a].died
        /\ \A b \in Attempts \ {a} : opener'[b] = opener[b]
    BY <2>1 DEF IInv, Typed
  <2>5. Turns' /\ cmdQueue' \in Seq(Jobs) /\ cmdQueue' # <<>>
    BY <2>1, <2>2, <2>4, QueueGrows, NobodyAsks, JobFacts DEF IInv, Asking
  <2>6. Typed'
    <3>1. opener' \in [Attempts -> [at : {"idle", "slow"} \cup Early \cup Asking, died : BOOLEAN]]
      BY <2>1 DEF IInv, Typed, Asking
    <3> QED BY <1>1, <2>1, <2>5, <3>1 DEF IInv, Typed
  <2>7. OneAttempt' /\ OneTeardown'
    BY <1>3, <2>1, <2>2, <2>3, <2>4 DEF IInv, OneAttempt, OneTeardown, Early, Asking
  <2>8. Holds'
    BY <1>1, <2>1, <2>2, <2>3, <2>4 DEF IInv, Holds, Early
  <2>9. Polls'
    BY <2>1, <2>2 DEF IInv, Polls
  <2> QED BY <2>5, <2>6, <2>7, <2>8, <2>9 DEF IInv
<1> QED BY <1>2, <1>3

(* An attempt that waits to try again has not died: nobody has bumped the  *)
(* generation since it was ready.                                          *)
LEMMA TriedAgainInv ==
  ASSUME IInv, NEW a \in Attempts, TriedAgain(a)
  PROVE  IInv'
<1>1. opener[a].at = "slow" /\ ~opener[a].died
  BY DEF TriedAgain, IInv, OneAttempt
<1>2. UNCHANGED <<connState, port, reader, writer, open, running, cancelled, tear, poll, waiting>>
  BY <1>1 DEF TriedAgain, poll
<1>3. \/ /\ opener' = [opener EXCEPT ![a].at = "list2"]
         /\ cmdQueue' = Append(cmdQueue, Job("list", a))
      \/ opener' = [opener EXCEPT ![a].at = "idle"] /\ cmdQueue' = cmdQueue
  BY <1>1 DEF TriedAgain, Enqueue
<1>4. /\ opener'[a].at \in {"list2", "idle"} /\ opener'[a].died = opener[a].died
      /\ \A b \in Attempts \ {a} : opener'[b] = opener[b]
      /\ opener' \in [Attempts -> [at : {"idle", "slow"} \cup Early \cup Asking, died : BOOLEAN]]
  <2>1. ASSUME NEW x \in {"list2", "idle"}, opener' = [opener EXCEPT ![a].at = x]
        PROVE  /\ opener'[a].at \in {"list2", "idle"} /\ opener'[a].died = opener[a].died
               /\ \A b \in Attempts \ {a} : opener'[b] = opener[b]
               /\ opener' \in [Attempts -> [at : {"idle", "slow"} \cup Early \cup Asking, died : BOOLEAN]]
    BY <2>1 DEF IInv, Typed, Asking
  <2> QED BY <1>3, <2>1
<1>5. Turns' /\ cmdQueue' \in Seq(Jobs) /\ (cmdQueue' = cmdQueue \/ cmdQueue' # <<>>)
  <2>1. \A k \in DOMAIN cmdQueue : cmdQueue[k].by \notin Attempts
    BY <1>1, NobodyAsks DEF IInv
  <2>2. CASE opener' = [opener EXCEPT ![a].at = "idle"] /\ cmdQueue' = cmdQueue
    BY <2>1, <2>2, TurnsFree DEF IInv, Typed
  <2>3. CASE /\ opener' = [opener EXCEPT ![a].at = "list2"]
             /\ cmdQueue' = Append(cmdQueue, Job("list", a))
    <3>1. opener'[a].at \in Asking
      BY <2>3 DEF IInv, Typed, Asking
    <3> QED BY <2>1, <2>3, <3>1, QueueGrows, JobFacts DEF IInv
  <2> QED BY <1>3, <2>2, <2>3
<1>6. Typed'
  BY <1>2, <1>4, <1>5 DEF IInv, Typed, poll
<1>7. OneAttempt'
  BY <1>1, <1>2, <1>4 DEF IInv, OneAttempt, Early, Asking
<1>8. \A b \in Attempts : opener[b].at \in Early \/ opener'[b].at \in Early => opener'[b] = opener[b]
  BY <1>1, <1>4 DEF Early
<1>9. OneTeardown' /\ Holds'
  BY <1>2, <1>8, Names DEF IInv, OneTeardown, Holds, Released, Early
<1>10. Polls'
  BY <1>2 DEF IInv, Polls, poll
<1> QED BY <1>5, <1>6, <1>7, <1>9, <1>10 DEF IInv

(* The read loop's end closes a ready panel, and dooms an opening one.     *)
LEMMA LoopEndsInv ==
  ASSUME IInv, NEW a \in Attempts, LoopEnds(a)
  PROVE  IInv'
<1>1. /\ a \in running /\ running' = running \ {a}
      /\ UNCHANGED <<port, reader, writer, open, polling, cmdQueue, waiting>>
  BY DEF LoopEnds, LoopEndsWith, jobs
<1>2. CASE connState = "ready"
  <2>1. connState' = "closing" /\ Teardown(<<"loop", a>>) /\ opener' = opener
    BY <1>2 DEF LoopEnds, LoopEndsWith
  <2>2. <<"loop", a>> \in Callers /\ <<"loop", a>>[1] # "attempt"
    BY Names
  <2> QED BY <1>1, <1>2, <2>1, <2>2, ClosingInv
<1>3. CASE connState = "opening"
  <2>1. /\ UNCHANGED <<connState, tear, pollOn, cancelled>>
        /\ opener' = [b \in Attempts |-> [opener[b] EXCEPT !.died = opener[b].at # "idle"]]
    BY <1>3 DEF LoopEnds, LoopEndsWith, Bump
  <2>2. \A b \in Attempts : opener[b] \in [at : {"idle", "slow"} \cup Early \cup Asking, died : BOOLEAN]
    BY DEF IInv, Typed
  <2>3. /\ opener' \in [Attempts -> [at : {"idle", "slow"} \cup Early \cup Asking, died : BOOLEAN]]
        /\ \A b \in Attempts : /\ opener'[b].at = opener[b].at
                               /\ opener'[b].died <=> opener[b].at # "idle"
    BY <2>1, <2>2
  <2>4. \A b \in Attempts : opener[b].at \in {"idle", "boot", "cleanup"}
    <3>1. \A b \in Attempts : opener[b].at # "openPort"
      BY <1>1, Names DEF IInv, Holds, Released
    <3>2. PICK b \in Attempts : opener[b].at \in Early
      BY <1>3 DEF IInv, OneAttempt
    <3> QED BY <3>1, <3>2 DEF IInv, OneAttempt, Early
  <2>5. Typed' /\ Turns'
    <3>1. Turns'
      BY <1>1, <2>3, TurnsKept DEF IInv
    <3>2. opener' \in [Attempts -> [at : {"idle", "slow"} \cup Early \cup Asking, died : BOOLEAN]]
      BY <2>3, Zenon
    <3>3. running \subseteq Attempts => running' \subseteq Attempts
      BY <1>1, Zenon
    <3>4. Typed'
      BY <1>1, <2>1, <3>2, <3>3, ZenonT(60) DEF IInv, Typed
    <3> QED BY <3>1, <3>4
  <2>6. OneAttempt'
    BY <1>3, <2>1, <2>3, <2>4, ZenonT(60) DEF IInv, OneAttempt, Asking
  <2>7. OneTeardown'
    BY <2>1, <2>3, Names DEF IInv, OneTeardown
  <2>8. Holds'
    BY <1>1, <1>3, <2>1, <2>3 DEF IInv, Holds, Released
  <2>9. Polls'
    BY <1>1, <2>1 DEF IInv, Polls
  <2> QED BY <2>5, <2>6, <2>7, <2>8, <2>9 DEF IInv
<1>4. CASE connState \notin {"ready", "opening"}
  <2>1. UNCHANGED <<connState, tear, pollOn, cancelled, opener>>
    BY <1>4 DEF LoopEnds, LoopEndsWith
  <2>2. Typed' /\ Turns' /\ OneAttempt' /\ OneTeardown' /\ Polls'
    BY <1>1, <2>1 DEF IInv, Typed, Turns, OneAttempt, OneTeardown, Polls
  <2>3. \A b \in Attempts : opener[b].at \notin Early
    BY <1>4 DEF IInv, OneAttempt
  <2>4. Holds'
    BY <1>1, <1>4, <2>1, <2>3 DEF IInv, Holds, Released, Early
  <2> QED BY <2>2, <2>4 DEF IInv
<1> QED BY <1>2, <1>3, <1>4

-----------------------------------------------------------------------------
(* A step of the teardown under way.                                       *)
LEMMA TeardownFacts ==
  ASSUME IInv, NEW o \in Callers, tear[o] # "no"
  PROVE  /\ \A p \in Callers \ {o} : tear[p] = "no"
         /\ connState \in {"closing", "opening"}
         /\ \A a \in Attempts : opener[a].at \notin {"openPort", "boot"}
         /\ connState = "opening" =>
              o[1] = "attempt" /\ opener[o[2]].at = "cleanup"
              /\ \A a \in Attempts \ {o[2]} : opener[a].at = "idle"
         /\ connState = "closing" => \A a \in Attempts : opener[a].at \notin Early
<1>1. \A p \in Callers \ {o} : tear[p] = "no"
  BY DEF IInv, OneTeardown
<1>2. CASE o[1] = "attempt"
  <2>1. o[2] \in Attempts /\ opener[o[2]].at = "cleanup"
    BY <1>2, Names DEF IInv, OneTeardown
  <2>2. connState = "opening" /\ \A a \in Attempts \ {o[2]} : opener[a].at = "idle"
    BY <2>1 DEF IInv, OneAttempt, Early
  <2> QED BY <1>1, <1>2, <2>1, <2>2
<1>3. CASE o[1] # "attempt"
  <2>1. connState = "closing" /\ \A a \in Attempts : opener[a].at \notin Early
    BY <1>3 DEF IInv, OneTeardown, OneAttempt
  <2> QED BY <1>1, <2>1 DEF Early
<1> QED BY <1>2, <1>3

LEMMA ReleaseInv ==
  ASSUME IInv, NEW o \in Callers, Cancelled(o) \/ PipeDone(o)
  PROVE  IInv'
<1>1. /\ UNCHANGED <<connState, port, open, running, cancelled, opener, poll, cmdQueue, waiting>>
      /\ \/ /\ tear[o] = "cancel" /\ cancelled \cap running = {}
            /\ tear' = [tear EXCEPT ![o] = "pipe"] /\ reader' = None /\ writer' = writer
         \/ /\ tear[o] = "pipe"
            /\ tear' = [tear EXCEPT ![o] = "close"] /\ writer' = None /\ reader' = reader
  BY DEF Cancelled, PipeDone, jobs
<1>2. /\ tear[o] # "no" /\ tear'[o] \in {"pipe", "close"} /\ \A p \in Callers \ {o} : tear'[p] = tear[p]
      /\ tear' \in [Callers -> {"no", "cancel", "pipe", "close"}]
  BY <1>1 DEF IInv, Typed
<1>3. reader' = None /\ running = {} /\ (tear'[o] = "close" => writer' = None)
  BY <1>1, Names DEF IInv, Typed, Holds
<1>4. Typed' /\ Turns' /\ OneAttempt' /\ Polls'
  BY <1>1, <1>2 DEF IInv, Typed, Turns, OneAttempt, Polls, poll
<1>5. OneTeardown'
  BY <1>1, <1>2 DEF IInv, OneTeardown
<1>6. Holds'
  BY <1>1, <1>2, <1>3, TeardownFacts DEF IInv, Holds
<1> QED BY <1>4, <1>5, <1>6 DEF IInv

LEMMA ClosedInv ==
  ASSUME IInv, NEW o \in Callers, Closed(o)
  PROVE  IInv'
<1>1. /\ tear[o] = "close" /\ tear' = [tear EXCEPT ![o] = "no"]
      /\ open' = open \ {port} /\ port' = None /\ connState' = "disconnected"
      /\ opener' = IF o[1] = "attempt" THEN [opener EXCEPT ![o[2]].at = "idle"] ELSE opener
      /\ UNCHANGED <<reader, writer, running, cancelled, poll, cmdQueue, waiting>>
  BY DEF Closed, jobs
<1>2. /\ \A p \in Callers : tear'[p] = "no"
      /\ tear' \in [Callers -> {"no", "cancel", "pipe", "close"}]
  BY <1>1, TeardownFacts DEF IInv, Typed
<1>3. reader = None /\ writer = None /\ open' = {} /\ running = {}
  BY <1>1, Names DEF IInv, Holds, Typed
<1>4. /\ opener' \in [Attempts -> [at : {"idle", "slow"} \cup Early \cup Asking, died : BOOLEAN]]
      /\ \A a \in Attempts : opener'[a].at \notin Early /\ opener'[a].died = opener[a].died
                             /\ (opener[a].at \notin Early => opener'[a].at = opener[a].at)
  <2>1. CASE o[1] = "attempt"
    <3>1. o[2] \in Attempts /\ opener[o[2]].at = "cleanup"
          /\ \A a \in Attempts \ {o[2]} : opener[a].at = "idle"
      BY <1>1, <2>1, Names DEF IInv, OneTeardown, OneAttempt
    <3>2. opener' = [opener EXCEPT ![o[2]].at = "idle"]
      BY <1>1, <2>1
    <3> QED BY <3>1, <3>2 DEF IInv, Typed, Early
  <2>2. CASE o[1] # "attempt"
    <3>1. connState = "closing"
      BY <1>1, <2>2 DEF IInv, OneTeardown
    <3> QED BY <1>1, <2>2, <3>1 DEF IInv, Typed, OneAttempt
  <2> QED BY <2>1, <2>2
<1>5. Typed'
  BY <1>1, <1>2, <1>3, <1>4 DEF IInv, Typed, poll
<1>6. Turns'
  BY <1>1, <1>4, TurnsKept DEF IInv, Asking, Early
<1>7. OneAttempt' /\ OneTeardown'
  BY <1>1, <1>2, <1>4 DEF IInv, OneAttempt, OneTeardown, Early, Asking
<1>8. Holds'
  BY <1>1, <1>2, <1>3, <1>4 DEF Holds, Released, Early
<1>9. Polls'
  BY <1>1, TeardownFacts DEF IInv, Polls, poll
<1> QED BY <1>5, <1>6, <1>7, <1>8, <1>9 DEF IInv

LEMMA Invariance ==
  ASSUME ~Impatient
  PROVE  Spec => []IInv
<1>1. IInv /\ [Next]_vars => IInv'
  <2> SUFFICES ASSUME IInv, [Next]_vars PROVE IInv'
    OBVIOUS
  <2>1. ASSUME NEW a \in Attempts, Connect(a) \/ Disconnect(a) \/ LoopEnds(a) \/ Unplug(a)
        PROVE  IInv'
    <3>1. CASE Disconnect(a)
      <4>1. <<"click", a>> \in Callers /\ <<"click", a>>[1] # "attempt"
        BY Names
      <4> QED BY <3>1, <4>1, ClosingInv DEF Disconnect, jobs
    <3>2. CASE Unplug(a)
      BY <3>2, QuietInv DEF Unplug, jobs
    <3> QED BY <2>1, <3>1, <3>2, ConnectInv, LoopEndsInv
  <2>2. ASSUME NEW a \in Attempts, AttemptStep(a)
        PROVE  IInv'
    <3>1. CASE OpenFails(a)
      BY <3>1, FailInv DEF OpenFails, jobs
    <3> QED BY <2>2, <3>1, OpenPortInv, BootedInv, TriedAgainInv DEF AttemptStep
  <2>3. ASSUME NEW o \in Callers, TeardownStep(o)
        PROVE  IInv'
    BY <2>3, ReleaseInv, ClosedInv DEF TeardownStep
  <2>4. CASE UNCHANGED vars
    BY <2>4, QuietInv DEF vars, link, jobs
  <2> QED BY <2>1, <2>2, <2>3, <2>4, LineInv, UserInv DEF Next
<1> QED BY <1>1, InitInv, PTL DEF Spec

(***************************************************************************)
(* With a patient user the status is so: Connected has a reading loop,     *)
(* Disconnected holds nothing, for any device, cable and number of         *)
(* attempts.                                                               *)
(***************************************************************************)
THEOREM ShownIsSo ==
  ASSUME ~Impatient
  PROVE  Spec => []StatusIsTrue
<1>1. IInv => StatusIsTrue
  BY Names DEF IInv, Holds, Released, Typed, StatusIsTrue
<1> QED BY <1>1, Invariance, PTL

(***************************************************************************)
(* Under the same condition a ticked auto-poll on a ready panel polls.     *)
(***************************************************************************)
THEOREM TickedPolls ==
  ASSUME ~Impatient
  PROVE  Spec => []PollLives
<1>1. IInv => PollLives
  BY DEF IInv, Polls, PollLives
<1> QED BY <1>1, Invariance, PTL

(***************************************************************************)
(* And an attempt cleans up its own port: it takes a second attempt while  *)
(* the first is at work to close another's (run panel_stale).              *)
(***************************************************************************)
THEOREM CleansItsOwn ==
  ASSUME ~Impatient
  PROVE  Spec => []ClosesItsOwn
<1>1. IInv => ClosesItsOwn
  BY DEF IInv, Holds, ClosesItsOwn
<1> QED BY <1>1, Invariance, PTL
=============================================================================
