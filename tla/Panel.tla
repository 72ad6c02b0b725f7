------------------------------- MODULE Panel -------------------------------
(***************************************************************************)
(* regtable_panel.html: the browser panel on a serial line without request *)
(* ids.  Its coroutines (attempts to connect, the read loop, teardown, the *)
(* poll loop, commands) interleave at every await; a step here runs from   *)
(* one await to the next.  Cables come out, ports fail to open, and the    *)
(* device loses commands or answers after the panel stopped waiting.       *)
(***************************************************************************)
EXTENDS Naturals, Sequences, FiniteSetsExt

CONSTANTS
  Attempts,     \* names of connection attempts, used again once nothing of them is left
  None,         \* null
  Tries,        \* lines sendCmdGetLine reads for an answer
  Behind,       \* the answers the device may still owe when a command is sent
  Impatient,    \* does the user connect again while an earlier attempt is at work
  MaxQueue      \* bound: the user adds no command to a queue this long

ASSUME PanelAssumption ==
  /\ None \notin Attempts /\ Attempts # {} /\ Attempts \cap {"user", "poll"} = {}
  /\ Tries \in Nat \ {0} /\ {Behind, MaxQueue} \subseteq Nat /\ Impatient \in BOOLEAN

VARIABLES
  connState, port, reader, writer, registers,
  open,         \* the ports the browser holds open
  plugged,      \* those whose device is still there
  running,      \* the attempts whose read loop runs
  cancelled,    \* those whose reader was cancelled
  opener,       \* opener[a]: toggleConnect's await, and is its gen other than connGen
  tear,         \* tear[o]: what the teardown called by o awaits
  pollOn, polling,
  cmdQueue, waiting, tries,
  readBuf, wire, \* lines received, and on their way from the device
  owed,         \* commands the device has not answered yet
  crossed       \* history: did a command take another command's answer

link == <<port, reader, writer, open, plugged, running, cancelled>>
jobs == <<cmdQueue, waiting, tries, crossed>>
poll == <<pollOn, polling>>
line == <<readBuf, wire, owed>>
vars == <<connState, registers, link, opener, tear, poll, jobs, line>>

(* Who calls teardown: a click on Disconnect, a read loop, an attempt.     *)
Callers == {"click", "loop", "attempt"} \X Attempts
Job(what, who) == [do |-> what, by |-> who]
(* A line, and the command it answers: this one, that now waits, or an     *)
(* earlier one.  An echo starts with no { or [.                            *)
Line(is, to) == [is |-> is, to |-> to]
Answers == {<<>>, <<"echo", "echo">>, <<"json">>, <<"echo", "json">>}

Init ==
  /\ connState = "disconnected" /\ registers = FALSE
  /\ port = None /\ reader = None /\ writer = None
  /\ open = {} /\ plugged = {} /\ running = {} /\ cancelled = {}
  /\ opener = [a \in Attempts |-> [at |-> "idle", died |-> FALSE]]
  /\ tear = [o \in Callers |-> "no"]
  /\ pollOn = FALSE /\ polling = "off"
  /\ cmdQueue = <<>> /\ waiting = FALSE /\ tries = 0 /\ crossed = FALSE
  /\ readBuf = <<>> /\ wire = <<>> /\ owed = <<>>

-----------------------------------------------------------------------------
(* teardown: four awaits, and then what its caller does: setState.         *)
TeardownKeepsPolling(o) ==          \* faulty: no stopAutoPoll
  /\ tear' = [tear EXCEPT ![o] = "cancel"]
  /\ pollOn' = pollOn
  /\ cancelled' = cancelled \cup ({reader} \ {None})

Teardown(o) ==
  /\ tear' = [tear EXCEPT ![o] = "cancel"]
  /\ pollOn' = FALSE
  /\ cancelled' = cancelled \cup ({reader} \ {None})

(* reader.cancel() settles the pending read first: the loop is gone.       *)
Cancelled(o) ==
  /\ tear[o] = "cancel" /\ cancelled \cap running = {}
  /\ tear' = [tear EXCEPT ![o] = "pipe"] /\ reader' = None
  /\ UNCHANGED <<connState, registers, port, writer, open, plugged, running, cancelled,
                 opener, poll, jobs, line>>

PipeDone(o) ==
  /\ tear[o] = "pipe"
  /\ tear' = [tear EXCEPT ![o] = "close"] /\ writer' = None
  /\ UNCHANGED <<connState, registers, port, reader, open, plugged, running, cancelled,
                 opener, poll, jobs, line>>

Closed(o) ==
  /\ tear[o] = "close"
  /\ tear' = [tear EXCEPT ![o] = "no"]
  /\ open' = open \ {port} /\ plugged' = plugged \ {port} /\ port' = None
  /\ wire' = <<>>
  /\ registers' = FALSE
  /\ connState' = "disconnected"
  /\ opener' = IF o[1] = "attempt" THEN [opener EXCEPT ![o[2]].at = "idle"] ELSE opener
  /\ UNCHANGED <<reader, writer, running, cancelled, poll, jobs, readBuf, owed>>

-----------------------------------------------------------------------------
(* enqueue: the commands take turns on the line.                           *)
Enqueue(job) == cmdQueue' = Append(cmdQueue, job)

Disown(s) == [k \in DOMAIN s |-> [s[k] EXCEPT !.to = "earlier"]]

(* pollLoop's test and, if it holds, a round of refreshValues.             *)
PollRound(queue) ==
  IF pollOn' /\ connState' = "ready"
  THEN IF registers' THEN polling' = "get" /\ cmdQueue' = Append(queue, Job("get", "poll"))
                     ELSE polling' = "sleep" /\ cmdQueue' = queue
  ELSE polling' = "off" /\ cmdQueue' = queue

(* The command at the head is done, with an answer or an error, and its    *)
(* caller goes on: refreshAll stores the list, and an attempt tries a      *)
(* second time if there is none; setValue reads back what it set;          *)
(* refreshValues goes to the next register; the console takes an array.    *)
Finish(answered) ==
  LET job == Head(cmdQueue)  rest == Tail(cmdQueue)
  IN /\ waiting' = FALSE /\ tries' = 0
     /\ owed' = [k \in DOMAIN owed |-> "earlier"]
     /\ IF answered /\ job.do \in {"list", "raw"}
        THEN \E listed \in (IF job.do = "raw" THEN {registers, TRUE} ELSE BOOLEAN) :
               registers' = listed
        ELSE UNCHANGED registers
     /\ opener' = IF job.by \in Attempts
                  THEN [opener EXCEPT ![job.by].at =
                          IF @ = "list1" /\ ~registers' THEN "slow" ELSE "idle"]
                  ELSE opener
     /\ CASE job.do = "set" /\ answered ->
               /\ \E refused \in BOOLEAN :
                    cmdQueue' = IF refused THEN rest ELSE Append(rest, Job("get", "user"))
               /\ UNCHANGED polling
          [] job.by = "poll" ->
               \E more \in BOOLEAN :
                 IF more /\ connState = "ready"
                 THEN cmdQueue' = Append(rest, Job("get", "poll")) /\ UNCHANGED polling
                 ELSE cmdQueue' = rest /\ polling' = "sleep"
          [] OTHER -> cmdQueue' = rest /\ UNCHANGED polling

(* The waiting command takes lines from what is in the buffer: a --json    *)
(* command the first that is JSON among the next Tries; the console all,   *)
(* the first of them its echo, perhaps.                                    *)
Take(buffer, after) ==
  LET job   == Head(cmdQueue)
      left  == Tries - tries
      found == {k \in 1..Len(buffer) : buffer[k].is = "json" /\ k <= left}
      From(k) == Disown(SubSeq(buffer, k + 1, Len(buffer)))
  IN IF job.do = "raw"
     THEN /\ readBuf' = <<>> /\ wire' = after
          /\ tries' = IF found # {} THEN 2 ELSE Max({1, tries})
          /\ crossed' = (crossed \/ \E k \in 1..Len(buffer) : buffer[k].to # "this")
          /\ UNCHANGED <<cmdQueue, waiting, owed, registers, opener, polling>>
     ELSE IF found # {}
     THEN /\ readBuf' = From(Min(found)) /\ wire' = Disown(after)
          /\ crossed' = (crossed \/ buffer[Min(found)].to # "this")
          /\ Finish(TRUE)
     ELSE IF Len(buffer) >= left
     THEN /\ readBuf' = From(left) /\ wire' = Disown(after) /\ UNCHANGED crossed
          /\ Finish(FALSE)
     ELSE /\ readBuf' = <<>> /\ wire' = after /\ tries' = tries + Len(buffer)
          /\ UNCHANGED <<crossed, cmdQueue, waiting, owed, registers, opener, polling>>

(* A chunk: the first n lines.                                             *)
OnData(n) ==
  /\ n <= Len(wire) /\ port \in running
  /\ LET after == SubSeq(wire, n + 1, Len(wire))
         buffer == readBuf \o SubSeq(wire, 1, n)
     IN IF waiting THEN Take(buffer, after)
        ELSE readBuf' = buffer /\ wire' = after
             /\ UNCHANGED <<registers, opener, polling, cmdQueue, waiting, tries, owed, crossed>>
  /\ UNCHANGED <<connState, link, tear, pollOn>>

(* The next command's turn.  Without a writer nothing is sent, and the     *)
(* command waits all the same; a write to a port that is gone throws.      *)
StartWith(buffer) ==
  /\ cmdQueue # <<>> /\ ~waiting
  /\ Len(owed) + Len(wire) <= Behind
  /\ readBuf' = buffer
  /\ IF writer = None \/ writer \in plugged
     THEN /\ waiting' = TRUE /\ tries' = 0
          /\ owed' = IF writer = None THEN owed ELSE Append(owed, "this")
          /\ UNCHANGED <<registers, opener, polling, cmdQueue>>
     ELSE Finish(FALSE)
  /\ UNCHANGED <<connState, link, tear, pollOn, crossed, wire>>

StartKeepsInput == StartWith(readBuf)      \* faulty: readBuf is not emptied

Start == StartWith(<<>>)

(* waitLine's timer: an error, or the quiet that ends a console answer.    *)
Timeout ==
  /\ waiting
  /\ Finish(Head(cmdQueue).do = "raw" /\ tries = 2)
  /\ readBuf' = Disown(readBuf) /\ wire' = Disown(wire)
  /\ UNCHANGED <<connState, link, tear, pollOn, crossed>>

-----------------------------------------------------------------------------
(* toggleConnect.  A generation that is bumped leaves every attempt under  *)
(* way with another one than it has taken.                                 *)
Bump(to) == opener' = [a \in Attempts |-> [to[a] EXCEPT !.died = to[a].at # "idle"]]

Free(a) == opener[a].at = "idle" /\ a \notin open \cup running
           /\ \A k \in DOMAIN cmdQueue : cmdQueue[k].by # a

Connect(a) ==
  /\ connState = "disconnected" /\ Free(a)
  /\ ~Impatient => \A b \in Attempts : opener[b].at = "idle"
  /\ connState' = "opening"
  /\ opener' = [b \in Attempts |->
                  IF b = a THEN [at |-> "openPort", died |-> FALSE]
                  ELSE [opener[b] EXCEPT !.died = opener[b].at # "idle"]]
  /\ UNCHANGED <<registers, link, tear, poll, jobs, line>>

Disconnect(a) ==
  /\ connState = "ready" /\ tear[<<"click", a>>] = "no"
  /\ connState' = "closing"
  /\ Teardown(<<"click", a>>)
  /\ UNCHANGED <<registers, port, reader, writer, open, plugged, running, opener, polling, jobs, line>>

(* The catch of toggleConnect.                                             *)
Fail(a) ==
  /\ opener' = [opener EXCEPT ![a].at = "cleanup"]
  /\ Teardown(<<"attempt", a>>)

(* The device may have been reset by the opening, and owe nothing now.     *)
OpenPort(a) ==
  /\ opener[a].at = "openPort"
  /\ port' = a /\ reader' = a /\ writer' = a
  /\ open' = open \cup {a} /\ plugged' = plugged \cup {a}
  /\ running' = running \cup {a} /\ cancelled' = cancelled \ {a}
  /\ opener' = [opener EXCEPT ![a].at = "boot"]
  /\ \E kept \in {<<>>, owed} : owed' = kept
  /\ wire' = <<>>
  /\ UNCHANGED <<connState, registers, tear, poll, jobs, readBuf>>

OpenFails(a) ==
  /\ opener[a].at = "openPort"
  /\ Fail(a)
  /\ UNCHANGED <<connState, registers, port, reader, writer, open, plugged, running, polling, jobs, line>>

(* drain(2000) is over, then drain(1000).                                  *)
Booted(a) ==
  /\ opener[a].at = "boot"
  /\ readBuf' = <<>>
  /\ IF opener[a].died
     THEN Fail(a) /\ UNCHANGED <<connState, cmdQueue>>
     ELSE /\ connState' = "ready"
          /\ opener' = [opener EXCEPT ![a].at = "list1"]
          /\ Enqueue(Job("list", a))
          /\ UNCHANGED <<tear, pollOn, cancelled>>
  /\ UNCHANGED <<registers, port, reader, writer, open, plugged, running, polling,
                 waiting, tries, crossed, wire, owed>>

TriesOn(a) ==                        \* faulty: tries for as long as there is no list
  /\ opener[a].at = "slow"
  /\ readBuf' = <<>>
  /\ IF opener[a].died
     THEN Fail(a) /\ UNCHANGED cmdQueue
     ELSE /\ IF connState = "ready"
             THEN opener' = [opener EXCEPT ![a].at = "list1"] /\ Enqueue(Job("list", a))
             ELSE opener' = [opener EXCEPT ![a].at = "idle"] /\ UNCHANGED cmdQueue
          /\ UNCHANGED <<tear, pollOn, cancelled>>
  /\ UNCHANGED <<connState, registers, port, reader, writer, open, plugged, running, polling,
                 waiting, tries, crossed, wire, owed>>

TriedAgain(a) ==
  /\ opener[a].at = "slow"
  /\ readBuf' = <<>>
  /\ IF opener[a].died
     THEN Fail(a) /\ UNCHANGED cmdQueue
     ELSE /\ IF connState = "ready"
             THEN opener' = [opener EXCEPT ![a].at = "list2"] /\ Enqueue(Job("list", a))
             ELSE opener' = [opener EXCEPT ![a].at = "idle"] /\ UNCHANGED cmdQueue
          /\ UNCHANGED <<tear, pollOn, cancelled>>
  /\ UNCHANGED <<connState, registers, port, reader, writer, open, plugged, running, polling,
                 waiting, tries, crossed, wire, owed>>

(* The read loop of startReading ends: cancelled, or the device is gone.   *)
LoopEndsWith(a, opening) ==
  /\ a \in running /\ (a \in cancelled \/ a \notin plugged)
  /\ running' = running \ {a}
  /\ CASE connState = "ready" -> /\ connState' = "closing" /\ Teardown(<<"loop", a>>)
                                 /\ UNCHANGED opener
       [] connState = "opening" -> opening /\ UNCHANGED <<connState, tear, pollOn, cancelled>>
       [] OTHER -> UNCHANGED <<connState, tear, pollOn, cancelled, opener>>
  /\ UNCHANGED <<registers, port, reader, writer, open, plugged, polling, jobs, line>>

LoopEndsUnseen(a) == LoopEndsWith(a, UNCHANGED opener)  \* faulty: connGen is not bumped

LoopEnds(a) == LoopEndsWith(a, Bump(opener))

-----------------------------------------------------------------------------
(* The user's commands; the controls show only while the panel is ready.   *)
Ask(what) ==
  /\ connState = "ready" /\ Len(cmdQueue) < MaxQueue
  /\ Enqueue(Job(what, "user"))
  /\ UNCHANGED <<connState, registers, link, opener, tear, poll, waiting, tries, crossed, line>>

RefreshAll  == Ask("list")
SetValue    == Ask("set")
SendConsole == Ask("raw")

ToggleAutoPoll ==
  /\ connState = "ready" /\ pollOn' = ~pollOn
  /\ UNCHANGED <<connState, registers>>
  /\ IF pollOn' /\ polling = "off" THEN PollRound(cmdQueue) ELSE UNCHANGED <<polling, cmdQueue>>
  /\ UNCHANGED <<link, opener, tear, waiting, tries, crossed, line>>

PollWakes ==
  /\ polling = "sleep"
  /\ UNCHANGED <<connState, registers, pollOn>>
  /\ PollRound(cmdQueue)
  /\ UNCHANGED <<link, opener, tear, waiting, tries, crossed, line>>

(* The device serves a command in its own time; lines come in only over an *)
(* open port.                                                              *)
Answer ==
  /\ owed # <<>>
  /\ owed' = Tail(owed)
  /\ \E lines \in Answers :
       wire' = IF port \in plugged
               THEN wire \o [k \in DOMAIN lines |-> Line(lines[k], Head(owed))]
               ELSE wire
  /\ UNCHANGED <<connState, registers, link, opener, tear, poll, jobs, readBuf>>

Unplug(a) ==
  /\ a \in plugged
  /\ plugged' = plugged \ {a}
  /\ wire' = <<>> /\ owed' = <<>>
  /\ UNCHANGED <<connState, registers, port, reader, writer, open, running, cancelled,
                 opener, tear, poll, jobs, readBuf>>

-----------------------------------------------------------------------------
AttemptStep(a) == OpenPort(a) \/ OpenFails(a) \/ Booted(a) \/ TriedAgain(a)
TeardownStep(o) == Cancelled(o) \/ PipeDone(o) \/ Closed(o)

Next ==
  \/ \E a \in Attempts : Connect(a) \/ Disconnect(a) \/ AttemptStep(a) \/ LoopEnds(a) \/ Unplug(a)
  \/ \E o \in Callers : TeardownStep(o)
  \/ \E n \in 1..Len(wire) : OnData(n)
  \/ Start \/ Timeout \/ Answer \/ PollWakes
  \/ RefreshAll \/ SetValue \/ SendConsole \/ ToggleAutoPoll

(* Timers fire, promises settle, the device answers or loses a command,    *)
(* and the user closes the chooser.  What a user starts is not fair.       *)
Fairness ==
  /\ WF_vars(\E a \in Attempts : AttemptStep(a)) /\ WF_vars(\E a \in Attempts : LoopEnds(a))
  /\ WF_vars(\E o \in Callers : TeardownStep(o))
  /\ WF_vars(\E n \in 1..Len(wire) : OnData(n))
  /\ WF_vars(Start) /\ WF_vars(Timeout) /\ WF_vars(Answer) /\ WF_vars(PollWakes)

Spec == Init /\ [][Next]_vars
FairSpec == Spec /\ Fairness

-----------------------------------------------------------------------------
(* A command is never answered with the answer to another: a register      *)
(* shows its own value, a set is confirmed by its own reply.  enqueue and  *)
(* the emptied buffer are there for this.                                  *)
RepliesAreOwn == ~crossed

(* What the status shows is so: Connected means that the port's loop reads *)
(* and will notice the cable; Disconnected means that nothing is held that *)
(* would keep the next attempt from opening the port.                      *)
StatusIsTrue ==
  /\ connState = "ready" => port # None /\ port \in running
  /\ connState = "disconnected" => open = {} /\ {port, reader, writer} = {None}

(* An attempt that has died releases its own port, not that of a newer     *)
(* attempt: "the opener owns cleanup; its token check sees this".          *)
ClosesItsOwn == \A a \in Attempts : opener[a].at = "cleanup" => port \in {a, None}

(* While auto-poll is ticked on a ready panel, its loop is alive: across   *)
(* unticking, ticking and reconnecting at any moment.                      *)
PollLives == pollOn /\ connState = "ready" => polling # "off"

(* The Connect button, disabled while opening or closing, always comes     *)
(* back, and every attempt to connect runs to its end, whatever the cable, *)
(* the device and the commands queued before its own do.                   *)
AttemptsEnd == []<>(/\ connState \in {"ready", "disconnected"}
                    /\ \A a \in Attempts : opener[a].at = "idle")
=============================================================================
