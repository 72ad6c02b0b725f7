----------------------------- MODULE HostClient -----------------------------
(***************************************************************************)
(* python/regtable/client.py: a program that reads and sets registers      *)
(* through the --json CLI, over a wire without request ids.  Commands and  *)
(* answers are lines in two queues; the device serves its queue in order   *)
(* and in its own time, so an answer may come after the client gave up on  *)
(* it, and after the client has closed the port and opened it again.  The  *)
(* device may be flashed and restart while the port stays open, and the    *)
(* person at the Python prompt may interrupt a call.                       *)
(***************************************************************************)
EXTENDS Naturals, Sequences

CONSTANTS
  Regs, Values,
  Firmware,     \* what may run on the device: tables with the same names
  Typed,        \* the firmware whose YAML the typed client was generated from
  None,         \* no schema yet
  DomainOf,     \* DomainOf[f][r]: the values of r's type in f, what in_domain accepts
  HeldBy,       \* HeldBy[f][r]: what r may hold; a FLOAT may be NaN, shown as null
  Initial,      \* Initial[f]: the values f starts with
  Refusing,     \* registers whose on_write refuses every set
  Resets,       \* does opening the port reset the device (an Arduino's DTR)
  AtPrompt,     \* is the program a prompt, which an interrupt does not end
  MaxLines,     \* max_lines of _cmd_json
  MaxCalls, MaxOpens, MaxChanges, MaxPrints, MaxFlashes,        \* bounds
  MaxInterrupts

ASSUME ClientAssumption ==
  /\ Typed \in Firmware /\ None \notin Firmware
  /\ \A f \in Firmware : Initial[f] \in [Regs -> Values]
  /\ \A f \in Firmware, r \in Regs :
       DomainOf[f][r] \subseteq HeldBy[f][r] /\ HeldBy[f][r] \subseteq Values
                                            /\ Initial[f][r] \in HeldBy[f][r]
  /\ Refusing \subseteq Regs /\ Resets \in BOOLEAN /\ AtPrompt \in BOOLEAN
  /\ MaxLines \in Nat \ {0}
  /\ {MaxCalls, MaxOpens, MaxChanges, MaxPrints, MaxFlashes, MaxInterrupts} \subseteq Nat

VARIABLES
  fw, val,      \* what runs on the device, and its registers
  commands,     \* lines on their way to the device
  lines,        \* lines on their way to the client
  session,      \* "closed", "verify", "discover", "ready"
  schema,       \* __schema__, as the firmware it describes
  call,         \* the command _cmd_json waits for, or NoCall
  left,         \* lines it will still read
  answer,       \* what the last call gave the program
  calls, opens, changes, prints, flashes, interrupts,     \* how many there were
  \* history:
  had,          \* had[r]: the values r had since the last call began
  ran,          \* the firmwares that ran since the last call began
  done          \* has the device carried the call out

counts  == <<calls, opens, changes, prints, flashes, interrupts>>
history == <<had, ran, done>>
vars    == <<fw, val, commands, lines, session, schema, call, left, answer, counts, history>>

NoCall   == [cmd |-> "none"]
NoAnswer == [is |-> "none"]
List     == [cmd |-> "list"]
Id       == [cmd |-> "id"]
Get(r)    == [cmd |-> "get", reg |-> r]
Set(r, v) == [cmd |-> "set", reg |-> r, val |-> v]

(* A line as _find_json sees it: an echo or a banner holds no JSON.        *)
Noise     == [is |-> "noise"]
Table     == [is |-> "array", vals |-> val, of |-> fw]
Identity  == [is |-> "identity", of |-> fw]
Value(v)  == [is |-> "value", val |-> v]
Ok        == [is |-> "ok"]
Error     == [is |-> "error"]

Init ==
  /\ fw \in Firmware /\ val = Initial[fw]
  /\ commands = <<>> /\ lines = <<>>
  /\ session = "closed" /\ schema = None /\ call = NoCall /\ left = 0 /\ answer = NoAnswer
  /\ calls = 0 /\ opens = 0 /\ changes = 0 /\ prints = 0 /\ flashes = 0 /\ interrupts = 0
  /\ had = [r \in Regs |-> {}] /\ ran = {} /\ done = FALSE

-----------------------------------------------------------------------------
(* write_line, and the reading loop's bound set up anew.                   *)
Issue(command, sent) ==
  /\ call' = command /\ left' = MaxLines
  /\ commands' = Append(sent, command)
  /\ had' = [r \in Regs |-> {val'[r]}] /\ ran' = {fw}
  /\ done' = FALSE

(* SerialTransport opens, waits for the boot and drops what has come in by *)
(* then.  The first command is the list that verify compares with the      *)
(* class's schema, or the one discover makes a class of.                   *)
OpenWith(in) ==
  /\ session = "closed" /\ opens < MaxOpens
  /\ opens' = opens + 1
  /\ \/ session' = "verify" /\ schema' = Typed
     \/ session' = "discover" /\ schema' = None
  /\ lines' = in
  /\ val' = IF Resets THEN Initial[fw] ELSE val
  /\ Issue(List, IF Resets THEN <<>> ELSE commands)
  /\ answer' = NoAnswer
  /\ UNCHANGED <<fw, calls, changes, prints, flashes, interrupts>>

OpenKeepsInput == OpenWith(lines)        \* faulty: no reset_input_buffer

Open == OpenWith(<<>>)

(* A read or a set of the program; snapshot is a list.                     *)
Call(command) ==
  /\ session = "ready" /\ call = NoCall /\ calls < MaxCalls
  /\ calls' = calls + 1
  /\ UNCHANGED <<fw, val, lines, session, schema, opens, changes, prints, flashes, interrupts>>
  /\ Issue(command, commands)
  /\ answer' = NoAnswer

(* _fail: the connection is closed for good.                               *)
Fail == session' = "closed" /\ call' = NoCall /\ left' = 0 /\ UNCHANGED <<schema, answer>>

(* A line of JSON of the shape that answers the call: _list checks a table *)
(* by the types it lists, verify by the schema; _get checks by the type in *)
(* the schema; identity compares the fingerprint with the schema's.        *)
FitsUnverified(line) ==                   \* faulty: verify does not compare
  CASE call.cmd = "list" -> line.is = "array" /\ \A r \in Regs : line.vals[r] \in DomainOf[line.of][r]
    [] call.cmd = "get"  -> \/ line.is = "error"
                            \/ line.is = "value" /\ line.val \in DomainOf[schema][call.reg]
    [] call.cmd = "set"  -> line.is \in {"error", "ok"}
    [] call.cmd = "id"   -> line.is = "identity" /\ line.of = schema

Fits(line) ==
  CASE call.cmd = "list" -> /\ line.is = "array"
                            /\ \A r \in Regs : line.vals[r] \in DomainOf[line.of][r]
                            /\ session = "verify" => line.of = schema
    [] call.cmd = "get"  -> \/ line.is = "error"
                            \/ line.is = "value" /\ line.val \in DomainOf[schema][call.reg]
    [] call.cmd = "set"  -> line.is \in {"error", "ok"}
    [] call.cmd = "id"   -> line.is = "identity" /\ line.of = schema

(* What the caller gets: the answer, as the answer to what he asked.       *)
Given(line) ==
  IF line.is = "value" THEN [is |-> "value", reg |-> call.reg, val |-> line.val] ELSE line

Reading == call # NoCall /\ lines # <<>> /\ left > 0

ReadNoise ==
  /\ Reading /\ Head(lines) = Noise
  /\ lines' = Tail(lines)
  /\ IF left = 1 THEN Fail ELSE left' = left - 1 /\ UNCHANGED <<session, schema, call, answer>>
  /\ UNCHANGED <<fw, val, commands, counts, history>>

ReadAnswer ==
  /\ Reading /\ Head(lines) # Noise /\ Fits(Head(lines))
  /\ lines' = Tail(lines)
  /\ session' = "ready" /\ call' = NoCall /\ left' = 0
  /\ schema' = IF session = "discover" THEN Head(lines).of ELSE schema
  /\ answer' = IF session \in {"verify", "discover"} THEN NoAnswer ELSE Given(Head(lines))
  /\ UNCHANGED <<fw, val, commands, counts, history>>

ReadMisfit ==
  /\ Reading /\ Head(lines) # Noise /\ ~Fits(Head(lines))
  /\ lines' = Tail(lines)
  /\ Fail
  /\ UNCHANGED <<fw, val, commands, counts, history>>

TimeoutKeepsOpen ==          \* faulty: the caller may try again on the same wire
  /\ call # NoCall
  /\ call' = NoCall /\ left' = 0
  /\ session' = IF session = "ready" THEN "ready" ELSE "closed"
  /\ UNCHANGED <<fw, val, commands, lines, schema, answer, counts, history>>

(* The deadline, or a transport that fails while the call is out.          *)
Timeout ==
  /\ call # NoCall
  /\ Fail
  /\ UNCHANGED <<fw, val, commands, lines, counts, history>>

Close ==
  /\ session = "ready" /\ call = NoCall
  /\ Fail
  /\ UNCHANGED <<fw, val, commands, lines, counts, history>>

(* KeyboardInterrupt is no Exception: none of the handlers closes the      *)
(* connection.  It ends a program, but the prompt of `regtable connect`    *)
(* goes on with `dev`.  A constructor that is interrupted leaves no client.*)
Interrupt ==
  /\ call # NoCall /\ interrupts < MaxInterrupts
  /\ interrupts' = interrupts + 1
  /\ call' = NoCall /\ left' = 0
  /\ session' = IF AtPrompt /\ session = "ready" THEN "ready" ELSE "closed"
  /\ UNCHANGED <<fw, val, commands, lines, schema, answer, calls, opens, changes, prints, flashes, history>>

-----------------------------------------------------------------------------
(* The device (module RegCli): it echoes, carries out and answers.  Nobody *)
(* listens to a closed port.                                               *)
Sent(more) == lines' = IF session = "closed" THEN <<>> ELSE lines \o more

Witnessed == had' = [r \in Regs |-> had[r] \cup {val'[r]}] /\ ran' = ran \cup {fw'}

Takes(command) == command.reg \notin Refusing /\ command.val \in DomainOf[fw][command.reg]

Reply(command) ==
  CASE command.cmd = "list" -> Table
    [] command.cmd = "id"   -> Identity
    [] command.cmd = "get"  -> Value(val[command.reg])
    [] command.cmd = "set"  -> IF Takes(command) THEN Ok ELSE Error

Serve ==
  /\ commands # <<>>
  /\ LET command == Head(commands) IN
     /\ val' = IF command.cmd = "set" /\ Takes(command)
               THEN [val EXCEPT ![command.reg] = command.val] ELSE val
     /\ Sent(<<Noise, Reply(command)>>)
  /\ commands' = Tail(commands)
  /\ fw' = fw /\ Witnessed
  /\ done' = (done \/ (call # NoCall /\ Len(commands) = 1))
  /\ UNCHANGED <<session, schema, call, left, answer, counts>>

(* The program of the device changes a register, or prints for itself.     *)
Change(r) ==
  /\ changes < MaxChanges
  /\ changes' = changes + 1
  /\ \E v \in HeldBy[fw][r] : val' = [val EXCEPT ![r] = v]
  /\ fw' = fw /\ Witnessed
  /\ UNCHANGED <<commands, lines, session, schema, call, left, answer,
                 calls, opens, prints, flashes, interrupts, done>>

Prints ==
  /\ prints < MaxPrints
  /\ prints' = prints + 1
  /\ Sent(<<Noise>>)
  /\ UNCHANGED <<fw, val, commands, session, schema, call, left, answer,
                 calls, opens, changes, flashes, interrupts, history>>

(* The device restarts, with the same firmware or another: it greets, and  *)
(* what it had not read yet is gone.                                       *)
Flash(f) ==
  /\ flashes < MaxFlashes
  /\ flashes' = flashes + 1
  /\ fw' = f /\ val' = Initial[f]
  /\ commands' = <<>>
  /\ Sent(<<Noise>>)
  /\ Witnessed
  /\ UNCHANGED <<session, schema, call, left, answer,
                 calls, opens, changes, prints, interrupts, done>>

Client == \/ Open \/ Close \/ Timeout \/ Interrupt
          \/ ReadNoise \/ ReadAnswer \/ ReadMisfit
          \/ Call(List) \/ Call(Id)
          \/ \E r \in Regs : Call(Get(r))
          \/ session = "ready" /\ \E r \in Regs : \E v \in DomainOf[schema][r] : Call(Set(r, v))

Next == Client \/ Serve \/ Prints \/ (\E r \in Regs : Change(r)) \/ (\E f \in Firmware : Flash(f))

Spec == Init /\ [][Next]_vars

-----------------------------------------------------------------------------
(***************************************************************************)
(* A get or a snapshot gives its caller values that these registers had    *)
(* while the call was out: not another register's, not values from before  *)
(* it (_get, _list: the client "holds no values"), and an identity is that *)
(* of a firmware that ran while the call was out and has the table this    *)
(* client holds (identity: "an answer about another table closes the       *)
(* connection").                                                           *)
(***************************************************************************)
ReadsAreFresh ==
  /\ answer.is = "value" => answer.val \in had[answer.reg]
  /\ answer.is = "array" => \A r \in Regs : answer.vals[r] \in had[r]
  /\ answer.is = "identity" => answer.of = schema /\ schema \in ran

(***************************************************************************)
(* A set that returns, or that raises what the device said, reports on     *)
(* itself: the device has carried out this very command (_set).            *)
(***************************************************************************)
SetsAreDone == answer.is \in {"ok", "error"} => done

(***************************************************************************)
(* "Connecting fetches the device's own list and compares it ... before    *)
(* the first read", and a discovered client assumed nothing: a client      *)
(* becomes usable only with the table of a firmware that ran since it      *)
(* asked, never with the one of a device or an image that was there        *)
(* before.                                                                 *)
(***************************************************************************)
HoldsTheTable ==
  [][session # "ready" /\ session' = "ready" => schema' \in ran]_vars
=============================================================================
