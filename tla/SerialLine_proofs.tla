------------------------- MODULE SerialLine_proofs -------------------------
(***************************************************************************)
(* Both ends of the serial line.  The client: what it tells its caller is  *)
(* true of the device, for every table, any number of calls, firmwares,    *)
(* changes and reconnects.  The CLI: what it runs and answers is what was  *)
(* typed, for every buffer size, number of arguments, alphabet and length  *)
(* of line.                                                                *)
(***************************************************************************)
EXTENDS HostClient, RegCli, SequenceTheorems, WellFoundedInduction, TLAPS

Command == {List, Id} \cup {Get(r) : r \in Regs} \cup {Set(r, v) : r \in Regs, v \in Values}

Line == {Noise, Ok, Error} \cup [is : {"array"}, vals : [Regs -> Values], of : Firmware]
                           \cup [is : {"identity"}, of : Firmware]
                           \cup [is : {"value"}, val : Values]

ClientTypeOK ==
  /\ fw \in Firmware /\ val \in [Regs -> Values]
  /\ commands \in Seq(Command) /\ lines \in Seq(Line)
  /\ session \in {"closed", "verify", "discover", "ready"}
  /\ schema \in Firmware \cup {None} /\ call \in Command \cup {NoCall}
  /\ had \in [Regs -> SUBSET Values] /\ ran \subseteq Firmware
  /\ session \in {"verify", "ready"} => schema \in Firmware
  /\ session = "closed" => call = NoCall

(***************************************************************************)
(* What the device has now, the history knows of; and a table that a       *)
(* connecting client may find on the wire was sent since it opened.        *)
(***************************************************************************)
Now == call # NoCall => fw \in ran /\ \A r \in Regs : val[r] \in had[r]

Connecting ==
  session \in {"verify", "discover"} =>
    call = List /\ \A k \in DOMAIN lines : lines[k].is = "array" => lines[k].of \in ran

IInv == ClientTypeOK /\ Now /\ Connecting

(***************************************************************************)
(* No request carries an id, so an answer is known by there being no other *)
(* on the wire: at most one line that is not noise, in answer to the call  *)
(* that is out and from the time it has been out; and none while the       *)
(* command has yet to be served, or when there is no call.                 *)
(***************************************************************************)
Answers(line) ==
  /\ call.cmd = "list" => /\ line.is = "array" /\ line.of \in ran
                          /\ \A r \in Regs : line.vals[r] \in had[r]
  /\ call.cmd = "id"   => line.is = "identity" /\ line.of \in ran
  /\ call.cmd = "get"  => line.is = "value" /\ line.val \in had[call.reg]
  /\ call.cmd = "set"  => line.is \in {"ok", "error"}

Asked == session # "closed" => commands \in {<<>>, <<call>>}

Silent == session # "closed" /\ (call = NoCall \/ commands # <<>>) =>
            \A k \in DOMAIN lines : lines[k] = Noise

OneAnswer ==
  session # "closed" =>
    /\ \A k \in DOMAIN lines : lines[k] = Noise \/ (done /\ Answers(lines[k]))
    /\ \A j, k \in DOMAIN lines : lines[j] = Noise \/ lines[k] = Noise \/ j = k

Paired ==
  /\ session # "closed" /\ call = NoCall => commands = <<>>
  /\ call # NoCall => answer = NoAnswer
  /\ answer.is = "value" => answer.reg \in Regs
  /\ Asked /\ Silent /\ OneAnswer

PInv == Paired /\ ReadsAreFresh /\ SetsAreDone

-----------------------------------------------------------------------------
LEMMA CommandFacts ==
  /\ List \in Command /\ Id \in Command
  /\ \A r \in Regs : Get(r) \in Command /\ \A v \in Values : Set(r, v) \in Command
  /\ \A c \in Command :
       /\ c # NoCall /\ c.cmd \in {"list", "id", "get", "set"}
       /\ c.cmd \in {"get", "set"} => c.reg \in Regs
       /\ c.cmd = "set" => c.val \in Values
<1>1. /\ List \in Command /\ Id \in Command
      /\ \A r \in Regs : Get(r) \in Command /\ \A v \in Values : Set(r, v) \in Command
  BY DEF Command
<1>2. ASSUME NEW c \in Command
      PROVE  /\ c # NoCall /\ c.cmd \in {"list", "id", "get", "set"}
             /\ c.cmd \in {"get", "set"} => c.reg \in Regs
             /\ c.cmd = "set" => c.val \in Values
  <2>1. CASE c \in {List, Id}
    BY <2>1 DEF List, Id, NoCall
  <2>2. CASE \E r \in Regs : c = Get(r)
    BY <2>2 DEF Get, NoCall
  <2>3. CASE \E r \in Regs, v \in Values : c = Set(r, v)
    BY <2>3 DEF Set, NoCall
  <2> QED BY <2>1, <2>2, <2>3 DEF Command
<1> QED BY <1>1, <1>2

LEMMA LineFacts ==
  /\ Noise \in Line /\ Ok \in Line /\ Error \in Line
  /\ \A v \in Values : Value(v) \in Line
  /\ ClientTypeOK => Table \in Line /\ Identity \in Line
  /\ \A l \in Line :
       /\ l.is = "noise" <=> l = Noise
       /\ l.is = "array" => l.of \in Firmware
       /\ l.is \in {"noise", "ok", "error", "array", "identity", "value"}
BY DEF Line, Noise, Ok, Error, Value, Table, Identity, ClientTypeOK

(* What a line put at the end of a queue, or taken from its head, leaves.  *)
LEMMA QueueFacts ==
  ASSUME NEW S, NEW q \in Seq(S)
  PROVE  /\ <<>> \in Seq(S) /\ DOMAIN q = 1 .. Len(q) /\ Len(q) \in Nat
         /\ q = <<>> <=> Len(q) = 0
         /\ \A k \in DOMAIN q : q[k] \in S
         /\ q # <<>> =>
              /\ 1 \in DOMAIN q /\ Head(q) = q[1] /\ Head(q) \in S
              /\ Tail(q) \in Seq(S) /\ Len(Tail(q)) = Len(q) - 1
              /\ \A k \in DOMAIN Tail(q) : k + 1 \in DOMAIN q /\ Tail(q)[k] = q[k + 1]
         /\ \A a, b \in S : /\ q \o <<a>> \in Seq(S) /\ Append(q, a) \in Seq(S)
                            /\ q \o <<a, b>> \in Seq(S)
OBVIOUS

LEMMA LongerQueue ==
  ASSUME NEW S, NEW q \in Seq(S), NEW a \in S, NEW b \in S
  PROVE  /\ \A k \in DOMAIN (q \o <<a>>) :
              \/ k \in DOMAIN q /\ (q \o <<a>>)[k] = q[k]
              \/ (q \o <<a>>)[k] = a
         /\ \A k \in DOMAIN (q \o <<a, b>>) :
              \/ k \in DOMAIN q /\ (q \o <<a, b>>)[k] = q[k]
              \/ (q \o <<a, b>>)[k] = a
              \/ k = Len(q) + 2 /\ (q \o <<a, b>>)[k] = b
<1>1. Len(<<a>>) = 1 /\ <<a>>[1] = a
      /\ Len(<<a, b>>) = 2 /\ <<a, b>>[1] = a /\ <<a, b>>[2] = b
  OBVIOUS
<1>2. ASSUME NEW k \in DOMAIN (q \o <<a>>)
      PROVE  \/ k \in DOMAIN q /\ (q \o <<a>>)[k] = q[k]
             \/ (q \o <<a>>)[k] = a
  <2>1. k \in 1 .. Len(q) + 1 /\ Len(q) \in Nat
    BY <1>1
  <2>2. CASE k \in 1 .. Len(q)
    BY <2>2
  <2>3. CASE k = Len(q) + 1
    BY <1>1, <2>1, <2>3
  <2> QED BY <2>1, <2>2, <2>3
<1>3. ASSUME NEW k \in DOMAIN (q \o <<a, b>>)
      PROVE  \/ k \in DOMAIN q /\ (q \o <<a, b>>)[k] = q[k]
             \/ (q \o <<a, b>>)[k] = a
             \/ k = Len(q) + 2 /\ (q \o <<a, b>>)[k] = b
  <2>1. k \in 1 .. Len(q) + 2 /\ Len(q) \in Nat
    BY <1>1
  <2>2. CASE k \in 1 .. Len(q)
    BY <2>2
  <2>3. CASE k = Len(q) + 1
    BY <1>1, <2>1, <2>3
  <2>4. CASE k = Len(q) + 2
    BY <1>1, <2>1, <2>4
  <2> QED BY <2>1, <2>2, <2>3, <2>4
<1> QED BY <1>2, <1>3

-----------------------------------------------------------------------------
(***************************************************************************)
(* Types, the history and the table of a connecting client: whatever the   *)
(* port does and whoever interrupts.                                       *)
(***************************************************************************)
LEMMA InitInv == Init => IInv
BY ClientAssumption DEF Init, IInv, ClientTypeOK, Now, Connecting

(* The domains of the tables are sets of values.                           *)
LEMMA TableFacts ==
  ASSUME NEW f \in Firmware
  PROVE  /\ \A r \in Regs : DomainOf[f][r] \subseteq Values /\ HeldBy[f][r] \subseteq Values
         /\ \A r \in Regs : Initial[f][r] \in Values
BY ClientAssumption

LEMMA OpenInv ==
  ASSUME IInv, Open
  PROVE  IInv'
<1>1. /\ session' \in {"verify", "discover"} /\ schema' \in {Typed, None}
      /\ session' = "verify" => schema' = Typed
      /\ lines' = <<>> /\ call' = List /\ fw' = fw
      /\ val' = IF Resets THEN Initial[fw] ELSE val
      /\ had' = [r \in Regs |-> {val'[r]}] /\ ran' = {fw}
      /\ commands' = Append(IF Resets THEN <<>> ELSE commands, List)
  BY DEF Open, OpenWith, Issue
<1>2. val' \in [Regs -> Values]
  BY <1>1, ClientAssumption, TableFacts DEF IInv, ClientTypeOK
<1>3. commands' \in Seq(Command)
  BY <1>1, CommandFacts, QueueFacts DEF IInv, ClientTypeOK
<1>4. lines' \in Seq(Line)
  BY <1>1
<1>5. ClientTypeOK'
  BY <1>1, <1>2, <1>3, <1>4, CommandFacts, ClientAssumption DEF IInv, ClientTypeOK
<1>6. Now' /\ Connecting'
  BY <1>1 DEF Now, Connecting
<1> QED BY <1>5, <1>6 DEF IInv

LEMMA CallInv ==
  ASSUME IInv, NEW command \in Command, Call(command)
  PROVE  IInv'
<1>1. /\ session = "ready" /\ UNCHANGED <<fw, val, lines, session, schema>>
      /\ call' = command /\ commands' = Append(commands, command)
      /\ had' = [r \in Regs |-> {val[r]}] /\ ran' = {fw}
  BY DEF Call, Issue
<1>2. commands' \in Seq(Command)
  BY <1>1, QueueFacts DEF IInv, ClientTypeOK
<1>3. ClientTypeOK'
  BY <1>1, <1>2 DEF IInv, ClientTypeOK
<1>4. Now' /\ Connecting'
  BY <1>1 DEF IInv, ClientTypeOK, Now, Connecting
<1> QED BY <1>3, <1>4 DEF IInv

LEMMA ReadInv ==
  ASSUME IInv, ReadNoise \/ ReadMisfit
  PROVE  IInv'
<1>1. /\ lines # <<>> /\ lines' = Tail(lines)
      /\ \/ session' = "closed" /\ call' = NoCall
         \/ session' = session /\ call' = call
      /\ UNCHANGED <<fw, val, commands, schema, had, ran>>
  BY DEF ReadNoise, ReadMisfit, Reading, Fail, history
<1>2. /\ lines' \in Seq(Line)
      /\ \A k \in DOMAIN lines' : k + 1 \in DOMAIN lines /\ lines'[k] = lines[k + 1]
  BY <1>1, QueueFacts DEF IInv, ClientTypeOK
<1>3. ClientTypeOK'
  BY <1>1, <1>2 DEF IInv, ClientTypeOK
<1>4. Now' /\ Connecting'
  BY <1>1, <1>2 DEF IInv, Now, Connecting
<1> QED BY <1>3, <1>4 DEF IInv

(* Verify takes the table that is the schema's, discover the one it finds: *)
(* each is one that was sent since the port was opened.                    *)
LEMMA TableTaken ==
  ASSUME IInv, ReadAnswer, session # "ready"
  PROVE  schema' \in ran /\ Head(lines) \in Line /\ Head(lines).is = "array"
<1>1. call # NoCall /\ lines # <<>> /\ Fits(Head(lines))
  BY DEF ReadAnswer, Reading
<1>2. session \in {"verify", "discover"} /\ call = List
  BY <1>1 DEF IInv, ClientTypeOK, Connecting
<1>3. 1 \in DOMAIN lines /\ Head(lines) = lines[1] /\ Head(lines) \in Line
  BY <1>1, QueueFacts DEF IInv, ClientTypeOK
<1>4. Head(lines).is = "array" /\ (session = "verify" => Head(lines).of = schema)
  BY <1>1, <1>2 DEF Fits, List
<1>5. Head(lines).of \in ran
  BY <1>2, <1>3, <1>4 DEF IInv, Connecting
<1> QED BY <1>2, <1>3, <1>4, <1>5 DEF ReadAnswer

LEMMA ReadAnswerInv ==
  ASSUME IInv, ReadAnswer
  PROVE  IInv'
<1>1. /\ lines # <<>> /\ lines' = Tail(lines) /\ session' = "ready" /\ call' = NoCall
      /\ UNCHANGED <<fw, val, commands, had, ran>>
  BY DEF ReadAnswer, Reading, history
<1>2. lines' \in Seq(Line)
  BY <1>1, QueueFacts DEF IInv, ClientTypeOK
<1>3. schema' \in Firmware
  <2>1. CASE session = "ready"
    BY <2>1 DEF IInv, ClientTypeOK, ReadAnswer
  <2>2. CASE session # "ready"
    BY <2>2, TableTaken DEF IInv, ClientTypeOK
  <2> QED BY <2>1, <2>2
<1>4. ClientTypeOK' /\ Now' /\ Connecting'
  BY <1>1, <1>2, <1>3 DEF IInv, ClientTypeOK, Now, Connecting
<1> QED BY <1>4 DEF IInv

LEMMA EndInv ==
  ASSUME IInv, Timeout \/ Close \/ Interrupt
  PROVE  IInv'
<1>1. /\ session' \in {"closed", "ready"} /\ (session' = "ready" => session = "ready")
      /\ call' = NoCall
      /\ UNCHANGED <<fw, val, commands, lines, schema, had, ran>>
  BY DEF Timeout, Close, Interrupt, Fail, history
<1>2. ClientTypeOK' /\ Now' /\ Connecting'
  BY <1>1 DEF IInv, ClientTypeOK, Now, Connecting
<1> QED BY <1>2 DEF IInv

(* A step of the device: its registers stay typed, the history sees them,  *)
(* and a line it adds is its own table or no table.                        *)
LEMMA WitnessedInv ==
  ASSUME IInv, UNCHANGED <<session, schema, call>>,
         fw' \in Firmware, val' \in [Regs -> Values], commands' \in Seq(Command),
         lines' \in Seq(Line), Witnessed,
         \A k \in DOMAIN lines' : \/ k \in DOMAIN lines /\ lines'[k] = lines[k]
                                  \/ lines'[k].is = "array" => lines'[k].of = fw'
  PROVE  IInv'
<1>1. had' \in [Regs -> SUBSET Values] /\ ran' \subseteq Firmware
      /\ fw' \in ran' /\ (\A r \in Regs : val'[r] \in had'[r]) /\ ran \subseteq ran'
  BY DEF IInv, ClientTypeOK, Witnessed
<1>2. ClientTypeOK' /\ Now'
  BY <1>1 DEF IInv, ClientTypeOK, Now
<1>3. Connecting'
  BY <1>1 DEF IInv, Connecting
<1> QED BY <1>2, <1>3 DEF IInv

LEMMA ReplyFacts ==
  ASSUME ClientTypeOK, NEW c \in Command
  PROVE  /\ Reply(c) \in Line /\ Reply(c).is # "noise"
         /\ Reply(c).is = "array" => c.cmd = "list" /\ Reply(c) = Table
         /\ c.cmd = "list" => Reply(c) = Table
         /\ c.cmd = "id"   => Reply(c) = Identity
         /\ c.cmd = "get"  => Reply(c) = Value(val[c.reg])
         /\ c.cmd = "set"  => Reply(c) \in {Ok, Error}
<1>1. c.cmd = "list" \/ c.cmd = "id" \/ c.cmd = "get" \/ c.cmd = "set"
  BY CommandFacts
<1>2. CASE c.cmd = "list"
  BY <1>2, LineFacts DEF Reply, Table
<1>3. CASE c.cmd = "id"
  BY <1>3, LineFacts DEF Reply, Identity
<1>4. CASE c.cmd = "get"
  <2>1. Reply(c) = Value(val[c.reg]) /\ val[c.reg] \in Values
    BY <1>4, CommandFacts DEF Reply, ClientTypeOK
  <2> QED BY <1>4, <2>1, LineFacts DEF Value
<1>5. CASE c.cmd = "set"
  BY <1>5, LineFacts DEF Reply, Ok, Error
<1> QED BY <1>1, <1>2, <1>3, <1>4, <1>5

(* What the port takes from the device.                                    *)
LEMMA SentFacts ==
  ASSUME ClientTypeOK, NEW a \in Line, NEW b \in Line
  PROVE  /\ Sent(<<a>>) =>
              /\ lines' \in Seq(Line)
              /\ \A k \in DOMAIN lines' : \/ k \in DOMAIN lines /\ lines'[k] = lines[k]
                                          \/ lines'[k] = a
         /\ Sent(<<a, b>>) =>
              /\ lines' \in Seq(Line)
              /\ \A k \in DOMAIN lines' : \/ k \in DOMAIN lines /\ lines'[k] = lines[k]
                                          \/ lines'[k] = a
                                          \/ k = Len(lines) + 2 /\ lines'[k] = b
<1>1. lines \in Seq(Line)
  BY DEF ClientTypeOK
<1>2. CASE session = "closed"
  <2>1. <<>> \in Seq(Line) /\ DOMAIN <<>> = {}
    OBVIOUS
  <2>2. \A more : Sent(more) => lines' = <<>>
    BY <1>2 DEF Sent
  <2> QED BY <2>1, <2>2
<1>3. CASE session # "closed"
  <2>1. ASSUME Sent(<<a>>)
        PROVE  /\ lines' \in Seq(Line)
               /\ \A k \in DOMAIN lines' : \/ k \in DOMAIN lines /\ lines'[k] = lines[k]
                                           \/ lines'[k] = a
    <3>1. lines' = lines \o <<a>>
      BY <1>3, <2>1 DEF Sent
    <3> QED BY <1>1, <3>1, QueueFacts, LongerQueue
  <2>2. ASSUME Sent(<<a, b>>)
        PROVE  /\ lines' \in Seq(Line)
               /\ \A k \in DOMAIN lines' : \/ k \in DOMAIN lines /\ lines'[k] = lines[k]
                                           \/ lines'[k] = a
                                           \/ k = Len(lines) + 2 /\ lines'[k] = b
    <3>1. lines' = lines \o <<a, b>>
      BY <1>3, <2>2 DEF Sent
    <3> QED BY <1>1, <3>1, QueueFacts, LongerQueue
  <2> QED BY <2>1, <2>2
<1> QED BY <1>2, <1>3

LEMMA ServeFacts ==
  ASSUME IInv, Serve
  PROVE  /\ commands # <<>> /\ Head(commands) \in Command
         /\ commands' = Tail(commands) /\ commands' \in Seq(Command)
         /\ val' \in [Regs -> Values] /\ (Head(commands).cmd # "set" => val' = val)
         /\ lines' \in Seq(Line) /\ Reply(Head(commands)) \in Line
         /\ \A k \in DOMAIN lines' :
              \/ k \in DOMAIN lines /\ lines'[k] = lines[k]
              \/ lines'[k] = Noise
              \/ k = Len(lines) + 2 /\ lines'[k] = Reply(Head(commands))
<1>1. commands # <<>> /\ Head(commands) \in Command /\ Tail(commands) \in Seq(Command)
  BY QueueFacts DEF Serve, IInv, ClientTypeOK
<1>2. Sent(<<Noise, Reply(Head(commands))>>) /\ commands' = Tail(commands)
  BY DEF Serve
<1>3. Reply(Head(commands)) \in Line
  BY <1>1, ReplyFacts DEF IInv
<1>4. val' \in [Regs -> Values] /\ (Head(commands).cmd # "set" => val' = val)
  BY <1>1, CommandFacts DEF Serve, IInv, ClientTypeOK
<1> QED BY <1>1, <1>2, <1>3, <1>4, SentFacts, LineFacts DEF IInv

LEMMA ServeInv ==
  ASSUME IInv, Serve
  PROVE  IInv'
<1>1. UNCHANGED <<session, schema, call, fw>> /\ Witnessed
  BY DEF Serve
<1>2. Reply(Head(commands)).is = "array" => Reply(Head(commands)).of = fw
  BY ServeFacts, ReplyFacts DEF IInv, Table
<1>3. Noise.is # "array"
  BY DEF Noise
<1> QED BY <1>1, <1>2, <1>3, ServeFacts, WitnessedInv DEF IInv, ClientTypeOK

LEMMA ChangeInv ==
  ASSUME IInv, NEW r \in Regs, Change(r)
  PROVE  IInv'
<1>1. UNCHANGED <<session, schema, call, fw, lines, commands>> /\ Witnessed
  BY DEF Change
<1>2. val' \in [Regs -> Values]
  BY TableFacts DEF Change, IInv, ClientTypeOK
<1> QED BY <1>1, <1>2, WitnessedInv DEF IInv, ClientTypeOK

LEMMA PrintsInv ==
  ASSUME IInv, Prints
  PROVE  IInv'
<1>1. /\ Sent(<<Noise>>)
      /\ UNCHANGED <<session, schema, call, fw, val, commands, had, ran>>
  BY DEF Prints, history
<1>2. lines' \in Seq(Line)
      /\ \A k \in DOMAIN lines' : \/ k \in DOMAIN lines /\ lines'[k] = lines[k]
                                  \/ lines'[k] = Noise
  BY <1>1, SentFacts, LineFacts DEF IInv
<1>3. ClientTypeOK' /\ Now'
  BY <1>1, <1>2 DEF IInv, ClientTypeOK, Now
<1>4. Connecting'
  BY <1>1, <1>2 DEF IInv, Connecting, Noise
<1> QED BY <1>3, <1>4 DEF IInv

LEMMA FlashInv ==
  ASSUME IInv, NEW f \in Firmware, Flash(f)
  PROVE  IInv'
<1>1. /\ Sent(<<Noise>>) /\ Witnessed /\ fw' = f /\ val' = Initial[f] /\ commands' = <<>>
      /\ UNCHANGED <<session, schema, call>>
  BY DEF Flash
<1>2. lines' \in Seq(Line)
      /\ \A k \in DOMAIN lines' : \/ k \in DOMAIN lines /\ lines'[k] = lines[k]
                                  \/ lines'[k] = Noise
  BY <1>1, SentFacts, LineFacts DEF IInv
<1>3. val' \in [Regs -> Values] /\ commands' \in Seq(Command) /\ Noise.is # "array"
  BY <1>1, ClientAssumption DEF Noise
<1> QED BY <1>1, <1>2, <1>3, WitnessedInv

(* The calls a program makes are commands.                                 *)
LEMMA CallsAreCommands ==
  ASSUME IInv, Client
  PROVE  \/ Open \/ Close \/ Timeout \/ Interrupt \/ ReadNoise \/ ReadAnswer \/ ReadMisfit
         \/ \E command \in Command : Call(command)
<1>1. ASSUME session = "ready", NEW r \in Regs, NEW v \in DomainOf[schema][r]
      PROVE  Set(r, v) \in Command
  BY <1>1, CommandFacts, TableFacts DEF IInv, ClientTypeOK
<1> QED BY <1>1, CommandFacts DEF Client

(* Each step of the client and the device keeps the invariant.             *)
THEOREM Invariance == Spec => []IInv
<1>1. IInv /\ [Next]_vars => IInv'
  <2> SUFFICES ASSUME IInv, [Next]_vars PROVE IInv'
    OBVIOUS
  <2>1. CASE Client
    BY <2>1, CallsAreCommands, OpenInv, CallInv, ReadInv, ReadAnswerInv, EndInv
  <2>2. CASE Serve \/ Prints
    BY <2>2, ServeInv, PrintsInv
  <2>3. CASE \E r \in Regs : Change(r)
    BY <2>3, ChangeInv
  <2>4. CASE \E f \in Firmware : Flash(f)
    BY <2>4, FlashInv
  <2>5. CASE UNCHANGED vars
    <3>1. ClientTypeOK'
      BY <2>5 DEF vars, history, IInv, ClientTypeOK
    <3> QED BY <2>5, <3>1 DEF vars, history, IInv, Now, Connecting
  <2> QED BY <2>1, <2>2, <2>3, <2>4, <2>5 DEF Next
<1> QED BY <1>1, InitInv, PTL DEF Spec

(***************************************************************************)
(* A client becomes usable only with the table of a firmware that ran      *)
(* since it asked: no stale byte, restart or interrupt makes it hold       *)
(* another, whether or not opening the port resets the device.             *)
(***************************************************************************)
THEOREM UsableIsVerified == Spec => HoldsTheTable
<1>1. IInv /\ [Next]_vars =>
        [session # "ready" /\ session' = "ready" => schema' \in ran]_vars
  <2> SUFFICES ASSUME IInv, Next, session # "ready", session' = "ready"
               PROVE  schema' \in ran
    BY DEF vars
  <2>1. session' \in {session, "closed", "verify", "discover"} \/ ReadAnswer
    <3>1. CASE Client
      BY <3>1, CallsAreCommands
      DEF Open, OpenWith, Close, Timeout, Interrupt, ReadNoise, ReadMisfit, Fail, Call
    <3>2. CASE Serve \/ Prints \/ (\E r \in Regs : Change(r)) \/ (\E f \in Firmware : Flash(f))
      BY <3>2 DEF Serve, Prints, Change, Flash
    <3> QED BY <3>1, <3>2 DEF Next
  <2> QED BY <2>1, TableTaken
<1> QED BY <1>1, Invariance, PTL DEF Spec, HoldsTheTable

-----------------------------------------------------------------------------
(***************************************************************************)
(* One answer at most, and to the call that is out.                        *)
(***************************************************************************)
LEMMA InitPaired == Init => PInv
BY DEF Init, PInv, Paired, Asked, Silent, OneAnswer, ReadsAreFresh, SetsAreDone, NoCall, NoAnswer

(* A closed port promises nothing.                                         *)
LEMMA ClosedPaired ==
  ASSUME PInv, session' = "closed", call' = NoCall, answer' = answer,
         UNCHANGED <<schema, history>>
  PROVE  PInv'
BY DEF PInv, Paired, Asked, Silent, OneAnswer, ReadsAreFresh, SetsAreDone, history

LEMMA OpenPaired ==
  ASSUME Resets, IInv, PInv, Open
  PROVE  PInv'
<1>1. lines' = <<>> /\ commands' = <<List>> /\ call' = List /\ answer' = NoAnswer
  BY DEF Open, OpenWith, Issue
<1>2. call' # NoCall
  BY <1>1, CommandFacts
<1> QED BY <1>1, <1>2
        DEF PInv, Paired, Asked, Silent, OneAnswer, ReadsAreFresh, SetsAreDone, NoAnswer

LEMMA CallPaired ==
  ASSUME IInv, PInv, NEW command \in Command, Call(command)
  PROVE  PInv'
<1>1. /\ session = "ready" /\ call = NoCall /\ session' = session /\ lines' = lines
      /\ call' = command /\ commands' = Append(commands, command) /\ answer' = NoAnswer
  BY DEF Call, Issue
<1>2. commands' = <<command>> /\ call' # NoCall
  BY <1>1, CommandFacts DEF PInv, Paired
<1>3. \A k \in DOMAIN lines' : lines'[k] = Noise
  BY <1>1 DEF PInv, Paired, Silent
<1> QED BY <1>1, <1>2, <1>3
        DEF PInv, Paired, Asked, Silent, OneAnswer, ReadsAreFresh, SetsAreDone, NoAnswer

LEMMA ReadNoisePaired ==
  ASSUME IInv, PInv, ReadNoise
  PROVE  PInv'
<1>1. CASE Fail
  BY <1>1, ClosedPaired DEF ReadNoise, Fail
<1>2. CASE ~Fail
  <2>1. /\ lines # <<>> /\ lines' = Tail(lines) /\ UNCHANGED <<session, schema, call, answer>>
        /\ UNCHANGED <<commands, had, ran, done>>
    BY <1>2 DEF ReadNoise, Reading, history
  <2>2. \A k \in DOMAIN lines' : k + 1 \in DOMAIN lines /\ lines'[k] = lines[k + 1]
    BY <2>1, QueueFacts DEF IInv, ClientTypeOK
  <2>3. Asked' /\ Silent'
    BY <2>1, <2>2 DEF PInv, Paired, Asked, Silent
  <2>4. DOMAIN lines' \subseteq Int
    BY <2>1, QueueFacts DEF IInv, ClientTypeOK
  <2>5. OneAnswer'
    <3> SUFFICES ASSUME session # "closed"
                 PROVE  /\ \A k \in DOMAIN lines' : lines'[k] = Noise \/ (done' /\ Answers(lines[k])')
                        /\ \A j, k \in DOMAIN lines' : lines'[j] = Noise \/ lines'[k] = Noise \/ j = k
      BY <2>1 DEF OneAnswer
    <3>1. ASSUME NEW k \in DOMAIN lines', lines'[k] # Noise
          PROVE  done' /\ Answers(lines[k])'
      <4>1. done /\ Answers(lines[k + 1]) /\ lines'[k] = lines[k + 1]
        BY <2>2, <3>1 DEF PInv, Paired, OneAnswer
      <4> QED BY <2>1, <4>1 DEF Answers
    <3>2. ASSUME NEW j \in DOMAIN lines', NEW k \in DOMAIN lines',
                 lines'[j] # Noise, lines'[k] # Noise
          PROVE  j = k
      <4>1. j + 1 = k + 1
        BY <2>2, <3>2 DEF PInv, Paired, OneAnswer
      <4> QED BY <2>4, <4>1
    <3> QED BY <3>1, <3>2
  <2> QED BY <2>1, <2>3, <2>5 DEF PInv, Paired, ReadsAreFresh, SetsAreDone
<1> QED BY <1>1, <1>2

(* The one place where the program is told something.                      *)
LEMMA ReadAnswerPaired ==
  ASSUME IInv, PInv, ReadAnswer
  PROVE  PInv'
<1>1. /\ lines # <<>> /\ call # NoCall /\ Head(lines) # Noise /\ Fits(Head(lines))
      /\ lines' = Tail(lines) /\ session' = "ready" /\ call' = NoCall
      /\ UNCHANGED <<commands, had, ran, done>>
      /\ schema' = IF session = "discover" THEN Head(lines).of ELSE schema
      /\ answer' = IF session \in {"verify", "discover"} THEN NoAnswer ELSE Given(Head(lines))
  BY DEF ReadAnswer, Reading, history
<1>2. 1 \in DOMAIN lines /\ Head(lines) = lines[1] /\ lines[1] # Noise /\ DOMAIN lines' \subseteq Nat \ {0}
      /\ \A k \in DOMAIN lines' : k + 1 \in DOMAIN lines /\ lines'[k] = lines[k + 1]
  BY <1>1, QueueFacts DEF IInv, ClientTypeOK
<1>3. session # "closed"
  BY <1>1 DEF IInv, ClientTypeOK
<1>4. commands = <<>> /\ done /\ Answers(Head(lines))
  BY <1>1, <1>2, <1>3 DEF PInv, Paired, Silent, OneAnswer
<1>5. ASSUME NEW k \in DOMAIN lines' PROVE lines'[k] = Noise
  <2>1. k + 1 \in DOMAIN lines /\ k + 1 # 1 /\ lines'[k] = lines[k + 1]
    BY <1>2
  <2> QED BY <1>2, <1>3, <2>1 DEF PInv, Paired, OneAnswer
<1>6. Asked' /\ Silent' /\ OneAnswer'
  BY <1>1, <1>4, <1>5 DEF Asked, Silent, OneAnswer
<1>7. ReadsAreFresh' /\ SetsAreDone' /\ (answer'.is = "value" => answer'.reg \in Regs)
  <2>1. CASE session \in {"verify", "discover"}
    BY <1>1, <2>1 DEF ReadsAreFresh, SetsAreDone, NoAnswer
  <2>2. CASE session = "ready"
    <3> DEFINE line == Head(lines)
    <3>1. answer' = Given(line) /\ schema' = schema /\ SetsAreDone'
      BY <1>1, <1>4, <2>2 DEF SetsAreDone
    <3>2. call \in Command
      BY <1>1 DEF IInv, ClientTypeOK
    <3>3. CASE call.cmd = "list"
      BY <1>1, <1>4, <3>1, <3>3 DEF Answers, Given, ReadsAreFresh
    <3>4. CASE call.cmd = "id"
      <4>1. line.is = "identity" /\ line.of \in ran
        BY <1>4, <3>4 DEF Answers
      <4>2. line.of = schema
        BY <1>1, <3>4 DEF Fits
      <4> QED BY <1>1, <3>1, <4>1, <4>2 DEF Given, ReadsAreFresh
    <3>5. CASE call.cmd = "get"
      <4>1. line.is = "value" /\ line.val \in had[call.reg] /\ call.reg \in Regs
        BY <1>4, <3>2, <3>5, CommandFacts DEF Answers
      <4>2. answer' = [is |-> "value", reg |-> call.reg, val |-> line.val]
        BY <3>1, <4>1 DEF Given
      <4> QED BY <1>1, <3>1, <4>1, <4>2 DEF ReadsAreFresh
    <3>6. CASE call.cmd = "set"
      BY <1>4, <3>1, <3>6 DEF Answers, Given, ReadsAreFresh
    <3> QED BY <3>2, <3>3, <3>4, <3>5, <3>6, CommandFacts, <3>1
  <2> QED BY <1>3, <2>1, <2>2 DEF IInv, ClientTypeOK
<1> QED BY <1>1, <1>4, <1>6, <1>7 DEF PInv, Paired

(* With what the device does, the history only grows.                      *)
LEMMA StillAnswers ==
  ASSUME IInv, call' = call, \A r \in Regs : had[r] \subseteq had'[r], ran \subseteq ran',
         NEW k, lines'[k] = lines[k], Answers(lines[k])
  PROVE  Answers(lines[k])'
<1>1. call.cmd = "get" => call.reg \in Regs
  BY CommandFacts DEF IInv, ClientTypeOK, NoCall
<1> QED BY <1>1 DEF Answers

LEMMA StillFresh ==
  ASSUME PInv, UNCHANGED <<answer, schema>>, done => done',
         \A r \in Regs : had[r] \subseteq had'[r], ran \subseteq ran'
  PROVE  ReadsAreFresh' /\ SetsAreDone'
BY DEF PInv, Paired, ReadsAreFresh, SetsAreDone

(* A step of the device that adds noise, or drops what was asked.          *)
LEMMA NoisePaired ==
  ASSUME IInv, PInv, UNCHANGED <<session, schema, call, answer, done>>,
         \A r \in Regs : had[r] \subseteq had'[r], ran \subseteq ran',
         commands' \in {commands, <<>>},
         \A k \in DOMAIN lines' : \/ k \in DOMAIN lines /\ lines'[k] = lines[k]
                                  \/ lines'[k] = Noise
  PROVE  PInv'
<1>1. Asked' /\ Silent'
  BY DEF PInv, Paired, Asked, Silent
<1>2. OneAnswer'
  <2> SUFFICES ASSUME session # "closed"
               PROVE  /\ \A k \in DOMAIN lines' : lines'[k] = Noise \/ (done' /\ Answers(lines[k])')
                      /\ \A j, k \in DOMAIN lines' : lines'[j] = Noise \/ lines'[k] = Noise \/ j = k
    BY DEF OneAnswer
  <2>1. ASSUME NEW k \in DOMAIN lines', lines'[k] # Noise
        PROVE  done' /\ Answers(lines[k])'
    <3>1. k \in DOMAIN lines /\ lines'[k] = lines[k]
      BY <2>1
    <3>2. done /\ Answers(lines[k])
      BY <2>1, <3>1 DEF PInv, Paired, OneAnswer
    <3> QED BY <3>1, <3>2, StillAnswers
  <2> QED BY <2>1 DEF PInv, Paired, OneAnswer
<1> QED BY <1>1, <1>2, StillFresh DEF PInv, Paired

LEMMA WitnessedGrows ==
  ASSUME IInv, Witnessed
  PROVE  /\ \A r \in Regs : had[r] \subseteq had'[r] /\ val'[r] \in had'[r]
         /\ ran \subseteq ran' /\ fw' \in ran'
BY DEF Witnessed

(* The device carries out the one command there is and answers it.         *)
LEMMA ServePaired ==
  ASSUME IInv, PInv, Serve
  PROVE  PInv'
<1>1. /\ UNCHANGED <<session, schema, call, answer, fw>> /\ Witnessed /\ (done => done')
      /\ commands # <<>> /\ commands' = Tail(commands)
  BY DEF Serve
<1>2. ReadsAreFresh' /\ SetsAreDone'
  BY <1>1, WitnessedGrows, StillFresh
<1>3. CASE session = "closed"
  BY <1>1, <1>2, <1>3 DEF PInv, Paired, Asked, Silent, OneAnswer
<1>4. CASE session # "closed"
  <2>1. commands = <<call>> /\ call # NoCall /\ call \in Command
        /\ \A k \in DOMAIN lines : lines[k] = Noise
    BY <1>1, <1>4 DEF PInv, Paired, Asked, Silent, IInv, ClientTypeOK
  <2>2. Head(commands) = call /\ commands' = <<>> /\ Len(commands) = 1
    BY <1>1, <2>1
  <2>3. done'
    BY <2>1, <2>2 DEF Serve
  <2>4. \A k \in DOMAIN lines' : \/ lines'[k] = Noise
                                 \/ k = Len(lines) + 2 /\ lines'[k] = Reply(call)
    BY <2>1, <2>2, ServeFacts
  <2>5. ASSUME NEW k \in DOMAIN lines', lines'[k] = Reply(call)
        PROVE  Answers(lines[k])'
    <3>1. call.cmd = "list" => Reply(call).is = "array" /\ Reply(call).of = fw /\ Reply(call).vals = val
      BY <2>1, ReplyFacts DEF IInv, Table
    <3>2. call.cmd = "id" => Reply(call).is = "identity" /\ Reply(call).of = fw
      BY <2>1, ReplyFacts DEF IInv, Identity
    <3>3. call.cmd = "get" => /\ Reply(call).is = "value" /\ Reply(call).val = val[call.reg]
                              /\ call.reg \in Regs
      BY <2>1, ReplyFacts, CommandFacts DEF IInv, Value
    <3>4. call.cmd = "set" => Reply(call).is \in {"ok", "error"}
      BY <2>1, ReplyFacts DEF IInv, Ok, Error
    <3>5. call.cmd # "set" => val' = val
      BY <2>2, ServeFacts
    <3> QED BY <1>1, <2>5, <3>1, <3>2, <3>3, <3>4, <3>5, WitnessedGrows DEF Answers
  <2>6. Asked' /\ Silent'
    BY <1>1, <2>1, <2>2 DEF Asked, Silent
  <2>7. OneAnswer'
    BY <2>3, <2>4, <2>5 DEF OneAnswer
  <2> QED BY <1>1, <1>2, <2>1, <2>2, <2>6, <2>7 DEF PInv, Paired
<1> QED BY <1>3, <1>4

LEMMA DevicePaired ==
  ASSUME IInv, PInv,
         Prints \/ (\E r \in Regs : Change(r)) \/ (\E f \in Firmware : Flash(f))
  PROVE  PInv'
<1>1. UNCHANGED <<session, schema, call, answer, done>> /\ commands' \in {commands, <<>>}
  BY DEF Prints, Change, Flash, history
<1>2. \/ Witnessed
      \/ UNCHANGED <<had, ran>>
  BY DEF Prints, Change, Flash, history
<1>3. (\A r \in Regs : had[r] \subseteq had'[r]) /\ ran \subseteq ran'
  BY <1>2, WitnessedGrows
<1>4. lines' = lines \/ Sent(<<Noise>>)
  BY DEF Prints, Change, Flash
<1>5. \A k \in DOMAIN lines' : \/ k \in DOMAIN lines /\ lines'[k] = lines[k]
                               \/ lines'[k] = Noise
  BY <1>4, SentFacts, LineFacts DEF IInv
<1> QED BY <1>1, <1>3, <1>5, NoisePaired

(***************************************************************************)
(* A port whose opening resets the device, and a program that an interrupt *)
(* ends: every call gets its own answer or none.                           *)
(***************************************************************************)
LEMMA Pairing ==
  ASSUME Resets, ~AtPrompt
  PROVE  Spec => [](IInv /\ PInv)
<1>1. IInv /\ PInv /\ [Next]_vars => PInv'
  <2> SUFFICES ASSUME IInv, PInv, [Next]_vars PROVE PInv'
    OBVIOUS
  <2>1. CASE Client
    <3>1. CASE Open
      BY <3>1, OpenPaired
    <3>2. CASE Close \/ Timeout \/ Interrupt \/ ReadMisfit
      BY <3>2, ClosedPaired DEF Close, Timeout, Interrupt, ReadMisfit, Fail
    <3>3. CASE ReadNoise \/ ReadAnswer
      BY <3>3, ReadNoisePaired, ReadAnswerPaired
    <3>4. CASE \E command \in Command : Call(command)
      BY <3>4, CallPaired
    <3> QED BY <2>1, <3>1, <3>2, <3>3, <3>4, CallsAreCommands
  <2>2. CASE Serve
    BY <2>2, ServePaired
  <2>3. CASE Prints \/ (\E r \in Regs : Change(r)) \/ (\E f \in Firmware : Flash(f))
    BY <2>3, DevicePaired
  <2>4. CASE UNCHANGED vars
    BY <2>4 DEF vars, history, PInv, Paired, Asked, Silent, OneAnswer, Answers,
                ReadsAreFresh, SetsAreDone
  <2> QED BY <2>1, <2>2, <2>3, <2>4 DEF Next
<1> QED BY <1>1, InitPaired, Invariance, PTL DEF Spec

(***************************************************************************)
(* What a read gives its caller is what the device had while the call was  *)
(* out, for every table and any length of use.  The two conditions are     *)
(* those under which the client is used: without the reset a device may    *)
(* still owe answers to the session before, and at the prompt an interrupt *)
(* leaves one on the wire (run client_interrupt).                          *)
(***************************************************************************)
THEOREM ReadsAreOwn ==
  ASSUME Resets, ~AtPrompt
  PROVE  Spec => []ReadsAreFresh
<1>1. IInv /\ PInv => ReadsAreFresh
  BY DEF PInv
<1> QED BY <1>1, Pairing, PTL

(***************************************************************************)
(* A set that reports, reports on itself: under the same conditions the    *)
(* device has carried out this very command.                               *)
(***************************************************************************)
THEOREM SetsReportThemselves ==
  ASSUME Resets, ~AtPrompt
  PROVE  Spec => []SetsAreDone
<1>1. IInv /\ PInv => SetsAreDone
  BY DEF PInv
<1> QED BY <1>1, Pairing, PTL

-----------------------------------------------------------------------------
(***************************************************************************)
(* The CLI, at the other end, has a state of its own: what it has in its   *)
(* buffer always leaves room for the end of the string.                    *)
(***************************************************************************)
LEMMA TypedLineFacts ==
  ASSUME NEW S, NEW line \in Seq(S)
  PROVE  /\ <<>> \in Seq(S) /\ Len(<<>>) = 0 /\ Len(line) \in Nat
         /\ line # <<>> => /\ Front(line) \in Seq(S)
                          /\ Len(Front(line)) = Len(line) - 1
         /\ \A c \in S : /\ Append(line, c) \in Seq(S)
                         /\ Len(Append(line, c)) = Len(line) + 1
<1>1. ASSUME line # <<>>
      PROVE  Front(line) \in Seq(S) /\ Len(Front(line)) = Len(line) - 1
  <2>1. Len(line) \in Nat /\ Len(line) # 0
    BY <1>1, EmptySeq, LenProperties
  <2>2. Front(line) = SubSeq(line, 1, Len(line) - 1)
    BY DEF Front
  <2>3. SubSeq(line, 1, Len(line) - 1) \in Seq(S)
    BY <2>1, SubSeqProperties
  <2>4. Len(SubSeq(line, 1, Len(line) - 1)) = Len(line) - 1
    BY <2>1, SubSeqProperties, LenProperties, Len(line) - 1 - 1 + 1 = Len(line) - 1
  <2> QED BY <2>2, <2>3, <2>4
<1>2. <<>> \in Seq(S) /\ Len(<<>>) = 0 /\ Len(line) \in Nat
  OBVIOUS
<1>3. ASSUME NEW c \in S
      PROVE  Append(line, c) \in Seq(S) /\ Len(Append(line, c)) = Len(line) + 1
  BY <1>3
<1> QED BY <1>1, <1>2, <1>3

Replies == [as : {"text", "json"},
            about : {"nothing", "result", "help", "error", "too long"}]

LEMMA ReplyIsTyped ==
  ASSUME NEW about \in {"result", "help", "error", "too long"}, NEW json \in BOOLEAN,
         ReplyIs(about, json)
  PROVE  reply' \in Replies
BY DEF ReplyIs, Replies

LEMMA NoReplyFact == NoReply \in Replies
BY DEF NoReply, Replies

-----------------------------------------------------------------------------
(* Every set of naturals that is not empty has a least element.            *)
LEMMA LeastPosition ==
  ASSUME NEW T, T \subseteq Nat, T # {}
  PROVE  \E x \in T : \A y \in T : x <= y
<1> DEFINE R == OpToRel(<, Nat)
<1>1. IsWellFoundedOn(R, Nat)
  BY NatLessThanWellFounded
<1>2. \A x, y \in Nat : y < x => <<y, x>> \in R
  BY DEF OpToRel
<1>3. \E x \in T : \A y \in T : ~(<<y, x>> \in R)
  <2> HIDE DEF R
  <2> QED BY <1>1, WFMin
<1>4. PICK x \in T : \A y \in T : <<y, x>> \notin R
  BY <1>3
<1>5. ASSUME NEW y \in T PROVE x <= y
  <2>1. ~(y < x)
    BY <1>2, <1>4
  <2> QED BY <2>1
<1> QED BY <1>5

(* The tokeniser's state after each byte of a line.                        *)
ScanTo(f, n, line) ==
  f = [k \in 0 .. n |-> IF k = 0 THEN NewScan ELSE ScanByte(f[k - 1], line[k])]

LEMMA ScanExists ==
  ASSUME NEW line, NEW n \in Nat
  PROVE  \E f : ScanTo(f, n, line)
<1> DEFINE bad == {k \in Nat : ~\E f : ScanTo(f, k, line)}
<1> SUFFICES ASSUME bad # {} PROVE FALSE
  OBVIOUS
<1>1. PICK k \in bad : \A j \in bad : k <= j
  <2> HIDE DEF ScanTo
  <2> QED BY LeastPosition
<1>2. CASE k = 0
  <2>1. ScanTo([j \in 0 .. 0 |-> NewScan], 0, line)
    BY DEF ScanTo
  <2> QED BY <2>1, <1>1, <1>2
<1>3. CASE k # 0
  <2>1. k - 1 \in Nat /\ k - 1 \notin bad
    BY <1>1, <1>3
  <2>2. PICK g : ScanTo(g, k - 1, line)
    BY <2>1
  <2> DEFINE f == [j \in 0 .. k |-> IF j < k THEN g[j] ELSE ScanByte(g[k - 1], line[k])]
  <2>3. ASSUME NEW j \in 0 .. k
        PROVE  f[j] = IF j = 0 THEN NewScan ELSE ScanByte(f[j - 1], line[j])
    <3>1. CASE j = k
      BY <3>1, <2>1, <1>3
    <3>2. CASE j < k
      <4>1. j \in 0 .. (k - 1)
        BY <3>2, <2>1
      <4>2. g[j] = IF j = 0 THEN NewScan ELSE ScanByte(g[j - 1], line[j])
        BY <2>2, <4>1 DEF ScanTo
      <4>3. f[j] = g[j] /\ (j # 0 => f[j - 1] = g[j - 1])
        BY <3>2
      <4> HIDE DEF f
      <4> QED BY <4>2, <4>3
    <3> QED BY <3>1, <3>2
  <2>4. ScanTo(f, k, line)
    <3>1. f = [j \in 0 .. k |-> f[j]]
      OBVIOUS
    <3> HIDE DEF f
    <3> QED BY <2>3, <3>1, Zenon DEF ScanTo
  <2> QED BY <1>1, <2>4
<1> QED BY <1>2, <1>3

LEMMA SplitRun ==
  ASSUME NEW line, Len(line) \in Nat
  PROVE  \E f : ScanTo(f, Len(line), line) /\ Split(line) = EndWord(f[Len(line)])
<1> DEFINE f == CHOOSE h : ScanTo(h, Len(line), line)
<1>1. ScanTo(f, Len(line), line)
  BY ScanExists
<1>2. Split(line) = EndWord(f[Len(line)])
  BY DEF Split, ScanTo
<1> QED BY <1>1, <1>2

Scans(S) == [argv : Seq(Seq(S)), json : BOOLEAN, tooMany : BOOLEAN,
             word : Seq(S), over : BOOLEAN]

LEMMA EndWordFacts ==
  ASSUME NEW S, NEW s \in Scans(S)
  PROVE  /\ EndWord(s) \in Scans(S)
         /\ EndWord(s).word = <<>> /\ EndWord(s).over = s.over
         /\ EndWord(s).json <=> s.json \/ s.word = <<"--json">>
<1>1. /\ s.argv \in Seq(Seq(S)) /\ s.word \in Seq(S) /\ s.json \in BOOLEAN
      /\ s.tooMany \in BOOLEAN /\ s.over \in BOOLEAN /\ <<>> \in Seq(S)
  BY DEF Scans
<1>2. Append(s.argv, s.word) \in Seq(Seq(S))
  BY <1>1
<1>3. <<"--json">> # <<>>
  OBVIOUS
<1>4. CASE s.word = <<>>
  BY <1>3, <1>4 DEF EndWord
<1>5. CASE s.word # <<>> /\ s.word = <<"--json">>
  BY <1>1, <1>5 DEF EndWord, Scans
<1>6. CASE s.word # <<>> /\ s.word # <<"--json">> /\ Len(s.argv) = MaxArgs
  BY <1>1, <1>6 DEF EndWord, Scans
<1>7. CASE s.word # <<>> /\ s.word # <<"--json">> /\ Len(s.argv) # MaxArgs
  BY <1>1, <1>2, <1>7 DEF EndWord, Scans
<1> QED BY <1>4, <1>5, <1>6, <1>7

(* A flag that begins a word, in the part of the line that is a C string.  *)
FlagAt(line, k) ==
  /\ line[k] = "--json"
  /\ \A j \in 1 .. k : line[j] # "NUL"
  /\ k > 1 => line[k - 1] = " "

(* What the tokeniser knows when it has read n bytes of the line.          *)
Scanned(S, s, n, line) ==
  /\ s \in Scans(S)
  /\ s.over <=> \E j \in 1 .. n : line[j] = "NUL"
  /\ s.over => s.word = <<>>
  /\ ~s.over => /\ s.word = <<>> <=> n = 0 \/ line[n] = " "
                /\ s.word = <<"--json">> <=> n > 0 /\ FlagAt(line, n)
  /\ s.json <=> \E k \in 1 .. (n - 1) : FlagAt(line, k) /\ line[k + 1] \in {" ", "NUL"}

LEMMA ScanStep ==
  ASSUME NEW S, NEW line \in Seq(S), NEW n \in 1 .. Len(line), NEW s,
         Scanned(S, s, n - 1, line)
  PROVE  Scanned(S, ScanByte(s, line[n]), n, line)
<1> DEFINE c == line[n]
           t == ScanByte(s, c)
           Found(m) == \E k \in 1 .. (m - 1) : FlagAt(line, k) /\ line[k + 1] \in {" ", "NUL"}
<1>1. /\ n \in Nat /\ n > 0 /\ n - 1 \in Nat /\ c \in S /\ <<"--json">> # <<>>
      /\ " " # "NUL" /\ "--json" # " " /\ "--json" # "NUL"
  BY ElementOfSeq, LenProperties
<1>2. s \in Scans(S) /\ s.word \in Seq(S)
  BY DEF Scanned, Scans
<1>w. ~s.over => /\ s.word = <<>> <=> (n > 1 => line[n - 1] = " ")
                 /\ s.word = <<"--json">> <=> n > 1 /\ FlagAt(line, n - 1)
  <2>1. ~s.over => /\ s.word = <<>> <=> n - 1 = 0 \/ line[n - 1] = " "
                   /\ s.word = <<"--json">> <=> n - 1 > 0 /\ FlagAt(line, n - 1)
    BY Zenon DEF Scanned
  <2>2. (n - 1 = 0 <=> ~(n > 1)) /\ (n - 1 > 0 <=> n > 1)
    BY <1>1
  <2> QED BY <2>1, <2>2, Zenon
<1>3. \A j : j \in 1 .. n <=> j \in 1 .. (n - 1) \/ j = n
  BY <1>1
<1>4. (\E j \in 1 .. n : line[j] = "NUL") <=> s.over \/ c = "NUL"
  BY <1>3 DEF Scanned
<1>5. Found(n) <=> s.json \/ (n > 1 /\ FlagAt(line, n - 1) /\ c \in {" ", "NUL"})
  <2>1. s.json <=> Found(n - 1)
    BY DEF Scanned
  <2>2. \A k : k \in 1 .. (n - 1) <=> k \in 1 .. (n - 1 - 1) \/ (n > 1 /\ k = n - 1)
    BY <1>1
  <2>3. n - 1 + 1 = n
    BY <1>1
  <2> HIDE DEF FlagAt
  <2> QED BY <2>1, <2>2, <2>3, Zenon
<1>6. CASE s.over
  <2>1. t = s
    BY <1>6 DEF ScanByte
  <2>2. ~(n > 1 /\ FlagAt(line, n - 1))
    <3>1. PICK j \in 1 .. (n - 1) : line[j] = "NUL"
      BY <1>6 DEF Scanned
    <3> QED BY <1>1, <3>1 DEF FlagAt
  <2>3. s.word = <<>>
    BY <1>6 DEF Scanned
  <2> QED BY <1>2, <1>4, <1>5, <1>6, <2>1, <2>2, <2>3 DEF Scanned
<1>7. CASE ~s.over /\ c \in {" ", "NUL"}
  <2> DEFINE e == EndWord(s)
  <2>1. /\ e \in Scans(S) /\ e.word = <<>> /\ ~e.over
        /\ e.json <=> s.json \/ s.word = <<"--json">>
    BY <1>2, <1>7, EndWordFacts
  <2>2. t = IF c = " " THEN e ELSE [e EXCEPT !.over = TRUE]
    BY <1>1, <1>7 DEF ScanByte
  <2> HIDE DEF e
  <2>3. t \in Scans(S) /\ t.word = <<>> /\ (t.over <=> c = "NUL") /\ t.json = e.json
    <3>1. CASE c = " "
      BY <1>1, <2>1, <2>2, <3>1
    <3>2. CASE c = "NUL"
      BY <1>1, <2>1, <2>2, <3>2 DEF Scans
    <3> QED BY <1>7, <3>1, <3>2
  <2>4. s.word = <<"--json">> <=> n > 1 /\ FlagAt(line, n - 1)
    BY <1>7, <1>w
  <2>5. ~FlagAt(line, n)
    BY <1>1, <1>7 DEF FlagAt
  <2>6. t.json <=> Found(n)
    BY <1>5, <1>7, <2>1, <2>3, <2>4
  <2> HIDE DEF t, Found
  <2>7. ~t.over => c = " "
    BY <1>7, <2>3
  <2>8. t.over <=> \E j \in 1 .. n : line[j] = "NUL"
    BY <1>4, <1>7, <2>3
  <2> QED BY <1>1, <2>3, <2>5, <2>6, <2>7, <2>8 DEF Scanned, Found, t
<1>8. CASE ~s.over /\ c \notin {" ", "NUL"}
  <2>1. t = [s EXCEPT !.word = Append(s.word, c)]
    BY <1>8 DEF ScanByte
  <2>2. t \in Scans(S) /\ t.word = Append(s.word, c) /\ ~t.over /\ t.json = s.json
    <3>1. Append(s.word, c) \in Seq(S)
      BY <1>1, <1>2
    <3> QED BY <1>2, <1>8, <2>1, <3>1 DEF Scans
  <2>3. t.word # <<>> /\ (t.word = <<"--json">> <=> s.word = <<>> /\ c = "--json")
    <3> DEFINE w == s.word
               a == Append(w, c)
    <3>1. Len(a) = Len(w) + 1 /\ a[Len(w) + 1] = c /\ Len(w) \in Nat /\ (w = <<>> <=> Len(w) = 0)
      BY <1>1, <1>2
    <3>2. w = <<>> => a = <<c>>
      BY <1>1
    <3>3. Len(<<"--json">>) = 1 /\ <<"--json">>[1] = "--json" /\ Len(<<>>) = 0
      OBVIOUS
    <3> HIDE DEF a, w
    <3>4. a # <<>> /\ (a = <<"--json">> <=> w = <<>> /\ c = "--json")
      BY <3>1, <3>2, <3>3
    <3> QED BY <2>2, <3>4 DEF a, w
  <2>4. \A j \in 1 .. n : line[j] # "NUL"
    BY <1>4, <1>8
  <2>5. s.word = <<>> <=> (n > 1 => line[n - 1] = " ")
    BY <1>8, <1>w
  <2>6. FlagAt(line, n) <=> s.word = <<>> /\ c = "--json"
    BY <2>4, <2>5 DEF FlagAt
  <2>7. t.json <=> Found(n)
    BY <1>5, <1>8, <2>2
  <2>8. c # " " /\ n # 0
    <3>1. n # 0
      BY <1>1
    <3> HIDE DEF c
    <3> QED BY <1>8, <3>1
  <2>9. t.over <=> \E j \in 1 .. n : line[j] = "NUL"
    BY <2>2, <2>4
  <2>a. t.word = <<"--json">> <=> n > 0 /\ FlagAt(line, n)
    BY <1>1, <2>3, <2>6
  <2> HIDE DEF t, FlagAt
  <2>b. Scanned(S, t, n, line)
    BY <2>2, <2>3, <2>7, <2>8, <2>9, <2>a DEF Scanned
  <2> QED BY <2>b DEF t
<1> QED BY <1>6, <1>7, <1>8 DEF Scanned, Scans

LEMMA ScanFacts ==
  ASSUME NEW S, NEW line \in Seq(S), NEW f, ScanTo(f, Len(line), line), NEW n \in 0 .. Len(line)
  PROVE  Scanned(S, f[n], n, line)
<1> DEFINE bad == {k \in Nat : k <= Len(line) /\ ~Scanned(S, f[k], k, line)}
<1>0. Len(line) \in Nat
  BY LenProperties
<1>1. bad = {}
  <2> SUFFICES ASSUME bad # {} PROVE FALSE
    OBVIOUS
  <2>1. PICK k \in bad : \A j \in bad : k <= j
    <3> HIDE DEF Scanned
    <3> QED BY LeastPosition
  <2>2. f[k] = IF k = 0 THEN NewScan ELSE ScanByte(f[k - 1], line[k])
    BY <1>0, <2>1 DEF ScanTo
  <2>3. CASE k = 0
    <3>1. NewScan \in Scans(S)
      BY DEF NewScan, Scans
    <3>2. f[k] = NewScan /\ <<"--json">> # <<>>
      BY <2>2, <2>3
    <3>3. Scanned(S, f[k], k, line)
      <4>1. /\ NewScan.over = FALSE /\ NewScan.word = <<>> /\ NewScan.json = FALSE
        BY DEF NewScan
      <4>2. 1 .. 0 = {} /\ 1 .. (0 - 1) = {} /\ ~(0 > 0)
        OBVIOUS
      <4>3. ~NewScan.json /\ ~NewScan.over
        BY <4>1
      <4> HIDE DEF FlagAt
      <4> QED BY <2>3, <3>1, <3>2, <4>1, <4>2, <4>3 DEF Scanned
    <3> QED BY <2>1, <3>3
  <2>4. CASE k # 0
    <3>1. k - 1 \in Nat /\ k - 1 \notin bad /\ k \in 1 .. Len(line)
      BY <1>0, <2>1, <2>4
    <3>2. Scanned(S, f[k - 1], k - 1, line)
      BY <1>0, <3>1
    <3> HIDE DEF Scanned
    <3> QED BY <2>1, <2>2, <2>4, <3>1, <3>2, ScanStep
  <2> QED BY <2>3, <2>4
<1> QED BY <1>0, <1>1

(* The tokeniser finds the flag in just the lines that ask for it.         *)
LEMMA SplitFindsTheFlag ==
  ASSUME NEW S, NEW line \in Seq(S)
  PROVE  Json(line) \in BOOLEAN /\ (Json(line) <=> AsksForJson(line))
<1> DEFINE n == Len(line)
<1>1. n \in Nat /\ DOMAIN line = 1 .. n
  BY LenProperties
<1>2. PICK f : ScanTo(f, n, line) /\ Split(line) = EndWord(f[n])
  BY <1>1, SplitRun
<1>3. Scanned(S, f[n], n, line)
  BY <1>1, <1>2, ScanFacts
<1>4. f[n] \in Scans(S)
  BY <1>3 DEF Scanned
<1>5. Json(line) \in BOOLEAN /\ (Json(line) <=> f[n].json \/ f[n].word = <<"--json">>)
  BY <1>2, <1>4, EndWordFacts DEF Json, Scans
<1>6. f[n].word = <<"--json">> <=> n > 0 /\ FlagAt(line, n)
  <2>1. CASE f[n].over
    <3>1. PICK j \in 1 .. n : line[j] = "NUL"
      BY <1>3, <2>1 DEF Scanned
    <3>2. ~FlagAt(line, n)
      BY <3>1 DEF FlagAt
    <3>3. f[n].word = <<>> /\ <<"--json">> # <<>>
      BY <1>3, <2>1 DEF Scanned
    <3> QED BY <3>2, <3>3
  <2>2. CASE ~f[n].over
    BY <1>3, <2>2 DEF Scanned
  <2> QED BY <2>1, <2>2
<1>7. f[n].json <=> \E k \in 1 .. (n - 1) : FlagAt(line, k) /\ line[k + 1] \in {" ", "NUL"}
  BY <1>3 DEF Scanned
<1>8. AsksForJson(line) <=> \E k \in 1 .. n : FlagAt(line, k)
                              /\ (k < n => line[k + 1] \in {" ", "NUL"})
  BY <1>1 DEF AsksForJson, FlagAt
<1>9. \A k \in 1 .. n : k < n => k \in 1 .. (n - 1)
  BY <1>1
<1>a. Json(line) <=> (\E k \in 1 .. (n - 1) : FlagAt(line, k) /\ line[k + 1] \in {" ", "NUL"})
                     \/ (n > 0 /\ FlagAt(line, n))
  BY <1>5, <1>6, <1>7
<1> HIDE DEF n, FlagAt
<1>b. Json(line) <=> AsksForJson(line)
  <2>1. ASSUME NEW k \in 1 .. n, FlagAt(line, k), k < n => line[k + 1] \in {" ", "NUL"}
        PROVE  Json(line)
    <3>1. CASE k < n
      BY <1>9, <1>a, <2>1, <3>1
    <3>2. CASE ~(k < n)
      <4>1. k = n /\ n > 0
        BY <1>1, <3>2
      <4> QED BY <1>a, <2>1, <4>1
    <3> QED BY <3>1, <3>2
  <2>2. ASSUME Json(line) PROVE AsksForJson(line)
    <3>1. CASE n > 0 /\ FlagAt(line, n)
      <4>1. n \in 1 .. n /\ ~(n < n)
        BY <1>1, <3>1
      <4> QED BY <1>8, <3>1, <4>1
    <3>2. CASE \E k \in 1 .. (n - 1) : FlagAt(line, k) /\ line[k + 1] \in {" ", "NUL"}
      <4>1. PICK k \in 1 .. (n - 1) : FlagAt(line, k) /\ line[k + 1] \in {" ", "NUL"}
        BY <3>2
      <4>2. k \in 1 .. n
        BY <1>1
      <4> QED BY <1>8, <4>1, <4>2
    <3> QED BY <1>a, <2>2, <3>1, <3>2
  <2> QED BY <1>8, <2>1, <2>2, Zenon
<1> QED BY <1>5, <1>b

-----------------------------------------------------------------------------
(* What a step keeps of the types comes down to three facts.               *)
BoundedLine ==
  /\ buf \in Seq(Letters) /\ Len(buf) < Size
  /\ keys \in 0 .. MaxKeys /\ typed \in Seq(Letters) /\ Len(typed) <= keys

LEMMA TypeOKIs ==
  TypeOK <=> /\ setup \in Setups /\ BoundedLine /\ overflow \in BOOLEAN
             /\ held \in Seq(Digits) /\ reply \in Replies
BY DEF TypeOK, BoundedLine, Replies

LEMMA LineStaysBounded ==
  ASSUME BoundedLine, setup \in Setups, setup' = setup,
         \/ \E c \in Letters : FeedLetter(c)
         \/ FeedErase
         \/ EndOfLine
  PROVE  BoundedLine'
<1> USE DEF Size, Letters, MaxKeys, BoundedLine
<1>1. setup.size \in Nat \ {0} /\ setup.keys \in Nat
  BY SetupAssumption
<1>2. CASE \E c \in Letters : FeedLetter(c)
  <2>1. PICK c \in Letters : FeedLetter(c)
    BY <1>2
  <2>2. keys' = keys + 1 /\ keys' \in 0 .. MaxKeys
    BY <1>1, <2>1 DEF FeedLetter
  <2>3. typed' \in Seq(Letters) /\ Len(typed') = Len(typed) + 1 /\ Len(typed) \in Nat
    BY <2>1, TypedLineFacts DEF FeedLetter
  <2>4. buf' \in Seq(Letters) /\ Len(buf') < Size
    <3>1. Len(buf) \in Nat /\ Append(buf, c) \in Seq(Letters) /\ Len(Append(buf, c)) = Len(buf) + 1
      BY <2>1, TypedLineFacts
    <3>2. CASE Len(buf) < Size - 1
      <4>1. buf' = Append(buf, c)
        BY <2>1, <3>2 DEF FeedLetter
      <4> QED BY <1>1, <3>1, <3>2, <4>1
    <3>3. CASE ~(Len(buf) < Size - 1)
      BY <2>1, <3>3 DEF FeedLetter
    <3> QED BY <3>2, <3>3
  <2> QED BY <1>1, <2>2, <2>3, <2>4
<1>3. CASE FeedErase
  <2>1. keys' = keys + 1 /\ keys' \in 0 .. MaxKeys
    BY <1>1, <1>3 DEF FeedErase
  <2>2. typed' \in Seq(Letters) /\ Len(typed') <= Len(typed) /\ {Len(typed), Len(typed')} \subseteq Nat
    BY <1>3, TypedLineFacts DEF FeedErase
  <2>3. buf' \in Seq(Letters) /\ Len(buf') <= Len(buf) /\ {Len(buf), Len(buf')} \subseteq Nat
    BY <1>3, TypedLineFacts DEF FeedErase
  <2> QED BY <1>1, <2>1, <2>2, <2>3
<1>4. CASE EndOfLine
  BY <1>1, <1>4, TypedLineFacts DEF EndOfLine
<1> QED BY <1>2, <1>3, <1>4

(***************************************************************************)
(* regcli_feed keeps the types of its state, never fills the buffer to the *)
(* last byte, and a register is only ever set to a number, for every       *)
(* buffer size, number of arguments and alphabet.                          *)
(***************************************************************************)
THEOREM CliTypeCorrect == CliSpec => []TypeOK
<1>1. CliInit => TypeOK
  <2> SUFFICES ASSUME CliInit PROVE TypeOK
    OBVIOUS
  <2>1. setup.size \in Nat \ {0} /\ setup.keys \in Nat
    BY SetupAssumption DEF CliInit
  <2>2. BoundedLine
    BY <2>1, EmptySeq DEF CliInit, BoundedLine, Size, MaxKeys, Letters
  <2>3. held \in Seq(Digits)
    BY DEF CliInit
  <2> QED BY <2>2, <2>3, NoReplyFact, TypeOKIs DEF CliInit
<1>2. TypeOK /\ [CliNext]_cliVars => TypeOK'
  <2> SUFFICES ASSUME setup \in Setups, BoundedLine, overflow \in BOOLEAN,
                      held \in Seq(Digits), reply \in Replies, [CliNext]_cliVars
               PROVE  /\ setup' \in Setups /\ BoundedLine' /\ overflow' \in BOOLEAN
                      /\ held' \in Seq(Digits) /\ reply' \in Replies
    BY TypeOKIs DEF TypeOK, BoundedLine, Replies, Size, Letters, MaxKeys
  <2>1. ASSUME NEW c \in Letters, FeedLetter(c), setup' = setup
        PROVE  BoundedLine' /\ overflow' \in BOOLEAN /\ held' = held /\ reply' = NoReply
    BY <2>1, LineStaysBounded DEF FeedLetter
  <2>2. ASSUME FeedErase, setup' = setup
        PROVE  BoundedLine' /\ overflow' = overflow /\ held' = held /\ reply' = NoReply
    BY <2>2, LineStaysBounded DEF FeedErase
  <2>3. ASSUME FeedEnd, setup' = setup
        PROVE  /\ BoundedLine' /\ overflow' \in BOOLEAN
               /\ held' \in Seq(Digits) /\ reply' \in Replies
    <3>1. EndOfLine /\ (held' = held \/ held' \in Seq(Digits))
      BY <2>3 DEF FeedEnd, EndEmpty, EndTooLong, EndSet, EndAnswer, EndHelp, EndRefused,
                  SetsRegister, IsNumber
    <3>2. \/ reply' = NoReply
          \/ \E about \in {"result", "help", "error", "too long"}, json \in BOOLEAN :
               ReplyIs(about, json)
      <4>1. Json(buf) \in BOOLEAN
        BY SplitFindsTheFlag DEF BoundedLine
      <4> QED BY <2>3, <4>1, Zenon
              DEF FeedEnd, EndEmpty, EndTooLong, EndSet, EndAnswer, EndHelp, EndRefused
    <3>3. reply' \in Replies
      BY <3>2, ReplyIsTyped, NoReplyFact, Zenon
    <3>4. BoundedLine'
      BY <2>3, <3>1, LineStaysBounded
    <3> QED BY <3>1, <3>3, <3>4 DEF EndOfLine
  <2>4. CASE UNCHANGED cliVars
    BY <2>4 DEF cliVars, BoundedLine, Size, Letters, MaxKeys
  <2> QED BY <2>1, <2>2, <2>3, <2>4, NoReplyFact DEF CliNext, Feed
<1> QED BY <1>1, <1>2, PTL DEF CliSpec

(***************************************************************************)
(* A line that has not been cut is the line that was typed, by an editor   *)
(* without a limit: a byte is kept or the line is marked, erasing takes    *)
(* the same byte from both, and nothing but the end of the line removes    *)
(* the mark.                                                               *)
(***************************************************************************)
LEMMA CliInvariance == CliSpec => [](TypeOK /\ RunsWhatWasMeant)
<1> USE DEF RunsWhatWasMeant
<1>1. CliInit => RunsWhatWasMeant
  BY DEF CliInit
<1>2. RunsWhatWasMeant /\ [CliNext]_cliVars => RunsWhatWasMeant'
  <2> SUFFICES ASSUME RunsWhatWasMeant, [CliNext]_cliVars PROVE RunsWhatWasMeant'
    OBVIOUS
  <2>1. CASE \E c \in Letters : FeedLetter(c)
    BY <2>1 DEF FeedLetter
  <2>2. CASE FeedErase
    BY <2>2 DEF FeedErase
  <2>3. CASE FeedEnd
    BY <2>3 DEF FeedEnd, EndEmpty, EndTooLong, EndSet, EndAnswer,
                EndHelp, EndRefused, EndOfLine
  <2>4. CASE UNCHANGED cliVars
    BY <2>4 DEF cliVars
  <2> QED BY <2>1, <2>2, <2>3, <2>4 DEF CliNext, Feed
<1> QED BY <1>1, <1>2, CliTypeCorrect, PTL DEF CliSpec

(***************************************************************************)
(* regcli_feed: what runs is what was meant, however much is typed and     *)
(* erased before and after the buffer was full.                            *)
(***************************************************************************)
THEOREM CliRunsTheLine == CliSpec => []RunsWhatWasMeant
BY CliInvariance, PTL

LEMMA RepliesAbout ==
  ASSUME NEW about, NEW json, ReplyIs(about, json)
  PROVE  reply'.about = about
BY Zenon DEF ReplyIs

(***************************************************************************)
(* A result or an error comes in the form that the line asked for: the     *)
(* scan of the tokeniser finds the flag as a word of its own wherever it   *)
(* sits, with any number of arguments too many, and finds nothing else,    *)
(* for every size of buffer and every line.                                *)
(***************************************************************************)
THEOREM CliAnswersInForm == CliSpec => AnswersAsAsked
<1> DEFINE InForm == reply'.about \in {"result", "error"} =>
                       (reply'.as = "json" <=> AsksForJson(typed))
<1>1. TypeOK /\ RunsWhatWasMeant /\ CliNext => InForm
  <2> SUFFICES ASSUME TypeOK, RunsWhatWasMeant, CliNext PROVE InForm
    OBVIOUS
  <2>1. buf \in Seq(Letters)
    BY DEF TypeOK
  <2>2. CASE (\E c \in Letters : FeedLetter(c)) \/ FeedErase \/ EndEmpty
    <3>1. reply' = NoReply
      BY <2>2 DEF FeedLetter, FeedErase, EndEmpty
    <3> QED BY <3>1 DEF NoReply
  <2>3. CASE EndTooLong
    <3>1. reply'.about = "too long"
      BY <2>3, RepliesAbout, Zenon DEF EndTooLong
    <3> QED BY <3>1
  <2>4. CASE EndHelp
    <3>1. reply'.about = "help"
      BY <2>4, RepliesAbout, Zenon DEF EndHelp
    <3> QED BY <3>1
  <2>5. CASE EndSet \/ EndAnswer \/ EndRefused
    <3>1. buf = typed
      BY <2>5 DEF EndSet, EndAnswer, EndRefused, RunsWhatWasMeant
    <3>2. ReplyIs("result", Json(buf)) \/ ReplyIs("error", Json(buf))
      BY <2>5 DEF EndSet, EndAnswer, EndRefused
    <3>3. reply'.as = "json" <=> Json(buf)
      BY <3>2 DEF ReplyIs
    <3> QED BY <2>1, <3>1, <3>3, SplitFindsTheFlag
  <2> QED BY <2>2, <2>3, <2>4, <2>5 DEF CliNext, Feed, FeedEnd
<1>2. TypeOK /\ RunsWhatWasMeant /\ [CliNext]_cliVars => [InForm]_cliVars
  BY <1>1
<1> QED BY <1>2, CliInvariance, PTL DEF CliSpec, AnswersAsAsked

(***************************************************************************)
(* The register changes only at the end of a line that, as it was typed,   *)
(* sets it to just this value: never by the rest of a cut line, whatever   *)
(* was erased before or after it was cut.                                  *)
(***************************************************************************)
THEOREM CliWritesTheLine == CliSpec => WritesOnlyWhatWasMeant
<1>1. RunsWhatWasMeant /\ [CliNext]_cliVars =>
        [held' # held => /\ ~TooMany(typed) /\ SetsRegister(Args(typed))
                         /\ held' = Args(typed)[3]]_cliVars
  <2> SUFFICES ASSUME RunsWhatWasMeant, CliNext, held' # held
               PROVE  ~TooMany(typed) /\ SetsRegister(Args(typed)) /\ held' = Args(typed)[3]
    OBVIOUS
  <2>1. EndSet
    BY DEF CliNext, Feed, FeedLetter, FeedErase, FeedEnd, EndEmpty,
           EndTooLong, EndAnswer, EndHelp, EndRefused
  <2> QED BY <2>1 DEF EndSet, RunsWhatWasMeant
<1> QED BY <1>1, CliInvariance, PTL DEF CliSpec, WritesOnlyWhatWasMeant
=============================================================================
