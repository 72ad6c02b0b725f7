------------------------------ MODULE RegModbus -----------------------------
(***************************************************************************)
(* The Modbus slave of regtable_modbus.c: one request in, one answer out,  *)
(* over a table of registers.  A request is checked as a whole, then       *)
(* carried out entry by entry; between two entries the hooks of the        *)
(* application run (on_read, on_write), and may assign any variable.       *)
(*                                                                         *)
(* A PDU is kept as its fields; `whole` says that its length agrees with   *)
(* its function code and byte count.  Of a frame is kept whether it is     *)
(* sound (length, CRC, MBAP header) and whom it is for, and of the         *)
(* response buffer its size in bytes.                                      *)
(***************************************************************************)
EXTENDS RegTypes, ModbusMap, Sequences

CONSTANTS
  N, Table,              \* the entries, as in RegCore
  Addr,                  \* their modbus_addr
  TOP,                   \* 16#10000
  MaxReadQty, MaxWriteQty,   \* 125 and 123
  WordSwap,              \* mb->word_swap
  Boot,                  \* what the variables may hold when the slave starts
  Samples,               \* Samples[i]: what the application may assign to entry i's variable
  PDUs,                  \* the requests a master may send
  Caps                   \* the response buffer sizes platform code may pass

Index      == 0 .. (N - 1)
TwoWord(t) == t \in {"U32", "I32", "FLOAT"}
EntryWords(i) == IF TwoWord(Table[i].type) THEN 2 ELSE 1

WordMap == [addr |-> Addr, span |-> [i \in Index |-> EntryWords(i)], top |-> TOP]

W    == 2 * H16                     \* the values of a 16-bit word
Word == 0 .. (W - 1)

FunctionCodes == {"read", "write1", "write", "other"}   \* 03/04, 06, 16, any other
PDU == [fc : FunctionCodes, whole : BOOLEAN, start : 0 .. (TOP - 1), qty : Nat,
        data : Seq(Word)]

ASSUME ModbusAssumption ==
  /\ N \in Nat /\ TOP \in Nat \ {0}
  /\ Table \in [Index -> Entry] /\ \A i \in Index : Sane(Table[i])
  /\ Addr \in [Index -> 0 .. (TOP - 1)]
  /\ 2 * H32 = W * W
  /\ MapAccepted(WordMap)               \* regmb_init returned REG_OK
  /\ MaxReadQty \in Nat /\ MaxWriteQty \in Nat
  /\ WordSwap \in BOOLEAN
  /\ \A i \in Index : Samples[i] \subseteq CellOf(Table[i].type)
  /\ \A b \in Boot : b \in [Index -> Int] /\ \A i \in Index : b[i] \in CellOf(Table[i].type)
  /\ \A p \in PDUs : p \in PDU /\ (p.whole /\ p.fc = "write" => Len(p.data) = p.qty)
                               /\ (p.fc = "write1" => Len(p.data) = 1 /\ p.qty = 1)
  /\ Caps \subseteq Nat

VARIABLES
  cell,       \* the C variables behind the entries
  phase,      \* "idle", "busy" inside a handler, "done" with an answer
  req,        \* the PDU being handled
  bcast,      \* it came as a broadcast
  pcap,       \* room for the response PDU, in bytes
  cursor,     \* addr, the word the loop is at
  out,        \* the words put into the response so far
  answer,
  \* history:
  old,        \* what the application left in the variables: when the request
              \* arrived, or when a hook assigned them since
  own,        \* the entries hooks assigned since the request last wrote them
  held        \* held[i]: the raw values entry i had while it was handled

vars == <<cell, phase, req, bcast, pcap, cursor, out, answer, old, own, held>>

Val(i) == LoadRaw(Table[i].type, cell[i])

Silent       == [kind |-> "silent"]
Exception(c) == [kind |-> "exception", code |-> c]
Echo         == [kind |-> "echo"]
Data(words)  == [kind |-> "data", words |-> words]
NoPDU        == [fc |-> "none"]

-----------------------------------------------------------------------------
(* raw <-> wire words.                                                     *)
RawToWordsHighFirst(type, raw) ==         \* faulty: word_swap is not looked at
  IF TwoWord(type) THEN <<raw \div W, raw % W>> ELSE <<raw % W>>

RawToWords(type, raw) ==
  IF ~TwoWord(type) THEN <<raw % W>>
  ELSE IF WordSwap THEN <<raw % W, raw \div W>>
  ELSE <<raw \div W, raw % W>>

WordsToRaw(type, in) ==
  IF type \in {"I8", "I16"} THEN IF in[1] < H16 THEN in[1] ELSE in[1] + 2 * H32 - W
  ELSE IF ~TwoWord(type) THEN in[1]
  ELSE IF WordSwap THEN in[2] * W + in[1]
  ELSE in[1] * W + in[2]

(***************************************************************************)
(* The envelopes.  RTU keeps 3 bytes of the buffer for address and CRC,    *)
(* TCP 7 for the MBAP header; TCP knows no broadcast and filters no unit.  *)
(***************************************************************************)
Frames == [link : {"rtu", "tcp"}, sound : BOOLEAN, dest : {"own", "all", "other"}]

Discarded(f, cap) == \/ ~f.sound
                     \/ f.link = "rtu" /\ f.dest = "other"
                     \/ f.link = "tcp" /\ cap < 7
IsBroadcast(f) == f.link = "rtu" /\ f.dest = "all"
PduRoom(f, cap) == IF f.link = "tcp" THEN cap - 7 ELSE IF cap > 3 THEN cap - 3 ELSE 0

(***************************************************************************)
(* What the handlers check before they touch an entry, in their order: 0,  *)
(* or the exception code.                                                  *)
(***************************************************************************)
SpanVerdictShortcut(p, max) ==            \* faulty: one word is just looked up
  IF ~p.whole \/ p.qty < 1 \/ p.qty > max THEN 3
  ELSE IF IF p.fc = "read" /\ p.qty = 1 THEN EntryAt(WordMap, p.start) = Nobody
                                        ELSE ~SpanCovered(WordMap, p.start, p.qty) THEN 2
  ELSE 0

SpanVerdict(p, max) ==
  IF ~p.whole \/ p.qty < 1 \/ p.qty > max THEN 3
  ELSE IF ~SpanCovered(WordMap, p.start, p.qty) THEN 2
  ELSE 0

SingleVerdict(p) ==
  IF ~p.whole THEN 3
  ELSE IF EntryAt(WordMap, p.start) = Nobody THEN 2
  ELSE IF EntryWords(EntryAt(WordMap, p.start)) # 1 THEN 2
  ELSE 0

Verdict(p) == CASE p.fc = "read"   -> SpanVerdict(p, MaxReadQty)
                [] p.fc = "write1" -> SingleVerdict(p)
                [] p.fc = "write"  -> SpanVerdict(p, MaxWriteQty)
                [] OTHER           -> 1

(* The response must be deliverable before any state changes.              *)
RoomNotAsked(p, room, bc) == TRUE         \* faulty: checked when it is sent
RoomFor(p, room, bc) == IF p.fc = "read" THEN 2 + 2 * p.qty <= room
                                         ELSE bc \/ room >= 5

(* pdu_exception, and the silence after a broadcast.                       *)
Refuse(code, room, bc) == IF bc \/ room < 2 THEN Silent ELSE Exception(code)

(* The normal answer, as far as it fits.                                   *)
Normal(p, room, bc, words) ==
  IF bc \/ (p.fc = "read" /\ 2 + 2 * p.qty > room) \/ (p.fc # "read" /\ room < 5)
  THEN Silent
  ELSE IF p.fc = "read" THEN Data(words) ELSE Echo

-----------------------------------------------------------------------------
Init ==
  /\ cell \in Boot
  /\ phase = "idle" /\ req = NoPDU /\ bcast = FALSE /\ pcap = 0
  /\ cursor = 0 /\ out = <<>> /\ answer = Silent
  /\ old = cell /\ own = {} /\ held = [i \in Index |-> {}]

(* A frame the envelope drops: regmb_process or regmb_process_tcp says 0.  *)
Discard(f, cap) ==
  /\ phase = "idle"
  /\ Discarded(f, cap)
  /\ phase' = "done"
  /\ UNCHANGED <<cell, req, bcast, pcap, cursor, out, answer, old, own, held>>

(* pdu_handle up to the loop over the entries.                             *)
Handle(f, cap, p) ==
  /\ phase = "idle" /\ ~Discarded(f, cap)
  /\ req' = p /\ bcast' = IsBroadcast(f) /\ pcap' = PduRoom(f, cap)
  /\ old' = cell /\ own' = {} /\ held' = [i \in Index |-> {Val(i)}]
  /\ out' = <<>> /\ cursor' = p.start
  /\ LET ignored == bcast' /\ p.fc \in {"read", "other"} IN
     IF ignored \/ Verdict(p) # 0
     THEN /\ phase' = "done"
          /\ answer' = IF ignored THEN Silent ELSE Refuse(Verdict(p), pcap', bcast')
     ELSE IF ~RoomFor(p, pcap', bcast')
     THEN phase' = "done" /\ answer' = Silent
     ELSE phase' = "busy" /\ answer' = Silent
  /\ UNCHANGED cell

End == req.start + req.qty
At  == EntryAt(WordMap, cursor % TOP)

(* One round of do_read: reg_get_raw with its on_read hook, then the words. *)
ReadEntry(i) ==
  /\ phase = "busy" /\ req.fc = "read" /\ cursor < End /\ At = i
  /\ \E c \in {cell[i]} \cup (IF Table[i].onRead THEN Samples[i] ELSE {}) :
       cell' = [cell EXCEPT ![i] = c]
  /\ out' = out \o RawToWords(Table[i].type, Val(i)')
  /\ held' = [held EXCEPT ![i] = @ \cup {Val(i)'}]
  /\ cursor' = cursor + EntryWords(i)
  /\ UNCHANGED <<phase, req, bcast, pcap, answer, old, own>>

(* One round of the write loops: reg_set_raw, of which the first refusal   *)
(* ends the request; an on_write hook may refuse what passed the checks.   *)
RawOf(i) == WordsToRaw(Table[i].type, SubSeq(req.data, cursor - req.start + 1, Len(req.data)))

Writing(i) == /\ phase = "busy" /\ req.fc \in {"write1", "write"}
              /\ cursor < End /\ At = i

WriteEntry(i) ==
  /\ Writing(i)
  /\ CheckRaw(Table[i], RawOf(i)) = "OK"
  /\ cell' = [cell EXCEPT ![i] = StoreRaw(Table[i].type, Canonical(Table[i].type, RawOf(i)))]
  /\ own' = own \ {i}
  /\ cursor' = cursor + EntryWords(i)
  /\ UNCHANGED <<phase, req, bcast, pcap, out, answer, old, held>>

WriteRefusedGoesOn(i) ==                  \* faulty: the loop continues
  /\ Writing(i)
  /\ CheckRaw(Table[i], RawOf(i)) # "OK" \/ Table[i].onWrite
  /\ cursor' = cursor + EntryWords(i)
  /\ UNCHANGED <<cell, phase, req, bcast, pcap, out, answer, old, own, held>>

WriteRefused(i) ==
  /\ Writing(i)
  /\ CheckRaw(Table[i], RawOf(i)) # "OK" \/ Table[i].onWrite
  /\ phase' = "done"
  /\ answer' = Refuse(4, pcap, bcast)
  /\ UNCHANGED <<cell, req, bcast, pcap, cursor, out, old, own, held>>

Respond ==
  /\ phase = "busy" /\ cursor >= End
  /\ phase' = "done"
  /\ answer' = Normal(req, pcap, bcast, out)
  /\ UNCHANGED <<cell, req, bcast, pcap, cursor, out, old, own, held>>

(* A hook of the running request assigns a variable, its own entry's or    *)
(* any other, behind the cursor or ahead of it.                            *)
AppAssign(i) ==
  /\ phase = "busy"
  /\ \E c \in Samples[i] :
       /\ cell' = [cell EXCEPT ![i] = c]
       /\ old' = [old EXCEPT ![i] = c]
       /\ held' = [held EXCEPT ![i] = @ \cup {LoadRaw(Table[i].type, c)}]
  /\ own' = own \cup {i}
  /\ UNCHANGED <<phase, req, bcast, pcap, cursor, out, answer>>

(* Platform code sends the answer, if any, and waits for the next frame.   *)
NextFrame ==
  /\ phase = "done"
  /\ phase' = "idle" /\ req' = NoPDU /\ bcast' = FALSE /\ pcap' = 0
  /\ cursor' = 0 /\ out' = <<>> /\ answer' = Silent
  /\ old' = cell /\ own' = {} /\ held' = [i \in Index |-> {}]
  /\ UNCHANGED cell

Next ==
  \/ \E f \in Frames, cap \in Caps : \/ Discard(f, cap)
                                     \/ \E p \in PDUs : Handle(f, cap, p)
  \/ \E i \in Index : ReadEntry(i) \/ WriteEntry(i) \/ WriteRefused(i) \/ AppAssign(i)
  \/ Respond \/ NextFrame

Spec == Init /\ [][Next]_vars
-----------------------------------------------------------------------------
(***************************************************************************)
(* The reference for the wire: the number that stands at entry i's place   *)
(* in a run of words that begins at word address `start`.  Two words are   *)
(* one value in the device's word order, one word of a signed type is a    *)
(* 16-bit two's complement number, and a switch is on if its word is not 0. *)
(***************************************************************************)
NumberAt(words, start, i) ==
  LET k    == Addr[i] - start + 1
      type == Table[i].type
      high == IF WordSwap THEN words[k + 1] ELSE words[k]
      low  == IF WordSwap THEN words[k] ELSE words[k + 1]
  IN  IF TwoWord(type) THEN Number(type, high * W + low)
      ELSE IF type \in SignedTypes /\ words[k] >= H16 THEN words[k] - W
      ELSE IF type = "BOOL" /\ words[k] # 0 THEN 1
      ELSE words[k]

Answered  == phase = "done" /\ req # NoPDU
IsWrite   == req.fc \in {"write1", "write"}
Touched(from, to) == {i \in Mapped(WordMap) : Addr[i] \in from .. (to - 1)}

(***************************************************************************)
(* do_write_single, do_write_multiple: "the response must be deliverable   *)
(* before any state changes: a write the master cannot hear about must not *)
(* happen".  Only a broadcast may change a register in silence; after any    *)
(* other silence each variable is as the application itself left it.       *)
(***************************************************************************)
NoUnheardWrite ==
  Answered /\ IsWrite /\ answer = Silent /\ ~bcast =>
    \A i \in Index : cell[i] = old[i]

(***************************************************************************)
(* "The first refused write stops the scan and answers exception 04,       *)
(* values already stored stay stored" (do_write_multiple).  Whatever the   *)
(* answer, a write leaves the entries up to some word address with the     *)
(* numbers it sent and all others, and those a hook assigned after they    *)
(* were written, as the application left them: up to the end if it is      *)
(* echoed, none if it is refused as a whole, and up to an entry that may   *)
(* refuse its number if the answer is exception 04.                        *)
(***************************************************************************)
WriteIsPrefix ==
  Answered /\ IsWrite =>
    \E stop \in req.start .. End :
      /\ \A i \in Index :
           IF i \in Touched(req.start, stop) \ own
           THEN Number(Table[i].type, Val(i)) = NumberAt(req.data, req.start, i)
           ELSE cell[i] = old[i]
      /\ answer = Echo => stop = End
      /\ answer.kind = "exception" =>
           IF answer.code = 4
           THEN \E i \in Mapped(WordMap) :
                  /\ Addr[i] = stop
                  /\ \/ Table[i].onWrite \/ Table[i].perm = "RO"
                     \/ NumberAt(req.data, req.start, i)
                           \notin Numbers(Table[i].type) \cap Interval(Table[i])
           ELSE stop = req.start

(***************************************************************************)
(* A value of two words is "read or written whole: a request that covers   *)
(* only half of it is answered with exception 02" (regtable_modbus.h), and *)
(* so is one with a hole.                                                  *)
(***************************************************************************)
NoHalfValue ==
  Answered /\ answer.kind \in {"data", "echo"} => WholeEntries(WordMap, req.start, req.qty)

(***************************************************************************)
(* Every number in a read's answer is one its register had while the       *)
(* request was handled: no word of one value is paired with a word of      *)
(* another, no value is put at another's place, whatever the hooks assign  *)
(* between two entries and whichever word order the device uses.           *)
(***************************************************************************)
ReadIsHeld ==
  Answered /\ answer.kind = "data" =>
    /\ Len(answer.words) = req.qty
    /\ \A i \in Touched(req.start, End) :
         NumberAt(answer.words, req.start, i)
           \in {Number(Table[i].type, raw) : raw \in held[i]}
=============================================================================
