------------------------------- MODULE RegMqtt ------------------------------
(***************************************************************************)
(* regtable_mqtt.c: the shadow array that says which registers the broker  *)
(* has yet to hear of, and the announcement of the table, under a client   *)
(* that refuses messages, a connection that breaks with accepted messages  *)
(* in it, a device that restarts with another firmware, and the reconnect  *)
(* of examples/arduino_mqtt.                                               *)
(*                                                                         *)
(* A state payload is the raw value it was formatted from, a meta what it  *)
(* says of its entry and the fingerprint of the table it came from; the    *)
(* broker retains one message per topic.  What fits into the buffers is    *)
(* the business of module MqttMeta.                                        *)
(***************************************************************************)
EXTENDS Integers, Sequences, FiniteSets

CONSTANTS
  Values,        \* raw values
  None,          \* nothing retained yet, nothing sampled
  Boot,          \* the values a start may leave in a register
  Firmware,      \* what may be flashed
  CountOf,       \* CountOf[f]: t->count, the entries of f's table
  ShapeOf,       \* ShapeOf[f][i]: the name of entry i and what else its meta says
  Sampled,       \* the names of the entries with an on_read hook
  MaxChanges, MaxBreaks, MaxRefusals, MaxFlashes,   \* bounds on what happens to the device
  MaxQueue       \* messages of one topic the connection holds

Entries(f)   == 0 .. (CountOf[f] - 1)
NameOf(f, i) == ShapeOf[f][i].name
Names        == UNION {{NameOf(f, i) : i \in Entries(f)} : f \in Firmware}

(* What announce publishes, in its order: the descriptor, the identity and *)
(* one meta per entry.                                                     *)
Descriptor  == -2
Identity    == -1
Messages(f) == {Descriptor, Identity} \cup Entries(f)

(***************************************************************************)
(* A table regmqtt_init takes: two entries have two names, and none starts *)
(* with the '$' of $table and $id.  The tables of two firmwares may share  *)
(* names, in other places and for other types.                             *)
(***************************************************************************)
ASSUME MqttAssumption ==
  /\ None \notin Values /\ Boot \subseteq Values
  /\ \A f \in Firmware :
       /\ CountOf[f] \in Nat /\ DOMAIN ShapeOf[f] = Entries(f)
       /\ \A i, j \in Entries(f) : NameOf(f, i) = NameOf(f, j) => i = j
  /\ {Descriptor, Identity} \cap Names = {}
  /\ MaxChanges \in Nat /\ MaxBreaks \in Nat /\ MaxRefusals \in Nat /\ MaxFlashes \in Nat
  /\ MaxQueue \in Nat \ {0}

VARIABLES
  val,           \* the registers
  shadow, synced,     \* RegMqtt
  pos,           \* the entry regmqtt_poll is at, Loop when it is not running
  sample,        \* its local `raw`, once fetched
  link,          \* the client: "down", "opened" until announce, "fresh" until publish_all, "up"
  broken,        \* the connection is dead and the client does not know it
  wire,          \* wire[i]: accepted messages on their way
  retained,      \* the broker: the state it retains under each name
  fw,            \* the firmware that runs
  metas,         \* accepted metas on their way
  described,     \* the broker: what it retains under $meta
  sent,          \* what the last regmqtt_announce returned
  changes, breaks, refusals, flashes   \* how often it happened

device == <<val, shadow, synced, pos, sample>>
about  == <<fw, metas, described, sent>>
faults == <<changes, breaks, refusals, flashes>>
vars   == <<device, link, broken, wire, retained, about, faults>>

N     == CountOf[fw]
Index == Entries(fw)
Loop  == -1

(* The retained topics under $meta: $table, $id and one per name.          *)
Topics        == {Descriptor, Identity} \cup Names
TopicOf(f, m) == IF m \in Entries(f) THEN NameOf(f, m) ELSE m

(* reg_table_schema covers all that a meta says, in table order: different *)
(* tables have different fingerprints (FNV-1a collisions apart).           *)
SchemaNameless(f) == [i \in Entries(f) |-> ShapeOf[f][i].rest]   \* faulty: names left out

Schema(f) == ShapeOf[f]

Meta(f, m) == IF m \in Entries(f)
              THEN [index |-> m, says |-> ShapeOf[f][m], schema |-> Schema(f)]
              ELSE [count |-> CountOf[f], schema |-> Schema(f)]

ASSUME NoneAssumption == \A f \in Firmware : \A m \in Messages(f) : Meta(f, m) # None

Init ==
  /\ fw \in Firmware
  /\ val \in [Index -> Boot]
  /\ shadow = [i \in Index |-> None]
  /\ synced = {}
  /\ pos = Loop /\ sample = None
  /\ link = "down" /\ broken = FALSE
  /\ wire = [i \in Index |-> <<>>]
  /\ retained = [name \in Names |-> None]
  /\ metas = {} /\ described = [t \in Topics |-> None] /\ sent = 0
  /\ changes = 0 /\ breaks = 0 /\ refusals = 0 /\ flashes = 0

-----------------------------------------------------------------------------
(* A register changes: a command from any adapter, the application, a hook. *)
(* It may do so between the two halves of a poll step.                     *)
Change(i) ==
  /\ changes < MaxChanges
  /\ \E v \in Values : val' = [val EXCEPT ![i] = v]
  /\ changes' = changes + 1
  /\ UNCHANGED <<shadow, synced, pos, sample, link, broken, wire, retained, about, breaks, refusals, flashes>>

(* regmqtt_poll, called by the loop at telemetry cadence.                  *)
PollStart ==
  /\ pos = Loop /\ link \in {"down", "up"}
  /\ pos' = 0
  /\ UNCHANGED <<val, shadow, synced, sample, link, broken, wire, retained, about, faults>>

(* regmqtt_announce, from mqtt_connect: every message once, nothing is      *)
(* retried; the count returned is of those publish() took.                 *)
AnnounceCountsAll ==                      \* faulty: the refused ones count
  /\ link = "opened" /\ pos = Loop
  /\ \E refused \in SUBSET Messages(fw) :
       /\ refusals + Cardinality(refused) <= MaxRefusals
       /\ refusals' = refusals + Cardinality(refused)
       /\ sent' = N + 2
       /\ metas' = IF broken THEN {} ELSE Messages(fw) \ refused
  /\ link' = "fresh"
  /\ UNCHANGED <<device, broken, wire, retained, fw, described, changes, breaks, flashes>>

Announce ==
  /\ link = "opened" /\ pos = Loop
  /\ \E refused \in SUBSET Messages(fw) :
       /\ refusals + Cardinality(refused) <= MaxRefusals
       /\ refusals' = refusals + Cardinality(refused)
       /\ sent' = N + 2 - Cardinality(refused)
       /\ metas' = IF broken THEN {} ELSE Messages(fw) \ refused
  /\ link' = "fresh"
  /\ UNCHANGED <<device, broken, wire, retained, fw, described, changes, breaks, flashes>>

(* mqtt_connect's last call, regmqtt_publish_all: forget what was sent and *)
(* poll at once.                                                           *)
PublishAllKeeps ==                        \* faulty: the synced bits survive
  /\ pos = Loop /\ link = "fresh"
  /\ link' = "up" /\ pos' = 0
  /\ UNCHANGED <<val, shadow, synced, sample, broken, wire, retained, about, faults>>

PublishAll ==
  /\ pos = Loop /\ link = "fresh"
  /\ link' = "up"
  /\ synced' = {}
  /\ pos' = 0
  /\ UNCHANGED <<val, shadow, sample, broken, wire, retained, about, faults>>

(* reg_get_raw of the entry the walk is at, with its on_read.              *)
Fetch ==
  /\ pos \in Index /\ sample = None
  /\ \/ val' = val /\ changes' = changes
     \/ /\ NameOf(fw, pos) \in Sampled /\ changes < MaxChanges
        /\ \E v \in Values : val' = [val EXCEPT ![pos] = v]
        /\ changes' = changes + 1
  /\ sample' = val'[pos]
  /\ UNCHANGED <<shadow, synced, pos, link, broken, wire, retained, about, breaks, refusals, flashes>>

InSync == pos \in synced /\ sample = shadow[pos]

Skip ==
  /\ pos \in Index /\ sample # None /\ InSync
  /\ pos' = pos + 1 /\ sample' = None
  /\ UNCHANGED <<val, shadow, synced, link, broken, wire, retained, about, faults>>

(* publish() returned 0: the client took the message.                      *)
AcceptedRereads ==                        \* faulty: the shadow is read again
  /\ pos \in Index /\ sample # None /\ ~InSync
  /\ link = "up" /\ Len(wire[pos]) < MaxQueue
  /\ wire' = [wire EXCEPT ![pos] = IF broken THEN @ ELSE Append(@, sample)]
  /\ shadow' = [shadow EXCEPT ![pos] = val[pos]]
  /\ synced' = synced \cup {pos}
  /\ pos' = pos + 1 /\ sample' = None
  /\ UNCHANGED <<val, link, broken, retained, about, faults>>

Accepted ==
  /\ pos \in Index /\ sample # None /\ ~InSync
  /\ link = "up" /\ Len(wire[pos]) < MaxQueue
  /\ wire' = [wire EXCEPT ![pos] = IF broken THEN @ ELSE Append(@, sample)]
  /\ shadow' = [shadow EXCEPT ![pos] = sample]
  /\ synced' = synced \cup {pos}
  /\ pos' = pos + 1 /\ sample' = None
  /\ UNCHANGED <<val, link, broken, retained, about, faults>>

(* publish() returned non-0: always while the client knows it is offline,  *)
(* at its discretion (a full buffer) while it is online.                   *)
Refused ==
  /\ pos \in Index /\ sample # None /\ ~InSync
  /\ \/ link = "down" /\ refusals' = refusals
     \/ link = "up" /\ Len(wire[pos]) = MaxQueue /\ refusals' = refusals
     \/ link = "up" /\ refusals < MaxRefusals /\ refusals' = refusals + 1
  /\ synced' = synced \ {pos}
  /\ pos' = pos + 1 /\ sample' = None
  /\ UNCHANGED <<val, shadow, link, broken, wire, retained, about, changes, breaks, flashes>>

PollEnd ==
  /\ pos = N
  /\ pos' = Loop
  /\ UNCHANGED <<val, shadow, synced, sample, link, broken, wire, retained, about, faults>>

-----------------------------------------------------------------------------
(* The world outside: the client's connection and the broker.              *)
Connect ==
  /\ link = "down" /\ pos = Loop
  /\ link' = "opened" /\ broken' = FALSE
  /\ UNCHANGED <<device, wire, retained, about, faults>>

(* One stream: the metas went before the states.                           *)
Deliver(i) ==
  /\ i \in Index /\ wire[i] # <<>> /\ metas = {}
  /\ retained' = [retained EXCEPT ![NameOf(fw, i)] = Head(wire[i])]
  /\ wire' = [wire EXCEPT ![i] = Tail(@)]
  /\ UNCHANGED <<device, link, broken, about, faults>>

DeliverMeta ==
  /\ \E m \in metas :
       /\ \A u \in metas : m <= u
       /\ described' = [described EXCEPT ![TopicOf(fw, m)] = Meta(fw, m)]
       /\ metas' = metas \ {m}
  /\ UNCHANGED <<device, link, broken, wire, retained, fw, sent, faults>>

(* The connection dies, and with it what it held; the client goes on       *)
(* accepting messages until it notices.                                    *)
Break ==
  /\ link # "down" /\ ~broken /\ breaks < MaxBreaks
  /\ broken' = TRUE
  /\ wire' = [i \in Index |-> <<>>] /\ metas' = {}
  /\ breaks' = breaks + 1
  /\ UNCHANGED <<device, link, retained, fw, described, sent, changes, refusals, flashes>>

Notice ==
  /\ broken /\ link = "up"
  /\ link' = "down"
  /\ broken' = FALSE
  /\ UNCHANGED <<device, wire, retained, about, faults>>

(* The device restarts, with the same firmware or another one, wherever it *)
(* is: its memory and its connection are gone, what the broker retains     *)
(* stays, also under names that the new table no longer has.               *)
Flash(f) ==
  /\ flashes < MaxFlashes
  /\ fw' = f /\ flashes' = flashes + 1
  /\ val' \in [Entries(f) -> Boot]
  /\ shadow' = [i \in Entries(f) |-> None] /\ synced' = {}
  /\ pos' = Loop /\ sample' = None
  /\ link' = "down" /\ broken' = FALSE
  /\ wire' = [i \in Entries(f) |-> <<>>] /\ metas' = {} /\ sent' = 0
  /\ UNCHANGED <<retained, described, changes, breaks, refusals>>

-----------------------------------------------------------------------------
Poll == PollStart \/ Fetch \/ Skip \/ Accepted \/ Refused \/ PollEnd

Next ==
  \/ \E i \in Index : Change(i) \/ Deliver(i)
  \/ DeliverMeta
  \/ Poll \/ Announce \/ PublishAll
  \/ \E f \in Firmware : Flash(f)
  \/ Connect \/ Break \/ Notice

(***************************************************************************)
(* Fairness: the loop keeps polling and, offline, keeps trying to connect  *)
(* (the 5 s retry of the sketch); a dead connection is noticed (keepalive) *)
(* and a live one delivers.                                                *)
(***************************************************************************)
Fairness ==
  /\ WF_vars(Poll) /\ WF_vars(Announce) /\ WF_vars(PublishAll)
  /\ SF_vars(Connect) /\ WF_vars(Notice)
  /\ WF_vars(DeliverMeta)
  /\ \A i \in UNION {Entries(f) : f \in Firmware} : WF_vars(Deliver(i))

Spec     == Init /\ [][Next]_vars
FairSpec == Spec /\ Fairness

-----------------------------------------------------------------------------
(* The value subscribers of entry i will end up with if nothing more is    *)
(* published.                                                              *)
LastSent(i) == IF wire[i] = <<>> THEN retained[NameOf(fw, i)] ELSE wire[i][Len(wire[i])]

(***************************************************************************)
(* The outbox: while the connection is sound and publish_all has run on    *)
(* it, an entry that counts as synced is one whose shadow value the broker *)
(* has or is about to get.  So comparing with the shadow is as good as     *)
(* asking the broker (regtable_mqtt.h, "transactional outbox"), and a      *)
(* message lost with an earlier connection cannot hide a difference.       *)
(***************************************************************************)
SyncedMeansSent ==
  link = "up" /\ ~broken => \A i \in synced : LastSent(i) = shadow[i]

(***************************************************************************)
(* "The publish_all on reconnect heals whatever a dropped connection lost" *)
(* (regtable_mqtt.h): once registers, client and connection have calmed    *)
(* down, the broker ends up with every register's value and keeps it, with *)
(* whichever messages were refused or lost on the way.                     *)
(***************************************************************************)
Converges == <>[](\A i \in Index : retained[NameOf(fw, i)] = val[i])

(***************************************************************************)
(* A host that reads the metas as regtable_mqtt.h tells it to: the         *)
(* descriptor first, then the metas whose schema is the descriptor's; it   *)
(* has the whole table once those cover every index.  "A partial publish   *)
(* leaves the table incomplete, never mixed with an older one": whatever   *)
(* was refused or lost, under whichever firmwares, and whatever an older   *)
(* firmware left under names that are gone or mean something else now, a   *)
(* whole table is one that a firmware has.                                 *)
(***************************************************************************)
Kept == {t \in Names : /\ None \notin {described[t], described[Descriptor]}
                       /\ described[t].schema = described[Descriptor].schema}

WholeTable == /\ described[Descriptor] # None
              /\ {described[t].index : t \in Kept} = 0 .. (described[Descriptor].count - 1)

NeverMixed ==
  WholeTable => \E f \in Firmware : /\ Kept = {NameOf(f, i) : i \in Entries(f)}
                                    /\ \A i \in Entries(f) : described[NameOf(f, i)] = Meta(f, i)

(***************************************************************************)
(* The number regmqtt_announce returns is the promise that counts: when it *)
(* is count + 2 and the connection has held, the broker retains each meta  *)
(* of this firmware, and a host that reads by the rule above finds this    *)
(* table among all that was ever left there.                               *)
(***************************************************************************)
AnnouncedIsWhole ==
  link = "up" /\ ~broken /\ sent = N + 2 /\ metas = {} =>
    /\ \A m \in Messages(fw) : described[TopicOf(fw, m)] = Meta(fw, m)
    /\ WholeTable /\ Kept = {NameOf(fw, i) : i \in Index}
=============================================================================
