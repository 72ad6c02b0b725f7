---------------------------- MODULE RegMqtt_proofs --------------------------
(***************************************************************************)
(* The outbox and the announcement keep their promises for every table,    *)
(* any number of firmwares, restarts, breaks, refusals and changes, and    *)
(* however much the connection holds.                                      *)
(***************************************************************************)
EXTENDS RegMqtt, FiniteSetTheorems, SequenceTheorems, TLAPS

Typed ==
  /\ fw \in Firmware
  /\ val \in [Index -> Values] /\ shadow \in [Index -> Values \cup {None}]
  /\ synced \subseteq Index /\ sample \in Values \cup {None}
  /\ wire \in [Index -> Seq(Values)] /\ retained \in [Names -> Values \cup {None}]
  /\ metas \subseteq Messages(fw)
  /\ described \in [Topics -> {None} \cup UNION {{Meta(f, m) : m \in Messages(f)} : f \in Firmware}]

(***************************************************************************)
(* What the broker retains under a topic is what some firmware says of     *)
(* this topic, never of another, and never a mixture: no message is made   *)
(* of two tables, so two messages with the same fingerprint are of one.    *)
(***************************************************************************)
SaidByOne ==
  \A t \in Topics : \/ described[t] = None
                   \/ \E f \in Firmware : \E m \in Messages(f) :
                        TopicOf(f, m) = t /\ described[t] = Meta(f, m)

(***************************************************************************)
(* Once announce has returned its full count, and while the connection     *)
(* holds, whatever is not on its way has arrived, from this firmware.      *)
(***************************************************************************)
ArrivedOrOnItsWay ==
  link \in {"fresh", "up"} /\ ~broken /\ sent = N + 2 =>
    \A m \in Messages(fw) \ metas : described[TopicOf(fw, m)] = Meta(fw, m)

IInv == Typed /\ SaidByOne /\ ArrivedOrOnItsWay /\ SyncedMeansSent

-----------------------------------------------------------------------------
(* The entries of a firmware are none of the two other messages, and their *)
(* names none of the two other topics.                                     *)
LEMMA TopicFacts ==
  ASSUME NEW f \in Firmware
  PROVE  /\ CountOf[f] \in Nat /\ DOMAIN ShapeOf[f] = Entries(f)
         /\ Entries(f) \subseteq Messages(f) /\ Descriptor \in Messages(f)
         /\ Descriptor \notin Entries(f) /\ Identity \notin Entries(f)
         /\ Names \subseteq Topics /\ Descriptor \in Topics /\ Descriptor \notin Names
         /\ \A i \in Entries(f) : NameOf(f, i) \in Names
         /\ \A i, j \in Entries(f) : NameOf(f, i) = NameOf(f, j) => i = j
BY MqttAssumption, SMTT(60) DEF Messages, Entries, Descriptor, Identity, Names, Topics

(* Two messages of one announce go to two topics.                          *)
LEMMA TopicsApart ==
  ASSUME NEW f \in Firmware, NEW m \in Messages(f)
  PROVE  /\ TopicOf(f, m) \in Topics
         /\ \A k \in Messages(f) : TopicOf(f, k) = TopicOf(f, m) => k = m
         /\ TopicOf(f, m) \in Names <=> m \in Entries(f)
         /\ TopicOf(f, m) = Descriptor => m = Descriptor
<1>1. {Descriptor, Identity} \cap Names = {}
  BY MqttAssumption
<1>2. \A k \in Messages(f) : k \in Entries(f) \/ k \in {Descriptor, Identity}
  BY DEF Messages
<1>3. \A k \in Entries(f) : TopicOf(f, k) = NameOf(f, k)
  BY DEF TopicOf
<1>4. \A k \in {Descriptor, Identity} : TopicOf(f, k) = k /\ k \in Topics
  BY TopicFacts DEF TopicOf, Topics
<1> QED BY <1>1, <1>2, <1>3, <1>4, TopicFacts

(* An announce is of finitely many messages.                               *)
LEMMA MessagesFinite == ASSUME NEW f \in Firmware PROVE IsFiniteSet(Messages(f))
<1>1. IsFiniteSet(Entries(f))
  <2>1. 0 \in Int /\ CountOf[f] - 1 \in Int
    BY TopicFacts
  <2> QED BY <2>1, FS_Interval DEF Entries
<1>2. IsFiniteSet({Descriptor, Identity})
  <2>1. Descriptor \in Int /\ Identity \in Int
    BY DEF Descriptor, Identity
  <2>2. {Descriptor, Identity} = Descriptor .. Identity
    BY DEF Descriptor, Identity
  <2> QED BY <2>1, <2>2, FS_Interval
<1> QED BY <1>1, <1>2, FS_Union DEF Messages

(* Nothing refused is nothing missing from the count.                      *)
LEMMA FullCount ==
  ASSUME NEW f \in Firmware, NEW refused \in SUBSET Messages(f),
         CountOf[f] + 2 - Cardinality(refused) = CountOf[f] + 2
  PROVE  refused = {}
<1>1. IsFiniteSet(refused)
  BY MessagesFinite, FS_Subset
<1>2. Cardinality(refused) = 0
  BY <1>1, TopicFacts, FS_CardinalityType
<1> QED BY <1>1, <1>2, FS_EmptySet

(* The topics of a firmware's entries.                                     *)
NamesOf(f) == {NameOf(f, i) : i \in Entries(f)}

(***************************************************************************)
(* What a host keeps, beside the descriptor of a firmware, is what         *)
(* firmwares of the same fingerprint said, and these are the same table.   *)
(***************************************************************************)
LEMMA KeptIsOfOne ==
  ASSUME SaidByOne, NEW f \in Firmware, described[Descriptor] # None,
         described[Descriptor] = Meta(f, Descriptor), NEW t \in Kept
  PROVE  \E i \in Entries(f) : /\ t = NameOf(f, i) /\ described[t] = Meta(f, i)
                              /\ described[t].index = i
<1>1. described[Descriptor].schema = ShapeOf[f]
  BY TopicFacts DEF Meta, Schema
<1>2. t \in Names /\ described[t] # None /\ described[t].schema = ShapeOf[f]
  BY <1>1 DEF Kept
<1>3. PICK g \in Firmware :
        \E k \in Messages(g) : TopicOf(g, k) = t /\ described[t] = Meta(g, k)
  BY <1>2, TopicFacts DEF SaidByOne
<1> PICK m \in Messages(g) : TopicOf(g, m) = t /\ described[t] = Meta(g, m)
  BY <1>3
<1>4. m \in Entries(g)
  BY <1>2, TopicsApart
<1>5. /\ t = NameOf(g, m)
      /\ described[t] = [index |-> m, says |-> ShapeOf[g][m], schema |-> ShapeOf[g]]
  BY <1>4 DEF TopicOf, Meta, Schema
<1>6. ShapeOf[g] = ShapeOf[f] /\ described[t].index = m
  BY <1>2, <1>5
<1>7. m \in Entries(f)
  BY <1>4, <1>6, TopicFacts
<1>8. t = NameOf(f, m) /\ described[t] = Meta(f, m)
  BY <1>5, <1>6, <1>7 DEF NameOf, Meta, Schema
<1> QED BY <1>6, <1>7, <1>8

(***************************************************************************)
(* A host takes only a table that one firmware has for a whole one.        *)
(***************************************************************************)
LEMMA OneTable ==
  ASSUME SaidByOne
  PROVE  NeverMixed
<1> SUFFICES ASSUME WholeTable
             PROVE  \E f \in Firmware : /\ Kept = NamesOf(f)
                                       /\ \A i \in Entries(f) : described[NameOf(f, i)] = Meta(f, i)
  BY DEF NeverMixed, NamesOf
<1>1. described[Descriptor] # None
  BY DEF WholeTable
<1>2. PICK f \in Firmware : \E m \in Messages(f) :
        TopicOf(f, m) = Descriptor /\ described[Descriptor] = Meta(f, m)
  BY <1>1 DEF SaidByOne, Topics
<1>3. described[Descriptor] = Meta(f, Descriptor)
  BY <1>2, TopicsApart
<1>4. described[Descriptor].count = CountOf[f]
  BY <1>3, TopicFacts DEF Meta
<1>5. ASSUME NEW t \in Kept
      PROVE  \E i \in Entries(f) : /\ t = NameOf(f, i) /\ described[t] = Meta(f, i)
                                  /\ described[t].index = i
  BY <1>1, <1>3, KeptIsOfOne
<1>6. ASSUME NEW i \in Entries(f)
      PROVE  NameOf(f, i) \in Kept /\ described[NameOf(f, i)] = Meta(f, i)
  <2>1. i \in {described[t].index : t \in Kept}
    BY <1>4 DEF WholeTable, Entries
  <2>2. PICK t \in Kept : i = described[t].index
    BY <2>1
  <2> QED BY <2>2, <1>5
<1>7. Kept = NamesOf(f)
  BY <1>5, <1>6 DEF NamesOf
<1> QED BY <1>6, <1>7

(***************************************************************************)
(* With every message of a firmware at the broker, a host finds its table. *)
(***************************************************************************)
LEMMA AllThere ==
  ASSUME SaidByOne, NEW f \in Firmware,
         \A m \in Messages(f) : described[TopicOf(f, m)] = Meta(f, m)
  PROVE  /\ described[Descriptor] # None /\ described[Descriptor].count = CountOf[f]
         /\ {described[t].index : t \in Kept} = Entries(f)
         /\ Kept = NamesOf(f)
<1>1. /\ described[Descriptor] = Meta(f, Descriptor) /\ described[Descriptor] # None
      /\ described[Descriptor].count = CountOf[f] /\ described[Descriptor].schema = ShapeOf[f]
  <2>1. TopicOf(f, Descriptor) = Descriptor
    BY TopicFacts DEF TopicOf
  <2>2. described[Descriptor] = Meta(f, Descriptor)
    BY <2>1, TopicFacts
  <2>3. Meta(f, Descriptor) = [count |-> CountOf[f], schema |-> ShapeOf[f]]
    BY TopicFacts DEF Meta, Schema
  <2> QED BY <2>2, <2>3, TopicFacts, NoneAssumption
<1>2. ASSUME NEW i \in Entries(f)
      PROVE  /\ NameOf(f, i) \in Kept /\ described[NameOf(f, i)].index = i
  <2>1. described[NameOf(f, i)] = Meta(f, i) /\ Meta(f, i) # None
    BY TopicFacts, NoneAssumption DEF TopicOf
  <2>2. Meta(f, i) = [index |-> i, says |-> ShapeOf[f][i], schema |-> ShapeOf[f]]
    BY DEF Meta, Schema
  <2>3. described[NameOf(f, i)].schema = ShapeOf[f] /\ described[NameOf(f, i)].index = i
    BY <2>1, <2>2
  <2> QED BY <1>1, <2>1, <2>3, TopicFacts DEF Kept
<1>3. \A t \in Kept : \E i \in Entries(f) : t = NameOf(f, i) /\ described[t].index = i
  BY <1>1, KeptIsOfOne
<1>4. Kept = NamesOf(f)
  BY <1>2, <1>3 DEF NamesOf
<1>5. {described[t].index : t \in Kept} = Entries(f)
  BY <1>2, <1>3
<1> QED BY <1>1, <1>4, <1>5

-----------------------------------------------------------------------------
(* What a step leaves alone.                                               *)
LEMMA SameTable ==
  ASSUME fw' = fw
  PROVE  Index' = Index /\ N' = N
BY DEF Index, N

LEMMA SameMetas ==
  ASSUME SaidByOne, described' = described
  PROVE  SaidByOne'
BY DEF SaidByOne

LEMMA SameArrivals ==
  ASSUME ArrivedOrOnItsWay, link' = link, broken' = broken, sent' = sent, metas' = metas,
         described' = described, fw' = fw
  PROVE  ArrivedOrOnItsWay'
BY DEF ArrivedOrOnItsWay, N

LEMMA SameOutbox ==
  ASSUME SyncedMeansSent, link' = link, broken' = broken, synced' \subseteq synced,
         wire' = wire, retained' = retained, shadow' = shadow, fw' = fw
  PROVE  SyncedMeansSent'
BY DEF SyncedMeansSent, LastSent

LEMMA NotUp ==
  ASSUME link' # "up" \/ broken'
  PROVE  SyncedMeansSent'
BY DEF SyncedMeansSent

LEMMA NotAnnounced ==
  ASSUME link' \notin {"fresh", "up"} \/ broken'
  PROVE  ArrivedOrOnItsWay'
BY DEF ArrivedOrOnItsWay

(* The last message of a queue.                                            *)
LEMMA QueueFacts ==
  ASSUME NEW q \in Seq(Values)
  PROVE  /\ \A v \in Values : /\ Append(q, v) \in Seq(Values) /\ Append(q, v) # <<>>
                              /\ Append(q, v)[Len(Append(q, v))] = v
         /\ q # <<>> => /\ Head(q) \in Values /\ Tail(q) \in Seq(Values)
                        /\ Tail(q) = <<>> => q[Len(q)] = Head(q)
                        /\ Tail(q) # <<>> => Tail(q)[Len(Tail(q))] = q[Len(q)]
<1>1. ASSUME NEW v \in Values
      PROVE  /\ Append(q, v) \in Seq(Values) /\ Append(q, v) # <<>>
             /\ Append(q, v)[Len(Append(q, v))] = v
  OBVIOUS
<1>2. ASSUME q # <<>> PROVE /\ Head(q) \in Values /\ Tail(q) \in Seq(Values)
                            /\ Tail(q) = <<>> => q[Len(q)] = Head(q)
                            /\ Tail(q) # <<>> => Tail(q)[Len(Tail(q))] = q[Len(q)]
  <2>1. Len(q) \in Nat /\ Len(q) >= 1 /\ Head(q) = q[1] /\ Head(q) \in Values
    BY <1>2
  <2>2. Tail(q) \in Seq(Values) /\ Len(Tail(q)) = Len(q) - 1
        /\ \A k \in 1 .. Len(q) - 1 : Tail(q)[k] = q[k + 1]
    BY <1>2
  <2>3. Tail(q) = <<>> => Len(q) = 1
    BY <2>1, <2>2
  <2>4. Tail(q) # <<>> => Len(q) - 1 \in 1 .. Len(q) - 1
    BY <2>1, <2>2
  <2> QED BY <2>1, <2>2, <2>3, <2>4
<1> QED BY <1>1, <1>2

-----------------------------------------------------------------------------
LEMMA InitInv == Init => IInv
<1> SUFFICES ASSUME Init PROVE IInv
  OBVIOUS
<1>1. Typed
  BY MqttAssumption DEF Init, Typed
<1>2. SaidByOne
  BY DEF Init, SaidByOne
<1>3. ArrivedOrOnItsWay /\ SyncedMeansSent
  BY DEF Init, ArrivedOrOnItsWay, SyncedMeansSent
<1> QED BY <1>1, <1>2, <1>3 DEF IInv

(* Steps that touch neither the broker nor the connection.                 *)
LEMMA DeviceInv ==
  ASSUME IInv, Typed',
         UNCHANGED <<link, broken, wire, retained, about>>,
         shadow' = shadow, synced' \subseteq synced
  PROVE  IInv'
<1> USE DEF about
<1>1. SaidByOne'
  BY SameMetas DEF IInv
<1>2. ArrivedOrOnItsWay'
  BY SameArrivals DEF IInv
<1>3. SyncedMeansSent'
  BY SameOutbox DEF IInv
<1> QED BY <1>1, <1>2, <1>3 DEF IInv

LEMMA ChangeInv ==
  ASSUME IInv, NEW i \in Index, Change(i)
  PROVE  IInv'
<1>1. Typed'
  BY SameTable DEF IInv, Typed, Change, about
<1>2. UNCHANGED <<link, broken, wire, retained, about, shadow, synced>>
  BY DEF Change
<1> QED BY <1>1, <1>2, DeviceInv

LEMMA FetchInv ==
  ASSUME IInv, Fetch
  PROVE  IInv'
<1>1. val' \in [Index -> Values] /\ pos \in Index
  <2>1. CASE val' = val
    BY <2>1 DEF IInv, Typed, Fetch
  <2>2. CASE \E v \in Values : val' = [val EXCEPT ![pos] = v]
    BY <2>2 DEF IInv, Typed, Fetch
  <2> QED BY <2>1, <2>2 DEF Fetch
<1>2. sample' \in Values
  BY <1>1 DEF Fetch
<1>3. UNCHANGED <<link, broken, wire, retained, about, shadow, synced>>
  BY DEF Fetch
<1>4. Typed'
  BY <1>1, <1>2, <1>3, SameTable DEF IInv, Typed, about
<1> QED BY <1>3, <1>4, DeviceInv

LEMMA WalkInv ==
  ASSUME IInv, PollStart \/ Skip \/ Refused \/ PollEnd
  PROVE  IInv'
<1>1. /\ UNCHANGED <<val, shadow, link, broken, wire, retained, about>>
      /\ synced' \subseteq synced /\ sample' \in {sample, None}
  BY DEF PollStart, Skip, Refused, PollEnd
<1>2. Typed'
  BY <1>1, SameTable DEF IInv, Typed, about
<1> QED BY <1>1, <1>2, DeviceInv

(* The message taken is the last one sent, and the shadow is its value.    *)
LEMMA AcceptedInv ==
  ASSUME IInv, Accepted
  PROVE  IInv'
<1>1. /\ pos \in Index /\ sample \in Values /\ link = "up"
      /\ wire' = [wire EXCEPT ![pos] = IF broken THEN @ ELSE Append(@, sample)]
      /\ shadow' = [shadow EXCEPT ![pos] = sample]
      /\ synced' = synced \cup {pos} /\ sample' = None
      /\ UNCHANGED <<val, link, broken, retained, about>>
  BY DEF Accepted, IInv, Typed
<1>2. wire[pos] \in Seq(Values)
  BY <1>1 DEF IInv, Typed
<1>3. Typed'
  <2>1. wire' \in [Index -> Seq(Values)]
    BY <1>1, <1>2, QueueFacts DEF IInv, Typed
  <2>2. shadow' \in [Index -> Values \cup {None}]
    BY <1>1 DEF IInv, Typed
  <2> QED BY <1>1, <2>1, <2>2, SameTable DEF IInv, Typed, about
<1>4. SaidByOne' /\ ArrivedOrOnItsWay'
  BY <1>1, SameMetas, SameArrivals DEF IInv, about
<1>5. SyncedMeansSent'
  <2> SUFFICES ASSUME ~broken, NEW i \in synced'
               PROVE  LastSent(i)' = shadow'[i]
    BY <1>1 DEF SyncedMeansSent
  <2>1. i \in Index
    BY <1>1 DEF IInv, Typed
  <2>2. CASE i = pos
    <3>1. wire'[i] = Append(wire[i], sample) /\ shadow'[i] = sample
      BY <1>1, <2>1, <2>2 DEF IInv, Typed
    <3> QED BY <1>1, <1>2, <2>2, <3>1, QueueFacts DEF LastSent
  <2>3. CASE i # pos
    <3>1. wire'[i] = wire[i] /\ shadow'[i] = shadow[i] /\ i \in synced
      BY <1>1, <2>1, <2>3 DEF IInv, Typed
    <3>2. LastSent(i) = shadow[i]
      BY <1>1, <3>1 DEF IInv, SyncedMeansSent
    <3>3. fw' = fw /\ retained' = retained
      BY <1>1 DEF about
    <3> QED BY <3>1, <3>2, <3>3 DEF LastSent
  <2> QED BY <2>2, <2>3
<1> QED BY <1>3, <1>4, <1>5 DEF IInv

(* The full count is returned only when no message is missing.             *)
LEMMA AnnounceInv ==
  ASSUME IInv, Announce
  PROVE  IInv'
<1>1. PICK refused \in SUBSET Messages(fw) :
        /\ sent' = N + 2 - Cardinality(refused)
        /\ metas' = IF broken THEN {} ELSE Messages(fw) \ refused
  BY DEF Announce
<1>2. link' = "fresh" /\ UNCHANGED <<device, broken, wire, retained, fw, described>>
  BY DEF Announce
<1>3. Typed'
  BY <1>1, <1>2, SameTable DEF IInv, Typed, device
<1>4. SaidByOne' /\ SyncedMeansSent'
  BY <1>2, SameMetas, NotUp DEF IInv
<1>5. ArrivedOrOnItsWay'
  <2> SUFFICES ASSUME ~broken, sent' = N + 2 PROVE metas' = Messages(fw)
    BY <1>2, SameTable DEF ArrivedOrOnItsWay
  <2>1. refused = {}
    BY <1>1, FullCount DEF N, IInv, Typed
  <2> QED BY <1>1, <2>1
<1> QED BY <1>3, <1>4, <1>5 DEF IInv

LEMMA PublishAllInv ==
  ASSUME IInv, PublishAll
  PROVE  IInv'
<1>1. /\ link = "fresh" /\ link' = "up" /\ synced' = {}
      /\ UNCHANGED <<val, shadow, sample, broken, wire, retained, about>>
  BY DEF PublishAll
<1>2. Typed' /\ SaidByOne'
  BY <1>1, SameTable, SameMetas DEF IInv, Typed, about
<1>3. ArrivedOrOnItsWay' /\ SyncedMeansSent'
  BY <1>1, SameTable DEF IInv, ArrivedOrOnItsWay, SyncedMeansSent, about
<1> QED BY <1>2, <1>3 DEF IInv

(* A delivery moves the value a subscriber will end up with, or keeps it.  *)
LEMMA DeliverInv ==
  ASSUME IInv, NEW i \in Index, Deliver(i)
  PROVE  IInv'
<1>1. /\ wire[i] # <<>> /\ wire[i] \in Seq(Values)
      /\ retained' = [retained EXCEPT ![NameOf(fw, i)] = Head(wire[i])]
      /\ wire' = [wire EXCEPT ![i] = Tail(wire[i])]
      /\ UNCHANGED <<val, shadow, synced, sample, link, broken, about>> /\ fw' = fw
  BY DEF IInv, Typed, Deliver, device, about
<1> DEFINE name(k) == NameOf(fw, k)
<1>0. /\ \A k \in Index : name(k) \in Names
      /\ \A k \in Index : name(k) = name(i) => k = i
  BY TopicFacts DEF IInv, Typed, Index
<1>2. Head(wire[i]) \in Values /\ Tail(wire[i]) \in Seq(Values)
  BY <1>1, QueueFacts
<1>3. Typed'
  <2>1. retained' \in [Names -> Values \cup {None}]
    BY <1>1, <1>2 DEF IInv, Typed
  <2>2. wire' \in [Index -> Seq(Values)]
    BY <1>1, <1>2 DEF IInv, Typed
  <2> QED BY <1>1, <2>1, <2>2, SameTable DEF IInv, Typed, about
<1>4. SaidByOne' /\ ArrivedOrOnItsWay'
  BY <1>1, SameMetas, SameArrivals DEF IInv, about
<1>5. ASSUME NEW k \in Index PROVE LastSent(k)' = LastSent(k)
  <2>0. LastSent(k)' = IF wire'[k] = <<>> THEN retained'[name(k)] ELSE wire'[k][Len(wire'[k])]
    <3>1. name(k)' = name(k)
      BY <1>1
    <3> QED BY <3>1 DEF LastSent
  <2>1. CASE k = i
    <3>1. wire'[i] = Tail(wire[i]) /\ retained'[name(i)] = Head(wire[i])
      BY <1>0, <1>1 DEF IInv, Typed
    <3>2. LastSent(i)' = IF Tail(wire[i]) = <<>> THEN Head(wire[i])
                         ELSE Tail(wire[i])[Len(Tail(wire[i]))]
      BY <2>0, <2>1, <3>1
    <3> QED BY <1>1, <2>1, <3>2, QueueFacts DEF LastSent
  <2>2. CASE k # i
    <3>1. wire'[k] = wire[k] /\ retained'[name(k)] = retained[name(k)]
      BY <1>0, <1>1, <2>2 DEF IInv, Typed
    <3> QED BY <2>0, <3>1 DEF LastSent
  <2> QED BY <2>1, <2>2
<1>6. SyncedMeansSent'
  BY <1>1, <1>5 DEF IInv, Typed, SyncedMeansSent
<1> QED BY <1>3, <1>4, <1>6 DEF IInv

LEMMA DeliverMetaInv ==
  ASSUME IInv, DeliverMeta
  PROVE  IInv'
<1>1. PICK m \in metas : /\ described' = [described EXCEPT ![TopicOf(fw, m)] = Meta(fw, m)]
                         /\ metas' = metas \ {m}
  BY DEF DeliverMeta
<1>2. UNCHANGED <<val, shadow, synced, sample, link, broken, wire, retained, fw, sent>>
  BY DEF DeliverMeta, device
<1>3. m \in Messages(fw) /\ metas \subseteq Messages(fw) /\ fw \in Firmware /\ TopicOf(fw, m) \in Topics
  BY TopicsApart DEF IInv, Typed
<1>4. /\ described'[TopicOf(fw, m)] = Meta(fw, m)
      /\ \A t \in Topics : t # TopicOf(fw, m) => described'[t] = described[t]
  BY <1>1, <1>3 DEF IInv, Typed
<1>5. Typed'
  <2> DEFINE Said == UNION {{Meta(f, k) : k \in Messages(f)} : f \in Firmware}
  <2>1. Meta(fw, m) \in Said
    BY <1>3
  <2> HIDE DEF Said
  <2>2. described' \in [Topics -> {None} \cup Said]
    BY <1>1, <1>3, <2>1 DEF IInv, Typed, Said
  <2> QED BY <1>1, <1>2, <2>2, SameTable DEF IInv, Typed, Said
<1>6. SaidByOne'
  <2> SUFFICES ASSUME NEW t \in Topics, described'[t] # None
               PROVE  \E f \in Firmware : \E k \in Messages(f) :
                        TopicOf(f, k) = t /\ described'[t] = Meta(f, k)
    BY DEF SaidByOne
  <2>1. CASE t = TopicOf(fw, m)
    BY <1>3, <1>4, <2>1
  <2>2. CASE t # TopicOf(fw, m)
    BY <1>4, <2>2 DEF IInv, SaidByOne
  <2> QED BY <2>1, <2>2
<1>7. ArrivedOrOnItsWay'
  <2> SUFFICES ASSUME link \in {"fresh", "up"}, ~broken, sent = N + 2, NEW k \in Messages(fw) \ metas'
               PROVE  described'[TopicOf(fw, k)] = Meta(fw, k)
    BY <1>2, SameTable DEF ArrivedOrOnItsWay
  <2>1. CASE k = m
    BY <2>1, <1>4
  <2>2. CASE k # m
    <3>1. k \in Messages(fw) \ metas /\ TopicOf(fw, k) \in Topics /\ TopicOf(fw, k) # TopicOf(fw, m)
      BY <2>2, <1>1, <1>3, TopicsApart
    <3> QED BY <3>1, <1>4 DEF IInv, ArrivedOrOnItsWay
  <2> QED BY <2>1, <2>2
<1>8. SyncedMeansSent'
  BY <1>2, SameOutbox DEF IInv
<1> QED BY <1>5, <1>6, <1>7, <1>8 DEF IInv

(* The connection comes and goes; nothing is promised in between.          *)
LEMMA ConnectionInv ==
  ASSUME IInv, Connect \/ Break \/ Notice
  PROVE  IInv'
<1>1. /\ link' \notin {"fresh", "up"} \/ broken'
      /\ wire' = wire \/ wire' = [i \in Index |-> <<>>]
      /\ metas' = metas \/ metas' = {}
      /\ UNCHANGED <<device, retained, fw, described>>
  BY DEF Connect, Break, Notice, about
<1>2. Typed'
  <2>1. wire' \in [Index -> Seq(Values)]
    <3>1. [i \in Index |-> <<>>] \in [Index -> Seq(Values)]
      OBVIOUS
    <3>2. wire \in [Index -> Seq(Values)]
      BY DEF IInv, Typed
    <3>3. wire' = wire \/ wire' = [i \in Index |-> <<>>]
      BY <1>1
    <3> QED BY <3>1, <3>2, <3>3, Zenon
  <2>2. metas' \subseteq Messages(fw)
    BY <1>1 DEF IInv, Typed
  <2> QED BY <1>1, <2>1, <2>2, SameTable DEF IInv, Typed, device
<1>3. SaidByOne' /\ ArrivedOrOnItsWay' /\ SyncedMeansSent'
  BY <1>1, SameMetas, NotUp, NotAnnounced DEF IInv
<1> QED BY <1>2, <1>3 DEF IInv

LEMMA FlashInv ==
  ASSUME IInv, NEW f \in Firmware, Flash(f)
  PROVE  IInv'
<1>1. Typed'
  <2>1. Index' = Entries(f) /\ fw' = f
    BY DEF Flash, Index
  <2>2. val' \in [Entries(f) -> Values]
    BY MqttAssumption DEF Flash
  <2> QED BY <2>1, <2>2 DEF IInv, Typed, Flash
<1>2. SaidByOne' /\ ArrivedOrOnItsWay' /\ SyncedMeansSent'
  BY SameMetas, NotUp, NotAnnounced DEF IInv, Flash
<1> QED BY <1>1, <1>2 DEF IInv

LEMMA StutterInv ==
  ASSUME IInv, UNCHANGED vars
  PROVE  IInv'
<1>1. UNCHANGED <<val, shadow, synced, sample, link, broken, wire, retained, about>>
  BY DEF vars, device
<1>2. Typed'
  BY <1>1, SameTable DEF IInv, Typed, about
<1> QED BY <1>1, <1>2, DeviceInv

(* The inductive invariant, over every operation and every fault.          *)
THEOREM Invariance == Spec => []IInv
<1>1. IInv /\ [Next]_vars => IInv'
  <2> SUFFICES ASSUME IInv, [Next]_vars PROVE IInv'
    OBVIOUS
  <2>1. CASE \E i \in Index : Change(i) \/ Deliver(i)
    BY <2>1, ChangeInv, DeliverInv
  <2>2. CASE Poll
    BY <2>2, WalkInv, FetchInv, AcceptedInv DEF Poll
  <2>3. CASE Announce \/ PublishAll \/ DeliverMeta
    BY <2>3, AnnounceInv, PublishAllInv, DeliverMetaInv
  <2>4. CASE Connect \/ Break \/ Notice
    BY <2>4, ConnectionInv
  <2>5. CASE \E f \in Firmware : Flash(f)
    BY <2>5, FlashInv
  <2>6. CASE UNCHANGED vars
    BY <2>6, StutterInv
  <2> QED BY <2>1, <2>2, <2>3, <2>4, <2>5, <2>6 DEF Next
<1> QED BY <1>1, InitInv, PTL DEF Spec

(***************************************************************************)
(* "A partial publish leaves the table incomplete, never mixed with an     *)
(* older one": any number of firmwares, restarts, breaks and refusals.     *)
(***************************************************************************)
THEOREM TablesNeverMix == Spec => []NeverMixed
<1>1. IInv => NeverMixed
  BY OneTable DEF IInv
<1> QED BY <1>1, Invariance, PTL

(***************************************************************************)
(* regmqtt_announce's count + 2 is true: on a connection that has held,    *)
(* the broker retains this firmware's table once the metas have arrived.   *)
(***************************************************************************)
THEOREM FullCountIsWhole == Spec => []AnnouncedIsWhole
<1>1. IInv => AnnouncedIsWhole
  <2> SUFFICES ASSUME IInv, link = "up", ~broken, sent = N + 2, metas = {}
               PROVE  /\ \A m \in Messages(fw) : described[TopicOf(fw, m)] = Meta(fw, m)
                      /\ WholeTable /\ Kept = NamesOf(fw)
    BY DEF AnnouncedIsWhole, NamesOf, Index
  <2>1. \A m \in Messages(fw) : described[TopicOf(fw, m)] = Meta(fw, m)
    BY DEF IInv, ArrivedOrOnItsWay
  <2>2. fw \in Firmware /\ SaidByOne
    BY DEF IInv, Typed
  <2>3. /\ described[Descriptor] # None /\ described[Descriptor].count = CountOf[fw]
        /\ {described[t].index : t \in Kept} = Entries(fw)
        /\ Kept = NamesOf(fw)
    BY <2>1, <2>2, AllThere
  <2> QED BY <2>1, <2>3 DEF WholeTable, Entries
<1> QED BY <1>1, Invariance, PTL

(***************************************************************************)
(* The shadow says what the broker has or is about to get: comparing with  *)
(* it is as good as asking the broker.                                     *)
(***************************************************************************)
THEOREM ShadowIsTheBrokers == Spec => []SyncedMeansSent
<1>1. IInv => SyncedMeansSent
  BY DEF IInv
<1> QED BY <1>1, Invariance, PTL
=============================================================================
