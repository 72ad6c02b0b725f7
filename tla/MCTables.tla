------------------------------ MODULE MCTables ------------------------------
(***************************************************************************)
(* Every table of a small machine, taken apart: each entry with each value *)
(* that reg_set_raw may be given or the application may assign, and each   *)
(* Modbus map of a few entries with each span a request may name; each     *)
(* short text with each type; tables of one or two entries with names and  *)
(* metas around the limits of the MQTT adapter, whose limits are the real  *)
(* ones; YAML descriptions of one entry with each range and initial value  *)
(* or of two entries with each Modbus address and some names.              *)
(***************************************************************************)
EXTENDS RegText, ModbusMap

CONSTANTS Count, Top, MaxQty, MaxText

ASSUME TablesAssumption == {Count, MaxQty, MaxText} \subseteq Nat /\ Top \in Nat \ {0}

VARIABLES
  entry, cell, raw,        \* the entry at hand, its variable, a raw word
  text,                    \* the text reg_set_str was given
  span, addr,              \* the map at hand
  slave,                   \* the slave address regmb_init is given
  prefix, described,       \* the prefix and the table regmqtt_init is given
  given,                   \* is none of its arguments NULL
  yaml,                    \* the description the generator is given
  kind,                    \* which of them it is: "entry", "map", "topics", "yaml"
  answer

inputs == <<span, addr, slave, prefix, described, given, yaml, kind>>
vars   == <<entry, cell, raw, text, inputs, answer>>

WordMap == [addr |-> addr, span |-> span, top |-> Top]

(* Names of up to two words, prefixes around the limit of 64 characters.   *)
Words    == {"x", "set", "$", "meta", "table", "/", "+", "n31"}
SomePrefixes == {<<>>, <<"dev">>, <<"dev", "/", "x">>, <<"dev", "/", "#">>,
             <<"p25">>, <<"p25", "x">>, <<"p50">>, <<"p50", "x">>}
Lengths  == [w \in {"x", "$", "/", "+", "#", "newline", "set", "meta", "table", "id", "dev",
                    "n31", "p25", "p50"} |->
               CASE w = "id" -> 2 [] w \in {"set", "dev"} -> 3 [] w = "meta" -> 4 [] w = "table" -> 5
                 [] w = "p25" -> 25 [] w = "n31" -> 31 [] w = "p50" -> 50 [] OTHER -> 1]

Mqtt == INSTANCE MqttMeta WITH
          Chars <- Lengths, TopicSize <- 64, NameMax <- 31, MetaSize <- 160, TrailerLen <- 21

Named(name) == [name |-> name, body |-> <<Mqtt!Puts(50), Mqtt!Printf(9)>>, desc |-> <<>>]

(* Bodies and descriptions around the 139 characters of the buffer.        *)
Bodies == {<<Mqtt!Puts(n), Mqtt!Printf(k)>> : n \in 100 .. 140, k \in {9, 30}}
Descs  == {<<>>} \cup {<<Mqtt!Puts(n)>> : n \in 0 .. 40}
                \cup {<<Mqtt!Puts(n), Mqtt!Printf(6), Mqtt!Puts(1)>> : n \in 0 .. 20}

NotAText == <<"no text">>

(* Characters that some type's parser tells apart.                         *)
Letters(type) ==
  CASE type = "FLOAT" -> {Space, "-", "+", "x"} \cup DOMAIN FloatWord
    [] type = "BOOL"  -> {Space, "+", "0", "1", "2", "true", "TRUE", "false", "FALSE"}
    [] OTHER          -> {Space, "-", "+", "0", "1", "8", "a", "x"}

Plain    == [type |-> "U8", perm |-> "RO", min |-> 0, max |-> 0]
Unmapped == [i \in 0 .. (Count - 1) |-> 0]
Narrow   == [i \in 0 .. (Count - 1) |-> 1]

Gen == INSTANCE GenRules WITH
         LengthOf <- Mqtt!LengthOf, Plain <- {"x", "set", "meta", "table", "n31"},
         MinNormal <- 2, ModbusMax <- Top - 1

Row(type, name, min, max, init, modbus) ==
  [type |-> type, perm |-> "RW", name |-> name,
   min |-> min, max |-> max, init |-> init, modbus |-> modbus]

(* Numbers around the borders of the types, in and beyond them.            *)
Borders(type) == IF type = "FLOAT" THEN Raw
                  ELSE {-9, -8, -5, -4, -3, -2, -1, 0, 1, 3, 4, 7, 8, 15, 16}
AtMostOne(S) == {{}} \cup {{x} : x \in S}

(* The entries that texts are tried on: of each type one without a range;  *)
(* one with a range of negative numbers, and a read-only one.              *)
Shown == {[type |-> t, perm |-> "RW", min |-> 0, max |-> 0] : t \in Types}
         \cup {[type |-> "I16", perm |-> "RW", min |-> 2 * H32 - 3, max |-> 2 * H32 - 1],
               [type |-> "U8", perm |-> "RO", min |-> 0, max |-> 0]}

YamlNames == {<<"x">>, <<"n31">>, <<"n31", "x">>, <<"$", "x">>,
              <<"x", "newline">>, <<"n31", "newline">>}

AnyEntry  == /\ kind = "entry"
             /\ entry \in {e \in [type : Types, perm : Perms, min : Raw, max : Raw] : Sane(e)}
             /\ span = Narrow /\ addr = Unmapped
             /\ slave = 1 /\ prefix = <<>> /\ described = <<>> /\ given = TRUE /\ yaml = <<>>
AnyMap    == /\ kind = "map" /\ entry = Plain
             /\ span \in [0 .. (Count - 1) -> {1, 2}]
             /\ addr \in [0 .. (Count - 1) -> 0 .. (Top - 1)]
             /\ slave \in {0, 1, 247, 248}
             /\ prefix = <<>> /\ described = <<>> /\ given = TRUE /\ yaml = <<>>
AnyTopics == /\ kind = "topics" /\ entry = Plain
             /\ span = Narrow /\ addr = Unmapped
             /\ slave = 1 /\ prefix \in SomePrefixes /\ yaml = <<>>
             /\ given \in BOOLEAN
             /\ \/ \E one, other \in SeqOf(Words, 2) : described = <<Named(one), Named(other)>>
                \/ \E body \in Bodies, desc \in Descs :
                     described = <<[name |-> <<"x">>, body |-> body, desc |-> desc]>>

AnyYaml   == /\ kind = "yaml" /\ entry = Plain
             /\ span = Narrow /\ addr = Unmapped
             /\ slave = 1 /\ prefix = <<>> /\ described = <<>> /\ given = TRUE
             /\ \/ \E type \in Types : \E min, max, init \in AtMostOne(Borders(type)) :
                     yaml = <<Row(type, <<"x">>, min, max, init, 0)>>
                \/ \E t1, t2 \in {"U8", "FLOAT"}, a1, a2 \in 0 .. Top,
                     n1, n2 \in YamlNames :
                     yaml = <<Row(t1, n1, {}, {}, {}, a1), Row(t2, n2, {}, {}, {}, a2)>>

Init == /\ AnyEntry \/ AnyMap \/ AnyTopics \/ AnyYaml
        /\ cell = 0 /\ raw = 0 /\ text = NotAText /\ answer = "none"

AppAssign ==
  /\ answer = "none" /\ kind = "entry"
  /\ cell' \in CellOf(entry.type)
  /\ raw' = LoadRaw(entry.type, cell')
  /\ answer' = "read"
  /\ UNCHANGED <<entry, text, inputs>>

SetRaw ==
  /\ answer = "none" /\ kind = "entry"
  /\ \E r \in Raw :
       LET checked == Canonical(entry.type, r) IN
       /\ raw' = checked
       /\ answer' = CheckRaw(entry, r)
       /\ cell' = IF CheckRaw(entry, r) = "OK" THEN StoreRaw(entry.type, checked) ELSE cell
  /\ UNCHANGED <<entry, text, inputs>>

(* reg_set_str: parse, and what was taken goes to reg_set_raw. *)
SetStr ==
  /\ answer = "none" /\ kind = "entry" /\ entry \in Shown
  /\ \E s \in SeqOf(Letters(entry.type), IF entry.type \in {"BOOL", "FLOAT"} THEN 3 ELSE MaxText) :
       \E p \in {Parse(entry.type, s)} :
         /\ text' = s
         /\ raw' = Canonical(entry.type, p.raw)
         /\ answer' = IF p.result = "OK" THEN CheckRaw(entry, p.raw) ELSE p.result
         /\ cell' = IF answer' = "OK" THEN StoreRaw(entry.type, raw') ELSE cell
  /\ UNCHANGED <<entry, inputs>>

regmb_init ==
  /\ answer = "none" /\ kind = "map"
  /\ answer' = IF slave \in 1 .. 247 /\ MapAccepted(WordMap) THEN "accepted" ELSE "refused"
  /\ UNCHANGED <<entry, cell, raw, text, inputs>>

regmqtt_init ==
  /\ answer = "none" /\ kind = "topics"
  /\ answer' = IF given /\ Mqtt!InitAccepts(prefix, described) THEN "bound" ELSE "not bound"
  /\ UNCHANGED <<entry, cell, raw, text, inputs>>

Generate ==
  /\ answer = "none" /\ kind = "yaml"
  /\ answer' = IF Gen!Validated(yaml) THEN "generated" ELSE "invalid"
  /\ UNCHANGED <<entry, cell, raw, text, inputs>>

Next == AppAssign \/ SetRaw \/ SetStr \/ regmb_init \/ regmqtt_init \/ Generate
Spec == Init /\ [][Next]_vars

-----------------------------------------------------------------------------
(***************************************************************************)
(* reg_set_raw accepts exactly the numbers of the type inside the closed   *)
(* interval of an RW entry, whatever the type's representation; NaN and    *)
(* the infinities are told apart from a number that is out of range.       *)
(***************************************************************************)
ChecksMatchMeaning ==
  text = NotAText /\ answer \in {"OK", "READONLY", "TYPE", "RANGE"} =>
    /\ answer = "OK"       <=> Allowed(entry, raw)
    /\ answer = "READONLY" <=> entry.perm = "RO"
    /\ answer = "TYPE"     <=> entry.perm = "RW" /\ entry.type = "FLOAT" /\ FloatMag(raw) >= INF

(***************************************************************************)
(* What was stored is what is loaded, bit for bit, and the variable holds  *)
(* a value of its C type; what the application assigned reads back as a    *)
(* raw value with its own number.                                          *)
(***************************************************************************)
StoredIsLoaded ==
  /\ cell \in CellOf(entry.type)
  /\ answer = "OK" => LoadRaw(entry.type, cell) = raw
  /\ answer = "read" => /\ raw \in Raw
                        /\ entry.type \in SignedTypes => AsInt32(raw) = cell

(***************************************************************************)
(* reg_set_str accepts a numeral of the type exactly when its number is    *)
(* one the entry may hold, and stores that number; never is a numeral a    *)
(* type error (regtable_core.h: "Integers: decimal or 0x hex, optional     *)
(* sign for signed types").  A text that is no numeral is one, and no      *)
(* number is made of a part of it, but for a text with two prefixes: this  *)
(* is where the code departs from its comment, "decimal, or hex with a     *)
(* 0x/0X prefix. Nothing else" (int_base).                                 *)
(***************************************************************************)
TwicePrefixed(s) ==
  \E k \in 1 .. Len(s) :
    /\ k + 3 <= Len(s) /\ SubSeq(s, k, k + 3) = <<"0", "x", "0", "x">>
    /\ \A j \in 1 .. (k - 1) : s[j] \in {Space, "+", "-"}

TextMeansItsNumber ==
  text # NotAText =>
    LET meant == Meaning(entry.type, text) IN
    /\ answer = "TYPE" => meant = {}
    /\ meant = {} => answer = "TYPE" \/ TwicePrefixed(text)
    /\ meant # {} =>
         /\ answer = "OK" <=> /\ entry.perm = "RW"
                              /\ meant \subseteq Numbers(entry.type) \cap Interval(entry)
         /\ answer = "OK" => Number(entry.type, LoadRaw(entry.type, cell)) \in meant

(***************************************************************************)
(* What is shown can be typed in: the text of whatever the application put *)
(* into a register is taken for the same raw value, the most negative      *)
(* number of the type included.                                            *)
(***************************************************************************)
ShownIsTaken ==
  answer = "read" /\ entry.type # "FLOAT" =>
    Parse(entry.type, RawStr(entry.type, raw)) = Taken(raw)

(***************************************************************************)
(* regmb_init accepts a table exactly when every word address has one      *)
(* owner at most, no value sticks out of the top of the address space, and *)
(* the slave address is one a master can ask (regtable_modbus.h).          *)
(***************************************************************************)
InitAcceptsWellMapped ==
  answer \in {"accepted", "refused"} => 
    (answer = "accepted" <=> WellMapped(WordMap) /\ slave \in 1 .. 247)

(***************************************************************************)
(* On an accepted map the walk of span_covered lets through exactly the    *)
(* spans made of whole entries: a request that covers half of a two-word   *)
(* value, or an address with no entry, or runs past the top of the address *)
(* space, is refused (regtable_modbus.h, "read or written whole").         *)
(***************************************************************************)
CoveredIsWhole ==
  answer = "accepted" =>
    \A start \in 0 .. (Top - 1), qty \in 1 .. MaxQty :
      SpanCovered(WordMap, start, qty) <=> WholeEntries(WordMap, start, qty)

(***************************************************************************)
(* In a table regmqtt_init accepts no two of the topics it uses are the    *)
(* same, and of all of them, and of the /set topics of other names,        *)
(* regmqtt_handle acts on exactly the entry's own /set: a client that      *)
(* subscribes to more than it should, and so hears its own states and      *)
(* metas, never takes one for a command.                                   *)
(***************************************************************************)
Uses == ({0} \X {"table", "id"}) \cup ((DOMAIN described) \X {"state", "set", "meta"})

TopicOf(use) ==
  CASE use[2] = "table" -> Mqtt!TableTopic(prefix)
    [] use[2] = "id"    -> Mqtt!IdTopic(prefix)
    [] use[2] = "state" -> Mqtt!StateTopic(prefix, described[use[1]].name)
    [] use[2] = "set"   -> Mqtt!SetTopic(prefix, described[use[1]].name)
    [] use[2] = "meta"  -> Mqtt!MetaTopic(prefix, described[use[1]].name)

OneOwnerPerTopic ==
  answer = "bound" =>
    /\ \A use, other \in Uses : TopicOf(use) = TopicOf(other) => use = other
    /\ \A topic \in {TopicOf(use) : use \in Uses}
                    \cup {Mqtt!SetTopic(prefix, name) : name \in SeqOf(Words, 2)},
         i \in DOMAIN described :
           Mqtt!Handle(prefix, described, topic) = i
             <=> topic = Mqtt!SetTopic(prefix, described[i].name)

(***************************************************************************)
(* "What init accepts, announce can publish" (regtable_mqtt.c:78): every   *)
(* topic of an accepted table fits its buffer, and every meta goes out     *)
(* whole, with its trailer, and with its description exactly when that     *)
(* fits; nothing is ever sent truncated.                                   *)
(***************************************************************************)
Total(pieces) == Mqtt!SumOf([k \in DOMAIN pieces |-> pieces[k].n])

AnnouncesWhatItTook ==
  answer = "bound" =>
    /\ \A use \in Uses : Mqtt!FitsTopic(TopicOf(use))
    /\ \A i \in DOMAIN described :
         LET e        == described[i]
             sent     == Mqtt!MetaPayload(e)
             bare     == Total(e.body)
             withDesc == bare + 10 + Total(e.desc)
         IN  /\ ~sent.overflow
             /\ sent.len = 21 + (IF e.desc # <<>> /\ withDesc < 160 - 21 THEN withDesc ELSE bare)

(***************************************************************************)
(* gen.py: "every constraint the adapters enforce at init time is checked  *)
(* here at generation time, so a bad table fails before it compiles".  A   *)
(* description that passes becomes a table that regmb_init accepts and     *)
(* regmqtt_init accepts under any prefix of up to 25 characters, with the  *)
(* longest metas such entries can have in a table of 64; each variable     *)
(* starts with a value its entry's own checks allow; and a value passes    *)
(* the client's check exactly when the device's checks allow it.  This is  *)
(* not so, against the sentence above, of a name that ends in a newline:   *)
(* NAME_RE lets it through, it breaks the C string it is put into, and     *)
(* after 31 characters it is one more than regmqtt_init takes.             *)
(***************************************************************************)
GeneratedMap == [addr |-> [i \in DOMAIN yaml |-> yaml[i].modbus],
                 span |-> [i \in DOMAIN yaml |-> Gen!Words(yaml[i].type)],
                 top  |-> Top]

(* {"name":"..","type":"..","perm":"..","index":..,"min":..,"max":..,      *)
(* "modbus":..} with the longest type, numbers and index (0..63).          *)
LongestMeta(name) ==
  <<Mqtt!Puts(8 + 2 + Mqtt!LengthOf(name)), Mqtt!Puts(8 + 7), Mqtt!Puts(8 + 4), Mqtt!Printf(9 + 2),
    Mqtt!Puts(7), Mqtt!Printf(15), Mqtt!Puts(7), Mqtt!Printf(15), Mqtt!Printf(10 + 5)>>

GeneratedTopics ==
  [i \in DOMAIN yaml |->
    [name |-> yaml[i].name, body |-> LongestMeta(yaml[i].name), desc |-> <<>>]]

GeneratedIsAccepted ==
  answer = "generated" =>
    /\ MapAccepted(GeneratedMap)
    /\ \/ \E r \in Range(yaml) : Gen!EndsInNewline(r.name)
       \/ Mqtt!InitAccepts(<<"p25">>, GeneratedTopics)
    /\ \A r \in Range(yaml) :
         /\ Sane(Gen!RowOf(r)) /\ Allowed(Gen!RowOf(r), Gen!StartsWith(r))
         /\ \A v \in Gen!Values(r) :
              Gen!CheckValue(r, v) <=>
                /\ Allowed(Gen!RowOf(r), Gen!Bits(v))
                /\ Number(r.type, Gen!Bits(v)) = Gen!Key(r.type, v)
=============================================================================
