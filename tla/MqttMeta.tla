------------------------------ MODULE MqttMeta ------------------------------
(***************************************************************************)
(* The texts of regtable_mqtt.c: which prefixes and names regmqtt_init     *)
(* accepts, the topics made of them, which of them regmqtt_handle acts on, *)
(* and what of a meta fits into its buffer.                                *)
(*                                                                         *)
(* A text is a sequence of words, each with a number of characters; words  *)
(* that the code compares are words of their own.  Module RegMqtt has the  *)
(* behaviour over time.                                                    *)
(***************************************************************************)
EXTENDS Integers, Sequences, SequencesExt

CONSTANTS
  Chars,          \* Chars[w]: how many characters a word has
  TopicSize,      \* REGTABLE_MQTT_TOPIC_SIZE
  NameMax,        \* REGMQTT_NAME_MAX
  MetaSize,       \* REGTABLE_MQTT_META_SIZE
  TrailerLen      \* META_TRAILER_LEN

SumOf(n) == LET upTo[k \in 0 .. Len(n)] == IF k = 0 THEN 0 ELSE upTo[k - 1] + n[k]
            IN  upTo[Len(n)]

LengthOf(s) == SumOf([k \in DOMAIN s |-> Chars[s[k]]])

StateTopic(prefix, name) == prefix \o <<"/">> \o name
SetTopic(prefix, name)   == prefix \o <<"/">> \o name \o <<"/", "set">>
MetaTopic(prefix, name)  == prefix \o <<"/", "$", "meta", "/">> \o name
TableTopic(prefix)       == MetaTopic(prefix, <<"$", "table">>)
IdTopic(prefix)          == MetaTopic(prefix, <<"$", "id">>)

(* snprintf into a topic buffer; what fits leaves room for the NUL.        *)
FitsTopic(topic) == LengthOf(topic) < TopicSize

-----------------------------------------------------------------------------
(***************************************************************************)
(* The Appender.  A piece is put character by character (ap_puts) or in    *)
(* one ap_printf, which puts all of it or nothing.                         *)
(***************************************************************************)
Append1(a, piece) ==
  IF a.len + piece.n < a.size THEN [a EXCEPT !.len = a.len + piece.n]
  ELSE [a EXCEPT !.len = IF piece.by = "printf" THEN a.len ELSE a.size - 1,
                 !.overflow = TRUE]

Appended(a, pieces) ==
  LET upTo[k \in 0 .. Len(pieces)] ==
        IF k = 0 THEN a ELSE Append1(upTo[k - 1], pieces[k])
  IN  upTo[Len(pieces)]

Puts(n)   == [by |-> "puts", n |-> n]
Printf(n) == [by |-> "printf", n |-> n]

Empty(size) == [size |-> size, len |-> 0, overflow |-> FALSE]

(* An entry as far as its meta goes: `body` the pieces that are always     *)
(* there, `desc` the pieces of a description, or <<>> for none.            *)
MetaBodyKeeps(size, e, withDesc) ==       \* faulty: the flag stays up after the rollback
  LET body == Appended(Empty(size), e.body)
      full == Appended(body, <<Puts(9)>> \o e.desc \o <<Puts(1)>>)
  IN  IF ~withDesc \/ e.desc = <<>> THEN body
      ELSE IF full.overflow THEN [full EXCEPT !.len = body.len]
      ELSE full

MetaBody(size, e, withDesc) ==
  LET body == Appended(Empty(size), e.body)
      full == Appended(body, <<Puts(9)>> \o e.desc \o <<Puts(1)>>)
  IN  IF ~withDesc \/ e.desc = <<>> THEN body
      ELSE IF full.overflow THEN [full EXCEPT !.overflow = FALSE, !.len = body.len]
      ELSE full

MetaFitsWhole(e) == ~MetaBody(MetaSize, e, FALSE).overflow   \* faulty: no room kept for the trailer

MetaFits(e) == ~MetaBody(MetaSize - TrailerLen, e, FALSE).overflow

(* The payload regmqtt_announce makes of an entry: its body in the smaller *)
(* buffer, then the trailer in the whole one.                              *)
MetaPayload(e) ==
  Append1([MetaBody(MetaSize - TrailerLen, e, TRUE) EXCEPT !.size = MetaSize], Printf(TrailerLen))

-----------------------------------------------------------------------------
(***************************************************************************)
(* regmqtt_init: the rules for the prefix, then for every entry.           *)
(***************************************************************************)
PrefixAccepted(prefix) ==
  /\ prefix # <<>> /\ ~Contains(prefix, "+") /\ ~Contains(prefix, "#")
  /\ LengthOf(prefix) + 14 <= TopicSize

NameAcceptedDollar(prefix, name) ==       \* faulty: a $ name is let through
  /\ LengthOf(name) \in 1 .. NameMax
  /\ \A w \in {"/", "+", "#"} : ~Contains(name, w)
  /\ LengthOf(prefix) + 7 + LengthOf(name) + 1 <= TopicSize

NameAccepted(prefix, name) ==
  /\ LengthOf(name) \in 1 .. NameMax
  /\ \A w \in {"/", "+", "#"} : ~Contains(name, w)
  /\ name[1] # "$"
  /\ LengthOf(prefix) + 7 + LengthOf(name) + 1 <= TopicSize

InitAccepts(prefix, table) ==
  /\ PrefixAccepted(prefix)
  /\ \A i \in DOMAIN table :
       /\ NameAccepted(prefix, table[i].name)
       /\ \A o \in 1 .. (i - 1) : table[o].name # table[i].name
       /\ MetaFits(table[i])

(***************************************************************************)
(* regmqtt_handle's matching: the entry a topic commands, or 0.            *)
(***************************************************************************)
Handle(prefix, table, topic) ==
  LET rest  == SubSeq(topic, Len(prefix) + 2, Len(topic))
      slash == SelectInSeq(rest, LAMBDA w : w = "/")
      name  == SubSeq(rest, 1, slash - 1)
  IN  IF /\ IsPrefix(prefix \o <<"/">>, topic)
         /\ slash # 0 /\ SubSeq(rest, slash, Len(rest)) = <<"/", "set">>
         /\ LengthOf(name) \in 1 .. NameMax
      THEN SelectInSeq(table, LAMBDA e : e.name = name)
      ELSE 0
=============================================================================
