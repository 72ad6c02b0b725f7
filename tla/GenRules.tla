------------------------------ MODULE GenRules ------------------------------
(***************************************************************************)
(* python/regtable/gen.py: the rules a YAML description must keep          *)
(* (validate), and the table row each entry becomes (emit_c); and the      *)
(* check that the Python client makes of a value before it goes on the     *)
(* wire (client.py, check_value).                                          *)
(*                                                                         *)
(* A YAML entry is a record: min, max and init are sets of at most one     *)
(* number, the numbers of a FLOAT given as their bits, and a name is a     *)
(* sequence of words (module MqttMeta).  Numbers that are no numbers, SVD  *)
(* picks and the reserved words of C and Python are left out.              *)
(***************************************************************************)
EXTENDS RegTypes, SequencesExt, FiniteSetsExt

CONSTANTS
  LengthOf(_),    \* len(name): the characters of a name
  Plain,          \* the words made of [a-z0-9_], each beginning with a letter
  MinNormal,      \* FLT_MIN: the smallest magnitude a C literal is sure to spell
  ModbusMax       \* MODBUS_ADDR_MAX

Words(type) == IF type \in {"U32", "I32", "FLOAT"} THEN 2 ELSE 1

(* NAME_RE, ^[a-z][a-z0-9_]{0,30}$ under re.match: the $ stands at the end *)
(* of the name, and also before a newline that ends it.                    *)
EndsInNewline(name) == name # <<>> /\ name[Len(name)] = "newline"

NameRe(name) ==
  LET body == IF EndsInNewline(name) THEN Front(name) ELSE name IN
  /\ LengthOf(body) \in 1 .. 31
  /\ Range(body) \subseteq Plain

FiniteFloat(bits) == FloatMag(bits) = 0 \/ FloatMag(bits) \in MinNormal .. (INF - 1)

(* A YAML number as a number to compare, and as one of the type at all.    *)
Key(type, v)    == IF type = "FLOAT" THEN FloatKey(v) ELSE v
IsOf(type, v)   == IF type = "FLOAT" THEN FiniteFloat(v)
                   ELSE v \in (IF type = "BOOL" THEN {0, 1} ELSE Numbers(type))

RangeRulesLoose(r) ==                \* faulty: a range 0..0 is let through
  r.min # {} \/ r.max # {} =>
    /\ r.min # {} /\ r.max # {} /\ r.type # "BOOL"
    /\ \A lo \in r.min, hi \in r.max :
         IsOf(r.type, lo) /\ IsOf(r.type, hi) /\ Key(r.type, lo) <= Key(r.type, hi)

RangeRules(r) ==
  r.min # {} \/ r.max # {} =>
    /\ r.min # {} /\ r.max # {} /\ r.type # "BOOL"
    /\ \A lo \in r.min, hi \in r.max :
         /\ IsOf(r.type, lo) /\ IsOf(r.type, hi)
         /\ Key(r.type, lo) <= Key(r.type, hi)
         /\ ~(Key(r.type, lo) = 0 /\ Key(r.type, hi) = 0)

(* init defaults to 0, and 0 has to be in the range too.                   *)
InitOf(r) == IF r.init = {} THEN 0 ELSE CHOOSE v \in r.init : TRUE

InitRules(r) ==
  /\ IsOf(r.type, InitOf(r))
  /\ \A lo \in r.min, hi \in r.max :
       Key(r.type, InitOf(r)) \in Key(r.type, lo) .. Key(r.type, hi)

ModbusRules(r) == r.modbus # 0 => r.modbus + Words(r.type) - 1 <= ModbusMax

Overlap(a, b) == /\ a.modbus # 0 /\ b.modbus # 0
                 /\ a.modbus < b.modbus + Words(b.type)
                 /\ b.modbus < a.modbus + Words(a.type)

Validated(yaml) ==
  \A i \in DOMAIN yaml :
    /\ NameRe(yaml[i].name)
    /\ \A o \in 1 .. (i - 1) : yaml[o].name # yaml[i].name
    /\ RangeRules(yaml[i]) /\ InitRules(yaml[i]) /\ ModbusRules(yaml[i])
    /\ \A o \in 1 .. (i - 1) : ~Overlap(yaml[i], yaml[o])

(***************************************************************************)
(* emit_c: the bits the table row holds, and the raw value of the variable *)
(* at the start.                                                           *)
(***************************************************************************)
Bits(v) == v % (2 * H32)

RowOf(r) ==
  [type |-> r.type, perm |-> r.perm,
   min |-> IF r.min = {} THEN 0 ELSE Bits(CHOOSE v \in r.min : TRUE),
   max |-> IF r.max = {} THEN 0 ELSE Bits(CHOOSE v \in r.max : TRUE)]

StartsWith(r) == Bits(InitOf(r))

(***************************************************************************)
(* check_value: the program's value v, a number of the client's schema,    *)
(* and the raw word it will become.  A FLOAT has been rounded to binary32  *)
(* by then, and a NaN or an infinity refused.                              *)
(***************************************************************************)
CheckValue(r, v) ==
  CASE r.type = "BOOL" -> v \in {0, 1}
    [] r.type = "FLOAT" ->
         /\ FloatMag(v) < INF
         /\ \A lo \in r.min, hi \in r.max : FloatKey(v) \in FloatKey(lo) .. FloatKey(hi)
    [] OTHER ->
         IF r.min = {} THEN v \in Numbers(r.type)
         ELSE \A lo \in r.min, hi \in r.max : v \in lo .. hi

(* What a value may be asked to be. *)
Values(r) == IF r.type = "FLOAT" THEN Raw ELSE (-H32 - 1) .. (2 * H32)
=============================================================================
