------------------------------- MODULE RegText ------------------------------
(***************************************************************************)
(* The string layer of regtable_core.c: the text a raw value is shown as   *)
(* and the raw value a text is taken for, in front of reg_set_raw.         *)
(*                                                                         *)
(* A text is a sequence of characters.  Words that only stand for          *)
(* themselves are one character: "true" and "TRUE" for that word in any    *)
(* case, and of a FLOAT the numerals, FloatWord, whose digits are strtod's *)
(* business.                                                               *)
(***************************************************************************)
EXTENDS RegTypes, Sequences, SequencesExt

Space == "space"
NUL   == "NUL"

Numerals    == <<"0", "1", "2", "3", "4", "5", "6", "7", "8", "9">>
HexNumerals == <<"0", "1", "2", "3", "4", "5", "6", "7", "8", "9",
                 "a", "b", "c", "d", "e", "f">>

ValuesOf(numerals) == [c \in {numerals[k] : k \in DOMAIN numerals} |->
                         (CHOOSE k \in DOMAIN numerals : numerals[k] = c) - 1]

DigitOf == ValuesOf(Numerals)
HexOf   == ValuesOf(HexNumerals)
DigitsOf(base) == IF base = 16 THEN HexOf ELSE DigitOf

At(s, k)   == IF k <= Len(s) THEN s[k] ELSE NUL
From(s, k) == SubSeq(s, k, Len(s))

(* The length of the longest prefix of s made of characters of C.          *)
SpanOf(s, C) == Cardinality({k \in DOMAIN s : \A j \in 1..k : s[j] \in C})

SkipSpace(s) == From(s, SpanOf(s, {Space}) + 1)

AfterSign(s) == IF At(s, 1) \in {"+", "-"} THEN Tail(s) ELSE s

HasPrefix(s) == At(s, 1) = "0" /\ At(s, 2) = "x"

Horner(s, base) ==
  LET upTo[k \in 0 .. Len(s)] ==
        IF k = 0 THEN 0 ELSE upTo[k - 1] * base + DigitsOf(base)[s[k]]
  IN  upTo[Len(s)]

(***************************************************************************)
(* strtoul: it skips blanks, takes a sign by wrapping, and in base 16 a    *)
(* prefix of its own; `rest` is what *end points at.  An overflow is kept  *)
(* as the number it would have been, the callers refuse both the same way. *)
(***************************************************************************)
AfterPrefix(s, base) == IF base = 16 /\ HasPrefix(s) /\ At(s, 3) \in DOMAIN HexOf
                        THEN From(s, 3) ELSE s

Strtoul(s, base) ==
  LET digits == AfterPrefix(AfterSign(SkipSpace(s)), base)
      n      == SpanOf(digits, DOMAIN DigitsOf(base))
      mag    == Horner(SubSeq(digits, 1, n), base)
  IN  IF n = 0 THEN [value |-> 0, rest |-> s]
      ELSE [value |-> IF At(SkipSpace(s), 1) = "-" THEN (-mag) % (2 * H32) ELSE mag,
            rest  |-> From(digits, n + 1)]

Refusal(why) == [result |-> why, raw |-> 0]
Taken(raw)   == [result |-> "OK", raw |-> raw]

(* int_base, the first digit and the whole string, as both parsers ask.    *)
MagnitudeAsStrtoul(s) ==                  \* faulty: what follows 0x is left to strtoul
  LET base == IF HasPrefix(s) THEN 16 ELSE 10
      u    == Strtoul(IF base = 16 THEN From(s, 3) ELSE s, base)
  IN  [number |-> u.rest = <<>>, value |-> u.value]

Magnitude(s) ==
  LET base   == IF HasPrefix(s) THEN 16 ELSE 10
      digits == IF base = 16 THEN From(s, 3) ELSE s
      u      == Strtoul(digits, base)
  IN  [number |-> At(digits, 1) \in DOMAIN HexOf /\ u.rest = <<>>, value |-> u.value]

ParseUnsigned(s) ==
  LET p == SkipSpace(s)
      m == Magnitude(IF At(p, 1) = "+" THEN Tail(p) ELSE p)
  IN  IF At(p, 1) = "-" \/ ~m.number THEN Refusal("TYPE")
      ELSE IF m.value > 2 * H32 - 1 THEN Refusal("RANGE")
      ELSE Taken(m.value)

ParseSignedEvenly(s) ==                   \* faulty: one limit for both signs
  LET p == SkipSpace(s)
      m == Magnitude(AfterSign(p))
  IN  IF ~m.number THEN Refusal("TYPE")
      ELSE IF m.value > H32 - 1 THEN Refusal("RANGE")
      ELSE Taken(IF At(p, 1) = "-" THEN (-m.value) % (2 * H32) ELSE m.value)

ParseSigned(s) ==
  LET p   == SkipSpace(s)
      neg == At(p, 1) = "-"
      m   == Magnitude(AfterSign(p))
  IN  IF ~m.number THEN Refusal("TYPE")
      ELSE IF m.value > (IF neg THEN H32 ELSE H32 - 1) THEN Refusal("RANGE")
      ELSE Taken(IF neg THEN (-m.value) % (2 * H32) ELSE m.value)

(* A numeral of strtod, with the magnitude it rounds to as a float: INF if *)
(* it says so or is too big, more if it is a NaN, of which there are some. *)
ASSUME TextAssumption == INF < H32 - 1

FloatWord == [zero |-> 0, tiny |-> 1, large |-> INF - 1, huge |-> INF, inf |-> INF, nan |-> H32 - 1]

ParseFloat(s) ==
  LET p    == SkipSpace(s)
      body == AfterSign(p)
      mag  == FloatWord[At(body, 1)]
  IN  IF Len(body) # 1 \/ At(body, 1) \notin DOMAIN FloatWord THEN Refusal("TYPE")
      ELSE IF mag > INF THEN Refusal("TYPE")
      ELSE IF mag = INF THEN Refusal("RANGE")
      ELSE Taken(IF At(p, 1) = "-" THEN H32 + mag ELSE mag)

(* str_ieq for the words, strcmp for the digits.                           *)
ParseBool(s) == CASE s \in {<<"true">>, <<"TRUE">>, <<"1">>}   -> Taken(1)
                  [] s \in {<<"false">>, <<"FALSE">>, <<"0">>} -> Taken(0)
                  [] OTHER                                     -> Refusal("TYPE")

(* reg_set_str up to reg_set_raw. *)
Parse(type, s) == CASE type = "BOOL"          -> ParseBool(s)
                    [] type \in UnsignedTypes -> ParseUnsigned(s)
                    [] type \in SignedTypes   -> ParseSigned(s)
                    [] type = "FLOAT"         -> ParseFloat(s)

(***************************************************************************)
(* reg_raw_str.  A FLOAT is shown with %.6g, which rounds: it is left out. *)
(***************************************************************************)
Decimal[n \in 0 .. (2 * H32 - 1)] ==
  IF n < 10 THEN <<Numerals[n + 1]>> ELSE Append(Decimal[n \div 10], Numerals[(n % 10) + 1])

RawStr(type, raw) ==
  CASE type = "BOOL"          -> IF raw # 0 THEN <<"true">> ELSE <<"false">>
    [] type \in UnsignedTypes -> Decimal[raw]
    [] type \in SignedTypes   -> IF AsInt32(raw) < 0 THEN <<"-">> \o Decimal[-AsInt32(raw)]
                                                     ELSE Decimal[raw]

-----------------------------------------------------------------------------
(***************************************************************************)
(* The reference: the numbers a text may be read as in a type, by the      *)
(* grammar that int_base and regtable_core.h state: "decimal, or hex with  *)
(* a 0x/0X prefix. Nothing else", behind blanks and a sign.                *)
(***************************************************************************)
Positional(s, base) ==               \* each digit counts base times the one after it
  LET weight[k \in 0 .. Len(s)] == IF k = 0 THEN 1 ELSE weight[k - 1] * base
      last[k \in 0 .. Len(s)]   == IF k = 0 THEN 0 ELSE
            last[k - 1] + DigitsOf(base)[s[Len(s) + 1 - k]] * weight[k - 1]
  IN  last[Len(s)]

(* <<a, b, c>> cuts s into blanks, a sign, a prefix and digits.            *)
IntegerCuts(signs, s) ==
  {cut \in (0 .. Len(s)) \X (0 .. Len(s)) \X (0 .. Len(s)) :
    LET a == cut[1]  b == cut[2]  c == cut[3] IN
    /\ a <= b /\ b <= c /\ c < Len(s)
    /\ \A k \in 1..a : s[k] = Space
    /\ SubSeq(s, a + 1, b) \in {<<>>} \cup {<<g>> : g \in signs}
    /\ SubSeq(s, b + 1, c) \in {<<>>, <<"0", "x">>}
    /\ \A k \in (c + 1) .. Len(s) : s[k] \in DOMAIN DigitsOf(IF b = c THEN 10 ELSE 16)}

IntegerMeaning(signs, s) ==
  {(IF SubSeq(s, cut[1] + 1, cut[2]) = <<"-">> THEN -1 ELSE 1)
     * Positional(From(s, cut[3] + 1), IF cut[2] = cut[3] THEN 10 ELSE 16) :
   cut \in IntegerCuts(signs, s)}

Blanks(s) == SubSeq(s, 1, SpanOf(s, {Space}))

Meaning(type, s) ==
  CASE type \in UnsignedTypes -> IntegerMeaning({"+"}, s)
    [] type \in SignedTypes   -> IntegerMeaning({"+", "-"}, s)
    [] type = "BOOL"          -> {n \in {0, 1} : s \in IF n = 1 THEN {<<"true">>, <<"TRUE">>, <<"1">>}
                                                         ELSE {<<"false">>, <<"FALSE">>, <<"0">>}}
    [] type = "FLOAT"         ->
         {FloatWord[cut[2]] * (IF cut[1] = <<"-">> THEN -1 ELSE 1) :
          cut \in {cut \in {<<>>, <<"+">>, <<"-">>} \X {"zero", "tiny", "large", "huge", "inf"} :
                   Blanks(s) \o cut[1] \o <<cut[2]>> = s}}
=============================================================================
