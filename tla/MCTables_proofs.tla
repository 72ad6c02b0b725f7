--------------------------- MODULE MCTables_proofs --------------------------
(***************************************************************************)
(* What the tables run enumerates on a small machine, for every width.     *)
(***************************************************************************)
EXTENDS MCTables, Rules_proofs, SequenceTheorems, FiniteSetTheorems

-----------------------------------------------------------------------------
(* Texts: how far a run of characters of one kind goes.                    *)
LEMMA SpanFacts ==
  ASSUME NEW s, Len(s) \in Nat, DOMAIN s = 1 .. Len(s), NEW C
  PROVE  /\ SpanOf(s, C) \in 0 .. Len(s)
         /\ \A j \in 1 .. SpanOf(s, C) : s[j] \in C
         /\ SpanOf(s, C) < Len(s) => s[SpanOf(s, C) + 1] \notin C
<1> DEFINE run == {k \in DOMAIN s : \A j \in 1 .. k : s[j] \in C}
           bad == {n \in 0 .. Len(s) : n < Len(s) => s[n + 1] \notin C}
<1>1. PICK n \in bad : \A k \in bad : n <= k
  <2>1. Len(s) \in bad /\ bad \subseteq Nat
    OBVIOUS
  <2> HIDE DEF bad
  <2> QED BY <2>1, LeastNatural
<1>2. n \in 0 .. Len(s) /\ (n < Len(s) => s[n + 1] \notin C)
  <2>1. n \in bad
    BY <1>1
  <2> QED BY <2>1
<1>3. ASSUME NEW j \in 1 .. n PROVE s[j] \in C
  <2> SUFFICES ASSUME s[j] \notin C PROVE FALSE
    OBVIOUS
  <2>1. j - 1 \in Nat /\ j - 1 < n /\ j - 1 < Len(s) /\ (j - 1) + 1 = j
    <3> HIDE DEF bad
    <3>1. n \in Nat /\ n <= Len(s) /\ Len(s) \in Nat
      BY <1>2
    <3> QED BY <3>1
  <2>2. j - 1 \in bad
    BY <2>1
  <2> HIDE DEF bad
  <2> QED BY <1>1, <1>2, <2>1, <2>2
<1> HIDE DEF bad
<1>4. run = 1 .. n
  <2>1. ASSUME NEW k \in run PROVE k <= n
    <3>1. n < k => n + 1 \in 1 .. k
      BY <1>2
    <3> QED BY <1>2, <3>1
  <2> QED BY <2>1, <1>2, <1>3
<1>5. SpanOf(s, C) = n
  <2>1. n \in Nat /\ 1 \in Int
    BY <1>2
  <2>2. Cardinality(1 .. n) = n
    BY <2>1, FS_Interval
  <2> HIDE DEF run
  <2>3. SpanOf(s, C) = Cardinality(run)
    BY DEF SpanOf, run
  <2> QED BY <2>2, <2>3, <1>4
<1> QED BY <1>2, <1>3, <1>5

(***************************************************************************)
(* The number of a run of digits, digit by digit from the left.            *)
(***************************************************************************)
HornerTo(f, n, s, base) ==
  f = [k \in 0 .. n |-> IF k = 0 THEN 0 ELSE f[k - 1] * base + DigitsOf(base)[s[k]]]

LEMMA HornerExists ==
  ASSUME NEW s, NEW base, NEW n \in Nat
  PROVE  \E f : HornerTo(f, n, s, base)
<1> DEFINE bad == {k \in Nat : ~\E f : HornerTo(f, k, s, base)}
<1> SUFFICES ASSUME bad # {} PROVE FALSE
  OBVIOUS
<1>1. PICK k \in bad : \A j \in bad : k <= j
  <2> HIDE DEF HornerTo
  <2> QED BY LeastNatural
<1>2. CASE k = 0
  <2>1. HornerTo([j \in 0 .. 0 |-> 0], 0, s, base)
    BY DEF HornerTo
  <2> QED BY <2>1, <1>1, <1>2
<1>3. CASE k # 0
  <2>1. k - 1 \in Nat /\ k - 1 \notin bad
    BY <1>1, <1>3
  <2>2. PICK g : HornerTo(g, k - 1, s, base)
    BY <2>1
  <2> DEFINE f == [j \in 0 .. k |-> IF j < k THEN g[j]
                                   ELSE g[k - 1] * base + DigitsOf(base)[s[k]]]
  <2>3. ASSUME NEW j \in 0 .. k
        PROVE  f[j] = IF j = 0 THEN 0 ELSE f[j - 1] * base + DigitsOf(base)[s[j]]
    <3>1. CASE j = k
      BY <3>1, <2>1, <1>3
    <3>2. CASE j < k
      <4>1. j \in 0 .. (k - 1)
        BY <3>2, <2>1
      <4>2. g[j] = IF j = 0 THEN 0 ELSE g[j - 1] * base + DigitsOf(base)[s[j]]
        BY <2>2, <4>1 DEF HornerTo
      <4>3. f[j] = g[j] /\ (j # 0 => f[j - 1] = g[j - 1])
        BY <3>2
      <4> HIDE DEF f
      <4> QED BY <4>2, <4>3
    <3> QED BY <3>1, <3>2
  <2>4. HornerTo(f, k, s, base)
    <3>1. f = [j \in 0 .. k |-> f[j]]
      OBVIOUS
    <3> HIDE DEF f
    <3> QED BY <2>3, <3>1, Zenon DEF HornerTo
  <2> QED BY <1>1, <2>4
<1> QED BY <1>2, <1>3

LEMMA HornerRun ==
  ASSUME NEW s, Len(s) \in Nat, NEW base
  PROVE  \E f : HornerTo(f, Len(s), s, base) /\ Horner(s, base) = f[Len(s)]
<1> DEFINE f == CHOOSE h : HornerTo(h, Len(s), s, base)
<1>1. HornerTo(f, Len(s), s, base)
  BY HornerExists
<1>2. Horner(s, base) = f[Len(s)]
  BY DEF Horner, HornerTo
<1> QED BY <1>1, <1>2

LEMMA ValuesOfFacts ==
  ASSUME NEW n \in Nat, NEW numerals, DOMAIN numerals = 1 .. n
  PROVE  /\ \A c \in DOMAIN ValuesOf(numerals) :
              ValuesOf(numerals)[c] \in 0 .. (n - 1) /\ c = numerals[ValuesOf(numerals)[c] + 1]
         /\ \A k \in 1 .. n : numerals[k] \in DOMAIN ValuesOf(numerals)
<1>1. DOMAIN ValuesOf(numerals) = {numerals[k] : k \in 1 .. n}
  BY DEF ValuesOf
<1>2. ASSUME NEW c \in DOMAIN ValuesOf(numerals)
      PROVE  ValuesOf(numerals)[c] \in 0 .. (n - 1) /\ c = numerals[ValuesOf(numerals)[c] + 1]
  <2> DEFINE k == CHOOSE k \in 1 .. n : numerals[k] = c
  <2>1. k \in 1 .. n /\ numerals[k] = c
    BY <1>1, <1>2
  <2>2. ValuesOf(numerals)[c] = k - 1
    BY <1>1, <1>2 DEF ValuesOf
  <2> HIDE DEF k
  <2>3. k - 1 \in 0 .. (n - 1) /\ (k - 1) + 1 = k
    BY <2>1
  <2> QED BY <2>1, <2>2, <2>3
<1> QED BY <1>1, <1>2

LEMMA DigitFacts ==
  /\ DigitsOf(10) = DigitOf /\ DigitsOf(16) = HexOf
  /\ \A c \in DOMAIN DigitOf : /\ DigitOf[c] \in 0 .. 9 /\ c = Numerals[DigitOf[c] + 1]
                               /\ c \notin {Space, "-", "+", "x", NUL}
  /\ \A d \in 0 .. 9 : Numerals[d + 1] \in DOMAIN DigitOf /\ DigitOf[Numerals[d + 1]] = d
  /\ \A c \in DOMAIN HexOf : HexOf[c] \in Nat
  /\ DOMAIN DigitOf \subseteq DOMAIN HexOf
<1>1. DOMAIN Numerals = 1 .. 10 /\ DOMAIN HexNumerals = 1 .. 16
  BY DEF Numerals, HexNumerals
<1>2. /\ \A c \in DOMAIN DigitOf : DigitOf[c] \in 0 .. 9 /\ c = Numerals[DigitOf[c] + 1]
      /\ \A k \in 1 .. 10 : Numerals[k] \in DOMAIN DigitOf
      /\ \A c \in DOMAIN HexOf : HexOf[c] \in Nat
      /\ \A k \in 1 .. 16 : HexNumerals[k] \in DOMAIN HexOf
  <2>1. /\ \A c \in DOMAIN DigitOf : DigitOf[c] \in 0 .. (10 - 1) /\ c = Numerals[DigitOf[c] + 1]
        /\ \A k \in 1 .. 10 : Numerals[k] \in DOMAIN DigitOf
    BY <1>1, ValuesOfFacts, Zenon DEF DigitOf
  <2>2. /\ \A c \in DOMAIN HexOf : HexOf[c] \in 0 .. (16 - 1)
        /\ \A k \in 1 .. 16 : HexNumerals[k] \in DOMAIN HexOf
    BY <1>1, ValuesOfFacts, Zenon DEF HexOf
  <2> QED BY <2>1, <2>2
<1>3. \A k, j \in 1 .. 10 : Numerals[k] = Numerals[j] => k = j
  BY DEF Numerals
<1>4. ASSUME NEW d \in 0 .. 9
      PROVE  Numerals[d + 1] \in DOMAIN DigitOf /\ DigitOf[Numerals[d + 1]] = d
  <2>1. d + 1 \in 1 .. 10
    OBVIOUS
  <2>2. DigitOf[Numerals[d + 1]] \in 0 .. 9 /\ Numerals[d + 1] = Numerals[DigitOf[Numerals[d + 1]] + 1]
    BY <1>2, <2>1
  <2> DEFINE e == DigitOf[Numerals[d + 1]]
  <2> HIDE DEF e
  <2>3. e + 1 \in 1 .. 10 /\ Numerals[e + 1] = Numerals[d + 1]
    BY <2>2 DEF e
  <2>4. e + 1 = d + 1
    BY <1>3, <2>1, <2>3
  <2> QED BY <1>2, <2>1, <2>2, <2>4 DEF e
<1>5. \A k \in 1 .. 10 : Numerals[k] \notin {Space, "-", "+", "x", NUL} /\ Numerals[k] = HexNumerals[k]
  BY DEF Numerals, HexNumerals, Space, NUL
<1>6. ASSUME NEW c \in DOMAIN DigitOf
      PROVE  \E k \in 1 .. 10 : c = Numerals[k]
  <2>1. DigitOf[c] + 1 \in 1 .. 10
    BY <1>2, <1>6
  <2> QED BY <1>2, <1>6, <2>1
<1>7. DOMAIN DigitOf \subseteq DOMAIN HexOf
  BY <1>2, <1>5, <1>6
<1> QED BY <1>2, <1>4, <1>5, <1>6, <1>7 DEF DigitsOf

LEMMA HornerValues ==
  ASSUME NEW base \in {10, 16}, NEW n \in Nat, NEW s, NEW f, HornerTo(f, n, s, base),
         \A k \in 1 .. n : s[k] \in DOMAIN DigitsOf(base), NEW k \in 0 .. n
  PROVE  f[k] \in Nat
<1> DEFINE bad == {j \in Nat : j <= n /\ f[j] \notin Nat}
<1>1. bad = {}
  <2> SUFFICES ASSUME bad # {} PROVE FALSE
    OBVIOUS
  <2>1. PICK j \in bad : \A i \in bad : j <= i
    BY LeastNatural
  <2>2. f[j] = IF j = 0 THEN 0 ELSE f[j - 1] * base + DigitsOf(base)[s[j]]
    BY <2>1 DEF HornerTo
  <2>3. j # 0
    BY <2>1, <2>2
  <2>4. j - 1 \in Nat /\ j - 1 \notin bad
    BY <2>1, <2>3
  <2>5. f[j - 1] \in Nat
    BY <2>1, <2>4
  <2>6. DigitsOf(base)[s[j]] \in Nat
    BY <2>1, <2>3, DigitFacts
  <2>7. f[j] \in Nat
    BY <2>2, <2>3, <2>5, <2>6
  <2> QED BY <2>1, <2>7
<1> QED BY <1>1

LEMMA HornerIsNat ==
  ASSUME NEW base \in {10, 16}, NEW s, Len(s) \in Nat,
         \A k \in 1 .. Len(s) : s[k] \in DOMAIN DigitsOf(base)
  PROVE  Horner(s, base) \in Nat
<1>1. PICK f : HornerTo(f, Len(s), s, base) /\ Horner(s, base) = f[Len(s)]
  BY HornerRun
<1> QED BY <1>1, HornerValues

(* Two runs over texts that begin alike begin alike.                       *)
LEMMA HornerAgrees ==
  ASSUME NEW base, NEW n \in Nat, NEW m \in Nat, NEW s, NEW t, NEW f, NEW g,
         HornerTo(f, n, s, base), HornerTo(g, m, t, base),
         n <= m, \A k \in 1 .. n : s[k] = t[k], NEW k \in 0 .. n
  PROVE  f[k] = g[k]
<1> DEFINE bad == {j \in Nat : j <= n /\ f[j] # g[j]}
<1>1. bad = {}
  <2> SUFFICES ASSUME bad # {} PROVE FALSE
    OBVIOUS
  <2>1. PICK j \in bad : \A i \in bad : j <= i
    BY LeastNatural
  <2>2. /\ f[j] = IF j = 0 THEN 0 ELSE f[j - 1] * base + DigitsOf(base)[s[j]]
        /\ g[j] = IF j = 0 THEN 0 ELSE g[j - 1] * base + DigitsOf(base)[t[j]]
    BY <2>1 DEF HornerTo
  <2>3. CASE j = 0
    BY <2>1, <2>2, <2>3
  <2>4. CASE j # 0
    <3>1. j - 1 \in Nat /\ j - 1 \notin bad
      BY <2>1, <2>4
    <3>2. f[j - 1] = g[j - 1] /\ s[j] = t[j]
      BY <2>1, <2>4, <3>1
    <3> QED BY <2>1, <2>2, <2>4, <3>2
  <2> QED BY <2>3, <2>4
<1> QED BY <1>1

LEMMA HornerAppend ==
  ASSUME NEW base, NEW S, NEW s \in Seq(S), NEW c \in S
  PROVE  Horner(Append(s, c), base) = Horner(s, base) * base + DigitsOf(base)[c]
<1> DEFINE t == Append(s, c)
<1>1. /\ Len(s) \in Nat /\ Len(t) = Len(s) + 1 /\ t[Len(s) + 1] = c
      /\ \A k \in 1 .. Len(s) : s[k] = t[k]
  BY AppendProperties, LenProperties
<1> HIDE DEF t
<1>2. PICK f : HornerTo(f, Len(s), s, base) /\ Horner(s, base) = f[Len(s)]
  BY <1>1, HornerRun
<1>3. PICK g : HornerTo(g, Len(t), t, base) /\ Horner(t, base) = g[Len(t)]
  BY <1>1, HornerRun
<1>4. f[Len(s)] = g[Len(s)]
  BY <1>1, <1>2, <1>3, HornerAgrees
<1>5. g[Len(t)] = g[Len(s)] * base + DigitsOf(base)[c]
  BY <1>1, <1>3 DEF HornerTo
<1> QED BY <1>2, <1>3, <1>4, <1>5 DEF t

-----------------------------------------------------------------------------
(* What the parsers take of a text is text.                                *)
LEMMA TextParts ==
  ASSUME NEW S, NEW s \in Seq(S)
  PROVE  /\ \A k \in Nat \ {0} : From(s, k) \in Seq(S)
         /\ SkipSpace(s) \in Seq(S) /\ AfterSign(s) \in Seq(S)
         /\ \A base : AfterPrefix(s, base) \in Seq(S)
         /\ Len(s) \in Nat /\ DOMAIN s = 1 .. Len(s) /\ \A k \in 1 .. Len(s) : s[k] \in S
<1>1. Len(s) \in Nat /\ DOMAIN s = 1 .. Len(s) /\ \A k \in 1 .. Len(s) : s[k] \in S
  BY LenProperties, ElementOfSeq
<1>2. ASSUME NEW k \in Nat \ {0} PROVE From(s, k) \in Seq(S)
  BY <1>1, SubSeqProperties DEF From
<1>3. SkipSpace(s) \in Seq(S)
  <2>1. SpanOf(s, {Space}) + 1 \in Nat \ {0}
    BY <1>1, SpanFacts
  <2> QED BY <1>2, <2>1 DEF SkipSpace
<1>4. AfterSign(s) \in Seq(S)
  <2>1. s # <<>> => Tail(s) \in Seq(S)
    BY HeadTailProperties
  <2>2. At(s, 1) \in {"+", "-"} => s # <<>>
    BY DEF At, NUL
  <2> QED BY <2>1, <2>2 DEF AfterSign
<1>5. \A base : AfterPrefix(s, base) \in Seq(S)
  BY <1>2 DEF AfterPrefix
<1> QED BY <1>1, <1>2, <1>3, <1>4, <1>5

LEMMA StrtoulIsNat ==
  ASSUME NEW S, NEW s \in Seq(S), NEW base \in {10, 16}
  PROVE  Strtoul(s, base).value \in Nat
<1> DEFINE t      == AfterPrefix(AfterSign(SkipSpace(s)), base)
           n      == SpanOf(t, DOMAIN DigitsOf(base))
           digits == SubSeq(t, 1, n)
<1>1. t \in Seq(S) /\ Len(t) \in Nat /\ DOMAIN t = 1 .. Len(t)
  BY TextParts
<1>2. n \in 0 .. Len(t) /\ \A j \in 1 .. n : t[j] \in DOMAIN DigitsOf(base)
  <2> HIDE DEF t
  <2> QED BY <1>1, SpanFacts
<1>3. Len(digits) = n /\ \A k \in 1 .. n : digits[k] = t[k]
  <2> HIDE DEF t, n
  <2> QED BY <1>1, <1>2, SubSeqProperties
<1>4. Horner(digits, base) \in Nat
  <2> HIDE DEF digits, t, n
  <2> QED BY <1>2, <1>3, HornerIsNat
<1>5. (-Horner(digits, base)) % (2 * H32) \in Nat
  <2> HIDE DEF digits
  <2>1. 2 * H32 \in Nat \ {0}
    BY WidthAssumption
  <2>2. -Horner(digits, base) \in Int
    BY <1>4
  <2>3. (-Horner(digits, base)) % (2 * H32) \in 0 .. (2 * H32 - 1)
    BY <2>1, <2>2, ModIsSmall
  <2> QED BY <2>1, <2>3
<1> HIDE DEF digits, n, t
<1> QED BY <1>4, <1>5 DEF Strtoul, digits, n, t

LEMMA MagnitudeIsNat ==
  ASSUME NEW S, NEW s \in Seq(S)
  PROVE  Magnitude(s).value \in Nat /\ Magnitude(s).number \in BOOLEAN
<1>1. From(s, 3) \in Seq(S)
  <2>1. 3 \in Nat \ {0}
    OBVIOUS
  <2> QED BY <2>1, TextParts
<1>2. Strtoul(s, 10).value \in Nat /\ Strtoul(From(s, 3), 16).value \in Nat
  BY <1>1, StrtoulIsNat
<1> QED BY <1>2 DEF Magnitude

(* A parser answers in one of three ways, and what it takes is a raw word. *)
LEMMA ParseFacts ==
  ASSUME NEW type \in Types, NEW S, NEW s \in Seq(S)
  PROVE  /\ Parse(type, s).result \in {"OK", "TYPE", "RANGE"}
         /\ Parse(type, s).result = "OK" => Parse(type, s).raw \in Raw
<1> DEFINE Fine(p) == /\ p.result \in {"OK", "TYPE", "RANGE"}
                      /\ p.result = "OK" => p.raw \in Raw
<1>0. /\ \A why \in {"TYPE", "RANGE"} : Fine(Refusal(why))
      /\ \A r \in Raw : Fine(Taken(r))
  BY DEF Refusal, Taken
<1>1. SkipSpace(s) \in Seq(S)
  BY TextParts
<1>2. CASE type = "BOOL"
  <2>1. 0 \in Raw /\ 1 \in Raw
    BY WidthAssumption DEF Raw
  <2>2. ParseBool(s) \in {Taken(1), Taken(0), Refusal("TYPE")}
    BY DEF ParseBool
  <2>3. Parse(type, s) = ParseBool(s)
    BY <1>2 DEF Parse, UnsignedTypes, SignedTypes
  <2>4. Fine(Taken(1)) /\ Fine(Taken(0)) /\ Fine(Refusal("TYPE"))
    <3> HIDE DEF Fine
    <3> QED BY <2>1, <1>0
  <2> HIDE DEF Fine
  <2>5. Fine(ParseBool(s))
    BY <2>2, <2>4
  <2> QED BY <2>3, <2>5 DEF Fine
<1>3. CASE type \in UnsignedTypes
  <2> DEFINE p == SkipSpace(s)
             m == Magnitude(IF At(p, 1) = "+" THEN Tail(p) ELSE p)
  <2>1. m.value \in Nat
    <3>1. At(p, 1) = "+" => p # <<>>
      BY DEF At, NUL
    <3>2. (IF At(p, 1) = "+" THEN Tail(p) ELSE p) \in Seq(S)
      BY <1>1, <3>1, HeadTailProperties
    <3> QED BY <3>2, MagnitudeIsNat
  <2>2. ~(m.value > 2 * H32 - 1) => m.value \in Raw
    BY <2>1, WidthAssumption DEF Raw
  <2>3. \/ ParseUnsigned(s) \in {Refusal("TYPE"), Refusal("RANGE")}
        \/ ~(m.value > 2 * H32 - 1) /\ ParseUnsigned(s) = Taken(m.value)
    BY DEF ParseUnsigned
  <2>4. Parse(type, s) = ParseUnsigned(s)
    BY <1>3 DEF Parse, UnsignedTypes, SignedTypes
  <2> HIDE DEF m, Fine
  <2> QED BY <1>0, <2>2, <2>3, <2>4 DEF Fine
<1>4. CASE type \in SignedTypes
  <2> DEFINE p == SkipSpace(s)
             m == Magnitude(AfterSign(p))
             v == IF At(p, 1) = "-" THEN (-m.value) % (2 * H32) ELSE m.value
  <2>1. m.value \in Nat
    <3>1. AfterSign(p) \in Seq(S)
      BY <1>1, TextParts
    <3> QED BY <3>1, MagnitudeIsNat
  <2>2. \/ ParseSigned(s) \in {Refusal("TYPE"), Refusal("RANGE")}
        \/ /\ ~(m.value > (IF At(p, 1) = "-" THEN H32 ELSE H32 - 1))
           /\ ParseSigned(s) = Taken(v)
    BY DEF ParseSigned
  <2>3. (-m.value) % (2 * H32) \in Raw
    <3> HIDE DEF m
    <3>1. 2 * H32 \in Nat \ {0} /\ -m.value \in Int
      BY <2>1, WidthAssumption
    <3> QED BY <3>1, ModIsSmall DEF Raw
  <2>4. ~(m.value > (IF At(p, 1) = "-" THEN H32 ELSE H32 - 1)) => v \in Raw
    <3> HIDE DEF m, p
    <3> QED BY <2>1, <2>3, WidthAssumption DEF Raw
  <2>5. Parse(type, s) = ParseSigned(s)
    BY <1>4 DEF Parse, UnsignedTypes, SignedTypes
  <2> HIDE DEF m, v, p, Fine
  <2> QED BY <1>0, <2>2, <2>4, <2>5 DEF Fine
<1>5. CASE type = "FLOAT"
  <2> DEFINE p    == SkipSpace(s)
             body == AfterSign(p)
             mag  == FloatWord[At(body, 1)]
             v    == IF At(p, 1) = "-" THEN H32 + mag ELSE mag
  <2>1. \/ ParseFloat(s) \in {Refusal("TYPE"), Refusal("RANGE")}
        \/ /\ At(body, 1) \in DOMAIN FloatWord /\ ~(mag > INF) /\ mag # INF
           /\ ParseFloat(s) = Taken(v)
    BY DEF ParseFloat
  <2>2. At(body, 1) \in DOMAIN FloatWord => mag \in 0 .. (H32 - 1)
    <3> DEFINE w == At(body, 1)
    <3>1. \A x \in DOMAIN FloatWord : FloatWord[x] \in 0 .. (H32 - 1)
      BY WidthAssumption DEF FloatWord
    <3> HIDE DEF w
    <3> QED BY <3>1
  <2>3. At(body, 1) \in DOMAIN FloatWord => v \in Raw
    <3> HIDE DEF mag, p
    <3> QED BY <2>2, WidthAssumption DEF Raw
  <2>4. Parse(type, s) = ParseFloat(s)
    BY <1>5 DEF Parse, UnsignedTypes, SignedTypes
  <2> HIDE DEF v, mag, body, p, Fine
  <2> QED BY <1>0, <2>1, <2>3, <2>4 DEF Fine
<1> QED BY <1>2, <1>3, <1>4, <1>5 DEF Types

-----------------------------------------------------------------------------
(***************************************************************************)
(* Whatever is at hand is something a table may hold, and an input that    *)
(* was not tried yet has left no trace.                                    *)
(***************************************************************************)
AtHand == /\ IsRow(entry) /\ Sane(entry) /\ MapTyped(WordMap)
          /\ answer = "none" => cell = 0 /\ text = NotAText

LEMMA AtHandInit == Init => AtHand
<1> SUFFICES ASSUME Init PROVE AtHand
  OBVIOUS
<1>1. IsRow(entry) /\ Sane(entry)
  <2>1. CASE AnyEntry
    BY <2>1 DEF AnyEntry, IsRow
  <2>2. CASE entry = Plain
    BY <2>2, WidthAssumption DEF Plain, IsRow, Types, UnsignedTypes, Perms, Raw, Sane
  <2> QED BY <2>1, <2>2 DEF Init, AnyMap, AnyTopics, AnyYaml
<1>2. /\ span \in [0 .. (Count - 1) -> {1, 2}]
      /\ addr \in [0 .. (Count - 1) -> 0 .. (Top - 1)]
  BY TablesAssumption DEF Init, AnyEntry, AnyMap, AnyTopics, AnyYaml, Narrow, Unmapped
<1>3. MapTyped(WordMap)
  BY <1>2, TablesAssumption, SMTT(60) DEF MapTyped, WordMap
<1> QED BY <1>1, <1>3 DEF Init, AtHand

(* The texts reg_set_str is given are texts.                               *)
LEMMA TextIsText ==
  ASSUME NEW type, NEW n, NEW s \in SeqOf(Letters(type), n)
  PROVE  s \in Seq(Letters(type)) /\ s # NotAText
<1>1. PICK m \in 0 .. n : s \in [1 .. m -> Letters(type)]
  BY DEF SeqOf
<1>2. s \in Seq(Letters(type))
  BY <1>1, SeqDef
<1>3. "no text" \notin Letters(type)
  BY DEF Letters, FloatWord, Space
<1>4. s # NotAText
  <2>1. SUFFICES ASSUME s = NotAText PROVE FALSE
    OBVIOUS
  <2>2. s \in Seq(Letters(type)) /\ Len(s) = 1 /\ s[1] = "no text"
    BY <1>2, <2>1 DEF NotAText
  <2>3. s[1] \in Letters(type)
    <3> DEFINE L == Letters(type)
    <3> HIDE DEF L
    <3>1. s \in Seq(L)
      BY <1>2 DEF L
    <3>2. 1 \in 1 .. Len(s)
      <4>1. 1 \in 1 .. 1
        OBVIOUS
      <4> QED BY <4>1, <2>2, Zenon
    <3>3. s[1] \in L
      BY <3>1, <3>2, ElementOfSeq
    <3> QED BY <3>3 DEF L
  <2> QED BY <2>2, <2>3, <1>3
<1> QED BY <1>2, <1>4

LEMMA CheckAnswers ==
  ASSUME NEW e, NEW r
  PROVE  CheckRaw(e, r) \in {"OK", "READONLY", "TYPE", "RANGE"}
BY DEF CheckRaw, DomainResult

LEMMA SetStrAnswers ==
  ASSUME AtHand, SetStr
  PROVE  /\ answer' \in {"OK", "READONLY", "TYPE", "RANGE"} /\ text' # NotAText
         /\ entry' = entry /\ inputs' = inputs
<1>1. PICK s \in SeqOf(Letters(entry.type), IF entry.type \in {"BOOL", "FLOAT"} THEN 3 ELSE MaxText) :
        LET p == Parse(entry.type, s) IN
        text' = s /\ answer' = IF p.result = "OK" THEN CheckRaw(entry, p.raw) ELSE p.result
  BY DEF SetStr
<1> DEFINE p == Parse(entry.type, s)
<1>2. p.result \in {"OK", "TYPE", "RANGE"} /\ s # NotAText
  BY TextIsText, ParseFacts DEF AtHand, IsRow
<1> HIDE DEF p
<1>3. text' # NotAText /\ answer' \in {"OK", "READONLY", "TYPE", "RANGE"}
  BY <1>1, <1>2, CheckAnswers DEF p
<1> QED BY <1>3 DEF SetStr, inputs

LEMMA AtHandStep == AtHand /\ [Next]_vars => AtHand'
<1> SUFFICES ASSUME AtHand, [Next]_vars PROVE AtHand'
  OBVIOUS
<1>1. /\ entry' = entry /\ WordMap' = WordMap
      /\ (answer' # "none" \/ UNCHANGED <<cell, text, answer>>)
  <2>1. CASE AppAssign
    BY <2>1 DEF AppAssign, inputs, WordMap
  <2>2. CASE SetRaw
    BY <2>2, CheckAnswers DEF SetRaw, inputs, WordMap
  <2>3. CASE SetStr
    BY <2>3, SetStrAnswers DEF inputs, WordMap
  <2>4. CASE regmb_init
    BY <2>4 DEF regmb_init, inputs, WordMap
  <2>5. CASE regmqtt_init
    BY <2>5 DEF regmqtt_init, inputs, WordMap
  <2>6. CASE Generate
    BY <2>6 DEF Generate, inputs, WordMap
  <2>7. CASE UNCHANGED vars
    BY <2>7 DEF vars, inputs, WordMap
  <2> QED BY <2>1, <2>2, <2>3, <2>4, <2>5, <2>6, <2>7 DEF Next
<1> QED BY <1>1 DEF AtHand

LEMMA AlwaysAtHand == Spec => []AtHand
BY AtHandInit, AtHandStep, PTL DEF Spec

(***************************************************************************)
(* reg_set_raw accepts exactly the numbers of the type inside the closed   *)
(* interval of an RW entry, and tells a NaN or an infinity from a number   *)
(* that is out of range, for types of every width.                         *)
(***************************************************************************)
LEMMA SetRawMeans ==
  ASSUME AtHand, SetRaw
  PROVE  ChecksMatchMeaning'
<1>1. PICK r \in Raw : raw' = Canonical(entry.type, r) /\ answer' = CheckRaw(entry, r)
  BY DEF SetRaw
<1>2. IsRow(entry) /\ Sane(entry) /\ entry' = entry
  BY DEF AtHand, SetRaw, inputs
<1>3. answer' = "OK" <=> Allowed(entry, raw')
  BY <1>1, <1>2, AcceptedIsAllowed, AllowedIsAccepted
<1>4. answer' = "READONLY" <=> entry.perm = "RO"
  BY <1>1, <1>2 DEF CheckRaw, DomainResult
<1>5. answer' = "TYPE" <=> entry.perm = "RW" /\ entry.type = "FLOAT" /\ FloatMag(raw') >= INF
  <2>1. entry.type = "FLOAT" => raw' = r
    BY <1>1 DEF Canonical
  <2> QED BY <1>1, <1>2, <2>1, TypeErrorFacts
<1> QED BY <1>2, <1>3, <1>4, <1>5 DEF ChecksMatchMeaning

(* reg_set_raw answers OK exactly for what its entry allows.               *)
THEOREM Checks == Spec => []ChecksMatchMeaning
<1>1. Init => ChecksMatchMeaning
  BY DEF Init, ChecksMatchMeaning
<1>2. AtHand /\ ChecksMatchMeaning /\ [Next]_vars => ChecksMatchMeaning'
  <2> SUFFICES ASSUME AtHand, ChecksMatchMeaning, [Next]_vars PROVE ChecksMatchMeaning'
    OBVIOUS
  <2>1. CASE AppAssign
    BY <2>1 DEF AppAssign, ChecksMatchMeaning
  <2>2. CASE SetRaw
    BY <2>2, SetRawMeans
  <2>3. CASE SetStr
    BY <2>3, SetStrAnswers DEF ChecksMatchMeaning, NotAText
  <2>4. CASE regmb_init
    BY <2>4 DEF regmb_init, ChecksMatchMeaning
  <2>5. CASE regmqtt_init
    BY <2>5 DEF regmqtt_init, ChecksMatchMeaning
  <2>6. CASE Generate
    BY <2>6 DEF Generate, ChecksMatchMeaning
  <2>7. CASE UNCHANGED vars
    BY <2>7 DEF vars, inputs, ChecksMatchMeaning
  <2> QED BY <2>1, <2>2, <2>3, <2>4, <2>5, <2>6, <2>7 DEF Next
<1> QED BY <1>1, <1>2, AlwaysAtHand, PTL DEF Spec

(***************************************************************************)
(* What was stored is what is loaded, bit for bit, whichever way the value *)
(* came in, and the variable holds a value of its C type.                  *)
(***************************************************************************)
LEMMA LoadedNumber ==
  ASSUME NEW type \in SignedTypes, NEW c \in CellOf(type)
  PROVE  AsInt32(LoadRaw(type, c)) = c
<1>1. Half(type) \in Nat /\ 1 <= Half(type) /\ Half(type) <= H32
  BY HalfBounds DEF Types
<1>2. c \in -Half(type) .. (Half(type) - 1) /\ LoadRaw(type, c) = IF c < 0 THEN c + 2 * H32 ELSE c
  BY DEF CellOf, LoadRaw, SignedTypes
<1> QED BY <1>1, <1>2, WidthAssumption DEF AsInt32

LEMMA StoredFacts ==
  ASSUME NEW e, IsRow(e), NEW r \in Raw, CheckRaw(e, r) = "OK"
  PROVE  /\ StoreRaw(e.type, Canonical(e.type, r)) \in CellOf(e.type)
         /\ LoadRaw(e.type, StoreRaw(e.type, Canonical(e.type, r))) = Canonical(e.type, r)
BY AcceptedFits, StoreRawInCell, StoredIsLoadedBack DEF IsRow

(* What was stored, raw or from a text, is what is loaded.                 *)
THEOREM Stored == Spec => []StoredIsLoaded
<1>1. Init => StoredIsLoaded
  <2> SUFFICES ASSUME Init PROVE StoredIsLoaded
    OBVIOUS
  <2>1. entry.type \in Types /\ cell = 0 /\ answer = "none"
    BY AtHandInit DEF Init, AtHand, IsRow
  <2>2. Half(entry.type) \in Nat /\ 1 <= Half(entry.type)
    BY <2>1, HalfBounds
  <2> QED BY <2>1, <2>2 DEF StoredIsLoaded, CellOf
<1>2. AtHand /\ StoredIsLoaded /\ [Next]_vars => StoredIsLoaded'
  <2> SUFFICES ASSUME AtHand, StoredIsLoaded, [Next]_vars PROVE StoredIsLoaded'
    OBVIOUS
  <2>0. IsRow(entry) /\ entry.type \in Types /\ cell \in CellOf(entry.type)
    BY DEF AtHand, IsRow, StoredIsLoaded
  <2>1. CASE AppAssign
    <3>1. /\ cell' \in CellOf(entry.type) /\ raw' = LoadRaw(entry.type, cell')
          /\ answer' = "read" /\ entry' = entry
      BY <2>1 DEF AppAssign, inputs
    <3> QED BY <2>0, <3>1, LoadRawInRaw, LoadedNumber DEF StoredIsLoaded
  <2>2. CASE SetRaw
    <3>1. PICK r \in Raw :
            /\ raw' = Canonical(entry.type, r) /\ answer' = CheckRaw(entry, r)
            /\ cell' = IF CheckRaw(entry, r) = "OK" THEN StoreRaw(entry.type, Canonical(entry.type, r))
                                                    ELSE cell
      BY <2>2 DEF SetRaw
    <3>2. entry' = entry /\ answer' # "read"
      BY <2>2, <3>1, CheckAnswers DEF SetRaw, inputs
    <3> QED BY <2>0, <3>1, <3>2, StoredFacts DEF StoredIsLoaded
  <2>3. CASE SetStr
    <3>1. PICK s \in SeqOf(Letters(entry.type), IF entry.type \in {"BOOL", "FLOAT"} THEN 3 ELSE MaxText) :
            LET p == Parse(entry.type, s) IN
            /\ raw' = Canonical(entry.type, p.raw)
            /\ answer' = IF p.result = "OK" THEN CheckRaw(entry, p.raw) ELSE p.result
            /\ cell' = IF answer' = "OK" THEN StoreRaw(entry.type, raw') ELSE cell
      BY <2>3 DEF SetStr
    <3> DEFINE p == Parse(entry.type, s)
    <3>2. p.result \in {"OK", "TYPE", "RANGE"} /\ (p.result = "OK" => p.raw \in Raw)
      BY <2>0, TextIsText, ParseFacts
    <3> HIDE DEF p
    <3>3. entry' = entry /\ answer' # "read"
      BY <2>3, <3>1, <3>2, CheckAnswers DEF SetStr, inputs, p
    <3>4. answer' = "OK" => p.raw \in Raw /\ CheckRaw(entry, p.raw) = "OK"
      BY <3>1, <3>2 DEF p
    <3>5. /\ raw' = Canonical(entry.type, p.raw)
          /\ cell' = IF answer' = "OK" THEN StoreRaw(entry.type, raw') ELSE cell
      BY <3>1 DEF p
    <3> QED BY <2>0, <3>3, <3>4, <3>5, StoredFacts DEF StoredIsLoaded
  <2>4. CASE regmb_init
    BY <2>0, <2>4 DEF regmb_init, inputs, StoredIsLoaded
  <2>5. CASE regmqtt_init
    BY <2>0, <2>5 DEF regmqtt_init, inputs, StoredIsLoaded
  <2>6. CASE Generate
    BY <2>0, <2>6 DEF Generate, inputs, StoredIsLoaded
  <2>7. CASE UNCHANGED vars
    BY <2>7 DEF vars, inputs, StoredIsLoaded
  <2> QED BY <2>1, <2>2, <2>3, <2>4, <2>5, <2>6, <2>7 DEF Next
<1> QED BY <1>1, <1>2, AlwaysAtHand, PTL DEF Spec

-----------------------------------------------------------------------------
(***************************************************************************)
(* regmb_init accepts a table exactly when the slave address is one of 1   *)
(* to 247, every word address has one owner at most and no value sticks    *)
(* out of the top of the address space.                                    *)
(***************************************************************************)
LEMMA MapAnswers ==
  ASSUME AtHand, [Next]_vars
  PROVE  /\ WordMap' = WordMap /\ slave' = slave
         /\ \/ answer' \notin {"accepted", "refused"}
            \/ answer' = (IF slave \in 1 .. 247 /\ MapAccepted(WordMap)
                          THEN "accepted" ELSE "refused")
            \/ answer' = answer
<1>1. CASE AppAssign
  BY <1>1 DEF AppAssign, inputs, WordMap
<1>2. CASE SetRaw
  BY <1>2, CheckAnswers DEF SetRaw, inputs, WordMap
<1>3. CASE SetStr
  BY <1>3, SetStrAnswers DEF inputs, WordMap
<1>4. CASE regmb_init
  BY <1>4 DEF regmb_init, inputs, WordMap
<1>5. CASE regmqtt_init
  BY <1>5 DEF regmqtt_init, inputs, WordMap
<1>6. CASE Generate
  BY <1>6 DEF Generate, inputs, WordMap
<1>7. CASE UNCHANGED vars
  BY <1>7 DEF vars, inputs, WordMap
<1> QED BY <1>1, <1>2, <1>3, <1>4, <1>5, <1>6, <1>7 DEF Next

(* regmb_init takes exactly the maps with one owner per word, for an       *)
(* address that a slave may have.                                          *)
THEOREM InitAccepts == Spec => []InitAcceptsWellMapped
<1>1. Init => InitAcceptsWellMapped
  BY DEF Init, InitAcceptsWellMapped
<1>2. AtHand /\ InitAcceptsWellMapped /\ [Next]_vars => InitAcceptsWellMapped'
  <2> SUFFICES ASSUME AtHand, InitAcceptsWellMapped, [Next]_vars PROVE InitAcceptsWellMapped'
    OBVIOUS
  <2>1. MapAccepted(WordMap) <=> WellMapped(WordMap)
    BY AcceptedIsWellMapped DEF AtHand
  <2>2. InitAcceptsWellMapped' = (answer' \in {"accepted", "refused"} =>
          (answer' = "accepted" <=> slave' \in 1 .. 247 /\ WellMapped(WordMap')))
    BY DEF InitAcceptsWellMapped
  <2> QED BY <2>1, <2>2, MapAnswers DEF InitAcceptsWellMapped
<1> QED BY <1>1, <1>2, AlwaysAtHand, PTL DEF Spec

(***************************************************************************)
(* On an accepted map the walk of span_covered lets through exactly the    *)
(* spans made of whole entries, however long.                              *)
(***************************************************************************)
THEOREM Covered == Spec => []CoveredIsWhole
<1>1. Init => CoveredIsWhole
  BY DEF Init, CoveredIsWhole
<1>2. AtHand /\ CoveredIsWhole /\ [Next]_vars => CoveredIsWhole'
  <2> SUFFICES ASSUME AtHand, CoveredIsWhole, [Next]_vars PROVE CoveredIsWhole'
    OBVIOUS
  <2>1. CoveredIsWhole' = (answer' = "accepted" =>
          \A start \in 0 .. (Top - 1), qty \in 1 .. MaxQty :
            SpanCovered(WordMap', start, qty) <=> WholeEntries(WordMap', start, qty))
    BY DEF CoveredIsWhole
  <2>2. ASSUME MapAccepted(WordMap), NEW start \in 0 .. (Top - 1), NEW qty \in 1 .. MaxQty
        PROVE  SpanCovered(WordMap, start, qty) <=> WholeEntries(WordMap, start, qty)
    <3>1. MapTyped(WordMap) /\ WordMap.top = Top /\ qty \in Nat \ {0}
      BY TablesAssumption DEF AtHand, WordMap
    <3> QED BY <2>2, <3>1, CoveredMeansWhole
  <2> QED BY <2>1, <2>2, MapAnswers DEF CoveredIsWhole
<1> QED BY <1>1, <1>2, AlwaysAtHand, PTL DEF Spec

-----------------------------------------------------------------------------
(***************************************************************************)
(* What is shown can be typed in.  The decimal text of a number is made of *)
(* digits, and digits are taken for their number.                          *)
(***************************************************************************)
DecimalTo(f, n) ==
  f = [k \in 0 .. n |-> IF k < 10 THEN <<Numerals[k + 1]>>
                                  ELSE Append(f[k \div 10], Numerals[(k % 10) + 1])]

LEMMA Tenths ==
  ASSUME NEW n \in Nat, n >= 10
  PROVE  /\ n \div 10 \in 0 .. (n - 1) /\ n % 10 \in 0 .. 9
         /\ (n \div 10) * 10 + (n % 10) = n
<1>1. n \div 10 \in Int /\ n % 10 \in 0 .. 9
  OBVIOUS
<1>2. n = 10 * (n \div 10) + (n % 10)
  OBVIOUS
<1> DEFINE q == n \div 10
           r == n % 10
<1>3. q \in Int /\ r \in 0 .. 9 /\ n = 10 * q + r
  BY <1>1, <1>2
<1> HIDE DEF q, r
<1>4. q \in 0 .. (n - 1) /\ q * 10 + r = n
  BY <1>3
<1> QED BY <1>3, <1>4 DEF q, r

LEMMA DecimalExists ==
  ASSUME NEW n \in Nat
  PROVE  \E f : DecimalTo(f, n)
<1> DEFINE bad == {k \in Nat : ~\E f : DecimalTo(f, k)}
<1> SUFFICES ASSUME bad # {} PROVE FALSE
  OBVIOUS
<1>1. PICK k \in bad : \A j \in bad : k <= j
  <2> HIDE DEF DecimalTo
  <2> QED BY LeastNatural
<1>2. CASE k = 0
  <2>1. DecimalTo([j \in 0 .. 0 |-> <<Numerals[j + 1]>>], 0)
    BY DEF DecimalTo
  <2> QED BY <2>1, <1>1, <1>2
<1>3. CASE k # 0
  <2>1. k - 1 \in Nat /\ k - 1 \notin bad
    BY <1>1, <1>3
  <2>2. PICK g : DecimalTo(g, k - 1)
    BY <2>1
  <2> DEFINE f == [j \in 0 .. k |-> IF j < k THEN g[j]
                    ELSE IF k < 10 THEN <<Numerals[k + 1]>>
                         ELSE Append(g[k \div 10], Numerals[(k % 10) + 1])]
  <2>3. ASSUME NEW j \in 0 .. k
        PROVE  f[j] = IF j < 10 THEN <<Numerals[j + 1]>>
                                ELSE Append(f[j \div 10], Numerals[(j % 10) + 1])
    <3>0. j \in Nat /\ (j >= 10 => j \div 10 \in 0 .. (j - 1))
      BY Tenths
    <3>1. CASE j = k
      <4>1. j >= 10 => f[j \div 10] = g[j \div 10]
        BY <3>0, <3>1
      <4> QED BY <3>0, <3>1, <4>1
    <3>2. CASE j < k
      <4>1. j \in 0 .. (k - 1)
        BY <3>2, <2>1
      <4>2. g[j] = IF j < 10 THEN <<Numerals[j + 1]>>
                             ELSE Append(g[j \div 10], Numerals[(j % 10) + 1])
        BY <2>2, <4>1 DEF DecimalTo
      <4>3. f[j] = g[j] /\ (j >= 10 => f[j \div 10] = g[j \div 10])
        BY <3>0, <3>2
      <4> HIDE DEF f
      <4> QED BY <3>0, <4>2, <4>3
    <3> QED BY <3>1, <3>2
  <2>4. DecimalTo(f, k)
    <3>1. f = [j \in 0 .. k |-> f[j]]
      OBVIOUS
    <3> HIDE DEF f
    <3> QED BY <2>3, <3>1, Zenon DEF DecimalTo
  <2> QED BY <1>1, <2>4
<1> QED BY <1>2, <1>3

LEMMA DecimalStep ==
  ASSUME NEW n \in 0 .. (2 * H32 - 1)
  PROVE  Decimal[n] = IF n < 10 THEN <<Numerals[n + 1]>>
                                ELSE Append(Decimal[n \div 10], Numerals[(n % 10) + 1])
<1>1. 2 * H32 - 1 \in Nat
  BY WidthAssumption
<1>2. DecimalTo(Decimal, 2 * H32 - 1)
  <2>1. Decimal = CHOOSE f : DecimalTo(f, 2 * H32 - 1)
    BY DEF Decimal, DecimalTo
  <2> QED BY <1>1, <2>1, DecimalExists
<1> QED BY <1>2 DEF DecimalTo

LEMMA DecimalFacts ==
  ASSUME NEW n \in 0 .. (2 * H32 - 1)
  PROVE  Decimal[n] \in Seq(DOMAIN DigitOf) /\ Decimal[n] # <<>> /\ Horner(Decimal[n], 10) = n
<1> DEFINE D == DOMAIN DigitOf
           Good(k) == Decimal[k] \in Seq(D) /\ Decimal[k] # <<>> /\ Horner(Decimal[k], 10) = k
           bad == {k \in 0 .. (2 * H32 - 1) : ~Good(k)}
<1>0. H32 \in Nat
  BY WidthAssumption
<1>a. /\ DigitsOf(10) = DigitOf
      /\ \A d \in 0 .. 9 : Numerals[d + 1] \in D /\ DigitOf[Numerals[d + 1]] = d
  BY DigitFacts
<1> HIDE DEF D
<1> SUFFICES ASSUME bad # {} PROVE FALSE
  BY DEF D
<1>1. PICK k \in bad : \A j \in bad : k <= j
  <2>1. bad \subseteq Nat
    BY <1>0
  <2> HIDE DEF bad
  <2> QED BY <2>1, LeastNatural
<1>2. k \in 0 .. (2 * H32 - 1) /\ k \in Nat /\ ~Good(k)
  BY <1>0, <1>1
<1>b. Decimal[k] = IF k < 10 THEN <<Numerals[k + 1]>>
                             ELSE Append(Decimal[k \div 10], Numerals[(k % 10) + 1])
  <2> HIDE DEF bad, Good
  <2> QED BY <1>2, DecimalStep
<1>3. CASE k < 10
  <2>1. k \in 0 .. 9 /\ Decimal[k] = <<Numerals[k + 1]>>
    <3>1. k \in 0 .. 9
      BY <1>2, <1>3
    <3> QED BY <3>1, <1>3, <1>b
  <2> DEFINE c == Numerals[k + 1]
  <2>2. c \in D /\ DigitOf[c] = k
    BY <1>a, <2>1
  <2> HIDE DEF c
  <2>3. <<>> \in Seq(D) /\ Append(<<>>, c) = <<c>>
    BY EmptySeq
  <2>4. Horner(<<>>, 10) = 0
    <3>1. Len(<<>>) = 0
      BY EmptySeq
    <3>2. PICK f : HornerTo(f, Len(<<>>), <<>>, 10) /\ Horner(<<>>, 10) = f[Len(<<>>)]
      BY <3>1, HornerRun
    <3> QED BY <3>1, <3>2 DEF HornerTo
  <2>5. Horner(<<c>>, 10) = k
    <3>1. Horner(Append(<<>>, c), 10) = Horner(<<>>, 10) * 10 + DigitsOf(10)[c]
      BY <2>2, <2>3, HornerAppend
    <3>2. Horner(<<c>>, 10) = 0 * 10 + k
      BY <1>a, <2>2, <2>3, <2>4, <3>1, Zenon
    <3> QED BY <1>2, <3>2
  <2>6. <<c>> \in Seq(D) /\ <<c>> # <<>>
    BY <2>2, <2>3, AppendProperties
  <2> QED BY <1>2, <2>1, <2>5, <2>6 DEF c
<1>4. CASE k >= 10
  <2> DEFINE q == k \div 10
             c == Numerals[(k % 10) + 1]
  <2>1. q \in 0 .. (k - 1) /\ k % 10 \in 0 .. 9 /\ q * 10 + (k % 10) = k
    BY <1>2, <1>4, Tenths
  <2>2. c \in D /\ DigitOf[c] = k % 10
    BY <1>a, <2>1
  <2>3. Decimal[k] = Append(Decimal[q], c)
    <3>1. ~(k < 10)
      BY <1>2, <1>4
    <3> QED BY <3>1, <1>b
  <2> DEFINE r == k % 10
  <2>4. r = k % 10
    OBVIOUS
  <2> HIDE DEF q, c, r
  <2>5. Good(q)
    <3>1. q \in 0 .. (2 * H32 - 1) /\ q < k /\ q \in Int
      BY <1>0, <1>2, <2>1
    <3>2. q \notin bad
      <4> HIDE DEF bad
      <4> QED BY <1>1, <1>2, <3>1
    <3> QED BY <3>1, <3>2
  <2>6. Horner(Append(Decimal[q], c), 10) = Horner(Decimal[q], 10) * 10 + DigitsOf(10)[c]
    BY <2>2, <2>5, HornerAppend
  <2>7. Horner(Decimal[k], 10) = k
    <3>1. Horner(Decimal[k], 10) = q * 10 + r
      BY <1>a, <2>2, <2>3, <2>4, <2>5, <2>6, Zenon
    <3>2. q * 10 + r = k
      BY <2>1, <2>4, Zenon
    <3> QED BY <3>1, <3>2
  <2>8. Decimal[k] \in Seq(D) /\ Decimal[k] # <<>>
    BY <2>2, <2>3, <2>5, AppendProperties, SMTT(60)
  <2> QED BY <1>2, <2>7, <2>8
<1> QED BY <1>2, <1>3, <1>4

(* A text of nothing but digits, to every parser of the string layer.      *)
LEMMA DigitText ==
  ASSUME NEW s \in Seq(DOMAIN DigitOf), s # <<>>
  PROVE  /\ SkipSpace(s) = s /\ AfterSign(s) = s /\ ~HasPrefix(s)
         /\ At(s, 1) \in DOMAIN DigitOf
         /\ Strtoul(s, 10) = [value |-> Horner(s, 10), rest |-> <<>>]
<1> DEFINE D == DOMAIN DigitOf
<1>a. /\ DigitsOf(10) = DigitOf
      /\ \A c \in D : c \notin {Space, "-", "+", "x", NUL}
  BY DigitFacts
<1> HIDE DEF D
<1>b. s \in Seq(D)
  BY DEF D
<1>1. Len(s) \in Nat \ {0} /\ DOMAIN s = 1 .. Len(s) /\ \A k \in 1 .. Len(s) : s[k] \in D
  BY <1>b, EmptySeq, TextParts
<1>2. SpanOf(s, {Space}) = 0
  <2>1. /\ SpanOf(s, {Space}) \in 0 .. Len(s)
        /\ \A j \in 1 .. SpanOf(s, {Space}) : s[j] \in {Space}
    BY <1>1, SpanFacts
  <2> SUFFICES ASSUME SpanOf(s, {Space}) # 0 PROVE FALSE
    OBVIOUS
  <2>2. 1 \in 1 .. SpanOf(s, {Space}) /\ 1 \in 1 .. Len(s)
    BY <1>1, <2>1
  <2> QED BY <1>a, <1>1, <2>1, <2>2
<1>3. SkipSpace(s) = s
  <2>1. 0 + 1 = 1
    OBVIOUS
  <2> QED BY <1>b, <1>2, <2>1, SubSeqFull DEF SkipSpace, From
<1>4. At(s, 1) = s[1] /\ At(s, 1) \in D
  BY <1>1 DEF At
<1>5. AfterSign(s) = s
  BY <1>a, <1>4 DEF AfterSign
<1>6. ~HasPrefix(s)
  <2>1. At(s, 2) = NUL \/ At(s, 2) \in D
    BY <1>1 DEF At
  <2> QED BY <1>a, <2>1 DEF HasPrefix, NUL
<1>7. SpanOf(s, D) = Len(s)
  <2>1. SpanOf(s, D) \in 0 .. Len(s) /\ (SpanOf(s, D) < Len(s) => s[SpanOf(s, D) + 1] \notin D)
    BY <1>1, SpanFacts
  <2> DEFINE n == SpanOf(s, D)
  <2> HIDE DEF n
  <2>2. n \in 0 .. Len(s) /\ (n < Len(s) => s[n + 1] \notin D)
    BY <2>1 DEF n
  <2>3. n < Len(s) => n + 1 \in 1 .. Len(s)
    BY <1>1, <2>2
  <2>4. n < Len(s) => s[n + 1] \in D
    BY <1>1, <2>3
  <2>5. n = Len(s)
    <3>1. ~(n < Len(s))
      BY <2>2, <2>4
    <3>2. Len(s) \in Int
      BY <1>1
    <3> QED BY <2>2, <3>1, <3>2
  <2> QED BY <2>5 DEF n
<1>8. AfterPrefix(AfterSign(SkipSpace(s)), 10) = s
  BY <1>3, <1>5 DEF AfterPrefix
<1>9. SubSeq(s, 1, Len(s)) = s /\ From(s, Len(s) + 1) = <<>>
  BY <1>b, <1>1, SubSeqFull, SubSeqEmpty DEF From
<1>10. Strtoul(s, 10) = [value |-> Horner(s, 10), rest |-> <<>>]
  <2>1. Len(s) # 0 /\ At(s, 1) # "-"
    BY <1>a, <1>1, <1>4
  <2>2. SpanOf(s, DOMAIN DigitsOf(10)) = Len(s)
    BY <1>a, <1>7 DEF D
  <2> QED BY <1>3, <1>8, <1>9, <2>1, <2>2, Zenon DEF Strtoul
<1> QED BY <1>3, <1>4, <1>5, <1>6, <1>10 DEF D

LEMMA DigitMagnitude ==
  ASSUME NEW s \in Seq(DOMAIN DigitOf), s # <<>>
  PROVE  Magnitude(s).number /\ Magnitude(s).value = Horner(s, 10)
<1>1. ~HasPrefix(s) /\ At(s, 1) \in DOMAIN HexOf /\ Strtoul(s, 10) = [value |-> Horner(s, 10), rest |-> <<>>]
  BY DigitText, DigitFacts
<1> DEFINE ok == At(s, 1) \in DOMAIN HexOf /\ Strtoul(s, 10).rest = <<>>
           v  == Strtoul(s, 10).value
<1>2. Magnitude(s) = [number |-> ok, value |-> v]
  <2>1. 10 # 16
    OBVIOUS
  <2> QED BY <1>1, <2>1, Zenon DEF Magnitude
<1>3. Strtoul(s, 10).rest = <<>> /\ v = Horner(s, 10)
  BY <1>1
<1>4. ok = TRUE
  BY <1>1, <1>3, Zenon
<1> HIDE DEF ok, v
<1>5. Magnitude(s) = [number |-> TRUE, value |-> v]
  BY <1>2, <1>4, Zenon
<1> QED BY <1>3, <1>5

LEMMA DecimalIsTaken ==
  ASSUME NEW n \in 0 .. (2 * H32 - 1)
  PROVE  /\ ParseUnsigned(Decimal[n]) = Taken(n)
         /\ n < H32 => ParseSigned(Decimal[n]) = Taken(n)
<1> DEFINE s == Decimal[n]
<1>1. s \in Seq(DOMAIN DigitOf) /\ s # <<>> /\ Horner(s, 10) = n
  BY DecimalFacts
<1> HIDE DEF s
<1>2. SkipSpace(s) = s /\ AfterSign(s) = s /\ At(s, 1) \notin {"-", "+"}
  BY <1>1, DigitText, DigitFacts
<1>3. Magnitude(s).number /\ Magnitude(s).value = n
  BY <1>1, DigitMagnitude
<1>4. ~(n > 2 * H32 - 1) /\ (n < H32 => ~(n > H32 - 1))
  BY WidthAssumption
<1>5. ParseUnsigned(s) = Taken(n)
  BY <1>2, <1>3, <1>4 DEF ParseUnsigned
<1>6. n < H32 => ParseSigned(s) = Taken(n)
  BY <1>2, <1>3, <1>4 DEF ParseSigned
<1> QED BY <1>5, <1>6 DEF s

LEMMA NegativeIsTaken ==
  ASSUME NEW n \in 1 .. H32
  PROVE  ParseSigned(<<"-">> \o Decimal[n]) = Taken(2 * H32 - n)
<1> DEFINE d == Decimal[n]
           s == <<"-">> \o d
           A == DOMAIN DigitOf \cup {"-"}
<1>0. H32 \in Nat /\ n \in 0 .. (2 * H32 - 1)
  BY WidthAssumption
<1>1. d \in Seq(DOMAIN DigitOf) /\ d # <<>> /\ Horner(d, 10) = n
  BY <1>0, DecimalFacts
<1>2. Magnitude(d).number /\ Magnitude(d).value = n
  BY <1>1, DigitMagnitude
<1>3. d \in Seq(A) /\ <<"-">> \in Seq(A) /\ Len(<<"-">>) = 1
  <2>1. "-" \in A /\ DOMAIN DigitOf \subseteq A
    OBVIOUS
  <2> HIDE DEF A, d
  <2>2. d \in Seq(A)
    BY <1>1, <2>1, SeqMonotonic
  <2>3. <<"-">> \in Seq(A) /\ Len(<<"-">>) = 1
    BY <2>1
  <2> QED BY <2>2, <2>3
<1> HIDE DEF d, A
<1>4. s \in Seq(A) /\ Len(s) = 1 + Len(d) /\ s[1] = "-" /\ Len(d) \in Nat
      /\ \A i \in 2 .. Len(s) : s[i] = d[i - 1]
  <2>1. Len(d) \in Nat
    BY <1>3, LenProperties
  <2>2. /\ s \in Seq(A) /\ Len(s) = 1 + Len(d)
        /\ \A i \in 1 .. (1 + Len(d)) : s[i] = IF i <= 1 THEN <<"-">>[i] ELSE d[i - 1]
    BY <1>3, ConcatProperties
  <2> HIDE DEF s
  <2>3. 1 \in 1 .. (1 + Len(d)) /\ \A i \in 2 .. Len(s) : i \in 1 .. (1 + Len(d)) /\ ~(i <= 1)
    BY <2>1, <2>2
  <2>4. s[1] = <<"-">>[1]
    BY <2>2, <2>3
  <2> QED BY <2>1, <2>2, <2>3, <2>4
<1> HIDE DEF s
<1>5. At(s, 1) = "-"
  BY <1>4 DEF At
<1>6. SkipSpace(s) = s
  <2>1. DOMAIN s = 1 .. Len(s) /\ Len(s) \in Nat
    BY <1>4, LenProperties
  <2>2. /\ SpanOf(s, {Space}) \in 0 .. Len(s)
        /\ \A j \in 1 .. SpanOf(s, {Space}) : s[j] \in {Space}
    BY <2>1, SpanFacts
  <2>3. SpanOf(s, {Space}) = 0
    <3> SUFFICES ASSUME SpanOf(s, {Space}) # 0 PROVE FALSE
      OBVIOUS
    <3>1. 1 \in 1 .. SpanOf(s, {Space})
      BY <2>1, <2>2
    <3> QED BY <1>4, <2>2, <3>1 DEF Space
  <2>4. 0 + 1 = 1
    OBVIOUS
  <2> QED BY <1>4, <2>3, <2>4, SubSeqFull DEF SkipSpace, From
<1>7. AfterSign(s) = d
  <2>1. s # <<>>
    BY <1>4
  <2>2. Tail(s) \in Seq(A) /\ Len(Tail(s)) = Len(d) /\ \A i \in 1 .. Len(d) : Tail(s)[i] = s[i + 1]
    BY <1>4, <2>1, HeadTailProperties
  <2>3. \A i \in 1 .. Len(d) : Tail(s)[i] = d[i]
    <3>1. \A i \in 1 .. Len(d) : i + 1 \in 2 .. Len(s) /\ (i + 1) - 1 = i
      BY <1>4
    <3> QED BY <1>4, <2>2, <3>1
  <2>4. Tail(s) = d
    BY <1>3, <2>2, <2>3, SeqEqual
  <2> QED BY <1>5, <2>4 DEF AfterSign
<1>8. (-n) % (2 * H32) = 2 * H32 - n
  <2> DEFINE M == 2 * H32
  <2>1. M \in Nat /\ n \in 1 .. (M - 1)
    BY <1>0
  <2> HIDE DEF M
  <2>2. (-n) % M = M - n
    BY <2>1
  <2> QED BY <2>2 DEF M
<1>9. ~(n > H32)
  BY <1>0
<1>10. Magnitude(AfterSign(SkipSpace(s))).number /\ Magnitude(AfterSign(SkipSpace(s))).value = n
  BY <1>2, <1>6, <1>7
<1>11. At(SkipSpace(s), 1) = "-"
  BY <1>5, <1>6
<1>12. ParseSigned(s) = Taken((-n) % (2 * H32))
  BY <1>9, <1>10, <1>11 DEF ParseSigned
<1> QED BY <1>8, <1>12 DEF s, d

(***************************************************************************)
(* Whatever the application put into a register, the text it is shown as   *)
(* is taken for the same raw value, at every width.                        *)
(***************************************************************************)
LEMMA ShownTaken ==
  ASSUME NEW type \in Types, type # "FLOAT", NEW c \in CellOf(type)
  PROVE  Parse(type, RawStr(type, LoadRaw(type, c))) = Taken(LoadRaw(type, c))
<1> DEFINE word == LoadRaw(type, c)
<1>1. H32 \in Nat /\ word \in Raw
  BY WidthAssumption, LoadRawInRaw
<1>2. CASE type = "BOOL"
  <2>1. word \in {0, 1}
    BY <1>2 DEF LoadRaw, SignedTypes
  <2> HIDE DEF word
  <2>2. RawStr(type, word) = IF word # 0 THEN <<"true">> ELSE <<"false">>
    BY <1>2 DEF RawStr, UnsignedTypes, SignedTypes
  <2>3. Parse(type, RawStr(type, word)) = ParseBool(RawStr(type, word))
    BY <1>2 DEF Parse, UnsignedTypes, SignedTypes
  <2>4. ParseBool(<<"true">>) = Taken(1)
    BY DEF ParseBool
  <2>5. ParseBool(<<"false">>) = Taken(0)
    <3>1. <<"false">> # <<"true">> /\ <<"false">> # <<"TRUE">> /\ <<"false">> # <<"1">>
      OBVIOUS
    <3> QED BY <3>1 DEF ParseBool
  <2>6. Parse(type, RawStr(type, word)) = Taken(word)
    BY <2>1, <2>2, <2>3, <2>4, <2>5
  <2> QED BY <2>6 DEF word
<1>3. CASE type \in UnsignedTypes
  <2> HIDE DEF word
  <2>1. RawStr(type, word) = Decimal[word]
    BY <1>3 DEF RawStr, UnsignedTypes, SignedTypes
  <2>2. Parse(type, Decimal[word]) = ParseUnsigned(Decimal[word])
    BY <1>3 DEF Parse, UnsignedTypes, SignedTypes
  <2>3. ParseUnsigned(Decimal[word]) = Taken(word)
    BY <1>1, DecimalIsTaken DEF Raw
  <2>4. Parse(type, RawStr(type, word)) = Taken(word)
    BY <2>1, <2>2, <2>3
  <2> QED BY <2>4 DEF word
<1>4. CASE type \in SignedTypes
  <2> HIDE DEF word
  <2>1. RawStr(type, word) = IF AsInt32(word) < 0 THEN <<"-">> \o Decimal[-AsInt32(word)] ELSE Decimal[word]
    BY <1>4 DEF RawStr, UnsignedTypes, SignedTypes
  <2>2. \A s : Parse(type, s) = ParseSigned(s)
    BY <1>4 DEF Parse, UnsignedTypes, SignedTypes
  <2>3. CASE word < H32
    <3>1. ~(AsInt32(word) < 0) /\ word \in 0 .. (2 * H32 - 1)
      BY <1>1, <2>3 DEF AsInt32, Raw
    <3>2. ParseSigned(Decimal[word]) = Taken(word)
      BY <2>3, <3>1, DecimalIsTaken
    <3> QED BY <2>1, <2>2, <3>1, <3>2 DEF word
  <2>4. CASE ~(word < H32)
    <3> DEFINE n == -AsInt32(word)
    <3>1. AsInt32(word) < 0 /\ n \in 1 .. H32 /\ 2 * H32 - n = word
      BY <1>1, <2>4 DEF AsInt32, Raw
    <3> HIDE DEF n
    <3>2. ParseSigned(<<"-">> \o Decimal[n]) = Taken(word)
      BY <3>1, NegativeIsTaken
    <3> QED BY <2>1, <2>2, <3>1, <3>2 DEF word, n
  <2> QED BY <2>3, <2>4
<1> QED BY <1>2, <1>3, <1>4 DEF Types

(* What reg_raw_str shows reg_set_str takes, at any width.                 *)
THEOREM Shows == Spec => []ShownIsTaken
<1>1. Init => ShownIsTaken
  BY DEF Init, ShownIsTaken
<1>2. AtHand /\ ShownIsTaken /\ [Next]_vars => ShownIsTaken'
  <2> SUFFICES ASSUME AtHand, ShownIsTaken, [Next]_vars PROVE ShownIsTaken'
    OBVIOUS
  <2>0. ShownIsTaken' = (answer' = "read" /\ entry'.type # "FLOAT" =>
          Parse(entry'.type, RawStr(entry'.type, raw')) = Taken(raw'))
    BY DEF ShownIsTaken
  <2>1. CASE AppAssign
    <3>1. PICK c \in CellOf(entry.type) : raw' = LoadRaw(entry.type, c)
      BY <2>1 DEF AppAssign
    <3>2. entry' = entry /\ entry.type \in Types
      BY <2>1 DEF AppAssign, AtHand, IsRow
    <3> QED BY <2>0, <3>1, <3>2, ShownTaken
  <2>2. CASE SetRaw
    BY <2>0, <2>2, CheckAnswers DEF SetRaw
  <2>3. CASE SetStr
    BY <2>0, <2>3, SetStrAnswers
  <2>4. CASE regmb_init
    BY <2>0, <2>4 DEF regmb_init
  <2>5. CASE regmqtt_init
    BY <2>0, <2>5 DEF regmqtt_init
  <2>6. CASE Generate
    BY <2>0, <2>6 DEF Generate
  <2>7. CASE UNCHANGED vars
    BY <2>7 DEF vars, inputs, ShownIsTaken
  <2> QED BY <2>1, <2>2, <2>3, <2>4, <2>5, <2>6, <2>7 DEF Next
<1> QED BY <1>1, <1>2, AlwaysAtHand, PTL DEF Spec

-----------------------------------------------------------------------------
(***************************************************************************)
(* The topics of the MQTT adapter.  W are the words texts are made of.     *)
(***************************************************************************)
W == DOMAIN Lengths

LEMMA FunIsSeq ==
  ASSUME NEW S, NEW n \in Nat, NEW f \in [1 .. n -> S]
  PROVE  f \in Seq(S) /\ Len(f) = n
<1>1. f \in Seq(S)
  BY SeqDef
<1>2. Len(f) \in Nat /\ 1 .. Len(f) = 1 .. n
  BY <1>1, LenProperties
<1>3. Len(f) = n
  BY <1>2
<1> QED BY <1>1, <1>3

(* Element by element, what a concatenation is.                            *)
LEMMA ConcatFacts ==
  ASSUME NEW S, NEW s \in Seq(S), NEW t \in Seq(S)
  PROVE  /\ s \o t \in Seq(S) /\ Len(s) \in Nat /\ Len(t) \in Nat /\ Len(s \o t) = Len(s) + Len(t)
         /\ \A k \in 1 .. Len(s) : (s \o t)[k] = s[k]
         /\ \A k \in 1 .. Len(t) : (s \o t)[Len(s) + k] = t[k]
<1>1. Len(s) \in Nat /\ Len(t) \in Nat
  BY LenProperties
<1> DEFINE u == s \o t
<1>2. u \in Seq(S) /\ Len(u) = Len(s) + Len(t)
      /\ \A i \in 1 .. Len(s) + Len(t) : u[i] = IF i <= Len(s) THEN s[i] ELSE t[i - Len(s)]
  BY ConcatProperties
<1> HIDE DEF u
<1>3. \A k \in 1 .. Len(s) : k \in 1 .. Len(s) + Len(t) /\ k <= Len(s)
  BY <1>1
<1>4. \A k \in 1 .. Len(t) : /\ Len(s) + k \in 1 .. Len(s) + Len(t) /\ ~(Len(s) + k <= Len(s))
                             /\ (Len(s) + k) - Len(s) = k
  BY <1>1
<1>5. \A k \in 1 .. Len(s) : u[k] = s[k]
  BY <1>2, <1>3
<1>6. \A k \in 1 .. Len(t) : u[Len(s) + k] = t[k]
  BY <1>2, <1>4
<1> QED BY <1>1, <1>2, <1>5, <1>6 DEF u

LEMMA WordsOfTopics ==
  /\ <<"/">> \in Seq(W) /\ Len(<<"/">>) = 1
  /\ <<"/", "set">> \in Seq(W) /\ Len(<<"/", "set">>) = 2
  /\ <<"/", "$", "meta", "/">> \in Seq(W) /\ Len(<<"/", "$", "meta", "/">>) = 4
  /\ <<"$", "table">> \in Seq(W) /\ Len(<<"$", "table">>) = 2
  /\ <<"$", "id">> \in Seq(W) /\ Len(<<"$", "id">>) = 2
<1>1. {"/", "set", "$", "meta", "table", "id"} \subseteq W
  BY DEF W, Lengths
<1> HIDE DEF W
<1> QED BY <1>1

(* The topics of a name, character by character behind the prefix.         *)
LEMMA StateTopicFacts ==
  ASSUME NEW p \in Seq(W), NEW name \in Seq(W)
  PROVE  LET t == Mqtt!StateTopic(p, name)  L == Len(p) IN
         /\ t \in Seq(W) /\ L \in Nat /\ Len(name) \in Nat /\ Len(t) = L + 1 + Len(name)
         /\ \A k \in 1 .. L : t[k] = p[k]
         /\ t[L + 1] = "/" /\ \A k \in 1 .. Len(name) : t[L + 1 + k] = name[k]
<1> DEFINE q == p \o <<"/">>
           t == q \o name
           L == Len(p)
<1>1. /\ q \in Seq(W) /\ L \in Nat /\ Len(q) = L + 1
      /\ \A k \in 1 .. L : q[k] = p[k]
      /\ \A k \in 1 .. 1 : q[L + k] = <<"/">>[k]
  <2> HIDE DEF W
  <2> QED BY ConcatFacts, WordsOfTopics
<1> HIDE DEF W, q, L
<1>2. /\ t \in Seq(W) /\ Len(name) \in Nat /\ Len(t) = Len(q) + Len(name)
      /\ \A k \in 1 .. Len(q) : t[k] = q[k]
  BY <1>1, ConcatFacts, ZenonT(60)
<1>n. \A k \in 1 .. Len(name) : t[Len(q) + k] = name[k]
  BY <1>1, ConcatFacts
<1> HIDE DEF t
<1>3. q[L + 1] = "/" /\ L + 1 \in 1 .. Len(q) /\ \A k \in 1 .. L : k \in 1 .. Len(q)
  BY <1>1
<1>4. \A k \in 1 .. L : t[k] = p[k]
  BY <1>1, <1>2, <1>3
<1>5. t = Mqtt!StateTopic(p, name)
  BY DEF Mqtt!StateTopic, t, q
<1>6. t[L + 1] = "/" /\ \A k \in 1 .. Len(name) : t[L + 1 + k] = name[k]
  BY <1>1, <1>2, <1>3, <1>n
<1> QED BY <1>1, <1>2, <1>4, <1>5, <1>6 DEF L

LEMMA SetTopicFacts ==
  ASSUME NEW p \in Seq(W), NEW name \in Seq(W)
  PROVE  LET t == Mqtt!SetTopic(p, name)  L == Len(p) IN
         /\ t \in Seq(W) /\ L \in Nat /\ Len(name) \in Nat /\ Len(t) = L + 3 + Len(name)
         /\ \A k \in 1 .. L : t[k] = p[k]
         /\ t[L + 1] = "/" /\ \A k \in 1 .. Len(name) : t[L + 1 + k] = name[k]
         /\ t[L + 2 + Len(name)] = "/" /\ t[L + 3 + Len(name)] = "set"
<1> DEFINE q == Mqtt!StateTopic(p, name)
           s == <<"/", "set">>
           t == q \o s
           L == Len(p)
           n == Len(name)
<1>1. /\ q \in Seq(W) /\ L \in Nat /\ n \in Nat /\ Len(q) = L + 1 + n
      /\ \A k \in 1 .. L : q[k] = p[k]
      /\ q[L + 1] = "/" /\ \A k \in 1 .. n : q[L + 1 + k] = name[k]
  BY StateTopicFacts
<1>s. s \in Seq(W)
  BY WordsOfTopics
<1>r. Len(s) = 2 /\ s[1] = "/" /\ s[2] = "set"
  BY WordsOfTopics
<1>5. t = Mqtt!SetTopic(p, name)
  BY DEF Mqtt!SetTopic, Mqtt!StateTopic
<1> HIDE DEF W, q, L, n, s
<1>2. /\ t \in Seq(W) /\ Len(t) = Len(q) + Len(s)
      /\ \A k \in 1 .. Len(q) : t[k] = q[k]
  BY <1>1, <1>s, ConcatFacts, ZenonT(60)
<1>n. \A k \in 1 .. Len(s) : t[Len(q) + k] = s[k]
  BY <1>1, <1>s, ConcatFacts, SMTT(60)
<1> HIDE DEF t
<1>3. /\ \A k \in 1 .. L : k \in 1 .. Len(q)
      /\ L + 1 \in 1 .. Len(q) /\ \A k \in 1 .. n : L + 1 + k \in 1 .. Len(q)
      /\ Len(q) + 1 = L + 2 + n /\ Len(q) + 2 = L + 3 + n /\ 1 \in 1 .. 2 /\ 2 \in 1 .. 2
  BY <1>1
<1>4. /\ \A k \in 1 .. L : t[k] = p[k]
      /\ t[L + 1] = "/" /\ \A k \in 1 .. n : t[L + 1 + k] = name[k]
  BY <1>1, <1>2, <1>3
<1>6. t[L + 2 + n] = "/" /\ t[L + 3 + n] = "set"
  <2>1. t[Len(q) + 1] = s[1] /\ t[Len(q) + 2] = s[2]
    BY <1>3, <1>n, <1>r
  <2> QED BY <2>1, <1>3, <1>r
<1>7. Len(t) = L + 3 + n
  BY <1>1, <1>2, <1>r
<1> QED BY <1>1, <1>2, <1>4, <1>5, <1>6, <1>7 DEF L, n

LEMMA SetTopicName ==
  ASSUME NEW p \in Seq(W), NEW name \in Seq(W), NEW k \in 1 .. Len(name)
  PROVE  Mqtt!SetTopic(p, name)[Len(p) + 1 + k] = name[k]
BY SetTopicFacts

LEMMA MetaTopicFacts ==
  ASSUME NEW p \in Seq(W), NEW name \in Seq(W)
  PROVE  LET t == Mqtt!MetaTopic(p, name)  L == Len(p) IN
         /\ t \in Seq(W) /\ L \in Nat /\ Len(name) \in Nat /\ Len(t) = L + 4 + Len(name)
         /\ t[L + 1] = "/" /\ t[L + 2] = "$" /\ t[L + 3] = "meta" /\ t[L + 4] = "/"
         /\ \A k \in 1 .. Len(name) : t[L + 4 + k] = name[k]
<1> DEFINE s == <<"/", "$", "meta", "/">>
           q == p \o s
           t == q \o name
           L == Len(p)
           n == Len(name)
<1>s. s \in Seq(W)
  BY WordsOfTopics
<1>r. Len(s) = 4 /\ s[1] = "/" /\ s[2] = "$" /\ s[3] = "meta" /\ s[4] = "/"
  BY WordsOfTopics
<1>5. t = Mqtt!MetaTopic(p, name)
  BY DEF Mqtt!MetaTopic
<1> HIDE DEF W, L, n, s
<1>1. q \in Seq(W) /\ Len(p) \in Nat /\ Len(q) = Len(p) + Len(s)
  BY <1>s, ConcatFacts
<1>m. \A k \in 1 .. Len(s) : q[Len(p) + k] = s[k]
  BY <1>s, ConcatFacts
<1> HIDE DEF q
<1>2. t \in Seq(W) /\ Len(name) \in Nat /\ Len(t) = Len(q) + Len(name)
  BY <1>1, ConcatFacts
<1>l. \A k \in 1 .. Len(q) : t[k] = q[k]
  <2>1. q \in Seq(W)
    BY <1>1
  <2> QED BY <2>1, ConcatFacts
<1>n. \A k \in 1 .. Len(name) : t[Len(q) + k] = name[k]
  BY <1>1, ConcatFacts
<1> HIDE DEF t
<1>3. /\ L \in Nat /\ n \in Nat /\ Len(q) = L + 4 /\ Len(t) = L + 4 + n
      /\ \A k \in 1 .. 4 : L + k \in 1 .. Len(q)
  BY <1>1, <1>2, <1>r DEF L, n
<1>4. \A k \in 1 .. 4 : t[L + k] = s[k]
  BY <1>3, <1>l, <1>m, <1>r DEF L
<1>6. t[L + 1] = "/" /\ t[L + 2] = "$" /\ t[L + 3] = "meta" /\ t[L + 4] = "/"
  BY <1>4, <1>r
<1>7. \A k \in 1 .. n : t[L + 4 + k] = name[k]
  BY <1>3, <1>n DEF n
<1> QED BY <1>2, <1>3, <1>5, <1>6, <1>7 DEF L, n

(* A sum over a sequence, element by element from the left.                *)
SumTo(f, n, s) == f = [k \in 0 .. n |-> IF k = 0 THEN 0 ELSE f[k - 1] + s[k]]

LEMMA SumExists ==
  ASSUME NEW s, NEW n \in Nat
  PROVE  \E f : SumTo(f, n, s)
<1> DEFINE bad == {k \in Nat : ~\E f : SumTo(f, k, s)}
<1> SUFFICES ASSUME bad # {} PROVE FALSE
  OBVIOUS
<1>1. PICK k \in bad : \A j \in bad : k <= j
  <2> HIDE DEF SumTo
  <2> QED BY LeastNatural
<1>2. CASE k = 0
  <2>1. SumTo([j \in 0 .. 0 |-> 0], 0, s)
    BY DEF SumTo
  <2> QED BY <2>1, <1>1, <1>2
<1>3. CASE k # 0
  <2>1. k - 1 \in Nat /\ k - 1 \notin bad
    BY <1>1, <1>3
  <2>2. PICK g : SumTo(g, k - 1, s)
    BY <2>1
  <2> DEFINE f == [j \in 0 .. k |-> IF j < k THEN g[j] ELSE g[k - 1] + s[k]]
  <2>3. ASSUME NEW j \in 0 .. k
        PROVE  f[j] = IF j = 0 THEN 0 ELSE f[j - 1] + s[j]
    <3>1. CASE j = k
      BY <3>1, <2>1, <1>3
    <3>2. CASE j < k
      <4>1. j \in 0 .. (k - 1)
        BY <3>2, <2>1
      <4>2. g[j] = IF j = 0 THEN 0 ELSE g[j - 1] + s[j]
        BY <2>2, <4>1 DEF SumTo
      <4>3. f[j] = g[j] /\ (j # 0 => f[j - 1] = g[j - 1])
        BY <3>2
      <4> HIDE DEF f
      <4> QED BY <4>2, <4>3
    <3> QED BY <3>1, <3>2
  <2>4. SumTo(f, k, s)
    <3>1. f = [j \in 0 .. k |-> f[j]]
      OBVIOUS
    <3> HIDE DEF f
    <3> QED BY <2>3, <3>1, Zenon DEF SumTo
  <2> QED BY <1>1, <2>4
<1> QED BY <1>2, <1>3

LEMMA SumRun ==
  ASSUME NEW s, Len(s) \in Nat
  PROVE  \E f : SumTo(f, Len(s), s) /\ Mqtt!SumOf(s) = f[Len(s)]
<1> DEFINE f == CHOOSE h : SumTo(h, Len(s), s)
<1>1. SumTo(f, Len(s), s)
  BY SumExists
<1>2. Mqtt!SumOf(s) = f[Len(s)]
  BY DEF Mqtt!SumOf, SumTo
<1> QED BY <1>1, <1>2

LEMMA SumValues ==
  ASSUME NEW s \in Seq(Nat), NEW n \in 0 .. Len(s), NEW f, SumTo(f, n, s), NEW k \in 0 .. n
  PROVE  f[k] \in Nat
<1> DEFINE bad == {j \in Nat : j <= n /\ f[j] \notin Nat}
<1>0. Len(s) \in Nat /\ \A j \in 1 .. Len(s) : s[j] \in Nat
  BY LenProperties, ElementOfSeq
<1>1. bad = {}
  <2> SUFFICES ASSUME bad # {} PROVE FALSE
    OBVIOUS
  <2>1. PICK j \in bad : \A i \in bad : j <= i
    BY LeastNatural
  <2>2. f[j] = IF j = 0 THEN 0 ELSE f[j - 1] + s[j]
    BY <2>1, <1>0 DEF SumTo
  <2>3. j # 0
    BY <2>1, <2>2
  <2>4. j - 1 \in Nat /\ j - 1 \notin bad /\ j \in 1 .. Len(s)
    BY <1>0, <2>1, <2>3
  <2>5. f[j - 1] \in Nat /\ s[j] \in Nat
    BY <1>0, <2>1, <2>4
  <2> QED BY <2>1, <2>2, <2>3, <2>5, SMTT(60)
<1> QED BY <1>0, <1>1

LEMMA SumIsNat ==
  ASSUME NEW s \in Seq(Nat)
  PROVE  Mqtt!SumOf(s) \in Nat
<1>1. Len(s) \in Nat
  BY LenProperties
<1>2. PICK f : SumTo(f, Len(s), s) /\ Mqtt!SumOf(s) = f[Len(s)]
  BY <1>1, SumRun
<1>3. Len(s) \in 0 .. Len(s)
  BY <1>1
<1> QED BY <1>2, <1>3, SumValues

(* The sum of a text that begins with s is the sum of s and of the rest.   *)
LEMMA SumConcat ==
  ASSUME NEW s \in Seq(Nat), NEW t \in Seq(Nat)
  PROVE  Mqtt!SumOf(s \o t) = Mqtt!SumOf(s) + Mqtt!SumOf(t)
<1> DEFINE u == s \o t
           L == Len(s)
           M == Len(t)
<1>1. u \in Seq(Nat) /\ L \in Nat /\ M \in Nat /\ Len(u) = L + M
  BY ConcatFacts
<1>2. /\ \A k \in 1 .. L : u[k] = s[k]
      /\ \A k \in 1 .. L : s[k] \in Nat
  BY ConcatFacts, ElementOfSeq
<1>3. \A k \in 1 .. M : u[L + k] = t[k]
  BY ConcatFacts
<1>4. \A k \in 1 .. M : t[k] \in Nat
  BY ElementOfSeq
<1> HIDE DEF u
<1>5. PICK f : SumTo(f, L, s) /\ Mqtt!SumOf(s) = f[L]
  BY <1>1, SumRun
<1>6. PICK g : SumTo(g, M, t) /\ Mqtt!SumOf(t) = g[M]
  BY <1>1, SumRun
<1>7. PICK h : SumTo(h, Len(u), u) /\ Mqtt!SumOf(u) = h[Len(u)]
  <2>1. Len(u) \in Nat
    BY <1>1
  <2> QED BY <2>1, SumRun
<1>8. /\ \A k \in 0 .. L : f[k] = IF k = 0 THEN 0 ELSE f[k - 1] + s[k]
      /\ \A k \in 0 .. M : g[k] = IF k = 0 THEN 0 ELSE g[k - 1] + t[k]
      /\ \A k \in 0 .. (L + M) : h[k] = IF k = 0 THEN 0 ELSE h[k - 1] + u[k]
  BY <1>1, <1>5, <1>6, <1>7 DEF SumTo
<1>v. /\ \A k \in 0 .. L : f[k] \in Nat
      /\ \A k \in 0 .. M : g[k] \in Nat
  <2>1. L \in 0 .. Len(s) /\ M \in 0 .. Len(t)
    BY <1>1
  <2> HIDE DEF L, M
  <2> QED BY <2>1, <1>5, <1>6, SumValues
<1>L. L \in Nat /\ M \in Nat
  BY <1>1
<1> HIDE DEF L, M
<1>9. \A k \in 0 .. L : h[k] = f[k]
  <2> DEFINE bad == {k \in Nat : k <= L /\ h[k] # f[k]}
  <2> SUFFICES ASSUME bad # {} PROVE FALSE
    BY <1>L, SMTT(60)
  <2>1. PICK k \in bad : \A j \in bad : k <= j
    BY LeastNatural
  <2>2. k \in 0 .. L /\ k \in 0 .. (L + M)
    BY <1>1, <2>1
  <2>3. k # 0
    BY <1>8, <2>1, <2>2
  <2>4. k - 1 \in Nat /\ k - 1 \notin bad /\ k \in 1 .. L /\ k - 1 <= L
    BY <1>L, <2>1, <2>2, <2>3
  <2>5. h[k - 1] = f[k - 1]
    BY <2>4
  <2> QED BY <1>2, <1>8, <2>1, <2>2, <2>3, <2>4, <2>5
<1>10. \A k \in 0 .. M : h[L + k] = f[L] + g[k]
  <2> DEFINE bad == {k \in Nat : k <= M /\ h[L + k] # f[L] + g[k]}
  <2> SUFFICES ASSUME bad # {} PROVE FALSE
    BY <1>L, SMTT(60)
  <2>1. PICK k \in bad : \A j \in bad : k <= j
    BY LeastNatural
  <2>2. k \in 0 .. M /\ L + k \in 0 .. (L + M)
    BY <1>1, <2>1
  <2>0. f[L] \in Nat /\ h[L] = f[L]
    BY <1>1, <1>9, <1>v
  <2>3. k # 0
    <3> SUFFICES ASSUME k = 0 PROVE FALSE
      OBVIOUS
    <3>1. L + k = L /\ g[k] = 0
      BY <1>1, <1>8, <2>2
    <3> QED BY <2>0, <2>1, <3>1
  <2>4. k - 1 \in Nat /\ k - 1 \notin bad /\ k \in 1 .. M /\ k - 1 <= M
    BY <1>L, <2>1, <2>2, <2>3
  <2>5. h[L + (k - 1)] = f[L] + g[k - 1]
    BY <2>4
  <2>6. (L + k) - 1 = L + (k - 1) /\ L + k # 0
    BY <1>1, <2>2, <2>4
  <2>7. h[L + k] = h[L + (k - 1)] + t[k]
    BY <1>3, <1>8, <2>2, <2>4, <2>6
  <2>8. g[k] = g[k - 1] + t[k]
    BY <1>8, <2>2, <2>3
  <2>9. g[k - 1] \in Nat /\ t[k] \in Nat
    <3>1. k - 1 \in 0 .. M
      BY <1>1, <2>4
    <3> QED BY <1>4, <1>v, <2>4, <3>1
  <2> QED BY <2>0, <2>1, <2>5, <2>7, <2>8, <2>9, SMTT(60)
<1>11. h[Len(u)] = f[L] + g[M]
  BY <1>1, <1>10
<1> QED BY <1>5, <1>6, <1>7, <1>11 DEF u

LEMMA SumSmall ==
  /\ Mqtt!SumOf(<<>>) = 0
  /\ \A n \in Nat : Mqtt!SumOf(<<n>>) = n
<1>1. Mqtt!SumOf(<<>>) = 0
  <2>1. Len(<<>>) = 0
    BY EmptySeq
  <2>2. PICK f : SumTo(f, Len(<<>>), <<>>) /\ Mqtt!SumOf(<<>>) = f[Len(<<>>)]
    BY <2>1, SumRun
  <2> QED BY <2>1, <2>2 DEF SumTo
<1>2. ASSUME NEW n \in Nat PROVE Mqtt!SumOf(<<n>>) = n
  <2> DEFINE s == <<n>>
  <2>1. Len(s) = 1 /\ s[1] = n
    OBVIOUS
  <2> HIDE DEF s
  <2>2. PICK f : SumTo(f, Len(s), s) /\ Mqtt!SumOf(s) = f[Len(s)]
    <3>1. Len(s) \in Nat
      BY <2>1
    <3> QED BY <3>1, SumRun
  <2>3. f[0] = 0 /\ f[1] = f[0] + s[1]
    BY <2>1, <2>2 DEF SumTo
  <2> QED BY <2>1, <2>2, <2>3 DEF s
<1> QED BY <1>1, <1>2

(* The characters of a text.                                               *)
LEMMA LengthFacts ==
  ASSUME NEW s \in Seq(W)
  PROVE  /\ [k \in DOMAIN s |-> Lengths[s[k]]] \in Seq(Nat)
         /\ Len([k \in DOMAIN s |-> Lengths[s[k]]]) = Len(s)
         /\ Mqtt!LengthOf(s) = Mqtt!SumOf([k \in DOMAIN s |-> Lengths[s[k]]])
         /\ Mqtt!LengthOf(s) \in Nat
<1> DEFINE f == [k \in DOMAIN s |-> Lengths[s[k]]]
<1>1. Len(s) \in Nat /\ DOMAIN s = 1 .. Len(s) /\ \A k \in 1 .. Len(s) : s[k] \in W
  BY LenProperties, ElementOfSeq
<1>2. \A w \in W : Lengths[w] \in Nat
  BY DEF W, Lengths
<1>3. f \in [1 .. Len(s) -> Nat]
  BY <1>1, <1>2
<1>4. Mqtt!LengthOf(s) = Mqtt!SumOf(f)
  BY DEF Mqtt!LengthOf
<1> HIDE DEF f
<1>5. f \in Seq(Nat) /\ Len(f) = Len(s)
  BY <1>1, <1>3, FunIsSeq
<1>6. Mqtt!SumOf(f) \in Nat
  BY <1>5, SumIsNat
<1> QED BY <1>4, <1>5, <1>6 DEF f

LEMMA LengthConcat ==
  ASSUME NEW s \in Seq(W), NEW t \in Seq(W)
  PROVE  s \o t \in Seq(W) /\ Mqtt!LengthOf(s \o t) = Mqtt!LengthOf(s) + Mqtt!LengthOf(t)
<1> DEFINE u == s \o t
           N(x) == [k \in DOMAIN x |-> Lengths[x[k]]]
<1>1. u \in Seq(W) /\ Len(s) \in Nat /\ Len(t) \in Nat /\ Len(u) = Len(s) + Len(t)
  BY ConcatFacts
<1>2. \A k \in 1 .. Len(s) : u[k] = s[k]
  BY ConcatFacts
<1>3. \A k \in 1 .. Len(t) : u[Len(s) + k] = t[k]
  BY ConcatFacts
<1> HIDE DEF u
<1>4. \A x \in Seq(W) : /\ N(x) \in Seq(Nat) /\ Len(N(x)) = Len(x)
                        /\ Mqtt!LengthOf(x) = Mqtt!SumOf(N(x))
                        /\ \A k \in 1 .. Len(x) : N(x)[k] = Lengths[x[k]]
  BY LengthFacts, LenProperties
<1> HIDE DEF N
<1>5. N(u) = N(s) \o N(t)
  <2> DEFINE v == N(s) \o N(t)
  <2>a. N(s) \in Seq(Nat) /\ N(t) \in Seq(Nat)
    BY <1>4
  <2>b. Len(N(s)) = Len(s) /\ Len(N(t)) = Len(t)
    BY <1>4
  <2>1. v \in Seq(Nat) /\ Len(v) = Len(N(s)) + Len(N(t))
    BY <2>a, ConcatFacts
  <2>2. \A k \in 1 .. Len(N(s)) : v[k] = N(s)[k]
    BY <2>a, ConcatFacts
  <2>3. \A k \in 1 .. Len(N(t)) : v[Len(N(s)) + k] = N(t)[k]
    BY <2>a, ConcatFacts
  <2>c. Len(s) \in Nat /\ Len(t) \in Nat /\ Len(u) = Len(s) + Len(t) /\ u \in Seq(W)
    BY <1>1
  <2> HIDE DEF v
  <2>4. ASSUME NEW k \in 1 .. Len(u) PROVE N(u)[k] = v[k]
    <3>1. CASE k <= Len(s)
      <4>1. k \in 1 .. Len(s)
        BY <2>c, <3>1
      <4>2. v[k] = N(s)[k] /\ N(s)[k] = Lengths[s[k]] /\ u[k] = s[k]
        BY <1>2, <1>4, <2>b, <2>2, <4>1
      <4>3. N(u)[k] = Lengths[u[k]]
        BY <1>4, <2>c
      <4> QED BY <4>2, <4>3
    <3>2. CASE ~(k <= Len(s))
      <4> DEFINE j == k - Len(s)
      <4>1. j \in 1 .. Len(t) /\ Len(s) + j = k
        BY <2>c, <3>2
      <4> HIDE DEF j
      <4>2. v[k] = N(t)[j] /\ N(t)[j] = Lengths[t[j]] /\ u[k] = t[j]
        BY <1>3, <1>4, <2>b, <2>3, <4>1
      <4>3. N(u)[k] = Lengths[u[k]]
        BY <1>4, <2>c
      <4> QED BY <4>2, <4>3
    <3> QED BY <3>1, <3>2
  <2>5. N(u) \in Seq(Nat) /\ Len(N(u)) = Len(u)
    BY <1>1, <1>4
  <2>6. N(u) = v
    <3>1. Len(N(u)) = Len(v) /\ \A i \in 1 .. Len(N(u)) : N(u)[i] = v[i]
      BY <2>1, <2>4, <2>5, <2>b, <2>c
    <3> QED BY <2>1, <2>5, <3>1, SeqEqual
  <2> QED BY <2>6 DEF v
<1>6. Mqtt!SumOf(N(u)) = Mqtt!SumOf(N(s)) + Mqtt!SumOf(N(t))
  BY <1>4, <1>5, SumConcat
<1> QED BY <1>1, <1>4, <1>6 DEF u

LEMMA LengthSmall ==
  /\ Mqtt!LengthOf(<<>>) = 0
  /\ \A w \in W : <<w>> \in Seq(W) /\ Mqtt!LengthOf(<<w>>) = Lengths[w]
<1>1. Mqtt!LengthOf(<<>>) = 0
  <2>1. [k \in DOMAIN <<>> |-> Lengths[<<>>[k]]] = <<>>
    OBVIOUS
  <2> QED BY <2>1, SumSmall, Zenon DEF Mqtt!LengthOf
<1>2. ASSUME NEW w \in W PROVE <<w>> \in Seq(W) /\ Mqtt!LengthOf(<<w>>) = Lengths[w]
  <2> DEFINE s == <<w>>
             f == [k \in DOMAIN s |-> Lengths[s[k]]]
  <2>1. s \in Seq(W) /\ Len(s) = 1 /\ DOMAIN s = 1 .. 1 /\ s[1] = w
    OBVIOUS
  <2> HIDE DEF s
  <2>2. f[1] = Lengths[w]
    BY <2>1
  <2>a. f \in Seq(Nat) /\ Len(f) = Len(s) /\ Mqtt!LengthOf(s) = Mqtt!SumOf(f)
    BY <2>1, LengthFacts
  <2> HIDE DEF f
  <2>3. f = <<f[1]>> /\ f[1] \in Nat
    <3>0. 1 \in 1 .. Len(f) /\ Len(f) = 1
      BY <2>1, <2>a
    <3>1. f[1] \in Nat
      BY <2>a, <3>0, ElementOfSeq
    <3> QED BY <2>a, <3>0, <3>1
  <2>4. Mqtt!SumOf(f) = f[1]
    BY <2>3, SumSmall
  <2> QED BY <2>1, <2>2, <2>4, <2>a DEF s
<1> QED BY <1>1, <1>2

(***************************************************************************)
(* What regmqtt_init is given, as far as its topics and metas go.          *)
(***************************************************************************)
Piece == [by : {"puts", "printf"}, n : Nat]
Described == [name : Seq(W), body : Seq(Piece), desc : Seq(Piece)]

LEMMA LengthOfWords ==
  /\ {"/", "$", "set", "meta", "table", "id", "p25"} \subseteq W
  /\ Lengths["/"] = 1 /\ Lengths["$"] = 1 /\ Lengths["set"] = 3 /\ Lengths["meta"] = 4
  /\ Lengths["table"] = 5 /\ Lengths["id"] = 2 /\ Lengths["p25"] = 25
BY DEF W, Lengths

(* What an accepted table's names are like.                                *)
LEMMA AcceptedNames ==
  ASSUME NEW p \in Seq(W), NEW d \in Seq(Described), Mqtt!InitAccepts(p, d), NEW i \in DOMAIN d
  PROVE  /\ d[i].name \in Seq(W) /\ Len(d[i].name) \in Nat /\ Len(d[i].name) >= 1 /\ d[i].name # <<>>
         /\ \A k \in 1 .. Len(d[i].name) : d[i].name[k] # "/"
         /\ d[i].name[1] # "$"
         /\ Mqtt!LengthOf(d[i].name) \in 1 .. 31
         /\ Mqtt!LengthOf(p) + 7 + Mqtt!LengthOf(d[i].name) + 1 <= 64
         /\ \A j \in DOMAIN d : d[j].name = d[i].name => i = j
<1> DEFINE n == d[i].name
<1>0. DOMAIN d = 1 .. Len(d) /\ Len(d) \in Nat /\ d[i] \in Described
  BY LenProperties, ElementOfSeq
<1>1. n \in Seq(W)
  BY <1>0 DEF Described
<1>2. Mqtt!NameAccepted(p, n)
  BY DEF Mqtt!InitAccepts
<1> HIDE DEF n
<1>3. Mqtt!LengthOf(n) \in 1 .. 31 /\ Mqtt!LengthOf(p) + 7 + Mqtt!LengthOf(n) + 1 <= 64 /\ n[1] # "$"
  BY <1>2 DEF Mqtt!NameAccepted
<1>4. ~Mqtt!Contains(n, "/")
  BY <1>2 DEF Mqtt!NameAccepted
<1>5. n # <<>>
  <2>1. 0 \notin 1 .. 31
    OBVIOUS
  <2> QED BY <1>3, <2>1, LengthSmall, Zenon
<1>6. Len(n) \in Nat /\ Len(n) >= 1
  BY <1>1, <1>5, EmptySeq
<1>7. \A k \in 1 .. Len(n) : n[k] # "/"
  BY <1>4 DEF Mqtt!Contains
<1>8. ASSUME NEW j \in DOMAIN d, d[j].name = n PROVE i = j
  <2>1. \A a \in DOMAIN d : \A b \in 1 .. (a - 1) : d[b].name # d[a].name
    BY DEF Mqtt!InitAccepts
  <2>2. i \in Nat /\ j \in Nat /\ i >= 1 /\ j >= 1
    BY <1>0
  <2>3. CASE i < j
    <3>1. i \in 1 .. (j - 1)
      BY <2>2, <2>3
    <3> QED BY <1>8, <2>1, <3>1 DEF n
  <2>4. CASE j < i
    <3>1. j \in 1 .. (i - 1)
      BY <2>2, <2>4
    <3> QED BY <1>8, <2>1, <3>1 DEF n
  <2> QED BY <2>2, <2>3, <2>4
<1> QED BY <1>1, <1>3, <1>5, <1>6, <1>7, <1>8 DEF n

(***************************************************************************)
(* What tells the uses of a topic apart: whether there is a '/' behind the *)
(* prefix's, and a '$' first, and so on.                                   *)
(***************************************************************************)
UsesOf(d) == ({0} \X {"table", "id"}) \cup ((DOMAIN d) \X {"state", "set", "meta"})

TopicFor(p, d, use) ==
  CASE use[2] = "table" -> Mqtt!TableTopic(p)
    [] use[2] = "id"    -> Mqtt!IdTopic(p)
    [] use[2] = "state" -> Mqtt!StateTopic(p, d[use[1]].name)
    [] use[2] = "set"   -> Mqtt!SetTopic(p, d[use[1]].name)
    [] use[2] = "meta"  -> Mqtt!MetaTopic(p, d[use[1]].name)

Slashed(p, t) == \E k \in (Len(p) + 2) .. Len(t) : t[k] = "/"

KindOf(p, t) == IF ~Slashed(p, t) THEN "state"
                ELSE IF t[Len(p) + 2] # "$" THEN "set"
                ELSE IF t[Len(p) + 5] # "$" THEN "meta"
                ELSE t[Len(p) + 6]

(* A topic says what it is used for.                                       *)
LEMMA UseOfTopic ==
  ASSUME NEW p \in Seq(W), NEW d \in Seq(Described), Mqtt!InitAccepts(p, d), NEW use \in UsesOf(d)
  PROVE  /\ use[2] = KindOf(p, TopicFor(p, d, use))
         /\ TopicFor(p, d, use) \in Seq(W)
<1> DEFINE t == TopicFor(p, d, use)
           L == Len(p)
<1>L. L \in Nat
  BY LenProperties
<1>1. CASE use[2] \in {"table", "id"}
  <2> DEFINE n == <<"$", use[2]>>
  <2>1. n \in Seq(W) /\ Len(n) = 2 /\ n[1] = "$" /\ n[2] = use[2]
    BY <1>1, WordsOfTopics
  <2>2. t = Mqtt!MetaTopic(p, n)
    BY <1>1 DEF Mqtt!TableTopic, Mqtt!IdTopic, TopicFor
  <2> HIDE DEF t, n
  <2>3. /\ t \in Seq(W) /\ Len(t) = L + 4 + Len(n)
        /\ t[L + 2] = "$" /\ t[L + 4] = "/"
        /\ \A k \in 1 .. Len(n) : t[L + 4 + k] = n[k]
    BY <2>1, <2>2, MetaTopicFacts, ZenonT(60)
  <2>4. t[L + 5] = "$" /\ t[L + 6] = use[2]
    <3>1. 1 \in 1 .. Len(n) /\ 2 \in 1 .. Len(n) /\ L + 4 + 1 = L + 5 /\ L + 4 + 2 = L + 6
      BY <1>L, <2>1
    <3>2. t[L + 4 + 1] = n[1] /\ t[L + 4 + 2] = n[2]
      BY <2>3, <3>1
    <3> QED BY <2>1, <3>1, <3>2
  <2>5. Slashed(p, t)
    <3>1. L + 4 \in (L + 2) .. Len(t)
      BY <1>L, <2>1, <2>3
    <3> QED BY <2>3, <3>1 DEF Slashed
  <2> QED BY <2>3, <2>4, <2>5 DEF KindOf, t
<1>2. CASE use[1] \in DOMAIN d /\ use[2] \in {"state", "set", "meta"}
  <2> DEFINE n == d[use[1]].name
  <2>1. /\ n \in Seq(W) /\ Len(n) \in Nat /\ Len(n) >= 1 /\ n[1] # "$"
        /\ \A k \in 1 .. Len(n) : n[k] # "/"
    BY <1>2, AcceptedNames
  <2>2. CASE use[2] = "state"
    <3>1. t = Mqtt!StateTopic(p, n)
      BY <2>2 DEF TopicFor
    <3> HIDE DEF t, n
    <3>2. t \in Seq(W) /\ Len(t) = L + 1 + Len(n) /\ \A k \in 1 .. Len(n) : t[L + 1 + k] = n[k]
      BY <2>1, <3>1, StateTopicFacts
    <3>3. ASSUME NEW k \in (L + 2) .. Len(t), t[k] = "/" PROVE FALSE
      <4> DEFINE j == k - L - 1
      <4>1. j \in 1 .. Len(n) /\ L + 1 + j = k
        BY <1>L, <2>1, <3>2
      <4> HIDE DEF j
      <4> QED BY <2>1, <3>2, <3>3, <4>1
    <3>4. ~Slashed(p, t)
      BY <3>3 DEF Slashed
    <3> QED BY <2>2, <3>2, <3>4 DEF KindOf, t
  <2>3. CASE use[2] = "set"
    <3>1. t = Mqtt!SetTopic(p, n)
      BY <2>3 DEF TopicFor
    <3> HIDE DEF t, n
    <3>2. /\ t \in Seq(W) /\ Len(t) = L + 3 + Len(n) /\ t[L + 2 + Len(n)] = "/"
          /\ \A k \in 1 .. Len(n) : t[L + 1 + k] = n[k]
      BY <2>1, <3>1, SetTopicFacts, ZenonT(60)
    <3>3. Slashed(p, t)
      <4>1. L + 2 + Len(n) \in (L + 2) .. Len(t)
        BY <1>L, <2>1, <3>2
      <4> QED BY <3>2, <4>1 DEF Slashed
    <3>4. t[L + 2] = n[1]
      <4>1. 1 \in 1 .. Len(n) /\ L + 1 + 1 = L + 2
        BY <1>L, <2>1
      <4>2. t[L + 1 + 1] = n[1]
        BY <3>2, <4>1
      <4> QED BY <4>1, <4>2
    <3> QED BY <2>1, <2>3, <3>2, <3>3, <3>4 DEF KindOf, t
  <2>4. CASE use[2] = "meta"
    <3>1. t = Mqtt!MetaTopic(p, n)
      BY <2>4 DEF TopicFor
    <3> HIDE DEF t, n
    <3>2. /\ t \in Seq(W) /\ Len(t) = L + 4 + Len(n) /\ t[L + 2] = "$" /\ t[L + 4] = "/"
          /\ \A k \in 1 .. Len(n) : t[L + 4 + k] = n[k]
      BY <2>1, <3>1, MetaTopicFacts
    <3>3. Slashed(p, t)
      <4>1. L + 4 \in (L + 2) .. Len(t)
        BY <1>L, <2>1, <3>2
      <4> QED BY <3>2, <4>1 DEF Slashed
    <3>4. t[L + 5] = n[1]
      <4>1. 1 \in 1 .. Len(n) /\ L + 4 + 1 = L + 5
        BY <1>L, <2>1
      <4>2. t[L + 4 + 1] = n[1]
        BY <3>2, <4>1
      <4> QED BY <4>1, <4>2
    <3> QED BY <2>1, <2>4, <3>2, <3>3, <3>4 DEF KindOf, t
  <2> QED BY <1>2, <2>2, <2>3, <2>4
<1> QED BY <1>1, <1>2 DEF UsesOf

(* And two uses of a kind with the same topic are uses of one entry.       *)
LEMMA TopicsDiffer ==
  ASSUME NEW p \in Seq(W), NEW d \in Seq(Described), Mqtt!InitAccepts(p, d),
         NEW use \in UsesOf(d), NEW other \in UsesOf(d), TopicFor(p, d, use) = TopicFor(p, d, other)
  PROVE  use = other
<1>1. use[2] = other[2]
  BY UseOfTopic
<1>2. use = <<use[1], use[2]>> /\ other = <<other[1], other[2]>>
  BY DEF UsesOf
<1>3. CASE use[2] \in {"table", "id"}
  BY <1>1, <1>2, <1>3 DEF UsesOf
<1>4. CASE use[2] \in {"state", "set", "meta"}
  <2> DEFINE n == d[use[1]].name
             m == d[other[1]].name
             t == TopicFor(p, d, use)
             L == Len(p)
  <2>1. use[1] \in DOMAIN d /\ other[1] \in DOMAIN d
    BY <1>1, <1>4 DEF UsesOf
  <2>2. n \in Seq(W) /\ m \in Seq(W) /\ Len(n) \in Nat /\ Len(m) \in Nat /\ L \in Nat
    BY <2>1, AcceptedNames, LenProperties
  <2>3. Len(n) = Len(m) /\ \A k \in 1 .. Len(n) : n[k] = m[k]
    <3>1. CASE use[2] = "state"
      <4>1. t = Mqtt!StateTopic(p, n) /\ t = Mqtt!StateTopic(p, m)
        BY <1>1, <3>1 DEF TopicFor
      <4> HIDE DEF t, n, m
      <4>2. Len(t) = L + 1 + Len(n) /\ \A k \in 1 .. Len(n) : t[L + 1 + k] = n[k]
        <5>1. n \in Seq(W) /\ t = Mqtt!StateTopic(p, n)
          BY <2>2, <4>1
        <5> QED BY <5>1, StateTopicFacts
      <4>3. Len(t) = L + 1 + Len(m) /\ \A k \in 1 .. Len(m) : t[L + 1 + k] = m[k]
        <5>1. m \in Seq(W) /\ t = Mqtt!StateTopic(p, m)
          BY <2>2, <4>1
        <5> QED BY <5>1, StateTopicFacts
      <4> QED BY <2>2, <4>2, <4>3
    <3>2. CASE use[2] = "set"
      <4>1. t = Mqtt!SetTopic(p, n) /\ t = Mqtt!SetTopic(p, m)
        BY <1>1, <3>2 DEF TopicFor
      <4> HIDE DEF t, n, m
      <4>2. Len(t) = L + 3 + Len(n) /\ \A k \in 1 .. Len(n) : t[L + 1 + k] = n[k]
        <5>1. n \in Seq(W) /\ t = Mqtt!SetTopic(p, n)
          BY <2>2, <4>1
        <5>2. Len(t) = L + 3 + Len(n)
          BY <5>1, SetTopicFacts
        <5>3. \A k \in 1 .. Len(n) : t[L + 1 + k] = n[k]
          BY <5>1, SetTopicName
        <5> QED BY <5>2, <5>3
      <4>3. Len(t) = L + 3 + Len(m) /\ \A k \in 1 .. Len(m) : t[L + 1 + k] = m[k]
        <5>1. m \in Seq(W) /\ t = Mqtt!SetTopic(p, m)
          BY <2>2, <4>1
        <5>2. Len(t) = L + 3 + Len(m)
          BY <5>1, SetTopicFacts
        <5>3. \A k \in 1 .. Len(m) : t[L + 1 + k] = m[k]
          BY <5>1, SetTopicName
        <5> QED BY <5>2, <5>3
      <4> QED BY <2>2, <4>2, <4>3
    <3>3. CASE use[2] = "meta"
      <4>1. t = Mqtt!MetaTopic(p, n) /\ t = Mqtt!MetaTopic(p, m)
        BY <1>1, <3>3 DEF TopicFor
      <4> HIDE DEF t, n, m
      <4>2. Len(t) = L + 4 + Len(n) /\ \A k \in 1 .. Len(n) : t[L + 4 + k] = n[k]
        <5>1. n \in Seq(W) /\ t = Mqtt!MetaTopic(p, n)
          BY <2>2, <4>1
        <5> QED BY <5>1, MetaTopicFacts, ZenonT(60)
      <4>3. Len(t) = L + 4 + Len(m) /\ \A k \in 1 .. Len(m) : t[L + 4 + k] = m[k]
        <5>1. m \in Seq(W) /\ t = Mqtt!MetaTopic(p, m)
          BY <2>2, <4>1
        <5> QED BY <5>1, MetaTopicFacts, ZenonT(60)
      <4> QED BY <2>2, <4>2, <4>3
    <3> QED BY <1>4, <3>1, <3>2, <3>3
  <2>4. n = m
    BY <2>2, <2>3, SeqEqual
  <2>5. use[1] = other[1]
    BY <2>1, <2>4, AcceptedNames
  <2> QED BY <1>1, <1>2, <2>5
<1> QED BY <1>3, <1>4 DEF UsesOf

(* The first of some positions.                                            *)
LEMMA FirstFacts ==
  ASSUME NEW I, I \subseteq Nat, I # {}
  PROVE  Mqtt!Min(I) \in I /\ \A y \in I : Mqtt!Min(I) <= y
<1>1. \E x \in I : \A y \in I : x <= y
  BY LeastNatural
<1> QED BY <1>1 DEF Mqtt!Min

LEMMA FirstIs ==
  ASSUME NEW I, I \subseteq Nat, NEW x \in I, \A y \in I : x <= y
  PROVE  Mqtt!Min(I) = x
<1>1. Mqtt!Min(I) \in I /\ Mqtt!Min(I) <= x
  BY FirstFacts
<1> DEFINE m == Mqtt!Min(I)
<1>2. m \in I /\ m <= x
  BY <1>1
<1> HIDE DEF m
<1>3. x <= m /\ x \in Int /\ m \in Int
  BY <1>2
<1>4. m = x
  BY <1>2, <1>3
<1> QED BY <1>4 DEF m

(* Where a topic's rest is cut, and the entry it then names.               *)
RestOf(p, t)  == SubSeq(t, Len(p) + 2, Len(t))
Slashes(s)    == {k \in 1 .. Len(s) : s[k] = "/"}
SlashIn(s)    == IF Slashes(s) # {} THEN Mqtt!Min(Slashes(s)) ELSE 0
Namesakes(d, n) == {k \in 1 .. Len(d) : d[k].name = n}
Named1(d, n)  == IF Namesakes(d, n) # {} THEN Mqtt!Min(Namesakes(d, n)) ELSE 0

LEMMA HandleIs ==
  ASSUME NEW p, NEW d, NEW t
  PROVE  LET rest == RestOf(p, t)  slash == SlashIn(rest)  name == SubSeq(rest, 1, slash - 1) IN
         Mqtt!Handle(p, d, t) =
           IF /\ Mqtt!IsPrefix(p \o <<"/">>, t)
              /\ slash # 0 /\ SubSeq(rest, slash, Len(rest)) = <<"/", "set">>
              /\ Mqtt!LengthOf(name) \in 1 .. 31
           THEN Named1(d, name) ELSE 0
BY Zenon DEF Mqtt!Handle, Mqtt!SelectInSeq, RestOf, Slashes, SlashIn, Namesakes, Named1

LEMMA RestFacts ==
  ASSUME NEW p \in Seq(W), NEW t \in Seq(W), Len(t) >= Len(p) + 1
  PROVE  /\ RestOf(p, t) \in Seq(W) /\ Len(RestOf(p, t)) = Len(t) - Len(p) - 1
         /\ \A k \in 1 .. Len(RestOf(p, t)) : RestOf(p, t)[k] = t[Len(p) + 1 + k]
<1> DEFINE m == Len(p) + 2
           n == Len(t)
<1>1. m \in Int /\ n \in Int /\ m >= 2 /\ n >= m - 1 /\ \A i \in 1 .. n : t[i] \in W
  BY LenProperties, ElementOfSeq
<1>2. \A i \in m .. n : t[i] \in W
  BY <1>1
<1>3. /\ SubSeq(t, m, n) \in Seq(W) /\ Len(SubSeq(t, m, n)) = IF m <= n THEN n - m + 1 ELSE 0
      /\ \A i \in 1 .. n - m + 1 : SubSeq(t, m, n)[i] = t[m + i - 1]
  <2> HIDE DEF m, n
  <2> QED BY <1>1, <1>2, SubSeqProperties
<1>4. Len(p) \in Nat
  BY LenProperties
<1> DEFINE r == SubSeq(t, m, n)
<1> HIDE DEF r
<1>5. Len(r) = n - m + 1 /\ \A i \in 1 .. n - m + 1 : r[i] = t[m + i - 1]
  BY <1>1, <1>3 DEF r
<1>6. \A k \in 1 .. Len(r) : r[k] = t[Len(p) + 1 + k]
  <2>1. \A k \in 1 .. Len(r) : m + k - 1 = Len(p) + 1 + k
    BY <1>1, <1>4
  <2> QED BY <1>5, <2>1
<1>7. Len(r) = Len(t) - Len(p) - 1
  BY <1>1, <1>4, <1>5
<1>8. RestOf(p, t) = r
  BY DEF RestOf, r
<1> QED BY <1>3, <1>6, <1>7, <1>8 DEF r

(* A prefix, character by character.                                       *)
LEMMA PrefixFacts ==
  ASSUME NEW p \in Seq(W), NEW t \in Seq(W)
  PROVE  Mqtt!IsPrefix(p \o <<"/">>, t) <=>
           Len(t) >= Len(p) + 1 /\ t[Len(p) + 1] = "/" /\ \A k \in 1 .. Len(p) : t[k] = p[k]
<1> DEFINE q == p \o <<"/">>
           L == Len(p)
           u == SubSeq(t, 1, L + 1)
<1>1. /\ q \in Seq(W) /\ L \in Nat /\ Len(q) = L + 1
      /\ \A k \in 1 .. L : q[k] = p[k]
  <2>1. <<"/">> \in Seq(W) /\ Len(<<"/">>) = 1
    BY WordsOfTopics
  <2> QED BY <2>1, ConcatFacts
<1>2. q[L + 1] = "/"
  <2>1. <<"/">> \in Seq(W) /\ 1 \in 1 .. Len(<<"/">>)
    BY WordsOfTopics
  <2>2. q[L + 1] = <<"/">>[1]
    BY <2>1, ConcatFacts
  <2> QED BY <2>2
<1>3. Len(t) \in Nat /\ \A k \in 1 .. Len(t) : t[k] \in W
  BY LenProperties, ElementOfSeq
<1>4. Mqtt!IsPrefix(q, t) <=> Len(q) <= Len(t) /\ SubSeq(q, 1, Len(q)) = SubSeq(t, 1, Len(q))
  BY DEF Mqtt!IsPrefix
<1> HIDE DEF q, L
<1>5. SubSeq(q, 1, Len(q)) = q
  BY <1>1, SubSeqFull
<1>6. ASSUME Len(t) >= L + 1
      PROVE  u \in Seq(W) /\ Len(u) = L + 1 /\ \A k \in 1 .. (L + 1) : u[k] = t[k]
  <2>1. 1 \in Int /\ L + 1 \in Int /\ \A i \in 1 .. (L + 1) : t[i] \in W
    BY <1>1, <1>3, <1>6
  <2>2. /\ u \in Seq(W) /\ Len(u) = IF 1 <= L + 1 THEN (L + 1) - 1 + 1 ELSE 0
        /\ \A i \in 1 .. (L + 1) - 1 + 1 : u[i] = t[1 + i - 1]
    BY <2>1, SubSeqProperties
  <2> HIDE DEF u
  <2>3. (L + 1) - 1 + 1 = L + 1 /\ 1 <= L + 1 /\ \A i \in 1 .. (L + 1) : 1 + i - 1 = i
    BY <1>1
  <2> QED BY <2>2, <2>3
<1> HIDE DEF u
<1>7. ASSUME Len(t) >= L + 1, u = q
      PROVE  t[L + 1] = "/" /\ \A k \in 1 .. L : t[k] = p[k]
  <2>1. \A k \in 1 .. (L + 1) : q[k] = t[k]
    BY <1>6, <1>7
  <2>2. L + 1 \in 1 .. (L + 1) /\ \A k \in 1 .. L : k \in 1 .. (L + 1)
    BY <1>1
  <2> QED BY <1>1, <1>2, <2>1, <2>2
<1>8. ASSUME Len(t) >= L + 1, t[L + 1] = "/", \A k \in 1 .. L : t[k] = p[k]
      PROVE  u = q
  <2>1. \A k \in 1 .. (L + 1) : u[k] = q[k]
    <3>1. ASSUME NEW k \in 1 .. (L + 1) PROVE u[k] = q[k]
      <4>1. k = L + 1 \/ k \in 1 .. L
        BY <1>1
      <4> QED BY <1>1, <1>2, <1>6, <1>8, <4>1
    <3> QED BY <3>1
  <2> QED BY <1>1, <1>6, <1>8, <2>1, SeqEqual
<1>9. Len(q) <= Len(t) <=> Len(t) >= L + 1
  BY <1>1, <1>3
<1>10. SubSeq(t, 1, Len(q)) = u
  BY <1>1 DEF u
<1> QED BY <1>4, <1>5, <1>7, <1>8, <1>9, <1>10 DEF q, L

(* Which topic a text is, character by character behind the prefix.        *)
LEMMA IsSetTopic ==
  ASSUME NEW p \in Seq(W), NEW n \in Seq(W), NEW t \in Seq(W),
         Len(t) = Len(p) + 3 + Len(n),
         \A k \in 1 .. Len(p) : t[k] = p[k],
         t[Len(p) + 1] = "/",
         \A k \in 1 .. Len(n) : t[Len(p) + 1 + k] = n[k],
         t[Len(p) + 2 + Len(n)] = "/",
         t[Len(p) + 3 + Len(n)] = "set"
  PROVE  t = Mqtt!SetTopic(p, n)
<1> DEFINE u == Mqtt!SetTopic(p, n)
           L == Len(p)
           M == Len(n)
<1>1. /\ u \in Seq(W) /\ L \in Nat /\ M \in Nat /\ Len(u) = L + 3 + M
      /\ \A k \in 1 .. L : u[k] = p[k]
      /\ u[L + 1] = "/" /\ u[L + 2 + M] = "/" /\ u[L + 3 + M] = "set"
  BY SetTopicFacts, SMTT(60)
<1>2. \A k \in 1 .. M : u[L + 1 + k] = n[k]
  BY SetTopicName
<1>3. /\ Len(t) = L + 3 + M /\ t[L + 1] = "/" /\ t[L + 2 + M] = "/" /\ t[L + 3 + M] = "set"
      /\ \A k \in 1 .. L : t[k] = p[k]
  OBVIOUS
<1>m. \A k \in 1 .. M : t[L + 1 + k] = n[k]
  OBVIOUS
<1> HIDE DEF u, L, M
<1>4. t = u
  <2>1. ASSUME NEW k \in 1 .. (L + 3 + M) PROVE t[k] = u[k]
    <3>1. k \in 1 .. L \/ k = L + 1 \/ k = L + 2 + M \/ k = L + 3 + M \/ k - L - 1 \in 1 .. M
      BY <1>1
    <3>2. CASE k - L - 1 \in 1 .. M
      <4> DEFINE j == k - L - 1
      <4>1. j \in 1 .. M /\ L + 1 + j = k
        BY <1>1, <3>2
      <4> HIDE DEF j
      <4> QED BY <1>2, <1>m, <4>1
    <3>3. CASE k \in 1 .. L
      BY <1>1, <1>3, <3>3
    <3> QED BY <1>1, <1>3, <3>1, <3>2, <3>3
  <2> QED BY <1>1, <1>3, <2>1, SeqEqual
<1> QED BY <1>4 DEF u

(***************************************************************************)
(* regmqtt_handle acts on a topic exactly when it is the /set of one of    *)
(* its entries, whatever the text.                                         *)
(***************************************************************************)
LEMMA HandlesItsSet ==
  ASSUME NEW p \in Seq(W), NEW d \in Seq(Described), Mqtt!InitAccepts(p, d), NEW i \in DOMAIN d,
         NEW t \in Seq(W), t = Mqtt!SetTopic(p, d[i].name)
  PROVE  Mqtt!Handle(p, d, t) = i
<1> DEFINE n == d[i].name
           L == Len(p)
           M == Len(n)
           r == RestOf(p, t)
           s == SlashIn(r)
<1>1. /\ n \in Seq(W) /\ M \in Nat /\ M >= 1 /\ L \in Nat
      /\ \A k \in 1 .. M : n[k] # "/"
      /\ Mqtt!LengthOf(n) \in 1 .. 31
      /\ \A j \in DOMAIN d : d[j].name = n => i = j
  BY AcceptedNames, LenProperties
<1> HIDE DEF n
<1>t. t = Mqtt!SetTopic(p, n)
  BY DEF n
<1>2. /\ Len(t) = L + 3 + M /\ t[L + 1] = "/"
      /\ \A k \in 1 .. L : t[k] = p[k]
      /\ t[L + 2 + M] = "/" /\ t[L + 3 + M] = "set"
  <2>1. Len(Mqtt!SetTopic(p, n)) = L + 3 + M /\ Mqtt!SetTopic(p, n)[L + 1] = "/"
    BY <1>1, SetTopicFacts
  <2>2. \A k \in 1 .. L : Mqtt!SetTopic(p, n)[k] = p[k]
    BY <1>1, SetTopicFacts
  <2>3. Mqtt!SetTopic(p, n)[L + 2 + M] = "/" /\ Mqtt!SetTopic(p, n)[L + 3 + M] = "set"
    BY <1>1, SetTopicFacts
  <2> QED BY <1>t, <2>1, <2>2, <2>3, Zenon
<1>n. \A k \in 1 .. M : t[L + 1 + k] = n[k]
  BY <1>1, <1>t, SetTopicName, SMTT(60)
<1> HIDE DEF L, M
<1>l. Len(t) >= L + 1
  BY <1>1, <1>2
<1>3. /\ r \in Seq(W) /\ Len(r) = Len(t) - L - 1
      /\ \A k \in 1 .. Len(r) : r[k] = t[L + 1 + k]
  BY <1>l, RestFacts DEF L
<1> HIDE DEF r
<1>4. Len(r) = M + 2 /\ r[M + 1] = "/" /\ r[M + 2] = "set"
  <2>1. Len(r) = M + 2
    BY <1>1, <1>2, <1>3, SMTT(60)
  <2>2. M + 1 \in 1 .. Len(r) /\ M + 2 \in 1 .. Len(r) /\ L + 1 + (M + 1) = L + 2 + M /\ L + 1 + (M + 2) = L + 3 + M
    BY <1>1, <2>1
  <2>3. r[M + 1] = t[L + 1 + (M + 1)] /\ r[M + 2] = t[L + 1 + (M + 2)]
    BY <1>3, <2>2
  <2> QED BY <1>2, <2>1, <2>2, <2>3
<1>5. \A k \in 1 .. M : r[k] = n[k]
  <2>1. \A k \in 1 .. M : k \in 1 .. Len(r)
    BY <1>1, <1>4
  <2> QED BY <1>3, <1>n, <2>1
<1>6. s = M + 1
  <2>1. Slashes(r) \subseteq Nat /\ M + 1 \in Slashes(r)
    BY <1>1, <1>4 DEF Slashes
  <2>2. ASSUME NEW k \in Slashes(r) PROVE M + 1 <= k
    <3>1. k \in 1 .. Len(r) /\ r[k] = "/"
      BY DEF Slashes
    <3>2. k \notin 1 .. M
      BY <1>1, <1>5, <3>1
    <3> QED BY <1>1, <3>1, <3>2
  <2> QED BY <2>1, <2>2, FirstIs DEF SlashIn
<1>7. SubSeq(r, s, Len(r)) = <<"/", "set">>
  <2> DEFINE v == SubSeq(r, s, Len(r))
  <2>0. s \in Int /\ Len(r) \in Int /\ \A k \in s .. Len(r) : r[k] \in W
    <3>1. \A k \in 1 .. Len(r) : r[k] \in W
      BY <1>3, ElementOfSeq
    <3> QED BY <1>1, <1>4, <1>6, <3>1
  <2>1. /\ v \in Seq(W) /\ Len(v) = IF s <= Len(r) THEN Len(r) - s + 1 ELSE 0
        /\ \A k \in 1 .. Len(r) - s + 1 : v[k] = r[s + k - 1]
    <3> HIDE DEF s
    <3> QED BY <2>0, SubSeqProperties
  <2> HIDE DEF v, s
  <2>2. s <= Len(r) /\ Len(r) - s + 1 = 2 /\ s + 1 - 1 = M + 1 /\ s + 2 - 1 = M + 2
    BY <1>1, <1>4, <1>6
  <2>3. Len(v) = 2 /\ v[1] = "/" /\ v[2] = "set"
    BY <1>4, <2>1, <2>2
  <2>4. v = <<"/", "set">>
    BY <2>1, <2>3
  <2> QED BY <2>4 DEF v, s
<1>8. SubSeq(r, 1, s - 1) = n
  <2> DEFINE v == SubSeq(r, 1, M)
  <2>0. 1 \in Int /\ M \in Int /\ \A k \in 1 .. M : r[k] \in W
    <3>1. \A k \in 1 .. Len(r) : r[k] \in W
      BY <1>3, ElementOfSeq
    <3> QED BY <1>1, <1>4, <3>1
  <2>1. /\ v \in Seq(W) /\ Len(v) = IF 1 <= M THEN M - 1 + 1 ELSE 0
        /\ \A k \in 1 .. M - 1 + 1 : v[k] = r[1 + k - 1]
    BY <2>0, SubSeqProperties
  <2> HIDE DEF v
  <2>2. 1 <= M /\ M - 1 + 1 = M /\ \A k \in 1 .. M : 1 + k - 1 = k
    BY <1>1
  <2>3. Len(v) = M /\ \A k \in 1 .. M : v[k] = n[k]
    BY <1>5, <2>1, <2>2
  <2>4. v = n
    BY <1>1, <2>1, <2>3, SeqEqual DEF M
  <2>5. s - 1 = M
    BY <1>1, <1>6
  <2> QED BY <2>4, <2>5 DEF v
<1>9. Named1(d, n) = i
  <2>1. DOMAIN d = 1 .. Len(d) /\ Len(d) \in Nat
    BY LenProperties
  <2>2. Namesakes(d, n) = {i}
    BY <1>1, <2>1 DEF Namesakes, n
  <2>3. {i} \subseteq Nat /\ i \in {i} /\ \A y \in {i} : i <= y
    BY <2>1
  <2> QED BY <2>2, <2>3, FirstIs DEF Named1
<1>10. Mqtt!IsPrefix(p \o <<"/">>, t)
  BY <1>2, <1>l, PrefixFacts DEF L
<1>11. s # 0
  BY <1>1, <1>6
<1> HIDE DEF s
<1> QED BY <1>1, <1>7, <1>8, <1>9, <1>10, <1>11, HandleIs, Zenon DEF r, s

LEMMA HandledIsSet ==
  ASSUME NEW p \in Seq(W), NEW d \in Seq(Described), NEW i \in DOMAIN d, NEW t \in Seq(W),
         Mqtt!Handle(p, d, t) = i
  PROVE  t = Mqtt!SetTopic(p, d[i].name)
<1> DEFINE n == d[i].name
           L == Len(p)
           r == RestOf(p, t)
           s == SlashIn(r)
           v == SubSeq(r, s, Len(r))
           m == SubSeq(r, 1, s - 1)
<1>0. L \in Nat /\ DOMAIN d = 1 .. Len(d) /\ Len(d) \in Nat /\ i # 0
  BY LenProperties
<1>1. Mqtt!IsPrefix(p \o <<"/">>, t) /\ s # 0 /\ v = <<"/", "set">> /\ Named1(d, m) = i
  <2> HIDE DEF v, m, s, r
  <2> QED BY <1>0, HandleIs, Zenon DEF v, m, s, r
<1>2. Len(t) >= L + 1 /\ t[L + 1] = "/" /\ \A k \in 1 .. L : t[k] = p[k]
  BY <1>1, PrefixFacts
<1>3. /\ r \in Seq(W) /\ Len(r) = Len(t) - L - 1
      /\ \A k \in 1 .. Len(r) : r[k] = t[L + 1 + k]
  BY <1>2, RestFacts
<1>4. n = m
  <2> HIDE DEF m, n
  <2>1. Namesakes(d, m) # {} /\ Namesakes(d, m) \subseteq Nat /\ i = Mqtt!Min(Namesakes(d, m))
    BY <1>0, <1>1 DEF Named1, Namesakes
  <2>2. i \in Namesakes(d, m)
    BY <2>1, FirstFacts
  <2> QED BY <2>2 DEF Namesakes, n
<1> HIDE DEF r, L
<1>5. Len(r) \in Nat /\ s \in 1 .. Len(r)
  <2>1. Len(r) \in Nat
    BY <1>3, LenProperties
  <2>2. Slashes(r) # {} /\ Slashes(r) \subseteq Nat /\ s = Mqtt!Min(Slashes(r))
    BY <1>1, <2>1, SMTT(60) DEF SlashIn, Slashes
  <2> HIDE DEF s
  <2>3. s \in Slashes(r)
    BY <2>2, FirstFacts
  <2> QED BY <2>1, <2>3 DEF Slashes
<1> HIDE DEF s
<1>6. \A k \in 1 .. Len(r) : r[k] \in W
  BY <1>3, ElementOfSeq
<1>7. Len(r) = s + 1 /\ r[s] = "/" /\ r[s + 1] = "set"
  <2>1. /\ Len(v) = IF s <= Len(r) THEN Len(r) - s + 1 ELSE 0
        /\ \A k \in 1 .. Len(r) - s + 1 : v[k] = r[s + k - 1]
    <3>1. s \in Int /\ Len(r) \in Int /\ \A k \in s .. Len(r) : r[k] \in W
      BY <1>5, <1>6
    <3> QED BY <3>1, SubSeqProperties
  <2>2. Len(v) = 2 /\ v[1] = "/" /\ v[2] = "set"
    BY <1>1
  <2> HIDE DEF v
  <2>3. Len(r) = s + 1
    <3>1. s \in Int /\ Len(r) \in Int /\ s <= Len(r)
      BY <1>5
    <3>2. Len(r) - s + 1 = 2
      BY <2>1, <2>2, <3>1
    <3> QED BY <3>1, <3>2
  <2>4. 1 \in 1 .. Len(r) - s + 1 /\ 2 \in 1 .. Len(r) - s + 1 /\ s + 1 - 1 = s /\ s + 2 - 1 = s + 1
    BY <1>5, <2>3
  <2>5. v[1] = r[s + 1 - 1] /\ v[2] = r[s + 2 - 1]
    BY <2>1, <2>4
  <2> QED BY <2>2, <2>3, <2>4, <2>5
<1>8. m \in Seq(W) /\ Len(m) = s - 1 /\ \A k \in 1 .. s - 1 : m[k] = r[k]
  <2>1. 1 \in Int /\ s - 1 \in Int /\ \A k \in 1 .. s - 1 : r[k] \in W
    BY <1>5, <1>6
  <2>2. /\ m \in Seq(W) /\ Len(m) = IF 1 <= s - 1 THEN (s - 1) - 1 + 1 ELSE 0
        /\ \A k \in 1 .. (s - 1) - 1 + 1 : m[k] = r[1 + k - 1]
    BY <2>1, SubSeqProperties
  <2> HIDE DEF m
  <2>3. /\ Len(m) = s - 1 /\ (s - 1) - 1 + 1 = s - 1
        /\ \A k \in 1 .. s - 1 : 1 + k - 1 = k
    BY <1>5, <2>2
  <2> QED BY <2>2, <2>3
<1> HIDE DEF m, v, n
<1>9. n \in Seq(W) /\ Len(n) = s - 1
  BY <1>4, <1>8
<1>10. Len(t) = L + 3 + Len(n)
  <2>1. Len(t) \in Nat /\ s \in Int
    BY <1>5, LenProperties
  <2>2. Len(t) - L - 1 = s + 1 /\ Len(n) = s - 1
    BY <1>3, <1>7, <1>9
  <2> QED BY <1>0, <2>1, <2>2, SMTT(60)
<1>11. \A k \in 1 .. Len(n) : t[L + 1 + k] = n[k]
  <2>1. \A k \in 1 .. Len(n) : k \in 1 .. Len(r) /\ k \in 1 .. s - 1
    BY <1>5, <1>7, <1>9
  <2> QED BY <1>3, <1>4, <1>8, <2>1
<1>12. t[L + 2 + Len(n)] = "/" /\ t[L + 3 + Len(n)] = "set"
  <2>1. s \in 1 .. Len(r) /\ s + 1 \in 1 .. Len(r) /\ L + 2 + Len(n) = L + 1 + s /\ L + 3 + Len(n) = L + 1 + (s + 1)
    BY <1>0, <1>5, <1>7, <1>9
  <2>2. r[s] = t[L + 1 + s] /\ r[s + 1] = t[L + 1 + (s + 1)]
    BY <1>3, <2>1
  <2> QED BY <1>7, <2>1, <2>2
<1>13. t = Mqtt!SetTopic(p, n)
  <2>1. n \in Seq(W)
    BY <1>9
  <2>2. Len(t) = Len(p) + 3 + Len(n) /\ t[Len(p) + 1] = "/"
    BY <1>2, <1>10 DEF L
  <2>3. \A k \in 1 .. Len(p) : t[k] = p[k]
    BY <1>2 DEF L
  <2>4. \A k \in 1 .. Len(n) : t[Len(p) + 1 + k] = n[k]
    BY <1>11 DEF L
  <2>5. t[Len(p) + 2 + Len(n)] = "/" /\ t[Len(p) + 3 + Len(n)] = "set"
    BY <1>12 DEF L
  <2> QED BY <2>1, <2>2, <2>3, <2>4, <2>5, IsSetTopic
<1> QED BY <1>13 DEF n

-----------------------------------------------------------------------------
(***************************************************************************)
(* The names, prefixes and pieces at hand.                                 *)
(***************************************************************************)
TopicsAtHand ==
  /\ prefix \in Seq(W) /\ described \in Seq(Described)
  /\ answer = "bound" => Mqtt!InitAccepts(prefix, described)

LEMMA WordsAreWords == Words \subseteq W
BY DEF Words, W, Lengths

LEMMA NameTyped ==
  ASSUME NEW name \in SeqOf(Words, 2)
  PROVE  name \in Seq(W)
<1>1. PICK m \in 0 .. 2 : name \in [1 .. m -> Words]
  BY DEF SeqOf
<1>2. name \in Seq(Words)
  BY <1>1, SeqDef
<1> QED BY <1>2, WordsAreWords, SeqMonotonic

LEMMA PiecesTyped ==
  ASSUME NEW n \in Nat, NEW k \in Nat, NEW m \in Nat
  PROVE  /\ <<>> \in Seq(Piece) /\ <<Mqtt!Puts(n)>> \in Seq(Piece)
         /\ <<Mqtt!Puts(n), Mqtt!Printf(k)>> \in Seq(Piece)
         /\ <<Mqtt!Puts(n), Mqtt!Printf(k), Mqtt!Puts(m)>> \in Seq(Piece)
<1>1. Mqtt!Puts(n) \in Piece /\ Mqtt!Printf(k) \in Piece /\ Mqtt!Puts(m) \in Piece
  BY DEF Mqtt!Puts, Mqtt!Printf, Piece
<1> QED BY <1>1

LEMMA TopicsAtHandInit == Init => TopicsAtHand
<1> SUFFICES ASSUME Init PROVE TopicsAtHand
  OBVIOUS
<1>0. answer = "none"
  BY DEF Init
<1>1. prefix \in Seq(W)
  <2>1. <<>> \in Seq(W) /\ \A q \in SomePrefixes : q \in Seq(W)
    <3>1. {"dev", "/", "x", "#", "p25", "p50"} \subseteq W
      BY DEF W, Lengths
    <3> HIDE DEF W
    <3> QED BY <3>1 DEF SomePrefixes
  <2> QED BY <2>1 DEF Init, AnyEntry, AnyMap, AnyTopics, AnyYaml
<1>2. described \in Seq(Described)
  <2>1. CASE described = <<>>
    BY <2>1
  <2>2. ASSUME NEW one \in SeqOf(Words, 2), NEW other \in SeqOf(Words, 2),
               described = <<Named(one), Named(other)>>
        PROVE  described \in Seq(Described)
    <3>1. one \in Seq(W) /\ other \in Seq(W)
      BY NameTyped
    <3>2. <<Mqtt!Puts(50), Mqtt!Printf(9)>> \in Seq(Piece) /\ <<>> \in Seq(Piece)
      BY PiecesTyped
    <3>3. Named(one) \in Described /\ Named(other) \in Described
      BY <3>1, <3>2 DEF Named, Described
    <3> QED BY <2>2, <3>3
  <2>3. ASSUME NEW body \in Bodies, NEW desc \in Descs,
               described = <<[name |-> <<"x">>, body |-> body, desc |-> desc]>>
        PROVE  described \in Seq(Described)
    <3>1. body \in Seq(Piece)
      <4>1. PICK n \in 100 .. 140, k \in {9, 30} : body = <<Mqtt!Puts(n), Mqtt!Printf(k)>>
        BY DEF Bodies
      <4> QED BY <4>1, PiecesTyped
    <3>2. desc \in Seq(Piece)
      <4>1. CASE desc = <<>>
        BY <4>1
      <4>2. CASE \E n \in 0 .. 40 : desc = <<Mqtt!Puts(n)>>
        BY <4>2, PiecesTyped
      <4>3. CASE \E n \in 0 .. 20 : desc = <<Mqtt!Puts(n), Mqtt!Printf(6), Mqtt!Puts(1)>>
        BY <4>3, PiecesTyped
      <4> QED BY <4>1, <4>2, <4>3 DEF Descs
    <3>3. <<"x">> \in Seq(W)
      <4>1. "x" \in W
        BY DEF W, Lengths
      <4> HIDE DEF W
      <4> QED BY <4>1
    <3>4. [name |-> <<"x">>, body |-> body, desc |-> desc] \in Described
      BY <3>1, <3>2, <3>3 DEF Described
    <3> QED BY <2>3, <3>4
  <2> QED BY <2>1, <2>2, <2>3 DEF Init, AnyEntry, AnyMap, AnyTopics, AnyYaml
<1> QED BY <1>0, <1>1, <1>2 DEF TopicsAtHand

LEMMA TopicsAtHandStep == AtHand /\ TopicsAtHand /\ [Next]_vars => TopicsAtHand'
<1> SUFFICES ASSUME AtHand, TopicsAtHand, [Next]_vars PROVE TopicsAtHand'
  OBVIOUS
<1>1. /\ prefix' = prefix /\ described' = described
      /\ answer' = "bound" => Mqtt!InitAccepts(prefix, described)
  <2>1. CASE AppAssign
    BY <2>1 DEF AppAssign, inputs
  <2>2. CASE SetRaw
    BY <2>2, CheckAnswers DEF SetRaw, inputs
  <2>3. CASE SetStr
    BY <2>3, SetStrAnswers DEF inputs
  <2>4. CASE regmb_init
    BY <2>4 DEF regmb_init, inputs
  <2>5. CASE regmqtt_init
    BY <2>5 DEF regmqtt_init, inputs
  <2>6. CASE Generate
    BY <2>6 DEF Generate, inputs
  <2>7. CASE UNCHANGED vars
    BY <2>7 DEF vars, inputs, TopicsAtHand
  <2> QED BY <2>1, <2>2, <2>3, <2>4, <2>5, <2>6, <2>7 DEF Next
<1> QED BY <1>1 DEF TopicsAtHand

LEMMA AlwaysTopics == Spec => []TopicsAtHand
BY TopicsAtHandInit, TopicsAtHandStep, AlwaysAtHand, PTL DEF Spec

(***************************************************************************)
(* In every accepted table, whatever the prefix and the names, the topics  *)
(* are told apart, and regmqtt_handle acts on its entries' /set only.      *)
(***************************************************************************)
THEOREM Owners == Spec => []OneOwnerPerTopic
<1>1. TopicsAtHand => OneOwnerPerTopic
  <2> SUFFICES ASSUME TopicsAtHand, answer = "bound" PROVE OneOwnerPerTopic
    BY DEF OneOwnerPerTopic
  <2>1. /\ prefix \in Seq(W) /\ described \in Seq(Described)
        /\ Mqtt!InitAccepts(prefix, described)
    BY DEF TopicsAtHand
  <2>2. Uses = UsesOf(described) /\ \A use : TopicOf(use) = TopicFor(prefix, described, use)
    BY DEF Uses, UsesOf, TopicOf, TopicFor
  <2>3. \A use, other \in Uses : TopicOf(use) = TopicOf(other) => use = other
    BY <2>1, <2>2, TopicsDiffer
  <2>4. ASSUME NEW topic \in {TopicOf(use) : use \in Uses}
                            \cup {Mqtt!SetTopic(prefix, name) : name \in SeqOf(Words, 2)},
               NEW i \in DOMAIN described
        PROVE  Mqtt!Handle(prefix, described, topic) = i
                 <=> topic = Mqtt!SetTopic(prefix, described[i].name)
    <3>1. topic \in Seq(W)
      <4>1. CASE topic \in {TopicOf(use) : use \in Uses}
        BY <2>1, <2>2, <4>1, UseOfTopic
      <4>2. CASE topic \in {Mqtt!SetTopic(prefix, name) : name \in SeqOf(Words, 2)}
        <5>1. PICK name \in SeqOf(Words, 2) : topic = Mqtt!SetTopic(prefix, name)
          BY <4>2
        <5>2. name \in Seq(W)
          BY NameTyped
        <5> QED BY <2>1, <5>1, <5>2, SetTopicFacts
      <4> QED BY <4>1, <4>2
    <3> QED BY <2>1, <3>1, HandlesItsSet, HandledIsSet
  <2> QED BY <2>3, <2>4 DEF OneOwnerPerTopic
<1> QED BY <1>1, AlwaysTopics, PTL

-----------------------------------------------------------------------------
(***************************************************************************)
(* Buffers.  A buffer of a size holds what was put into it as long as that *)
(* fits, and says so for ever after when something did not.                *)
(***************************************************************************)
Holds(size, n) == [size |-> size, len |-> n, overflow |-> FALSE]
Spilled(size)  == [size : {size}, len : Nat, overflow : {TRUE}]
Filled(size, n, b) == IF n < size THEN b = Holds(size, n) ELSE b \in Spilled(size)

LEMMA HeldMore ==
  ASSUME NEW size, NEW n, NEW l
  PROVE  [Holds(size, n) EXCEPT !.len = l] = Holds(size, l)
<1>1. \A no : [[size |-> size, len |-> n, overflow |-> no] EXCEPT !.len = l]
                 = [size |-> size, len |-> l, overflow |-> no]
  OBVIOUS
<1> QED BY <1>1, Zenon DEF Holds

LEMMA SpilledMore ==
  ASSUME NEW size, NEW b \in Spilled(size), NEW l \in Nat
  PROVE  [b EXCEPT !.len = l] \in Spilled(size)
BY DEF Spilled

LEMMA PutOne ==
  ASSUME NEW size \in Nat \ {0}, NEW n \in Nat, NEW b, Filled(size, n, b), NEW piece \in Piece
  PROVE  Filled(size, n + piece.n, Mqtt!Append1(b, piece))
<1> DEFINE k == piece.n
<1>0. k \in Nat /\ piece.by \in {"puts", "printf"}
  BY DEF Piece
<1> HIDE DEF k
<1>1. CASE n < size
  <2>1. b = Holds(size, n)
    BY <1>1 DEF Filled
  <2>2. CASE n + k < size
    <3>1. Mqtt!Append1(b, piece) = [b EXCEPT !.len = n + k]
      BY <2>1, <2>2 DEF Mqtt!Append1, Holds, k
    <3>2. [b EXCEPT !.len = n + k] = Holds(size, n + k)
      BY <2>1, HeldMore, Zenon
    <3> QED BY <2>2, <3>1, <3>2 DEF Filled, k
  <2>3. CASE ~(n + k < size)
    <3> DEFINE l == IF piece.by = "printf" THEN n ELSE size - 1
    <3>1. l \in Nat
      OBVIOUS
    <3>2. Mqtt!Append1(b, piece) = [b EXCEPT !.len = l, !.overflow = TRUE]
      BY <2>1, <2>3 DEF Mqtt!Append1, Holds, k
    <3> HIDE DEF l
    <3>3. [b EXCEPT !.len = l, !.overflow = TRUE] \in Spilled(size)
      BY <2>1, <3>1 DEF Holds, Spilled
    <3> QED BY <2>3, <3>2, <3>3 DEF Filled, k
  <2> QED BY <2>2, <2>3
<1>2. CASE ~(n < size)
  <2>0. b \in Spilled(size)
    BY <1>2 DEF Filled
  <2>1. b \in Spilled(size) /\ b.len \in Nat /\ b.size = size /\ ~(n + k < size)
    <3>1. b.len \in Nat /\ b.size = size
      BY <2>0 DEF Spilled
    <3>2. ~(n + k < size)
      BY <1>0, <1>2
    <3> QED BY <2>0, <3>1, <3>2
  <2>2. CASE b.len + k < size
    <3>1. Mqtt!Append1(b, piece) = [b EXCEPT !.len = b.len + k]
      BY <2>1, <2>2 DEF Mqtt!Append1, k
    <3>2. [b EXCEPT !.len = b.len + k] \in Spilled(size)
      <4>1. b.len + k \in Nat
        BY <1>0, <2>1
      <4> QED BY <2>1, <4>1, SpilledMore, Zenon
    <3> QED BY <2>1, <3>1, <3>2 DEF Filled, k
  <2>3. CASE ~(b.len + k < size)
    <3> DEFINE l == IF piece.by = "printf" THEN b.len ELSE size - 1
    <3>1. l \in Nat
      BY <2>1
    <3>2. Mqtt!Append1(b, piece) = [b EXCEPT !.len = l, !.overflow = TRUE]
      BY <2>1, <2>3 DEF Mqtt!Append1, k
    <3> HIDE DEF l
    <3>3. [b EXCEPT !.len = l, !.overflow = TRUE] \in Spilled(size)
      BY <2>1, <3>1 DEF Spilled
    <3> QED BY <2>1, <3>2, <3>3 DEF Filled, k
  <2> QED BY <2>2, <2>3
<1> QED BY <1>1, <1>2

AppendedTo(f, n, a, s) == f = [k \in 0 .. n |-> IF k = 0 THEN a ELSE Mqtt!Append1(f[k - 1], s[k])]

LEMMA AppendedExists ==
  ASSUME NEW a, NEW s, NEW n \in Nat
  PROVE  \E f : AppendedTo(f, n, a, s)
<1> DEFINE bad == {k \in Nat : ~\E f : AppendedTo(f, k, a, s)}
<1> SUFFICES ASSUME bad # {} PROVE FALSE
  OBVIOUS
<1>1. PICK k \in bad : \A j \in bad : k <= j
  <2> HIDE DEF AppendedTo
  <2> QED BY LeastNatural
<1>2. CASE k = 0
  <2>1. AppendedTo([j \in 0 .. 0 |-> a], 0, a, s)
    BY DEF AppendedTo
  <2> QED BY <2>1, <1>1, <1>2
<1>3. CASE k # 0
  <2>1. k - 1 \in Nat /\ k - 1 \notin bad
    BY <1>1, <1>3
  <2>2. PICK g : AppendedTo(g, k - 1, a, s)
    BY <2>1
  <2> DEFINE f == [j \in 0 .. k |-> IF j < k THEN g[j] ELSE Mqtt!Append1(g[k - 1], s[k])]
  <2>3. ASSUME NEW j \in 0 .. k
        PROVE  f[j] = IF j = 0 THEN a ELSE Mqtt!Append1(f[j - 1], s[j])
    <3>1. CASE j = k
      BY <3>1, <2>1, <1>3
    <3>2. CASE j < k
      <4>1. j \in 0 .. (k - 1)
        BY <3>2, <2>1
      <4>2. g[j] = IF j = 0 THEN a ELSE Mqtt!Append1(g[j - 1], s[j])
        BY <2>2, <4>1 DEF AppendedTo
      <4>3. f[j] = g[j] /\ (j # 0 => f[j - 1] = g[j - 1])
        BY <3>2
      <4> HIDE DEF f
      <4> QED BY <4>2, <4>3
    <3> QED BY <3>1, <3>2
  <2>4. AppendedTo(f, k, a, s)
    <3>1. f = [j \in 0 .. k |-> f[j]]
      OBVIOUS
    <3> HIDE DEF f
    <3> QED BY <2>3, <3>1, Zenon DEF AppendedTo
  <2> QED BY <1>1, <2>4
<1> QED BY <1>2, <1>3

(* After some pieces the buffer is filled with the sum of them.            *)
Sizes(s) == [k \in DOMAIN s |-> s[k].n]

LEMMA SizesFacts ==
  ASSUME NEW s \in Seq(Piece)
  PROVE  /\ Sizes(s) \in Seq(Nat) /\ Len(Sizes(s)) = Len(s) /\ Total(s) = Mqtt!SumOf(Sizes(s))
         /\ \A k \in 1 .. Len(s) : Sizes(s)[k] = s[k].n /\ s[k] \in Piece
<1>1. DOMAIN s = 1 .. Len(s) /\ Len(s) \in Nat /\ \A k \in 1 .. Len(s) : s[k] \in Piece
  BY LenProperties, ElementOfSeq
<1>2. Sizes(s) \in [1 .. Len(s) -> Nat] /\ \A k \in 1 .. Len(s) : Sizes(s)[k] = s[k].n
  BY <1>1 DEF Sizes, Piece
<1>3. Sizes(s) \in Seq(Nat) /\ Len(Sizes(s)) = Len(s)
  BY <1>1, <1>2, FunIsSeq
<1>4. Total(s) = Mqtt!SumOf(Sizes(s))
  BY DEF Total, Sizes
<1> QED BY <1>1, <1>2, <1>3, <1>4

LEMMA PutAll ==
  ASSUME NEW size \in Nat \ {0}, NEW n \in Nat, n < size, NEW s \in Seq(Piece)
  PROVE  /\ Filled(size, n + Total(s), Mqtt!Appended(Holds(size, n), s))
         /\ Total(s) \in Nat
<1> DEFINE a == Holds(size, n)
           L == Len(s)
           z == Sizes(s)
           f == CHOOSE h : AppendedTo(h, L, a, s)
<1>0. L \in Nat
  BY LenProperties
<1>1. AppendedTo(f, L, a, s)
  BY <1>0, AppendedExists
<1>2. Mqtt!Appended(a, s) = f[L]
  BY DEF Mqtt!Appended, AppendedTo
<1> HIDE DEF f
<1>3. /\ z \in Seq(Nat) /\ Len(z) = L /\ Total(s) = Mqtt!SumOf(z)
      /\ \A k \in 1 .. L : z[k] = s[k].n /\ s[k] \in Piece
  BY SizesFacts
<1> HIDE DEF z, L
<1>4. PICK g : SumTo(g, L, z) /\ Mqtt!SumOf(z) = g[L]
  <2>1. Len(z) \in Nat
    BY <1>0, <1>3
  <2> QED BY <1>3, <2>1, SumRun
<1>5. \A k \in 0 .. L : g[k] \in Nat
  <2>1. L \in 0 .. Len(z)
    BY <1>0, <1>3
  <2> QED BY <1>3, <1>4, <2>1, SumValues
<1>6. /\ \A k \in 0 .. L : f[k] = IF k = 0 THEN a ELSE Mqtt!Append1(f[k - 1], s[k])
      /\ \A k \in 0 .. L : g[k] = IF k = 0 THEN 0 ELSE g[k - 1] + z[k]
  BY <1>0, <1>1, <1>4 DEF AppendedTo, SumTo
<1>7. \A k \in 0 .. L : Filled(size, n + g[k], f[k])
  <2> DEFINE bad == {k \in Nat : k <= L /\ ~Filled(size, n + g[k], f[k])}
  <2> SUFFICES ASSUME bad # {} PROVE FALSE
    BY <1>0
  <2>1. PICK k \in bad : \A j \in bad : k <= j
    <3>1. bad \subseteq Nat
      OBVIOUS
    <3> HIDE DEF bad
    <3> QED BY <3>1, LeastNatural
  <2>2. k \in 0 .. L /\ ~Filled(size, n + g[k], f[k])
    BY <1>0, <2>1
  <2>3. k # 0
    <3> SUFFICES ASSUME k = 0 PROVE FALSE
      OBVIOUS
    <3>1. g[k] = 0 /\ f[k] = a /\ n + 0 = n
      BY <1>6, <2>2
    <3> QED BY <2>2, <3>1 DEF Filled
  <2>4. k - 1 \in Nat /\ k - 1 \notin bad /\ k \in 1 .. L /\ k - 1 <= L /\ k - 1 \in 0 .. L
    BY <1>0, <2>1, <2>2, <2>3
  <2>5. Filled(size, n + g[k - 1], f[k - 1])
    BY <2>4
  <2>6. s[k] \in Piece /\ s[k].n \in Nat /\ g[k - 1] \in Nat
    BY <1>3, <1>5, <2>4 DEF Piece
  <2>7. g[k] = g[k - 1] + s[k].n /\ f[k] = Mqtt!Append1(f[k - 1], s[k])
    BY <1>3, <1>6, <2>2, <2>3, <2>4
  <2>8. n + g[k - 1] \in Nat
    BY <2>6
  <2>9. Filled(size, (n + g[k - 1]) + s[k].n, Mqtt!Append1(f[k - 1], s[k]))
    BY <2>5, <2>6, <2>8, PutOne
  <2>10. (n + g[k - 1]) + s[k].n = n + g[k]
    BY <2>6, <2>7
  <2> QED BY <2>2, <2>7, <2>9, <2>10
<1>8. L \in 0 .. L
  BY <1>0
<1> QED BY <1>2, <1>3, <1>4, <1>5, <1>7, <1>8

LEMMA TotalConcat ==
  ASSUME NEW s \in Seq(Piece), NEW t \in Seq(Piece)
  PROVE  s \o t \in Seq(Piece) /\ Total(s \o t) = Total(s) + Total(t)
<1> DEFINE u == s \o t
<1>1. /\ u \in Seq(Piece) /\ Len(s) \in Nat /\ Len(t) \in Nat /\ Len(u) = Len(s) + Len(t)
      /\ \A k \in 1 .. Len(s) : u[k] = s[k]
      /\ \A k \in 1 .. Len(t) : u[Len(s) + k] = t[k]
  BY ConcatFacts
<1> HIDE DEF u
<1> DEFINE x == Sizes(s)
           y == Sizes(t)
           z == Sizes(u)
<1>2. /\ x \in Seq(Nat) /\ Len(x) = Len(s) /\ Total(s) = Mqtt!SumOf(x)
      /\ \A k \in 1 .. Len(s) : x[k] = s[k].n
  BY SizesFacts
<1>3. /\ y \in Seq(Nat) /\ Len(y) = Len(t) /\ Total(t) = Mqtt!SumOf(y)
      /\ \A k \in 1 .. Len(t) : y[k] = t[k].n
  BY SizesFacts
<1>4. /\ z \in Seq(Nat) /\ Len(z) = Len(u) /\ Total(u) = Mqtt!SumOf(z)
      /\ \A k \in 1 .. Len(u) : z[k] = u[k].n
  BY <1>1, SizesFacts
<1> HIDE DEF x, y, z
<1>5. /\ x \o y \in Seq(Nat) /\ Len(x \o y) = Len(s) + Len(t)
      /\ \A k \in 1 .. Len(s) : (x \o y)[k] = x[k]
      /\ \A k \in 1 .. Len(t) : (x \o y)[Len(s) + k] = y[k]
  <2>1. /\ x \o y \in Seq(Nat) /\ Len(x \o y) = Len(x) + Len(y)
        /\ \A k \in 1 .. Len(x) : (x \o y)[k] = x[k]
        /\ \A k \in 1 .. Len(y) : (x \o y)[Len(x) + k] = y[k]
    <3>1. x \in Seq(Nat) /\ y \in Seq(Nat)
      BY <1>2, <1>3
    <3> QED BY <3>1, ConcatFacts
  <2>2. Len(x) = Len(s) /\ Len(y) = Len(t)
    BY <1>2, <1>3
  <2> QED BY <2>1, <2>2
<1>6. z = x \o y
  <2>1. ASSUME NEW k \in 1 .. Len(z) PROVE z[k] = (x \o y)[k]
    <3>1. CASE k \in 1 .. Len(s)
      BY <1>1, <1>2, <1>4, <1>5, <3>1, ZenonT(60)
    <3>2. CASE k \notin 1 .. Len(s)
      <4>1. k - Len(s) \in 1 .. Len(t) /\ Len(s) + (k - Len(s)) = k
        BY <1>1, <1>4, <3>2
      <4> DEFINE j == k - Len(s)
      <4>2. j \in 1 .. Len(t) /\ Len(s) + j = k
        BY <4>1
      <4> HIDE DEF j
      <4>3. u[k] = t[j] /\ (x \o y)[k] = y[j]
        BY <1>1, <1>5, <4>2
      <4>4. z[k] = u[k].n
        BY <1>4
      <4> QED BY <1>3, <4>2, <4>3, <4>4
    <3> QED BY <3>1, <3>2
  <2>2. Len(z) = Len(x \o y)
    BY <1>1, <1>4, <1>5
  <2> QED BY <2>1, <2>2, <1>4, <1>5, SeqEqual
<1>7. Mqtt!SumOf(z) = Mqtt!SumOf(x) + Mqtt!SumOf(y)
  BY <1>2, <1>3, <1>6, SumConcat
<1> QED BY <1>1, <1>2, <1>3, <1>4, <1>7 DEF u

LEMMA TotalOne ==
  ASSUME NEW piece \in Piece
  PROVE  <<piece>> \in Seq(Piece) /\ Total(<<piece>>) = piece.n
<1>1. [k \in DOMAIN <<piece>> |-> <<piece>>[k].n] = <<piece.n>>
  OBVIOUS
<1>2. piece.n \in Nat
  BY DEF Piece
<1>3. <<piece>> \in Seq(Piece)
  OBVIOUS
<1> QED BY <1>1, <1>2, <1>3, SumSmall, Zenon DEF Total

(* What ap_rollback leaves of a buffer that overflowed.                    *)
LEMMA RolledBack ==
  ASSUME NEW size, NEW b \in Spilled(size), NEW n
  PROVE  [b EXCEPT !.overflow = FALSE, !.len = n] = Holds(size, n)
<1>1. [b EXCEPT !.overflow = FALSE, !.len = n] \in [size : {size}, len : {n}, overflow : {FALSE}]
  BY DEF Spilled
<1>2. \A no : \A r \in [size : {size}, len : {n}, overflow : {no}] :
                r = [size |-> size, len |-> n, overflow |-> no]
  OBVIOUS
<1> QED BY <1>1, <1>2, Zenon DEF Holds

(* The body of a meta in its buffer of 139 characters, when it fits there  *)
(* without a description: with it if that fits too, and without it if not. *)
LEMMA BodyHolds ==
  ASSUME NEW e \in Described, Mqtt!MetaFits(e)
  PROVE  LET with == Total(e.body) + 10 + Total(e.desc)
             n    == IF e.desc # <<>> /\ with < 139 THEN with ELSE Total(e.body)
         IN  /\ n \in Nat /\ n < 139
             /\ Mqtt!MetaBody(139, e, TRUE) = Holds(139, n)
<1> DEFINE bare == Total(e.body)
           more == <<Mqtt!Puts(9)>> \o e.desc \o <<Mqtt!Puts(1)>>
           body == Mqtt!Appended(Mqtt!Empty(139), e.body)
           full == Mqtt!Appended(body, more)
<1>1. e.body \in Seq(Piece) /\ e.desc \in Seq(Piece)
  BY DEF Described
<1>2. Mqtt!Puts(9) \in Piece /\ Mqtt!Puts(1) \in Piece /\ Mqtt!Puts(9).n = 9 /\ Mqtt!Puts(1).n = 1
  BY DEF Mqtt!Puts, Piece
<1>3. /\ more \in Seq(Piece)
      /\ Total(more) = (9 + Total(e.desc)) + 1
  <2>1. /\ <<Mqtt!Puts(9)>> \in Seq(Piece) /\ Total(<<Mqtt!Puts(9)>>) = 9
        /\ <<Mqtt!Puts(1)>> \in Seq(Piece) /\ Total(<<Mqtt!Puts(1)>>) = 1
    BY <1>2, TotalOne
  <2>2. /\ <<Mqtt!Puts(9)>> \o e.desc \in Seq(Piece)
        /\ Total(<<Mqtt!Puts(9)>> \o e.desc) = 9 + Total(e.desc)
    BY <1>1, <2>1, TotalConcat, ZenonT(60)
  <2> QED BY <2>1, <2>2, TotalConcat
<1>4. Mqtt!Empty(139) = Holds(139, 0)
  BY Zenon DEF Mqtt!Empty, Holds
<1>5. /\ bare \in Nat /\ Total(e.desc) \in Nat /\ Total(more) \in Nat
      /\ Filled(139, 0 + bare, body)
  BY <1>1, <1>3, <1>4, PutAll, SMTT(60)
<1>6. bare < 139 /\ body = Holds(139, bare)
  <2>1. ~body.overflow
    <3>1. Mqtt!MetaBody(160 - 21, e, FALSE) = Mqtt!Appended(Mqtt!Empty(160 - 21), e.body)
      BY DEF Mqtt!MetaBody
    <3>2. 160 - 21 = 139
      OBVIOUS
    <3>3. ~Mqtt!MetaBody(160 - 21, e, FALSE).overflow
      BY Zenon DEF Mqtt!MetaFits
    <3>4. Mqtt!MetaBody(160 - 21, e, FALSE) = body
      BY <3>1, <3>2
    <3> HIDE DEF body
    <3> QED BY <3>3, <3>4, Zenon
  <2>2. body \notin Spilled(139)
    <3> HIDE DEF body
    <3> QED BY <2>1 DEF Spilled
  <2>3. 0 + bare = bare
    BY <1>5
  <2> HIDE DEF body, bare
  <2> QED BY <1>5, <2>2, <2>3 DEF Filled
<1>7. Filled(139, bare + Total(more), full)
  <2> HIDE DEF more, bare
  <2> QED BY <1>3, <1>5, <1>6, PutAll
<1>8. bare + Total(more) = bare + 10 + Total(e.desc)
  <2> HIDE DEF more, bare
  <2> QED BY <1>3, <1>5
<1>9. Mqtt!MetaBody(139, e, TRUE) =
        IF e.desc = <<>> THEN body
        ELSE IF full.overflow THEN [full EXCEPT !.overflow = FALSE, !.len = body.len]
        ELSE full
  BY DEF Mqtt!MetaBody
<1> HIDE DEF more, bare, body, full
<1> DEFINE with == bare + 10 + Total(e.desc)
           n    == IF e.desc # <<>> /\ with < 139 THEN with ELSE bare
<1>10. n \in Nat /\ n < 139
  BY <1>5, <1>6
<1>11. Mqtt!MetaBody(139, e, TRUE) = Holds(139, n)
  <2>1. CASE e.desc = <<>>
    <3>1. Mqtt!MetaBody(139, e, TRUE) = body
      BY <2>1, <1>9
    <3>2. n = bare
      BY <2>1
    <3> QED BY <3>1, <3>2, <1>6
  <2>2. CASE e.desc # <<>> /\ with < 139
    <3>1. full = Holds(139, with) /\ n = with
      BY <2>2, <1>7, <1>8 DEF Filled
    <3>2. ~full.overflow
      BY <3>1 DEF Holds
    <3> QED BY <2>2, <3>1, <3>2, <1>9
  <2>3. CASE e.desc # <<>> /\ ~(with < 139)
    <3>1. full \in Spilled(139) /\ n = bare
      BY <2>3, <1>7, <1>8 DEF Filled
    <3>2. full.overflow
      BY <3>1 DEF Spilled
    <3>3. Mqtt!MetaBody(139, e, TRUE) = [full EXCEPT !.overflow = FALSE, !.len = body.len]
      BY <2>3, <3>2, <1>9
    <3>4. body.len = bare
      BY <1>6 DEF Holds
    <3>5. [full EXCEPT !.overflow = FALSE, !.len = bare] = Holds(139, bare)
      BY <3>1, RolledBack, ZenonT(60)
    <3> QED BY <3>1, <3>3, <3>4, <3>5, ZenonT(60)
  <2> QED BY <2>1, <2>2, <2>3
<1> QED BY <1>10, <1>11 DEF bare

(* The payload is the body and the 21 characters of the trailer, whole.    *)
LEMMA PayloadFits ==
  ASSUME NEW e \in Described, Mqtt!MetaFits(e)
  PROVE  LET with == Total(e.body) + 10 + Total(e.desc)
             sent == Mqtt!MetaPayload(e)
         IN  /\ ~sent.overflow
             /\ sent.len = 21 + (IF e.desc # <<>> /\ with < 160 - 21 THEN with ELSE Total(e.body))
<1> DEFINE with == Total(e.body) + 10 + Total(e.desc)
           n    == IF e.desc # <<>> /\ with < 139 THEN with ELSE Total(e.body)
           body == Mqtt!MetaBody(160 - 21, e, TRUE)
<1>1. n \in Nat /\ n < 139 /\ Mqtt!MetaBody(139, e, TRUE) = Holds(139, n)
  BY BodyHolds
<1>2. body = Holds(139, n)
  <2>1. 160 - 21 = 139
    OBVIOUS
  <2> HIDE DEF n
  <2> QED BY <1>1, <2>1
<1>3. n = IF e.desc # <<>> /\ with < 160 - 21 THEN with ELSE Total(e.body)
  OBVIOUS
<1> HIDE DEF n, with, body
<1>4. [body EXCEPT !.size = 160] = Holds(160, n)
  <2>1. \A no, size : [[size |-> 139, len |-> n, overflow |-> no] EXCEPT !.size = size]
                        = [size |-> size, len |-> n, overflow |-> no]
    OBVIOUS
  <2> QED BY <1>2, <2>1, Zenon DEF Holds
<1>5. Mqtt!Printf(21) \in Piece /\ Mqtt!Printf(21).n = 21
  BY DEF Mqtt!Printf, Piece
<1>6. Mqtt!MetaPayload(e) = Mqtt!Append1(Holds(160, n), Mqtt!Printf(21))
  BY <1>4, Zenon DEF Mqtt!MetaPayload, body
<1>7. Filled(160, n, Holds(160, n))
  BY <1>1 DEF Filled
<1>8. Filled(160, n + 21, Mqtt!MetaPayload(e))
  BY <1>1, <1>5, <1>6, <1>7, PutOne
<1>9. Mqtt!MetaPayload(e) = Holds(160, n + 21)
  BY <1>1, <1>8 DEF Filled
<1>10. ~Holds(160, n + 21).overflow /\ Holds(160, n + 21).len = n + 21
  BY DEF Holds
<1>11. n + 21 = 21 + n
  BY <1>1
<1> QED BY <1>3, <1>9, <1>10, <1>11 DEF with

LEMMA PairLength ==
  ASSUME NEW a \in W, NEW b \in W
  PROVE  <<a, b>> \in Seq(W) /\ Mqtt!LengthOf(<<a, b>>) = Lengths[a] + Lengths[b]
<1>1. /\ <<a>> \in Seq(W) /\ <<b>> \in Seq(W) /\ <<a, b>> \in Seq(W)
      /\ Len(<<a>>) = 1 /\ Len(<<b>>) = 1 /\ Len(<<a, b>>) = 2
  OBVIOUS
<1>2. <<a, b>> = <<a>> \o <<b>>
  <2> DEFINE u == <<a>> \o <<b>>
  <2>1. u \in Seq(W) /\ Len(u) = 2 /\ u[1] = a /\ u[2] = b
    BY <1>1
  <2>2. \A k \in 1 .. Len(u) : u[k] = <<a, b>>[k]
    BY <2>1
  <2> QED BY <1>1, <2>1, <2>2, SeqEqual
<1>3. Mqtt!LengthOf(<<a>>) = Lengths[a] /\ Mqtt!LengthOf(<<b>>) = Lengths[b]
  BY LengthSmall
<1>4. Mqtt!LengthOf(<<a>> \o <<b>>) = Mqtt!LengthOf(<<a>>) + Mqtt!LengthOf(<<b>>)
  BY <1>1, LengthConcat
<1> QED BY <1>1, <1>2, <1>3, <1>4

(* The topics' lengths. *)
LEMMA LengthOfTopics ==
  ASSUME NEW p \in Seq(W), NEW name \in Seq(W)
  PROVE  LET l == Mqtt!LengthOf(p)
             m == Mqtt!LengthOf(name)
         IN  /\ Mqtt!LengthOf(Mqtt!StateTopic(p, name)) = l + 1 + m
             /\ Mqtt!LengthOf(Mqtt!SetTopic(p, name)) = l + 1 + m + 4
             /\ Mqtt!LengthOf(Mqtt!MetaTopic(p, name)) = l + 7 + m
             /\ l \in Nat /\ m \in Nat
<1>1. Mqtt!LengthOf(p) \in Nat /\ Mqtt!LengthOf(name) \in Nat
  BY LengthFacts
<1>3. <<"/">> \in Seq(W) /\ Mqtt!LengthOf(<<"/">>) = 1
  BY LengthOfWords, LengthSmall
<1>4. <<"/", "set">> \in Seq(W) /\ Mqtt!LengthOf(<<"/", "set">>) = 1 + 3
  BY PairLength, LengthOfWords
<1>5. <<"/", "$">> \in Seq(W) /\ Mqtt!LengthOf(<<"/", "$">>) = 1 + 1
  BY PairLength, LengthOfWords
<1>6. <<"meta", "/">> \in Seq(W) /\ Mqtt!LengthOf(<<"meta", "/">>) = 4 + 1
  BY PairLength, LengthOfWords
<1>7. <<"/", "$", "meta", "/">> \in Seq(W) /\ Mqtt!LengthOf(<<"/", "$", "meta", "/">>) = (1 + 1) + (4 + 1)
  <2>1. <<"/", "$", "meta", "/">> = <<"/", "$">> \o <<"meta", "/">>
    OBVIOUS
  <2> QED BY <1>5, <1>6, <2>1, LengthConcat, ZenonT(60)
<1>8. /\ p \o <<"/">> \in Seq(W) /\ Mqtt!LengthOf(p \o <<"/">>) = Mqtt!LengthOf(p) + 1
      /\ p \o <<"/", "$", "meta", "/">> \in Seq(W)
      /\ Mqtt!LengthOf(p \o <<"/", "$", "meta", "/">>) = Mqtt!LengthOf(p) + ((1 + 1) + (4 + 1))
  <2>1. p \o <<"/">> \in Seq(W) /\ Mqtt!LengthOf(p \o <<"/">>) = Mqtt!LengthOf(p) + 1
    BY <1>3, LengthConcat, ZenonT(60)
  <2> DEFINE meta == <<"/", "$", "meta", "/">>
  <2>2. meta \in Seq(W) /\ Mqtt!LengthOf(meta) = (1 + 1) + (4 + 1)
    BY <1>7
  <2> HIDE DEF meta
  <2>3. p \o meta \in Seq(W) /\ Mqtt!LengthOf(p \o meta) = Mqtt!LengthOf(p) + ((1 + 1) + (4 + 1))
    BY <2>2, LengthConcat
  <2> QED BY <2>1, <2>3 DEF meta
<1>9. /\ p \o <<"/">> \o name \in Seq(W)
      /\ Mqtt!LengthOf(p \o <<"/">> \o name) = (Mqtt!LengthOf(p) + 1) + Mqtt!LengthOf(name)
      /\ Mqtt!LengthOf(p \o <<"/", "$", "meta", "/">> \o name)
           = (Mqtt!LengthOf(p) + ((1 + 1) + (4 + 1))) + Mqtt!LengthOf(name)
  <2> DEFINE q == p \o <<"/">>
             r == p \o <<"/", "$", "meta", "/">>
  <2>1. /\ q \in Seq(W) /\ Mqtt!LengthOf(q) = Mqtt!LengthOf(p) + 1
        /\ r \in Seq(W) /\ Mqtt!LengthOf(r) = Mqtt!LengthOf(p) + ((1 + 1) + (4 + 1))
    BY <1>8, Zenon
  <2> HIDE DEF q, r
  <2>2. q \o name \in Seq(W) /\ Mqtt!LengthOf(q \o name) = Mqtt!LengthOf(q) + Mqtt!LengthOf(name)
    BY <2>1, LengthConcat, Zenon
  <2>3. Mqtt!LengthOf(r \o name) = Mqtt!LengthOf(r) + Mqtt!LengthOf(name)
    BY <2>1, LengthConcat, Zenon
  <2> QED BY <2>1, <2>2, <2>3, Zenon DEF q, r
<1>10. Mqtt!LengthOf(p \o <<"/">> \o name \o <<"/", "set">>)
         = ((Mqtt!LengthOf(p) + 1) + Mqtt!LengthOf(name)) + (1 + 3)
  BY <1>4, <1>9, LengthConcat, ZenonT(60)
<1>11. /\ Mqtt!StateTopic(p, name) = p \o <<"/">> \o name
       /\ Mqtt!SetTopic(p, name) = p \o <<"/">> \o name \o <<"/", "set">>
       /\ Mqtt!MetaTopic(p, name) = p \o <<"/", "$", "meta", "/">> \o name
  BY Zenon DEF Mqtt!StateTopic, Mqtt!SetTopic, Mqtt!MetaTopic
<1> QED BY <1>1, <1>9, <1>10, <1>11

LEMMA TopicsFit ==
  ASSUME NEW p \in Seq(W), NEW d \in Seq(Described), Mqtt!InitAccepts(p, d), NEW use \in UsesOf(d)
  PROVE  Mqtt!FitsTopic(TopicFor(p, d, use))
<1>1. Mqtt!LengthOf(p) + 14 <= 64 /\ Mqtt!LengthOf(p) \in Nat
  <2>1. Mqtt!LengthOf(p) + 14 <= 64
    BY DEF Mqtt!InitAccepts, Mqtt!PrefixAccepted
  <2> QED BY <2>1, LengthFacts
<1>2. CASE use[2] \in {"table", "id"}
  <2>1. ASSUME NEW w \in {"table", "id"}
        PROVE  <<"$", w>> \in Seq(W) /\ Mqtt!LengthOf(<<"$", w>>) = 1 + Lengths[w] /\ Lengths[w] \in {2, 5}
    <3>1. w \in W /\ "$" \in W /\ Lengths[w] \in {2, 5} /\ Lengths["$"] = 1
      BY LengthOfWords
    <3> QED BY <3>1, PairLength
  <2>2. TopicFor(p, d, use) = Mqtt!MetaTopic(p, <<"$", use[2]>>)
    BY <1>2 DEF TopicFor, Mqtt!TableTopic, Mqtt!IdTopic
  <2>3. Mqtt!LengthOf(TopicFor(p, d, use)) = Mqtt!LengthOf(p) + 7 + Mqtt!LengthOf(<<"$", use[2]>>)
    BY <1>2, <2>1, <2>2, LengthOfTopics, ZenonT(60)
  <2>4. Mqtt!LengthOf(<<"$", use[2]>>) \in {3, 6}
    <3>1. Mqtt!LengthOf(<<"$", use[2]>>) = 1 + Lengths[use[2]] /\ Lengths[use[2]] \in {2, 5}
      BY <1>2, <2>1, Zenon
    <3> DEFINE n == Lengths[use[2]]
               l == Mqtt!LengthOf(<<"$", use[2]>>)
    <3>2. l = 1 + n /\ n \in {2, 5}
      BY <3>1
    <3> HIDE DEF n, l
    <3>3. l \in {3, 6}
      BY <3>2
    <3> QED BY <3>3 DEF l
  <2>5. Mqtt!LengthOf(TopicFor(p, d, use)) < 64
    BY <1>1, <2>3, <2>4
  <2> QED BY <2>5 DEF Mqtt!FitsTopic
<1>3. CASE use[2] \in {"state", "set", "meta"}
  <2> DEFINE name == d[use[1]].name
  <2>1. use[1] \in DOMAIN d
    BY <1>3 DEF UsesOf
  <2>2. name \in Seq(W) /\ Mqtt!LengthOf(name) \in 1 .. 31 /\ Mqtt!LengthOf(p) + 7 + Mqtt!LengthOf(name) + 1 <= 64
    BY <2>1, AcceptedNames
  <2>3. TopicFor(p, d, use) \in {Mqtt!StateTopic(p, name), Mqtt!SetTopic(p, name), Mqtt!MetaTopic(p, name)}
    BY <1>3 DEF TopicFor
  <2> HIDE DEF name
  <2>4. /\ Mqtt!LengthOf(Mqtt!StateTopic(p, name)) < 64
        /\ Mqtt!LengthOf(Mqtt!SetTopic(p, name)) < 64
        /\ Mqtt!LengthOf(Mqtt!MetaTopic(p, name)) < 64
    <3> DEFINE l == Mqtt!LengthOf(p)
               m == Mqtt!LengthOf(name)
    <3>1. /\ Mqtt!LengthOf(Mqtt!StateTopic(p, name)) = l + 1 + m
          /\ Mqtt!LengthOf(Mqtt!SetTopic(p, name)) = l + 1 + m + 4
          /\ Mqtt!LengthOf(Mqtt!MetaTopic(p, name)) = l + 7 + m
      BY <2>2, LengthOfTopics
    <3>2. l \in Nat /\ m \in 1 .. 31 /\ l + 7 + m + 1 <= 64
      BY <1>1, <2>2
    <3> HIDE DEF l, m
    <3> QED BY <3>1, <3>2
  <2>5. Mqtt!LengthOf(TopicFor(p, d, use)) < 64
    BY <2>3, <2>4
  <2> QED BY <2>5 DEF Mqtt!FitsTopic
<1> QED BY <1>2, <1>3 DEF UsesOf

(***************************************************************************)
(* What regmqtt_init accepts, regmqtt_announce can publish, whatever the   *)
(* prefix, the names and the descriptions are: no topic and no meta of an  *)
(* accepted table is ever cut short.                                       *)
(***************************************************************************)
THEOREM Announces == Spec => []AnnouncesWhatItTook
<1>1. TopicsAtHand => AnnouncesWhatItTook
  <2> SUFFICES ASSUME TopicsAtHand, answer = "bound" PROVE AnnouncesWhatItTook
    BY DEF AnnouncesWhatItTook
  <2>1. /\ prefix \in Seq(W) /\ described \in Seq(Described)
        /\ Mqtt!InitAccepts(prefix, described)
    BY DEF TopicsAtHand
  <2>2. Uses = UsesOf(described) /\ \A use : TopicOf(use) = TopicFor(prefix, described, use)
    BY DEF Uses, UsesOf, TopicOf, TopicFor
  <2>3. \A use \in Uses : Mqtt!FitsTopic(TopicOf(use))
    BY <2>1, <2>2, TopicsFit
  <2>4. ASSUME NEW i \in DOMAIN described
        PROVE  described[i] \in Described /\ Mqtt!MetaFits(described[i])
    <3>1. described[i] \in Described
      BY <2>1
    <3>2. Mqtt!MetaFits(described[i])
      BY <2>1 DEF Mqtt!InitAccepts
    <3> QED BY <3>1, <3>2
  <2>5. ASSUME NEW i \in DOMAIN described
        PROVE  LET e        == described[i]
                   sent     == Mqtt!MetaPayload(e)
                   bare     == Total(e.body)
                   withDesc == bare + 10 + Total(e.desc)
               IN  /\ ~sent.overflow
                   /\ sent.len = 21 + (IF e.desc # <<>> /\ withDesc < 160 - 21 THEN withDesc ELSE bare)
    BY <2>4, PayloadFits
  <2> QED BY <2>3, <2>5 DEF AnnouncesWhatItTook
<1> QED BY <1>1, AlwaysTopics, PTL

-----------------------------------------------------------------------------
(***************************************************************************)
(* The generator's rules.  The numbers a description may hold are what     *)
(* YAML can say: integers, and for a FLOAT any bits.                       *)
(***************************************************************************)
Sayable(type) == IF type = "FLOAT" THEN Raw ELSE Int

IsYamlRow(r) ==
  /\ r.type \in Types /\ r.perm = "RW" /\ r.name \in Seq(W) /\ r.modbus \in 0 .. Top
  /\ \A s \in {r.min, r.max, r.init} : s = {} \/ \E x \in Sayable(r.type) : s = {x}

LEMMA SameOps ==
  /\ \A x : Gen!FloatKey(x) = FloatKey(x) /\ Gen!FloatMag(x) = FloatMag(x)
  /\ \A type : Gen!Numbers(type) = Numbers(type)
  /\ Gen!Raw = Raw
<1>1. \A x : Gen!FloatKey(x) = FloatKey(x) /\ Gen!FloatMag(x) = FloatMag(x)
  BY DEF Gen!FloatKey, FloatKey, Gen!FloatMag, FloatMag
<1>2. \A type : Gen!Numbers(type) = Numbers(type)
  <2>1. Gen!SignedTypes = SignedTypes /\ \A type : Gen!Half(type) = Half(type)
    BY DEF Gen!SignedTypes, SignedTypes, Gen!Half, Half
  <2> QED BY <2>1 DEF Gen!Numbers, Numbers
<1> QED BY <1>1, <1>2 DEF Gen!Raw, Raw

LEMMA TheOne == \A x : (CHOOSE v \in {x} : TRUE) = x
OBVIOUS

(* The bits of a number are the number again, in the types that have it.   *)
LEMMA BitsFacts ==
  ASSUME NEW type \in Types, type # "FLOAT", NEW x \in Int
  PROVE  /\ Gen!Bits(x) \in Raw
         /\ x \in Numbers(type) => Number(type, Gen!Bits(x)) = x
         /\ x \in Numbers(type) /\ Gen!Bits(x) = 0 => x = 0
         /\ Number(type, Gen!Bits(x)) \in Int
<1> DEFINE y == Gen!Bits(x)
           h == Half(type)
<1>1. h \in Nat /\ 1 <= h /\ h <= H32 /\ H32 \in Nat
  BY HalfBounds, WidthAssumption
<1>2. y = x % (2 * H32)
  BY DEF Gen!Bits
<1>3. 2 * H32 \in Nat \ {0}
  BY <1>1
<1>4. y \in Raw
  <2> DEFINE m == 2 * H32
  <2>1. m \in Nat \ {0}
    BY <1>3
  <2> HIDE DEF m
  <2>2. x % m \in 0 .. (m - 1)
    BY <2>1, ModIsSmall
  <2> QED BY <1>2, <2>2 DEF m, Raw
<1>5. x \in 0 .. (2 * H32 - 1) => y = x
  <2>1. x \in 0 .. (2 * H32 - 1) => x % (2 * H32) = x
    BY <1>3, ModOfSmall
  <2> QED BY <1>2, <2>1
<1>6. x \in -H32 .. -1 => y = x + 2 * H32
  <2> SUFFICES ASSUME x \in -H32 .. -1 PROVE x % (2 * H32) = x + 2 * H32
    BY <1>2
  <2> QED BY <1>1
<1> HIDE DEF y, h
<1>7. CASE type \in SignedTypes
  <2>1. Number(type, y) = AsInt32(y) /\ Numbers(type) = -h .. (h - 1)
    BY <1>7 DEF Number, Numbers, SignedTypes, h
  <2>2. x \in Numbers(type) => AsInt32(y) = x
    BY <1>1, <1>5, <1>6, <2>1 DEF AsInt32
  <2>3. x \in Numbers(type) /\ y = 0 => x = 0
    BY <1>1, <1>5, <1>6, <2>1
  <2>4. AsInt32(y) \in Int
    BY <1>4, AsInt32Facts
  <2> QED BY <1>4, <2>1, <2>2, <2>3, <2>4 DEF y
<1>8. CASE type \notin SignedTypes
  <2>1. Number(type, y) = y
    BY <1>8 DEF Number
  <2>2. x \in Numbers(type) => x \in 0 .. (2 * H32 - 1)
    <3>1. CASE type = "BOOL"
      BY <3>1, <1>1 DEF Numbers, SignedTypes
    <3>2. CASE type # "BOOL"
      <4>1. Numbers(type) = 0 .. (2 * h - 1)
        BY <3>2, <1>8 DEF Numbers, h
      <4> QED BY <4>1, <1>1
    <3> QED BY <3>1, <3>2
  <2>3. y \in Int
    BY <1>1, <1>4 DEF Raw
  <2> QED BY <1>4, <1>5, <2>1, <2>2, <2>3 DEF y
<1> QED BY <1>7, <1>8

(* The modbus rules: the map the generator writes is one regmb_init takes. *)
LEMMA GeneratedMapAccepted ==
  ASSUME Gen!Validated(yaml), NEW n \in Nat, DOMAIN yaml = 1 .. n,
         \A i \in DOMAIN yaml : IsYamlRow(yaml[i])
  PROVE  MapAccepted(GeneratedMap)
<1> DEFINE m == GeneratedMap
<1>1. /\ DOMAIN m.addr = DOMAIN yaml /\ m.top = Top
      /\ \A i \in DOMAIN yaml : m.addr[i] = yaml[i].modbus /\ m.span[i] = Gen!Words(yaml[i].type)
  BY DEF GeneratedMap
<1>2. \A i \in DOMAIN yaml : yaml[i].modbus \in Nat /\ Gen!Words(yaml[i].type) \in Nat
  <2>1. \A type : Gen!Words(type) \in Nat
    BY DEF Gen!Words
  <2>2. \A i \in DOMAIN yaml : yaml[i].modbus \in Nat
    BY TablesAssumption DEF IsYamlRow
  <2> QED BY <2>1, <2>2
<1> HIDE DEF m
<1>3. ASSUME NEW a \in Mapped(m)
      PROVE  m.addr[a] + m.span[a] <= m.top
  <2>1. a \in DOMAIN yaml /\ yaml[a].modbus # 0
    BY <1>1 DEF Mapped
  <2>2. yaml[a].modbus + Gen!Words(yaml[a].type) - 1 <= Top - 1
    BY <2>1 DEF Gen!Validated, Gen!ModbusRules
  <2> QED BY <1>1, <1>2, <2>1, <2>2, TablesAssumption
<1>4. ASSUME NEW a \in Mapped(m), NEW b \in Mapped(m), b > a
      PROVE  ~(m.addr[a] < m.addr[b] + m.span[b] /\ m.addr[b] < m.addr[a] + m.span[a])
  <2>1. a \in DOMAIN yaml /\ yaml[a].modbus # 0 /\ b \in DOMAIN yaml /\ yaml[b].modbus # 0
    BY <1>1 DEF Mapped
  <2>2. a \in 1 .. (b - 1)
    BY <1>4, <2>1
  <2>3. ~Gen!Overlap(yaml[b], yaml[a])
    BY <2>1, <2>2 DEF Gen!Validated
  <2> QED BY <1>1, <2>1, <2>3 DEF Gen!Overlap
<1> QED BY <1>3, <1>4 DEF MapAccepted, m

(***************************************************************************)
(* The rules of the values: the row the generator writes is sane, the      *)
(* variable starts with a value the row allows, and the client's check     *)
(* and the device's agree on every value.                                  *)
(***************************************************************************)
ChecksAgree(r) ==
  \A v \in Gen!Values(r) :
    Gen!CheckValue(r, v) <=> /\ Allowed(Gen!RowOf(r), Gen!Bits(v))
                             /\ Number(r.type, Gen!Bits(v)) = Gen!Key(r.type, v)

Agrees(r) == /\ Sane(Gen!RowOf(r)) /\ Allowed(Gen!RowOf(r), Gen!StartsWith(r))
             /\ ChecksAgree(r)

(* min and max: none, or both.                                             *)
LEMMA RangeIs ==
  ASSUME NEW r, IsYamlRow(r), Gen!RangeRules(r)
  PROVE  \/ r.min = {} /\ r.max = {} /\ Gen!RowOf(r) = [type |-> r.type, perm |-> "RW", min |-> 0, max |-> 0]
         \/ \E lo, hi \in Sayable(r.type) :
              /\ r.min = {lo} /\ r.max = {hi} /\ r.type # "BOOL"
              /\ Gen!IsOf(r.type, lo) /\ Gen!IsOf(r.type, hi)
              /\ Gen!Key(r.type, lo) <= Gen!Key(r.type, hi)
              /\ ~(Gen!Key(r.type, lo) = 0 /\ Gen!Key(r.type, hi) = 0)
              /\ Gen!RowOf(r) = [type |-> r.type, perm |-> "RW", min |-> Gen!Bits(lo), max |-> Gen!Bits(hi)]
<1>1. r.perm = "RW"
  BY DEF IsYamlRow
<1>2. CASE r.min = {} /\ r.max = {}
  BY <1>1, <1>2 DEF Gen!RowOf
<1>3. CASE r.min # {} \/ r.max # {}
  <2>1. r.min # {} /\ r.max # {} /\ r.type # "BOOL"
    BY <1>3 DEF Gen!RangeRules
  <2>2. PICK lo \in Sayable(r.type), hi \in Sayable(r.type) : r.min = {lo} /\ r.max = {hi}
    BY <2>1 DEF IsYamlRow
  <2>3. /\ Gen!IsOf(r.type, lo) /\ Gen!IsOf(r.type, hi)
        /\ Gen!Key(r.type, lo) <= Gen!Key(r.type, hi)
        /\ ~(Gen!Key(r.type, lo) = 0 /\ Gen!Key(r.type, hi) = 0)
    BY <1>3, <2>2 DEF Gen!RangeRules
  <2>4. Gen!RowOf(r) = [type |-> r.type, perm |-> "RW", min |-> Gen!Bits(lo), max |-> Gen!Bits(hi)]
    BY <1>1, <2>1, <2>2, TheOne DEF Gen!RowOf
  <2> QED BY <2>1, <2>2, <2>3, <2>4
<1> QED BY <1>2, <1>3

LEMMA InitIs ==
  ASSUME NEW r, IsYamlRow(r)
  PROVE  Gen!InitOf(r) \in Sayable(r.type)
<1>1. CASE r.init = {}
  BY <1>1, WidthAssumption DEF Gen!InitOf, Sayable, Raw
<1>2. CASE \E x \in Sayable(r.type) : r.init = {x}
  BY <1>2, TheOne DEF Gen!InitOf
<1> QED BY <1>1, <1>2 DEF IsYamlRow

InRange(r, k) == \A lo \in r.min, hi \in r.max : k \in Gen!Key(r.type, lo) .. Gen!Key(r.type, hi)

LEMMA IntegersAgree ==
  ASSUME NEW r, IsYamlRow(r), r.type # "FLOAT", Gen!RangeRules(r), Gen!InitRules(r)
  PROVE  Agrees(r)
<1> DEFINE T == r.type
           N == Numbers(T)
           e == Gen!RowOf(r)
<1>1. T \in Types /\ Sayable(T) = Int /\ \A v : Gen!Key(T, v) = v
  BY DEF IsYamlRow, Sayable, Gen!Key
<1>2. /\ N \subseteq Int
      /\ \A lo, hi \in N : lo .. hi \subseteq N
      /\ T = "BOOL" => N = {0, 1}
  <2>1. Half(T) \in Nat /\ 1 <= Half(T)
    BY <1>1, HalfBounds
  <2>2. CASE T \in SignedTypes
    <3>1. N = -Half(T) .. (Half(T) - 1)
      BY <2>2, <1>1 DEF Numbers, SignedTypes
    <3>2. T # "BOOL"
      BY <2>2 DEF SignedTypes
    <3> HIDE DEF N, T
    <3> QED BY <2>1, <3>1, <3>2
  <2>3. CASE T = "BOOL"
    <3>1. N = {0, 1}
      BY <2>3 DEF Numbers, SignedTypes
    <3> HIDE DEF N, T
    <3> QED BY <3>1
  <2>4. CASE T \notin SignedTypes /\ T # "BOOL"
    <3>1. N = 0 .. (2 * Half(T) - 1)
      BY <2>4, <1>1 DEF Numbers
    <3> HIDE DEF N, T
    <3> QED BY <2>1, <2>4, <3>1
  <2> QED BY <2>2, <2>3, <2>4
<1>3. \A v : Gen!IsOf(T, v) <=> v \in N
  BY <1>1, <1>2, SameOps DEF Gen!IsOf
<1>4. \A x \in Int : /\ x \in N => Number(T, Gen!Bits(x)) = x
                     /\ x \in N /\ Gen!Bits(x) = 0 => x = 0
  BY <1>1, BitsFacts
<1> HIDE DEF N
<1>5. /\ e.type = T /\ e.perm = "RW"
      /\ Interval(e) \cap N = {k \in N : InRange(r, k)}
  <2>1. CASE r.min = {} /\ r.max = {} /\ e = [type |-> T, perm |-> "RW", min |-> 0, max |-> 0]
    <3>1. e.type = T /\ e.perm = "RW" /\ ~HasRange(e)
      BY <2>1 DEF HasRange
    <3>2. Interval(e) = N
      BY <3>1 DEF Interval, N
    <3>3. \A k : InRange(r, k)
      BY <2>1 DEF InRange
    <3> QED BY <3>1, <3>2, <3>3
  <2>2. ASSUME NEW lo \in Int, NEW hi \in Int, r.min = {lo}, r.max = {hi}, T # "BOOL",
               lo \in N, hi \in N, ~(lo = 0 /\ hi = 0),
               e = [type |-> T, perm |-> "RW", min |-> Gen!Bits(lo), max |-> Gen!Bits(hi)]
        PROVE  /\ e.type = T /\ e.perm = "RW"
               /\ Interval(e) \cap N = {k \in N : InRange(r, k)}
    <3>1. e.type = T /\ e.perm = "RW" /\ e.min = Gen!Bits(lo) /\ e.max = Gen!Bits(hi)
      BY <2>2
    <3>2. HasRange(e)
      BY <2>2, <3>1, <1>4 DEF HasRange
    <3>3. Interval(e) = lo .. hi
      BY <2>2, <3>1, <3>2, <1>4 DEF Interval
    <3>4. \A k : InRange(r, k) <=> k \in lo .. hi
      BY <2>2, <1>1 DEF InRange
    <3> QED BY <3>1, <3>3, <3>4
  <2> HIDE DEF e, T
  <2>3. \/ r.min = {} /\ r.max = {} /\ e = [type |-> T, perm |-> "RW", min |-> 0, max |-> 0]
        \/ \E lo, hi \in Int :
             /\ r.min = {lo} /\ r.max = {hi} /\ T # "BOOL"
             /\ lo \in N /\ hi \in N /\ ~(lo = 0 /\ hi = 0)
             /\ e = [type |-> T, perm |-> "RW", min |-> Gen!Bits(lo), max |-> Gen!Bits(hi)]
    <3>1. \/ r.min = {} /\ r.max = {} /\ e = [type |-> T, perm |-> "RW", min |-> 0, max |-> 0]
          \/ \E lo, hi \in Sayable(T) :
              /\ r.min = {lo} /\ r.max = {hi} /\ T # "BOOL"
              /\ Gen!IsOf(T, lo) /\ Gen!IsOf(T, hi)
              /\ Gen!Key(T, lo) <= Gen!Key(T, hi)
              /\ ~(Gen!Key(T, lo) = 0 /\ Gen!Key(T, hi) = 0)
              /\ e = [type |-> T, perm |-> "RW", min |-> Gen!Bits(lo), max |-> Gen!Bits(hi)]
      BY RangeIs DEF e, T
    <3> QED BY <3>1, <1>1, <1>3
  <2> QED BY <2>1, <2>2, <2>3
<1> HIDE DEF e
<1>6. \A x : Allowed(e, x) <=> Number(T, x) \in N /\ InRange(r, Number(T, x))
  <2>1. \A x : Allowed(e, x) <=> Number(T, x) \in N \cap Interval(e)
    BY <1>5 DEF Allowed, N
  <2> QED BY <2>1, <1>5
<1>7. Sane(e)
  BY <1>5 DEF Sane
<1>8. Allowed(e, Gen!StartsWith(r))
  <2> DEFINE x == Gen!InitOf(r)
  <2>1. x \in Int
    BY <1>1, InitIs
  <2>2. x \in N /\ InRange(r, x)
    BY <1>1, <1>3 DEF Gen!InitRules, InRange
  <2>3. Gen!StartsWith(r) = Gen!Bits(x)
    BY DEF Gen!StartsWith
  <2> HIDE DEF x
  <2> QED BY <1>4, <1>6, <2>1, <2>2, <2>3
<1>9. \A v \in Int : Gen!CheckValue(r, v) <=> v \in N /\ InRange(r, v)
  <2> SUFFICES ASSUME NEW v \in Int PROVE Gen!CheckValue(r, v) <=> v \in N /\ InRange(r, v)
    OBVIOUS
  <2>1. CASE r.min = {} /\ r.max = {}
    <3>1. InRange(r, v)
      BY <2>1 DEF InRange
    <3>2. Gen!CheckValue(r, v) <=> v \in N
      <4>1. CASE T = "BOOL"
        BY <4>1, <1>2 DEF Gen!CheckValue
      <4>2. CASE T # "BOOL"
        BY <4>2, <2>1, SameOps DEF Gen!CheckValue, N
      <4> QED BY <4>1, <4>2
    <3> QED BY <3>1, <3>2
  <2>2. CASE \E lo, hi \in N : r.min = {lo} /\ r.max = {hi} /\ T # "BOOL"
    <3>1. PICK lo \in N, hi \in N : r.min = {lo} /\ r.max = {hi} /\ T # "BOOL"
      BY <2>2
    <3>2. Gen!CheckValue(r, v) <=> v \in lo .. hi
      BY <3>1 DEF Gen!CheckValue
    <3>3. InRange(r, v) <=> v \in lo .. hi
      BY <3>1, <1>1 DEF InRange
    <3> QED BY <3>1, <3>2, <3>3, <1>2
  <2>3. \/ r.min = {} /\ r.max = {}
        \/ \E lo, hi \in Sayable(T) : /\ r.min = {lo} /\ r.max = {hi} /\ T # "BOOL"
                                      /\ Gen!IsOf(T, lo) /\ Gen!IsOf(T, hi)
    BY RangeIs
  <2> QED BY <2>1, <2>2, <2>3, <1>3
<1>10. ASSUME NEW v \in Gen!Values(r)
       PROVE  Gen!CheckValue(r, v) <=> /\ Allowed(e, Gen!Bits(v))
                                       /\ Number(T, Gen!Bits(v)) = Gen!Key(T, v)
  <2>1. v \in Int
    BY WidthAssumption DEF Gen!Values
  <2> DEFINE k == Number(T, Gen!Bits(v))
  <2>2. Gen!CheckValue(r, v) <=> v \in N /\ InRange(r, v)
    BY <2>1, <1>9
  <2>3. Allowed(e, Gen!Bits(v)) <=> k \in N /\ InRange(r, k)
    BY <1>6
  <2>4. v \in N => k = v
    BY <2>1, <1>4
  <2>5. Gen!Key(T, v) = v
    BY <1>1
  <2> HIDE DEF k
  <2> QED BY <2>2, <2>3, <2>4, <2>5 DEF k
<1> QED BY <1>7, <1>8, <1>10 DEF Agrees, ChecksAgree, e

(* The same for a FLOAT, whose numbers are given as bits.                  *)
LEMMA FloatsAgree ==
  ASSUME NEW r, IsYamlRow(r), r.type = "FLOAT", Gen!RangeRules(r), Gen!InitRules(r)
  PROVE  Agrees(r)
<1> DEFINE N == -(INF - 1) .. (INF - 1)
           e == Gen!RowOf(r)
<1>1. /\ Sayable(r.type) = Raw /\ Raw \subseteq Int
      /\ \A v : Gen!Key(r.type, v) = FloatKey(v)
      /\ \A v : Number(r.type, v) = FloatKey(v)
      /\ Numbers(r.type) = N
  <2>1. Sayable(r.type) = Raw /\ Raw \subseteq Int
    BY WidthAssumption DEF Sayable, Raw
  <2>2. \A v : Gen!Key(r.type, v) = FloatKey(v) /\ Number(r.type, v) = FloatKey(v)
    BY SameOps DEF Gen!Key, Number, SignedTypes
  <2>3. Numbers(r.type) = N
    BY DEF Numbers, SignedTypes
  <2> QED BY <2>1, <2>2, <2>3
<1>2. \A x \in Raw : Gen!Bits(x) = x
  <2> DEFINE m == 2 * H32
  <2>1. m \in Nat /\ Raw = 0 .. (m - 1)
    BY WidthAssumption DEF Raw
  <2>2. \A x : Gen!Bits(x) = x % m
    BY DEF Gen!Bits
  <2> HIDE DEF m
  <2> QED BY <2>1, <2>2, ModOfSmall
<1>3. \A x \in Raw : /\ FloatKey(x) \in Int
                     /\ FloatKey(x) \in N <=> FloatMag(x) < INF
                     /\ FloatMag(x) < INF => ~IsNaN(x)
  <2> SUFFICES ASSUME NEW x \in Raw
               PROVE  /\ FloatKey(x) \in Int
                      /\ FloatKey(x) \in N <=> FloatMag(x) < INF
                      /\ FloatMag(x) < INF => ~IsNaN(x)
    OBVIOUS
  <2>1. FloatMag(x) \in Int
    BY WidthAssumption DEF FloatMag, Raw
  <2>2. ~IsNaN(x) /\ ~IsInf(x) <=> FloatMag(x) < INF
    BY <2>1, WidthAssumption DEF IsNaN, IsInf
  <2> QED BY <2>2, FloatFacts
<1>4. \A x \in Raw : Gen!IsOf(r.type, x) => FloatMag(x) < INF
  <2> SUFFICES ASSUME NEW x \in Raw, Gen!IsOf(r.type, x) PROVE FloatMag(x) < INF
    OBVIOUS
  <2>1. FloatMag(x) = 0 \/ FloatMag(x) \in 2 .. (INF - 1)
    BY SameOps DEF Gen!IsOf, Gen!FiniteFloat
  <2> QED BY <2>1, WidthAssumption
<1> HIDE DEF N
<1>5. /\ e.type = "FLOAT" /\ e.perm = "RW" /\ Sane(e)
      /\ Interval(e) \cap N = {k \in N : InRange(r, k)}
  <2>1. CASE r.min = {} /\ r.max = {} /\ e = [type |-> r.type, perm |-> "RW", min |-> 0, max |-> 0]
    <3>1. e.type = "FLOAT" /\ e.perm = "RW" /\ ~HasRange(e) /\ e.min = 0 /\ e.max = 0
      BY <2>1 DEF HasRange
    <3>2. Interval(e) = N
      BY <3>1, <1>1 DEF Interval
    <3>3. \A k : InRange(r, k)
      BY <2>1 DEF InRange
    <3>4. Sane(e)
      BY <3>1, WidthAssumption DEF Sane, IsNaN, FloatMag
    <3> QED BY <3>1, <3>2, <3>3, <3>4
  <2>2. ASSUME NEW lo \in Raw, NEW hi \in Raw, r.min = {lo}, r.max = {hi},
               FloatMag(lo) < INF, FloatMag(hi) < INF, ~(FloatKey(lo) = 0 /\ FloatKey(hi) = 0),
               e = [type |-> r.type, perm |-> "RW", min |-> lo, max |-> hi]
        PROVE  /\ e.type = "FLOAT" /\ e.perm = "RW" /\ Sane(e)
               /\ Interval(e) \cap N = {k \in N : InRange(r, k)}
    <3>1. e.type = "FLOAT" /\ e.perm = "RW" /\ e.min = lo /\ e.max = hi
      BY <2>2
    <3>2. HasRange(e)
      <4>1. lo = 0 => FloatKey(lo) = 0
        BY WidthAssumption DEF FloatKey
      <4>2. hi = 0 => FloatKey(hi) = 0
        BY WidthAssumption DEF FloatKey
      <4> QED BY <2>2, <3>1, <4>1, <4>2 DEF HasRange
    <3>3. Interval(e) = FloatKey(lo) .. FloatKey(hi)
      BY <3>1, <3>2, <1>1 DEF Interval
    <3>4. \A k : InRange(r, k) <=> k \in FloatKey(lo) .. FloatKey(hi)
      BY <2>2, <1>1 DEF InRange
    <3>5. Sane(e)
      BY <2>2, <3>1, <1>3 DEF Sane
    <3> QED BY <3>1, <3>3, <3>4, <3>5
  <2> HIDE DEF e
  <2>3. \/ r.min = {} /\ r.max = {} /\ e = [type |-> r.type, perm |-> "RW", min |-> 0, max |-> 0]
        \/ \E lo, hi \in Raw :
             /\ r.min = {lo} /\ r.max = {hi}
             /\ FloatMag(lo) < INF /\ FloatMag(hi) < INF /\ ~(FloatKey(lo) = 0 /\ FloatKey(hi) = 0)
             /\ e = [type |-> r.type, perm |-> "RW", min |-> lo, max |-> hi]
    <3>1. \/ r.min = {} /\ r.max = {} /\ e = [type |-> r.type, perm |-> "RW", min |-> 0, max |-> 0]
          \/ \E lo, hi \in Sayable(r.type) :
              /\ r.min = {lo} /\ r.max = {hi} /\ r.type # "BOOL"
              /\ Gen!IsOf(r.type, lo) /\ Gen!IsOf(r.type, hi)
              /\ Gen!Key(r.type, lo) <= Gen!Key(r.type, hi)
              /\ ~(Gen!Key(r.type, lo) = 0 /\ Gen!Key(r.type, hi) = 0)
              /\ e = [type |-> r.type, perm |-> "RW", min |-> Gen!Bits(lo), max |-> Gen!Bits(hi)]
      BY RangeIs DEF e
    <3> QED BY <3>1, <1>1, <1>2, <1>4, ZenonT(60)
  <2> QED BY <2>1, <2>2, <2>3
<1> HIDE DEF e
<1>6. \A x : Allowed(e, x) <=> FloatKey(x) \in N /\ InRange(r, FloatKey(x))
  <2>1. \A x : Allowed(e, x) <=> FloatKey(x) \in N \cap Interval(e)
    BY <1>1, <1>5 DEF Allowed
  <2> QED BY <2>1, <1>5
<1>7. Allowed(e, Gen!StartsWith(r))
  <2> DEFINE x == Gen!InitOf(r)
  <2>1. x \in Raw
    BY <1>1, InitIs
  <2>2. FloatMag(x) < INF
    BY <1>4, <2>1 DEF Gen!InitRules
  <2>3. InRange(r, FloatKey(x))
    BY <1>1 DEF Gen!InitRules, InRange
  <2>4. Gen!StartsWith(r) = x
    BY <2>1, <1>2 DEF Gen!StartsWith
  <2> HIDE DEF x
  <2> QED BY <1>3, <1>6, <2>1, <2>2, <2>3, <2>4
<1>8. ASSUME NEW v \in Gen!Values(r)
      PROVE  Gen!CheckValue(r, v) <=> /\ Allowed(e, Gen!Bits(v))
                                      /\ Number(r.type, Gen!Bits(v)) = Gen!Key(r.type, v)
  <2>1. v \in Raw
    BY SameOps DEF Gen!Values
  <2>2. Gen!CheckValue(r, v) <=> FloatMag(v) < INF /\ InRange(r, FloatKey(v))
    BY <1>1, SameOps DEF Gen!CheckValue, InRange
  <2>3. Gen!Bits(v) = v /\ (FloatKey(v) \in N <=> FloatMag(v) < INF)
    BY <2>1, <1>2, <1>3
  <2>4. Number(r.type, Gen!Bits(v)) = Gen!Key(r.type, v)
    BY <2>3, <1>1
  <2> QED BY <2>2, <2>3, <2>4, <1>6
<1> QED BY <1>5, <1>7, <1>8 DEF Agrees, ChecksAgree, e

(* The longest meta of an entry has 107 characters and the name's.         *)
LEMMA LongestMetaFits ==
  ASSUME NEW name \in Seq(W), Mqtt!LengthOf(name) \in 1 .. 31
  PROVE  /\ LongestMeta(name) \in Seq(Piece)
         /\ Mqtt!MetaFits([name |-> name, body |-> LongestMeta(name), desc |-> <<>>])
<1> DEFINE l == Mqtt!LengthOf(name)
           s == LongestMeta(name)
           z == Sizes(s)
<1>1. l \in Nat /\ l <= 31
  <2>1. l \in 1 .. 31
    OBVIOUS
  <2> HIDE DEF l
  <2> QED BY <2>1
<1>2. /\ s \in Seq(Piece) /\ Len(s) = 9
      /\ s[1].n = 10 + l /\ s[2].n = 15 /\ s[3].n = 12 /\ s[4].n = 11 /\ s[5].n = 7
      /\ s[6].n = 15 /\ s[7].n = 7 /\ s[8].n = 15 /\ s[9].n = 15
  <2> HIDE DEF l
  <2>1. \A n \in Nat : Mqtt!Puts(n) \in Piece /\ Mqtt!Puts(n).n = n /\ Mqtt!Printf(n) \in Piece /\ Mqtt!Printf(n).n = n
    BY DEF Mqtt!Puts, Mqtt!Printf, Piece
  <2>2. s = <<Mqtt!Puts(10 + l), Mqtt!Puts(15), Mqtt!Puts(12), Mqtt!Printf(11), Mqtt!Puts(7),
              Mqtt!Printf(15), Mqtt!Puts(7), Mqtt!Printf(15), Mqtt!Printf(15)>>
    BY <1>1 DEF LongestMeta, l
  <2>3. 10 + l \in Nat
    BY <1>1
  <2> HIDE DEF s
  <2>4. s \in Seq(Piece) /\ Len(s) = 9
    BY <2>1, <2>2, <2>3
  <2>5. /\ s[1].n = 10 + l /\ s[2].n = 15 /\ s[3].n = 12 /\ s[4].n = 11 /\ s[5].n = 7
        /\ s[6].n = 15 /\ s[7].n = 7 /\ s[8].n = 15 /\ s[9].n = 15
    BY <2>1, <2>2, <2>3
  <2> QED BY <2>4, <2>5
<1> HIDE DEF s
<1>3. /\ z \in Seq(Nat) /\ Len(z) = 9 /\ Total(s) = Mqtt!SumOf(z)
      /\ \A k \in 1 .. 9 : z[k] = s[k].n
  BY <1>2, SizesFacts
<1> HIDE DEF z, l
<1>4. PICK g : SumTo(g, 9, z) /\ Mqtt!SumOf(z) = g[9]
  <2>1. z \in Seq(Nat) /\ Len(z) \in Nat
    BY <1>3
  <2>2. PICK g : SumTo(g, Len(z), z) /\ Mqtt!SumOf(z) = g[Len(z)]
    BY <2>1, SumRun
  <2> QED BY <1>3, <2>2
<1>5. Total(s) = 107 + l
  <2>1. \A k \in 0 .. 9 : g[k] = IF k = 0 THEN 0 ELSE g[k - 1] + z[k]
    BY <1>4 DEF SumTo
  <2>2. \A k \in 1 .. 9 : z[k] = s[k].n
    BY <1>3
  <2>3. g[3] = 37 + l
    <3>1. g[0] = 0 /\ g[1] = g[0] + z[1] /\ g[2] = g[1] + z[2] /\ g[3] = g[2] + z[3]
      BY <2>1
    <3>2. z[1] = 10 + l /\ z[2] = 15 /\ z[3] = 12
      BY <1>2, <2>2
    <3> QED BY <1>1, <3>1, <3>2
  <2>4. g[6] = 70 + l
    <3>1. g[4] = g[3] + z[4] /\ g[5] = g[4] + z[5] /\ g[6] = g[5] + z[6]
      BY <2>1
    <3>2. z[4] = 11 /\ z[5] = 7 /\ z[6] = 15
      BY <1>2, <2>2
    <3> QED BY <1>1, <2>3, <3>1, <3>2
  <2>5. g[9] = 107 + l
    <3>1. g[7] = g[6] + z[7] /\ g[8] = g[7] + z[8] /\ g[9] = g[8] + z[9]
      BY <2>1
    <3>2. z[7] = 7 /\ z[8] = 15 /\ z[9] = 15
      BY <1>2, <2>2
    <3> QED BY <1>1, <2>4, <3>1, <3>2
  <2> QED BY <1>3, <1>4, <2>5, Zenon
<1>6. Filled(139, 0 + Total(s), Mqtt!Appended(Holds(139, 0), s))
  BY <1>2, PutAll
<1>7. Mqtt!Appended(Mqtt!Empty(139), s) = Holds(139, Total(s))
  <2>1. Mqtt!Empty(139) = Holds(139, 0)
    BY Zenon DEF Mqtt!Empty, Holds
  <2>2. 0 + Total(s) = Total(s) /\ Total(s) < 139
    BY <1>1, <1>5
  <2> QED BY <1>6, <2>1, <2>2 DEF Filled
<1> DEFINE e == [name |-> name, body |-> s, desc |-> <<>>]
<1>8. ~Mqtt!MetaBody(160 - 21, e, FALSE).overflow
  <2>1. Mqtt!MetaBody(160 - 21, e, FALSE) = Mqtt!Appended(Mqtt!Empty(160 - 21), s)
    BY DEF Mqtt!MetaBody
  <2>2. 160 - 21 = 139
    OBVIOUS
  <2>3. Mqtt!MetaBody(160 - 21, e, FALSE) = Holds(139, Total(s))
    BY <2>1, <2>2, <1>7, ZenonT(60)
  <2>4. ~Holds(139, Total(s)).overflow
    BY DEF Holds
  <2> HIDE DEF e
  <2> QED BY <2>3, <2>4, Zenon
<1>9. Mqtt!MetaFits(e)
  BY <1>8, Zenon DEF Mqtt!MetaFits
<1> QED BY <1>2, <1>9 DEF s

(* The name rules: such a table goes through regmqtt_init, too.            *)
LEMMA GeneratedTopicsAccepted ==
  ASSUME Gen!Validated(yaml), NEW n \in Nat, DOMAIN yaml = 1 .. n,
         \A i \in DOMAIN yaml : IsYamlRow(yaml[i]) /\ ~Gen!EndsInNewline(yaml[i].name)
  PROVE  Mqtt!InitAccepts(<<"p25">>, GeneratedTopics)
<1> DEFINE p == <<"p25">>
           e(i) == [name |-> yaml[i].name, body |-> LongestMeta(yaml[i].name), desc |-> <<>>]
           d == [i \in DOMAIN yaml |-> e(i)]
<1>1. Mqtt!LengthOf(p) = 25
  BY LengthOfWords, LengthSmall
<1>2. Mqtt!PrefixAccepted(p)
  <2>1. p # <<>> /\ Len(p) = 1 /\ p[1] = "p25"
    OBVIOUS
  <2> HIDE DEF p
  <2>2. ~Mqtt!Contains(p, "+") /\ ~Mqtt!Contains(p, "#")
    BY <2>1 DEF Mqtt!Contains
  <2> QED BY <1>1, <2>1, <2>2 DEF Mqtt!PrefixAccepted
<1>3. ASSUME NEW i \in DOMAIN yaml
      PROVE  /\ yaml[i].name \in Seq(W) /\ Mqtt!LengthOf(yaml[i].name) \in 1 .. 31
             /\ Mqtt!NameAccepted(p, yaml[i].name)
  <2> DEFINE name == yaml[i].name
             l == Mqtt!LengthOf(name)
  <2>1. name \in Seq(W) /\ l \in 1 .. 31 /\ Gen!Range(name) \subseteq {"x", "set", "meta", "table", "n31"}
    BY DEF Gen!Validated, Gen!NameRe, IsYamlRow
  <2> HIDE DEF name
  <2>2. Len(name) \in Nat /\ DOMAIN name = 1 .. Len(name)
    BY <2>1, LenProperties
  <2>3. \A k \in 1 .. Len(name) : name[k] \in {"x", "set", "meta", "table", "n31"}
    BY <2>1, <2>2 DEF Gen!Range
  <2>4. \A w \in {"/", "+", "#"} : ~Mqtt!Contains(name, w)
    BY <2>3 DEF Mqtt!Contains
  <2>5. name[1] # "$"
    <3>1. name # <<>>
      <4>1. name = <<>> => l = 0
        BY LengthSmall
      <4> HIDE DEF l
      <4> QED BY <2>1, <4>1
    <3>2. Len(name) # 0
      BY <2>1, <3>1, EmptySeq
    <3>3. 1 \in 1 .. Len(name)
      BY <2>2, <3>2
    <3>4. name[1] \in {"x", "set", "meta", "table", "n31"}
      BY <2>3, <3>3
    <3> QED BY <3>4
  <2>6. Mqtt!LengthOf(p) + 7 + l + 1 <= 64
    <3> HIDE DEF l, p
    <3> QED BY <1>1, <2>1
  <2>7. Mqtt!NameAccepted(p, name)
    BY <2>1, <2>4, <2>5, <2>6 DEF Mqtt!NameAccepted
  <2> QED BY <2>1, <2>7 DEF name
<1>4. \A i \in DOMAIN yaml : d[i] = e(i) /\ d[i].name = yaml[i].name
  OBVIOUS
<1>5. ASSUME NEW i \in DOMAIN d
      PROVE  /\ Mqtt!NameAccepted(p, d[i].name)
             /\ \A o \in 1 .. (i - 1) : d[o].name # d[i].name
             /\ Mqtt!MetaFits(d[i])
  <2>1. i \in DOMAIN yaml /\ i \in 1 .. n
    OBVIOUS
  <2>2. Mqtt!NameAccepted(p, d[i].name)
    BY <1>3, <1>4, <2>1
  <2>3. ASSUME NEW o \in 1 .. (i - 1) PROVE d[o].name # d[i].name
    <3>1. o \in DOMAIN yaml
      BY <2>1
    <3>2. yaml[o].name # yaml[i].name
      BY <2>1 DEF Gen!Validated
    <3> QED BY <1>4, <2>1, <3>1, <3>2
  <2>4. Mqtt!MetaFits(e(i))
    BY <1>3, <2>1, LongestMetaFits
  <2> QED BY <2>2, <2>3, <2>4, <1>4, <2>1
<1> HIDE DEF d, p
<1>6. Mqtt!InitAccepts(p, d)
  BY <1>2, <1>5 DEF Mqtt!InitAccepts
<1> QED BY <1>6 DEF p, d, GeneratedTopics

(***************************************************************************)
(* The descriptions at hand are lists of rows, and none was generated from *)
(* that does not keep the rules.                                           *)
(***************************************************************************)
YamlAtHand ==
  /\ \E n \in Nat : DOMAIN yaml = 1 .. n /\ \A i \in DOMAIN yaml : IsYamlRow(yaml[i])
  /\ answer = "generated" => Gen!Validated(yaml)

LEMMA BordersSayable ==
  ASSUME NEW type \in Types, NEW s \in AtMostOne(Borders(type))
  PROVE  s = {} \/ \E x \in Sayable(type) : s = {x}
<1>1. Borders(type) \subseteq Sayable(type)
  <2>1. CASE type = "FLOAT"
    BY <2>1 DEF Borders, Sayable
  <2>2. CASE type # "FLOAT"
    <3>1. Borders(type) \subseteq Int
      BY <2>2, SMTT(60) DEF Borders
    <3> QED BY <2>2, <3>1 DEF Sayable
  <2> QED BY <2>1, <2>2
<1> QED BY <1>1 DEF AtMostOne

LEMMA YamlAtHandInit == Init => YamlAtHand
<1> SUFFICES ASSUME Init PROVE YamlAtHand
  OBVIOUS
<1>0. answer = "none"
  BY DEF Init
<1>1. \A n \in YamlNames : n \in Seq(W)
  <2>1. {"x", "n31", "$", "newline"} \subseteq W
    BY DEF W, Lengths
  <2> HIDE DEF W
  <2>2. \A w \in W : <<w>> \in Seq(W)
    OBVIOUS
  <2>3. \A v, w \in W : <<v, w>> \in Seq(W)
    OBVIOUS
  <2> QED BY <2>1, <2>2, <2>3 DEF YamlNames
<1>2. CASE yaml = <<>>
  <2>1. DOMAIN yaml = 1 .. 0
    BY <1>2
  <2> QED BY <1>0, <2>1 DEF YamlAtHand
<1>3. ASSUME NEW type \in Types, NEW min \in AtMostOne(Borders(type)), NEW max \in AtMostOne(Borders(type)),
             NEW init \in AtMostOne(Borders(type)), yaml = <<Row(type, <<"x">>, min, max, init, 0)>>
      PROVE  YamlAtHand
  <2> DEFINE r == Row(type, <<"x">>, min, max, init, 0)
  <2>1. IsYamlRow(r)
    <3>1. /\ r.type = type /\ r.perm = "RW" /\ r.name = <<"x">> /\ r.modbus = 0
          /\ r.min = min /\ r.max = max /\ r.init = init
      BY DEF Row
    <3> HIDE DEF r
    <3>2. \A s \in {r.min, r.max, r.init} : s = {} \/ \E x \in Sayable(r.type) : s = {x}
      BY <3>1, BordersSayable
    <3>3. <<"x">> \in Seq(W)
      BY <1>1 DEF YamlNames
    <3> QED BY <3>1, <3>2, <3>3, TablesAssumption DEF IsYamlRow
  <2> HIDE DEF r
  <2>2. DOMAIN yaml = 1 .. 1 /\ yaml[1] = r
    BY <1>3 DEF r
  <2> QED BY <1>0, <2>1, <2>2 DEF YamlAtHand
<1>4. ASSUME NEW t1 \in {"U8", "FLOAT"}, NEW t2 \in {"U8", "FLOAT"}, NEW a1 \in 0 .. Top, NEW a2 \in 0 .. Top,
             NEW n1 \in YamlNames, NEW n2 \in YamlNames,
             yaml = <<Row(t1, n1, {}, {}, {}, a1), Row(t2, n2, {}, {}, {}, a2)>>
      PROVE  YamlAtHand
  <2>1. ASSUME NEW t \in {"U8", "FLOAT"}, NEW name \in Seq(W), NEW a \in 0 .. Top
        PROVE  IsYamlRow(Row(t, name, {}, {}, {}, a))
    BY DEF IsYamlRow, Row, Types, UnsignedTypes
  <2> DEFINE r1 == Row(t1, n1, {}, {}, {}, a1)
             r2 == Row(t2, n2, {}, {}, {}, a2)
  <2>2. IsYamlRow(r1) /\ IsYamlRow(r2)
    BY <1>1, <2>1
  <2> HIDE DEF r1, r2
  <2>3. DOMAIN yaml = 1 .. 2 /\ yaml[1] = r1 /\ yaml[2] = r2
    BY <1>4 DEF r1, r2
  <2> QED BY <1>0, <2>2, <2>3 DEF YamlAtHand
<1> QED BY <1>2, <1>3, <1>4 DEF Init, AnyEntry, AnyMap, AnyTopics, AnyYaml

LEMMA YamlAtHandStep == AtHand /\ YamlAtHand /\ [Next]_vars => YamlAtHand'
<1> SUFFICES ASSUME AtHand, YamlAtHand, [Next]_vars PROVE YamlAtHand'
  OBVIOUS
<1>1. /\ yaml' = yaml
      /\ answer' = "generated" => Gen!Validated(yaml)
  <2>1. CASE AppAssign
    BY <2>1 DEF AppAssign, inputs
  <2>2. CASE SetRaw
    BY <2>2, CheckAnswers DEF SetRaw, inputs
  <2>3. CASE SetStr
    BY <2>3, SetStrAnswers DEF inputs
  <2>4. CASE regmb_init
    BY <2>4 DEF regmb_init, inputs
  <2>5. CASE regmqtt_init
    BY <2>5 DEF regmqtt_init, inputs
  <2>6. CASE Generate
    BY <2>6 DEF Generate, inputs
  <2>7. CASE UNCHANGED vars
    BY <2>7 DEF vars, inputs, YamlAtHand
  <2> QED BY <2>1, <2>2, <2>3, <2>4, <2>5, <2>6, <2>7 DEF Next
<1> QED BY <1>1 DEF YamlAtHand

LEMMA AlwaysYaml == Spec => []YamlAtHand
BY YamlAtHandInit, YamlAtHandStep, AlwaysAtHand, PTL DEF Spec

(***************************************************************************)
(* What gen.py lets through no adapter refuses, unless a name ends in a    *)
(* newline, whatever the widths of the types, the size of the address      *)
(* space and the length of the table; no variable starts outside of its    *)
(* entry's range; and the client and the device judge every value alike.   *)
(***************************************************************************)
THEOREM Generates == Spec => []GeneratedIsAccepted
<1>1. YamlAtHand => GeneratedIsAccepted
  <2> SUFFICES ASSUME YamlAtHand, answer = "generated" PROVE GeneratedIsAccepted
    BY DEF GeneratedIsAccepted
  <2>1. PICK n \in Nat : DOMAIN yaml = 1 .. n /\ \A i \in DOMAIN yaml : IsYamlRow(yaml[i])
    BY DEF YamlAtHand
  <2>2. Gen!Validated(yaml)
    BY DEF YamlAtHand
  <2>3. MapAccepted(GeneratedMap)
    BY <2>1, <2>2, GeneratedMapAccepted
  <2>4. \/ \E r \in Range(yaml) : Gen!EndsInNewline(r.name)
        \/ Mqtt!InitAccepts(<<"p25">>, GeneratedTopics)
    <3>1. (\A i \in DOMAIN yaml : ~Gen!EndsInNewline(yaml[i].name))
            => Mqtt!InitAccepts(<<"p25">>, GeneratedTopics)
      BY <2>1, <2>2, GeneratedTopicsAccepted
    <3>2. ASSUME NEW i \in DOMAIN yaml, Gen!EndsInNewline(yaml[i].name)
          PROVE  \E r \in Range(yaml) : Gen!EndsInNewline(r.name)
      <4>1. yaml[i] \in Range(yaml)
        BY DEF Range
      <4> QED BY <3>2, <4>1
    <3> QED BY <3>1, <3>2
  <2>5. ASSUME NEW r \in Range(yaml) PROVE Agrees(r)
    <3>1. IsYamlRow(r) /\ Gen!RangeRules(r) /\ Gen!InitRules(r)
      BY <2>1, <2>2 DEF Range, Gen!Validated
    <3> QED BY <3>1, IntegersAgree, FloatsAgree
  <2> QED BY <2>3, <2>4, <2>5 DEF GeneratedIsAccepted, Agrees, ChecksAgree
<1> QED BY <1>1, AlwaysYaml, PTL

-----------------------------------------------------------------------------
(***************************************************************************)
(* The reference counts digits from the right, each with its weight; the   *)
(* parser from the left.  They agree.                                      *)
(***************************************************************************)
WeightTo(f, n, base) == f = [k \in 0 .. n |-> IF k = 0 THEN 1 ELSE f[k - 1] * base]

LastTo(f, n, s, base, w) ==
  f = [k \in 0 .. n |-> IF k = 0 THEN 0 ELSE
         f[k - 1] + DigitsOf(base)[s[Len(s) + 1 - k]] * w[k - 1]]

LEMMA WeightExists ==
  ASSUME NEW base, NEW n \in Nat
  PROVE  \E f : WeightTo(f, n, base)
<1> DEFINE bad == {k \in Nat : ~\E f : WeightTo(f, k, base)}
<1> SUFFICES ASSUME bad # {} PROVE FALSE
  OBVIOUS
<1>1. PICK k \in bad : \A j \in bad : k <= j
  <2> HIDE DEF WeightTo
  <2> QED BY LeastNatural
<1>2. CASE k = 0
  <2>1. WeightTo([j \in 0 .. 0 |-> 1], 0, base)
    BY DEF WeightTo
  <2> QED BY <2>1, <1>1, <1>2
<1>3. CASE k # 0
  <2>1. k - 1 \in Nat /\ k - 1 \notin bad
    BY <1>1, <1>3
  <2>2. PICK g : WeightTo(g, k - 1, base)
    BY <2>1
  <2> DEFINE f == [j \in 0 .. k |-> IF j < k THEN g[j] ELSE g[k - 1] * base]
  <2>3. ASSUME NEW j \in 0 .. k
        PROVE  f[j] = IF j = 0 THEN 1 ELSE f[j - 1] * base
    <3>1. CASE j = k
      BY <3>1, <2>1, <1>3
    <3>2. CASE j < k
      <4>1. j \in 0 .. (k - 1)
        BY <3>2, <2>1
      <4>2. g[j] = IF j = 0 THEN 1 ELSE g[j - 1] * base
        BY <2>2, <4>1 DEF WeightTo
      <4>3. f[j] = g[j] /\ (j # 0 => f[j - 1] = g[j - 1])
        BY <3>2
      <4> HIDE DEF f
      <4> QED BY <4>2, <4>3
    <3> QED BY <3>1, <3>2
  <2>4. WeightTo(f, k, base)
    <3>1. f = [j \in 0 .. k |-> f[j]]
      OBVIOUS
    <3> HIDE DEF f
    <3> QED BY <2>3, <3>1, Zenon DEF WeightTo
  <2> QED BY <1>1, <2>4
<1> QED BY <1>2, <1>3

LEMMA LastExists ==
  ASSUME NEW base, NEW s, NEW w, NEW n \in Nat
  PROVE  \E f : LastTo(f, n, s, base, w)
<1> DEFINE bad == {k \in Nat : ~\E f : LastTo(f, k, s, base, w)}
           d(k) == DigitsOf(base)[s[Len(s) + 1 - k]] * w[k - 1]
<1> SUFFICES ASSUME bad # {} PROVE FALSE
  OBVIOUS
<1>1. PICK k \in bad : \A j \in bad : k <= j
  <2> HIDE DEF LastTo
  <2> QED BY LeastNatural
<1>2. CASE k = 0
  <2>1. LastTo([j \in 0 .. 0 |-> 0], 0, s, base, w)
    BY DEF LastTo
  <2> QED BY <2>1, <1>1, <1>2
<1>3. CASE k # 0
  <2>1. k - 1 \in Nat /\ k - 1 \notin bad
    BY <1>1, <1>3
  <2>2. PICK g : LastTo(g, k - 1, s, base, w)
    BY <2>1
  <2>0. g = [j \in 0 .. (k - 1) |-> IF j = 0 THEN 0 ELSE g[j - 1] + d(j)]
    BY <2>2 DEF LastTo
  <2> HIDE DEF d
  <2> DEFINE f == [j \in 0 .. k |-> IF j < k THEN g[j] ELSE g[k - 1] + d(k)]
  <2>3. ASSUME NEW j \in 0 .. k
        PROVE  f[j] = IF j = 0 THEN 0 ELSE f[j - 1] + d(j)
    <3>1. CASE j = k
      BY <3>1, <2>1, <1>3
    <3>2. CASE j < k
      <4>1. j \in 0 .. (k - 1)
        BY <3>2, <2>1
      <4>2. g[j] = IF j = 0 THEN 0 ELSE g[j - 1] + d(j)
        BY <2>0, <4>1
      <4>3. f[j] = g[j] /\ (j # 0 => f[j - 1] = g[j - 1])
        BY <3>2
      <4> HIDE DEF f
      <4> QED BY <4>2, <4>3
    <3> QED BY <3>1, <3>2
  <2>4. LastTo(f, k, s, base, w)
    <3>1. f = [j \in 0 .. k |-> f[j]]
      OBVIOUS
    <3> HIDE DEF f
    <3> QED BY <2>3, <3>1, Zenon DEF LastTo, d
  <2> QED BY <1>1, <2>4
<1> QED BY <1>2, <1>3

LEMMA PositionalIsHorner ==
  ASSUME NEW base \in {10, 16}, NEW s, Len(s) \in Nat,
         \A k \in 1 .. Len(s) : s[k] \in DOMAIN DigitsOf(base)
  PROVE  Positional(s, base) = Horner(s, base) /\ Horner(s, base) \in Nat
<1> DEFINE L == Len(s)
           w == CHOOSE f : WeightTo(f, L, base)
           l == CHOOSE f : LastTo(f, L, s, base, w)
<1>1. WeightTo(w, L, base)
  BY WeightExists
<1>2. LastTo(l, L, s, base, w)
  <2> HIDE DEF w
  <2> QED BY LastExists
<1>3. Positional(s, base) = l[L]
  BY DEF Positional, WeightTo, LastTo
<1> HIDE DEF w, l
<1>4. PICK h : HornerTo(h, L, s, base) /\ Horner(s, base) = h[L]
  BY HornerRun
<1> DEFINE D(k) == DigitsOf(base)[s[k]]
<1>5. \A k \in 0 .. L : h[k] \in Nat
  BY <1>4, HornerValues
<1>6. \A k \in 1 .. L : D(k) \in Nat
  <2> SUFFICES ASSUME NEW k \in 1 .. L PROVE DigitsOf(base)[s[k]] \in Nat
    OBVIOUS
  <2>1. s[k] \in DOMAIN DigitsOf(base)
    OBVIOUS
  <2> DEFINE c == s[k]
  <2> HIDE DEF c
  <2>2. CASE base = 10
    <3>1. c \in DOMAIN DigitOf /\ DigitsOf(base)[c] = DigitOf[c]
      BY <2>1, <2>2, DigitFacts DEF c
    <3>2. DigitOf[c] \in 0 .. 9
      BY <3>1, DigitFacts
    <3> QED BY <3>1, <3>2 DEF c
  <2>3. CASE base = 16
    <3>1. c \in DOMAIN HexOf /\ DigitsOf(base)[c] = HexOf[c]
      BY <2>1, <2>3, DigitFacts DEF c
    <3>2. HexOf[c] \in Nat
      BY <3>1, DigitFacts
    <3> QED BY <3>1, <3>2 DEF c
  <2> QED BY <2>2, <2>3
<1> DEFINE ok(k) == w[k] \in Nat /\ l[k] \in Nat /\ h[L] = h[L - k] * w[k] + l[k]
           bad == {k \in Nat : k <= L /\ ~ok(k)}
<1>7. bad = {}
  <2> SUFFICES ASSUME bad # {} PROVE FALSE
    OBVIOUS
  <2>1. PICK k \in bad : \A j \in bad : k <= j
    <3>1. bad \subseteq Nat
      OBVIOUS
    <3> HIDE DEF bad
    <3> QED BY <3>1, LeastNatural
  <2>2. k \in 0 .. L /\ ~ok(k)
    BY <2>1
  <2>3. /\ w[k] = IF k = 0 THEN 1 ELSE w[k - 1] * base
        /\ l[k] = IF k = 0 THEN 0 ELSE l[k - 1] + D(L + 1 - k) * w[k - 1]
    BY <1>1, <1>2, <2>2 DEF WeightTo, LastTo
  <2>4. k # 0
    <3> SUFFICES ASSUME k = 0 PROVE FALSE
      OBVIOUS
    <3>1. w[k] = 1 /\ l[k] = 0 /\ L - k = L /\ L \in 0 .. L
      BY <2>3
    <3>2. h[L] \in Nat
      BY <1>5, <3>1
    <3>3. h[L - k] * w[k] + l[k] = h[L]
      BY <3>1, <3>2
    <3> QED BY <2>2, <3>1, <3>3
  <2>5. k - 1 \in Nat /\ k - 1 \notin bad /\ k - 1 <= L
    BY <2>1, <2>2, <2>4
  <2>6. ok(k - 1)
    BY <2>5
  <2> DEFINE x == h[L - k]
             y == h[L - (k - 1)]
             v == w[k - 1]
             d == D(L + 1 - k)
  <2>7. L - k \in 0 .. L /\ L + 1 - k \in 1 .. L /\ L - (k - 1) \in 0 .. L
        /\ L - (k - 1) # 0 /\ (L - (k - 1)) - 1 = L - k /\ L - (k - 1) = L + 1 - k
    BY <2>2, <2>4
  <2>8. y = x * base + d
    <3>1. h[L - (k - 1)] = h[(L - (k - 1)) - 1] * base + D(L - (k - 1))
      BY <1>4, <2>7, Zenon DEF HornerTo
    <3>2. h[(L - (k - 1)) - 1] = x /\ D(L - (k - 1)) = d
      BY <2>7, Zenon
    <3> QED BY <3>1, <3>2, Zenon
  <2>9. x \in Nat /\ d \in Nat /\ v \in Nat /\ l[k - 1] \in Nat /\ h[L] = y * v + l[k - 1]
    BY <1>5, <1>6, <2>6, <2>7
  <2>10. w[k] = v * base /\ l[k] = l[k - 1] + d * v
    BY <2>3, <2>4
  <2> HIDE DEF x, y, v, d
  <2>11. v * base \in Nat /\ l[k - 1] + d * v \in Nat
    <3>1. \A m, n \in Nat : m * n \in Nat
      OBVIOUS
    <3>2. v * base \in Nat /\ d * v \in Nat
      BY <2>9, <3>1
    <3>3. \A m, n \in Nat : m + n \in Nat
      OBVIOUS
    <3> QED BY <2>9, <3>2, <3>3, Zenon
  <2>12. (x * base + d) * v = x * (v * base) + d * v
    BY <2>9
  <2>13. x * (v * base) \in Nat /\ d * v \in Nat
    BY <2>9
  <2>14. h[L] = x * w[k] + l[k]
    BY <2>8, <2>9, <2>10, <2>12, <2>13
  <2>15. ok(k)
    BY <2>10, <2>11, <2>14 DEF x
  <2> QED BY <2>2, <2>15
<1>8. ok(L)
  BY <1>7
<1>9. h[0] = 0 /\ L - L = 0
  BY <1>4 DEF HornerTo
<1>10. h[L] = l[L]
  BY <1>8, <1>9
<1>11. h[L] \in Nat
  BY <1>5
<1> QED BY <1>3, <1>4, <1>10, <1>11

-----------------------------------------------------------------------------
(***************************************************************************)
(* What strtoul takes of a text: all of it, or the parsers refuse it.      *)
(***************************************************************************)
LEMMA HexFacts ==
  /\ \A c \in DOMAIN HexOf : c \notin {Space, "-", "+", "x", NUL}
  /\ "0" \in DOMAIN DigitOf /\ "0" \in DOMAIN HexOf
<1>1. \A c \in DOMAIN HexOf : HexOf[c] \in 0 .. (16 - 1) /\ c = HexNumerals[HexOf[c] + 1]
  <2>1. DOMAIN HexNumerals = 1 .. 16
    BY DEF HexNumerals
  <2> QED BY <2>1, ValuesOfFacts, ZenonT(60) DEF HexOf
<1>2. \A k \in 1 .. 16 : HexNumerals[k] \notin {Space, "-", "+", "x", NUL}
  BY DEF HexNumerals, Space, NUL
<1>3. ASSUME NEW c \in DOMAIN HexOf PROVE c \notin {Space, "-", "+", "x", NUL}
  <2>1. HexOf[c] + 1 \in 1 .. 16
    BY <1>1
  <2> QED BY <1>1, <1>2, <2>1
<1>4. "0" \in DOMAIN DigitOf
  <2>1. Numerals[0 + 1] = "0"
    BY DEF Numerals
  <2>2. 0 \in 0 .. 9
    OBVIOUS
  <2> QED BY <2>1, <2>2, DigitFacts
<1> QED BY <1>3, <1>4, DigitFacts

LEMMA FromFacts ==
  ASSUME NEW S, NEW s \in Seq(S), NEW k \in 1 .. (Len(s) + 1)
  PROVE  /\ From(s, k) \in Seq(S) /\ Len(From(s, k)) = Len(s) + 1 - k /\ Len(s) \in Nat
         /\ \A i \in 1 .. (Len(s) + 1 - k) : From(s, k)[i] = s[k + i - 1]
<1>1. Len(s) \in Nat /\ \A i \in 1 .. Len(s) : s[i] \in S
  BY LenProperties, ElementOfSeq
<1>2. k \in Int /\ Len(s) \in Int /\ \A i \in k .. Len(s) : s[i] \in S
  BY <1>1
<1>3. /\ From(s, k) \in Seq(S)
      /\ Len(From(s, k)) = IF k <= Len(s) THEN Len(s) - k + 1 ELSE 0
      /\ \A i \in 1 .. (Len(s) - k + 1) : From(s, k)[i] = s[k + i - 1]
  BY <1>2, SubSeqProperties DEF From
<1>4. Len(s) - k + 1 = Len(s) + 1 - k /\ (~(k <= Len(s)) => Len(s) + 1 - k = 0)
  BY <1>1
<1> QED BY <1>1, <1>3, <1>4

(* The rest of a rest. *)
LEMMA FromFrom ==
  ASSUME NEW S, NEW s \in Seq(S), NEW k \in 1 .. (Len(s) + 1), NEW j \in 1 .. (Len(s) + 2 - k)
  PROVE  From(From(s, k), j) = From(s, k + j - 1)
<1> DEFINE t == From(s, k)
           u == From(t, j)
           v == From(s, k + j - 1)
<1>0. Len(s) \in Nat /\ k + j - 1 \in 1 .. (Len(s) + 1)
  BY FromFacts
<1>1. /\ t \in Seq(S) /\ Len(t) = Len(s) + 1 - k
      /\ \A i \in 1 .. (Len(s) + 1 - k) : t[i] = s[k + i - 1]
  BY FromFacts
<1> HIDE DEF t
<1>2. j \in 1 .. (Len(t) + 1)
  BY <1>0, <1>1
<1>3. /\ u \in Seq(S) /\ Len(u) = Len(t) + 1 - j
      /\ \A i \in 1 .. (Len(t) + 1 - j) : u[i] = t[j + i - 1]
  <2>1. t \in Seq(S)
    BY <1>1
  <2> HIDE DEF u
  <2> QED BY <1>2, <2>1, FromFacts DEF u
<1>4. /\ v \in Seq(S) /\ Len(v) = Len(s) + 1 - (k + j - 1)
      /\ \A i \in 1 .. (Len(s) + 1 - (k + j - 1)) : v[i] = s[(k + j - 1) + i - 1]
  BY <1>0, FromFacts, ZenonT(60)
<1> HIDE DEF u, v
<1>5. Len(u) = Len(v)
  BY <1>0, <1>1, <1>3, <1>4
<1>6. ASSUME NEW i \in 1 .. Len(u) PROVE u[i] = v[i]
  <2>1. i \in 1 .. (Len(t) + 1 - j) /\ j + i - 1 \in 1 .. (Len(s) + 1 - k)
    BY <1>0, <1>1, <1>3
  <2>2. u[i] = s[k + (j + i - 1) - 1]
    BY <1>1, <1>3, <2>1
  <2>3. k + (j + i - 1) - 1 = (k + j - 1) + i - 1
    BY <2>1, <1>0
  <2>4. i \in 1 .. (Len(s) + 1 - (k + j - 1))
    BY <1>3, <1>4, <1>5
  <2> QED BY <1>4, <2>2, <2>3, <2>4
<1>7. u = v
  BY <1>3, <1>4, <1>5, <1>6, SeqEqual
<1> QED BY <1>7 DEF t, u, v

LEMMA FromOne ==
  ASSUME NEW S, NEW s \in Seq(S)
  PROVE  From(s, 1) = s
BY SubSeqFull DEF From

LEMMA SpanIs ==
  ASSUME NEW s, Len(s) \in Nat, DOMAIN s = 1 .. Len(s), NEW C, NEW a \in 0 .. Len(s),
         \A j \in 1 .. a : s[j] \in C, a < Len(s) => s[a + 1] \notin C
  PROVE  SpanOf(s, C) = a
<1> DEFINE n == SpanOf(s, C)
<1>1. /\ n \in 0 .. Len(s) /\ \A j \in 1 .. n : s[j] \in C
      /\ n < Len(s) => s[n + 1] \notin C
  BY SpanFacts
<1> HIDE DEF n
<1>2. CASE n < a
  <2>1. n + 1 \in 1 .. a /\ n < Len(s)
    BY <1>1, <1>2
  <2> QED BY <1>1, <2>1
<1>3. CASE a < n
  <2>1. a + 1 \in 1 .. n /\ a < Len(s)
    BY <1>1, <1>3
  <2> QED BY <1>1, <2>1
<1>4. n = a
  BY <1>1, <1>2, <1>3
<1> QED BY <1>4 DEF n

AllDigits(s, base) == \A k \in 1 .. Len(s) : s[k] \in DOMAIN DigitsOf(base)

(* A text that begins with a digit is skipped nothing of. *)
LEMMA DigitFirst ==
  ASSUME NEW S, NEW t \in Seq(S), At(t, 1) \in DOMAIN HexOf
  PROVE  /\ SkipSpace(t) = t /\ AfterSign(t) = t /\ At(t, 1) # "-"
         /\ Len(t) \in Nat /\ 1 <= Len(t) /\ t[1] \in DOMAIN HexOf /\ t # <<>>
<1>1. Len(t) \in Nat /\ DOMAIN t = 1 .. Len(t)
  BY TextParts
<1>2. At(t, 1) \notin {Space, "-", "+", "x", NUL}
  BY HexFacts
<1>3. 1 <= Len(t) /\ At(t, 1) = t[1]
  BY <1>2 DEF At
<1>4. SpanOf(t, {Space}) = 0
  <2>1. 0 \in 0 .. Len(t) /\ t[0 + 1] \notin {Space}
    BY <1>1, <1>2, <1>3
  <2>2. \A j \in 1 .. 0 : t[j] \in {Space}
    OBVIOUS
  <2> QED BY <1>1, <2>1, <2>2, SpanIs
<1>5. SkipSpace(t) = t
  <2>1. 0 + 1 = 1
    OBVIOUS
  <2> QED BY <1>4, <2>1, FromOne DEF SkipSpace
<1>6. AfterSign(t) = t
  BY <1>2 DEF AfterSign
<1>7. t # <<>>
  BY <1>1, <1>3
<1> QED BY <1>1, <1>2, <1>3, <1>5, <1>6, <1>7

LEMMA StrtoulMeans ==
  ASSUME NEW S, NEW t \in Seq(S), At(t, 1) \in DOMAIN HexOf, NEW base \in {10, 16}
  PROVE  LET D == AfterPrefix(t, base) IN
         /\ Strtoul(t, base).rest = <<>> <=> AllDigits(D, base)
         /\ AllDigits(D, base) => Strtoul(t, base).value = Horner(D, base)
<1> DEFINE D == AfterPrefix(t, base)
           n == SpanOf(D, DOMAIN DigitsOf(base))
           mag == Horner(SubSeq(D, 1, n), base)
<1>1. /\ SkipSpace(t) = t /\ AfterSign(t) = t /\ At(t, 1) # "-" /\ t # <<>>
      /\ Len(t) \in Nat /\ 1 <= Len(t)
  BY DigitFirst
<1>2. D \in Seq(S) /\ Len(D) \in Nat /\ DOMAIN D = 1 .. Len(D)
  BY TextParts
<1>3. 1 <= Len(D)
  <2>1. CASE base = 16 /\ HasPrefix(t) /\ At(t, 3) \in DOMAIN HexOf
    <3>1. D = From(t, 3)
      BY <2>1 DEF AfterPrefix
    <3>2. 3 <= Len(t)
      BY <2>1, HexFacts DEF At
    <3>3. 3 \in 1 .. (Len(t) + 1)
      BY <1>1, <3>2
    <3>4. Len(D) = Len(t) + 1 - 3
      BY <3>1, <3>3, FromFacts
    <3> QED BY <1>1, <3>2, <3>4
  <2>2. CASE ~(base = 16 /\ HasPrefix(t) /\ At(t, 3) \in DOMAIN HexOf)
    <3>1. D = t
      BY <2>2 DEF AfterPrefix
    <3> QED BY <1>1, <3>1
  <2> QED BY <2>1, <2>2
<1>4. Strtoul(t, base) = IF n = 0 THEN [value |-> 0, rest |-> t]
                         ELSE [value |-> mag, rest |-> From(D, n + 1)]
  BY <1>1 DEF Strtoul
<1> HIDE DEF D
<1>5. /\ n \in 0 .. Len(D) /\ \A j \in 1 .. n : D[j] \in DOMAIN DigitsOf(base)
      /\ n < Len(D) => D[n + 1] \notin DOMAIN DigitsOf(base)
  BY <1>2, SpanFacts
<1> HIDE DEF n, mag
<1>a. n \in 0 .. Len(D) /\ Len(D) \in Nat
  BY <1>2, <1>5
<1>b. n \in Nat /\ n <= Len(D) /\ Len(D) \in Nat
  <2> DEFINE l == Len(D)
  <2>1. n \in 0 .. l /\ l \in Nat
    BY <1>a
  <2> HIDE DEF l
  <2>2. n \in Nat /\ n <= l
    BY <2>1
  <2> QED BY <1>a, <2>2 DEF l
<1>6. AllDigits(D, base) <=> n = Len(D)
  <2> DEFINE C == DOMAIN DigitsOf(base)
  <2>1. n < Len(D) => n + 1 \in 1 .. Len(D) /\ D[n + 1] \notin C
    BY <1>2, <1>5
  <2>2. n = Len(D) \/ n < Len(D)
    BY <1>b
  <2>3. \A j \in 1 .. n : D[j] \in C
    BY <1>5
  <2>4. n < Len(D) => n # Len(D)
    BY <1>b
  <2>5. AllDigits(D, base) <=> \A k \in 1 .. Len(D) : D[k] \in C
    BY DEF AllDigits
  <2> HIDE DEF C
  <2> QED BY <2>1, <2>2, <2>3, <2>4, <2>5
<1>7. CASE n = 0
  <2>1. n # Len(D)
    BY <1>2, <1>3, <1>7
  <2> QED BY <1>1, <1>4, <1>6, <1>7, <2>1 DEF D
<1>8. CASE n # 0
  <2>1. n + 1 \in 1 .. (Len(D) + 1)
    BY <1>2, <1>5
  <2>2. Len(From(D, n + 1)) = Len(D) + 1 - (n + 1) /\ From(D, n + 1) \in Seq(S)
    BY <1>2, <2>1, FromFacts
  <2>3. From(D, n + 1) = <<>> <=> n = Len(D)
    <3> DEFINE f == From(D, n + 1)
    <3>1. f \in Seq(S) /\ Len(f) = Len(D) - n
      <4>1. Len(D) + 1 - (n + 1) = Len(D) - n
        BY <1>b
      <4> QED BY <2>2, <4>1
    <3> HIDE DEF f
    <3>2. f = <<>> <=> Len(f) = 0
      BY <3>1, EmptySeq
    <3>3. Len(D) - n = 0 <=> n = Len(D)
      BY <1>2, <1>5
    <3> QED BY <3>1, <3>2, <3>3 DEF f
  <2>4. Strtoul(t, base).rest = From(D, n + 1) /\ Strtoul(t, base).value = mag
    BY <1>4, <1>8
  <2>5. n = Len(D) => mag = Horner(D, base)
    BY <1>2, SubSeqFull DEF mag
  <2> QED BY <1>6, <2>3, <2>4, <2>5 DEF D
<1> QED BY <1>7, <1>8

-----------------------------------------------------------------------------
(***************************************************************************)
(* A numeral without a sign: c characters of a prefix, and digits.         *)
(***************************************************************************)
BaseOf(c) == IF c = 0 THEN 10 ELSE 16

NumeralAt(q, c) ==
  /\ c \in {0, 2, 4} /\ c < Len(q)
  /\ c # 0 => q[1] = "0" /\ q[2] = "x"
  /\ c = 4 => q[3] = "0" /\ q[4] = "x"
  /\ \A k \in (c + 1) .. Len(q) : q[k] \in DOMAIN DigitsOf(BaseOf(c))

LEMMA DigitsIn ==
  /\ DigitsOf(10) = DigitOf /\ DigitsOf(16) = HexOf /\ BaseOf(0) = 10 /\ BaseOf(2) = 16 /\ BaseOf(4) = 16
  /\ \A c : DOMAIN DigitsOf(BaseOf(c)) \subseteq DOMAIN HexOf
  /\ "x" \notin DOMAIN HexOf /\ "x" \notin DOMAIN DigitOf
BY HexFacts, DigitFacts DEF BaseOf

(* The digits after the prefix.                                            *)
LEMMA DigitsAfter ==
  ASSUME NEW S, NEW q \in Seq(S), NEW c \in {0, 2, 4}, c < Len(q), NEW C
  PROVE  /\ c + 1 \in 1 .. (Len(q) + 1)
         /\ (\A k \in (c + 1) .. Len(q) : q[k] \in C)
              <=> \A k \in 1 .. Len(From(q, c + 1)) : From(q, c + 1)[k] \in C
<1> DEFINE L == Len(q)
           t == From(q, c + 1)
<1>1. L \in Nat
  BY LenProperties
<1>2. c + 1 \in 1 .. (L + 1)
  BY <1>1
<1>3. Len(t) = L + 1 - (c + 1) /\ \A i \in 1 .. (L + 1 - (c + 1)) : t[i] = q[c + 1 + i - 1]
  BY <1>2, FromFacts, ZenonT(60)
<1> HIDE DEF t, L
<1>4. L + 1 - (c + 1) = L - c
  BY <1>1
<1>5. ASSUME \A k \in (c + 1) .. L : q[k] \in C, NEW k \in 1 .. Len(t) PROVE t[k] \in C
  <2>1. k \in 1 .. (L + 1 - (c + 1)) /\ c + 1 + k - 1 \in (c + 1) .. L
    BY <1>1, <1>3, <1>4
  <2> QED BY <1>3, <1>5, <2>1
<1>6. ASSUME \A k \in 1 .. Len(t) : t[k] \in C, NEW k \in (c + 1) .. L PROVE q[k] \in C
  <2> DEFINE i == k - c
  <2>1. i \in 1 .. (L + 1 - (c + 1)) /\ c + 1 + i - 1 = k
    BY <1>1, <1>4
  <2> HIDE DEF i
  <2>2. t[i] = q[k] /\ i \in 1 .. Len(t)
    BY <1>3, <2>1
  <2> QED BY <1>6, <2>2
<1> QED BY <1>2, <1>5, <1>6 DEF t, L

LEMMA NumeralDigits ==
  ASSUME NEW S, NEW q \in Seq(S), NEW c \in {0, 2, 4}, c < Len(q)
  PROVE  (\A k \in (c + 1) .. Len(q) : q[k] \in DOMAIN DigitsOf(BaseOf(c)))
           <=> AllDigits(From(q, c + 1), BaseOf(c))
BY DigitsAfter DEF AllDigits

(* A field of a record may hold a condition.                               *)
LEMMA NumberField ==
  ASSUME NEW no, NEW value
  PROVE  [number |-> no, value |-> value].number = no
OBVIOUS

LEMMA PlainMagnitude ==
  ASSUME NEW S, NEW q \in Seq(S), ~HasPrefix(q)
  PROVE  /\ Magnitude(q).number <=> NumeralAt(q, 0)
         /\ Magnitude(q).number => Magnitude(q).value = Horner(From(q, 1), 10)
         /\ ~NumeralAt(q, 2) /\ ~NumeralAt(q, 4)
<1>1. Len(q) \in Nat
  BY LenProperties
<1>2. Magnitude(q) = [number |-> At(q, 1) \in DOMAIN HexOf /\ Strtoul(q, 10).rest = <<>>,
                      value  |-> Strtoul(q, 10).value]
  BY DEF Magnitude
<1>3. Magnitude(q).number <=> At(q, 1) \in DOMAIN HexOf /\ Strtoul(q, 10).rest = <<>>
  BY <1>2, NumberField
<1>4. Magnitude(q).value = Strtoul(q, 10).value
  BY <1>2
<1>5. AfterPrefix(q, 10) = q /\ From(q, 1) = q
  BY FromOne DEF AfterPrefix
<1>6. At(q, 1) \in DOMAIN HexOf =>
        /\ Strtoul(q, 10).rest = <<>> <=> AllDigits(q, 10)
        /\ AllDigits(q, 10) => Strtoul(q, 10).value = Horner(q, 10)
  <2>1. 10 \in {10, 16}
    OBVIOUS
  <2> QED BY <1>5, <2>1, StrtoulMeans
<1>7. NumeralAt(q, 0) <=> 0 < Len(q) /\ AllDigits(q, 10)
  <2>1. 0 + 1 = 1 /\ BaseOf(0) = 10
    BY DEF BaseOf
  <2> QED BY <2>1 DEF NumeralAt, AllDigits
<1>8. 0 < Len(q) /\ AllDigits(q, 10) => At(q, 1) \in DOMAIN HexOf
  <2> SUFFICES ASSUME 0 < Len(q), AllDigits(q, 10) PROVE At(q, 1) \in DOMAIN HexOf
    OBVIOUS
  <2>1. 1 \in 1 .. Len(q) /\ 1 <= Len(q)
    BY <1>1
  <2>2. q[1] \in DOMAIN DigitOf
    BY <2>1, DigitsIn DEF AllDigits
  <2> QED BY <2>1, <2>2, DigitFacts DEF At
<1>9. At(q, 1) \in DOMAIN HexOf => 0 < Len(q)
  BY DigitFirst
<1>10. ~NumeralAt(q, 2) /\ ~NumeralAt(q, 4)
  <2> SUFFICES ASSUME NEW c \in {2, 4}, NumeralAt(q, c) PROVE FALSE
    OBVIOUS
  <2>1. 1 <= Len(q) /\ 2 <= Len(q) /\ q[1] = "0" /\ q[2] = "x"
    BY <1>1 DEF NumeralAt
  <2> QED BY <2>1 DEF HasPrefix, At
<1> QED BY <1>3, <1>4, <1>5, <1>6, <1>7, <1>8, <1>9, <1>10

LEMMA PrefixedMagnitude ==
  ASSUME NEW S, NEW q \in Seq(S), HasPrefix(q)
  PROVE  /\ Magnitude(q).number <=> NumeralAt(q, 2) \/ NumeralAt(q, 4)
         /\ NumeralAt(q, 2) => Magnitude(q).value = Horner(From(q, 3), 16)
         /\ NumeralAt(q, 4) => Magnitude(q).value = Horner(From(q, 5), 16)
         /\ ~NumeralAt(q, 0) /\ ~(NumeralAt(q, 2) /\ NumeralAt(q, 4))
<1> DEFINE t == From(q, 3)
           L == Len(q)
           D == AfterPrefix(t, 16)
<1>1. L \in Nat /\ 2 <= L /\ q[1] = "0" /\ q[2] = "x"
  <2>1. L \in Nat
    BY LenProperties
  <2>2. At(q, 1) = "0" /\ At(q, 2) = "x"
    BY DEF HasPrefix
  <2>3. 2 <= L /\ q[2] = "x"
    BY <2>1, <2>2 DEF At, NUL
  <2> QED BY <2>1, <2>2, <2>3 DEF At
<1>2. Magnitude(q) = [number |-> At(t, 1) \in DOMAIN HexOf /\ Strtoul(t, 16).rest = <<>>,
                      value  |-> Strtoul(t, 16).value]
  BY DEF Magnitude
<1>3. Magnitude(q).number <=> At(t, 1) \in DOMAIN HexOf /\ Strtoul(t, 16).rest = <<>>
  BY <1>2, NumberField
<1>4. Magnitude(q).value = Strtoul(t, 16).value
  BY <1>2
<1>5. t \in Seq(S) /\ Len(t) = L - 2 /\ \A i \in 1 .. (L - 2) : t[i] = q[i + 2]
  <2>1. 3 \in 1 .. (L + 1)
    BY <1>1
  <2>2. t \in Seq(S) /\ Len(t) = L + 1 - 3 /\ \A i \in 1 .. (L + 1 - 3) : t[i] = q[3 + i - 1]
    BY <2>1, FromFacts
  <2> HIDE DEF t, L
  <2>3. L + 1 - 3 = L - 2 /\ \A i \in 1 .. (L - 2) : 3 + i - 1 = i + 2
    BY <1>1
  <2> QED BY <2>2, <2>3
<1>6. At(t, 1) \in DOMAIN HexOf =>
        /\ Strtoul(t, 16).rest = <<>> <=> AllDigits(D, 16)
        /\ AllDigits(D, 16) => Strtoul(t, 16).value = Horner(D, 16)
  <2>1. 16 \in {10, 16}
    OBVIOUS
  <2>2. t \in Seq(S)
    BY <1>5
  <2> HIDE DEF t
  <2> QED BY <2>1, <2>2, StrtoulMeans
<1>7. ~NumeralAt(q, 0)
  <2> SUFFICES ASSUME NumeralAt(q, 0) PROVE FALSE
    OBVIOUS
  <2>1. 2 \in (0 + 1) .. Len(q)
    BY <1>1
  <2>2. q[2] \in DOMAIN DigitsOf(BaseOf(0))
    BY <2>1 DEF NumeralAt
  <2> QED BY <1>1, <2>2, DigitsIn
<1>8. NumeralAt(q, 2) <=> 2 < L /\ AllDigits(t, 16)
  <2>1. 2 < L => ((\A k \in (2 + 1) .. Len(q) : q[k] \in DOMAIN DigitsOf(BaseOf(2))) <=> AllDigits(From(q, 2 + 1), BaseOf(2)))
    BY NumeralDigits
  <2>2. 2 + 1 = 3 /\ BaseOf(2) = 16
    BY DEF BaseOf
  <2>3. NumeralAt(q, 2) <=> 2 < L /\ \A k \in (2 + 1) .. Len(q) : q[k] \in DOMAIN DigitsOf(BaseOf(2))
    BY <1>1 DEF NumeralAt
  <2> QED BY <2>1, <2>2, <2>3
<1>9. NumeralAt(q, 4) <=> 4 < L /\ q[3] = "0" /\ q[4] = "x" /\ AllDigits(From(q, 5), 16)
  <2>1. 4 < L => ((\A k \in (4 + 1) .. Len(q) : q[k] \in DOMAIN DigitsOf(BaseOf(4))) <=> AllDigits(From(q, 4 + 1), BaseOf(4)))
    BY NumeralDigits
  <2>2. 4 + 1 = 5 /\ BaseOf(4) = 16
    BY DEF BaseOf
  <2>3. NumeralAt(q, 4) <=> 4 < L /\ q[3] = "0" /\ q[4] = "x"
                            /\ \A k \in (4 + 1) .. Len(q) : q[k] \in DOMAIN DigitsOf(BaseOf(4))
    BY <1>1 DEF NumeralAt
  <2> QED BY <2>1, <2>2, <2>3
<1>10. ~(NumeralAt(q, 2) /\ NumeralAt(q, 4))
  <2> SUFFICES ASSUME NumeralAt(q, 2), NumeralAt(q, 4) PROVE FALSE
    OBVIOUS
  <2>1. 4 < L /\ q[4] = "x"
    BY <1>9
  <2>2. 4 \in (2 + 1) .. Len(q)
    BY <1>1, <2>1
  <2>3. q[4] \in DOMAIN DigitsOf(BaseOf(2))
    BY <2>2 DEF NumeralAt
  <2> QED BY <2>1, <2>3, DigitsIn
<1>11. At(t, 1) \in DOMAIN HexOf => 2 < L
  <2>1. At(t, 1) \in DOMAIN HexOf => 1 <= Len(t)
    <3>1. t \in Seq(S)
      BY <1>5
    <3> HIDE DEF t
    <3> QED BY <3>1, DigitFirst
  <2> QED BY <1>1, <1>5, <2>1
<1>12. CASE HasPrefix(t) /\ At(t, 3) \in DOMAIN HexOf
  <2>1. t[1] = "0" /\ t[2] = "x" /\ 3 <= Len(t) /\ At(t, 1) = "0"
    <3>1. Len(t) \in Nat
      BY <1>1, <1>5
    <3>2. 3 <= Len(t)
      BY <1>12, HexFacts DEF At
    <3>3. At(t, 1) = t[1] /\ At(t, 2) = t[2]
      BY <3>1, <3>2 DEF At
    <3> QED BY <1>12, <3>2, <3>3 DEF HasPrefix
  <2>2. 4 < L /\ q[3] = "0" /\ q[4] = "x"
    <3>1. 4 < L /\ 1 \in 1 .. (L - 2) /\ 2 \in 1 .. (L - 2)
      BY <1>1, <1>5, <2>1
    <3>2. t[1] = q[1 + 2] /\ t[2] = q[2 + 2]
      BY <1>5, <3>1
    <3>3. 1 + 2 = 3 /\ 2 + 2 = 4
      OBVIOUS
    <3> QED BY <2>1, <3>1, <3>2, <3>3
  <2>3. D = From(q, 5)
    <3>1. D = From(From(q, 3), 3)
      BY <1>12 DEF AfterPrefix
    <3>2. 3 \in 1 .. (L + 1) /\ 3 \in 1 .. (L + 2 - 3) /\ 3 + 3 - 1 = 5
      BY <1>1, <2>2
    <3> QED BY <3>1, <3>2, FromFrom
  <2>4. ~NumeralAt(q, 2)
    <3> SUFFICES ASSUME NumeralAt(q, 2) PROVE FALSE
      OBVIOUS
    <3>1. 4 \in (2 + 1) .. Len(q)
      BY <1>1, <2>2
    <3>2. q[4] \in DOMAIN DigitsOf(BaseOf(2))
      BY <3>1 DEF NumeralAt
    <3> QED BY <2>2, <3>2, DigitsIn
  <2>5. At(t, 1) \in DOMAIN HexOf
    BY <2>1, HexFacts
  <2> HIDE DEF D, t, L
  <2> QED BY <1>3, <1>4, <1>6, <1>7, <1>9, <2>2, <2>3, <2>4, <2>5
<1>13. CASE ~(HasPrefix(t) /\ At(t, 3) \in DOMAIN HexOf)
  <2>1. D = t
    BY <1>13 DEF AfterPrefix
  <2>2. ~NumeralAt(q, 4)
    <3> SUFFICES ASSUME NumeralAt(q, 4) PROVE FALSE
      OBVIOUS
    <3>1. 4 < L /\ q[3] = "0" /\ q[4] = "x"
      BY <1>9
    <3>2. 5 \in (4 + 1) .. Len(q)
      BY <1>1, <3>1
    <3>3. q[5] \in DOMAIN DigitsOf(BaseOf(4))
      BY <3>2 DEF NumeralAt
    <3>4. /\ 1 \in 1 .. (L - 2) /\ 2 \in 1 .. (L - 2) /\ 3 \in 1 .. (L - 2)
          /\ 1 + 2 = 3 /\ 2 + 2 = 4 /\ 3 + 2 = 5
      BY <1>1, <3>1
    <3>5. t[1] = "0" /\ t[2] = "x" /\ t[3] \in DOMAIN HexOf
      BY <1>5, <3>1, <3>3, <3>4, DigitsIn
    <3>6. 1 <= Len(t) /\ 2 <= Len(t) /\ 3 <= Len(t)
      BY <1>1, <1>5, <3>1
    <3> HIDE DEF t
    <3>7. At(t, 1) = "0" /\ At(t, 2) = "x" /\ At(t, 3) \in DOMAIN HexOf
      BY <3>5, <3>6 DEF At
    <3> QED BY <1>13, <3>7 DEF HasPrefix
  <2>3. 2 < L /\ AllDigits(t, 16) => At(t, 1) \in DOMAIN HexOf
    <3> SUFFICES ASSUME 2 < L, AllDigits(t, 16) PROVE At(t, 1) \in DOMAIN HexOf
      OBVIOUS
    <3>1. 1 \in 1 .. Len(t) /\ 1 <= Len(t)
      BY <1>1, <1>5
    <3> HIDE DEF t
    <3>2. t[1] \in DOMAIN HexOf
      BY <3>1, DigitsIn DEF AllDigits
    <3> QED BY <3>1, <3>2 DEF At
  <2> HIDE DEF D, t, L
  <2> QED BY <1>3, <1>4, <1>6, <1>7, <1>8, <1>11, <2>1, <2>2, <2>3 DEF t
<1> QED BY <1>12, <1>13

-----------------------------------------------------------------------------
(***************************************************************************)
(* How the reference cuts a text.  Behind the first y characters, the      *)
(* prefix and the digits of a cut are a numeral.                           *)
(***************************************************************************)
PrefixesOf == {<<>>, <<"0", "x">>, <<"0", "x", "0", "x">>}

LEMMA PrefixIs ==
  ASSUME NEW S, NEW t \in Seq(S)
  PROVE  t \in PrefixesOf <=> /\ Len(t) \in {0, 2, 4}
                              /\ Len(t) # 0 => t[1] = "0" /\ t[2] = "x"
                              /\ Len(t) = 4 => t[3] = "0" /\ t[4] = "x"
<1>1. ASSUME t \in PrefixesOf
      PROVE  /\ Len(t) \in {0, 2, 4}
             /\ Len(t) # 0 => t[1] = "0" /\ t[2] = "x"
             /\ Len(t) = 4 => t[3] = "0" /\ t[4] = "x"
  BY <1>1 DEF PrefixesOf
<1>2. ASSUME Len(t) \in {0, 2, 4}, Len(t) # 0 => t[1] = "0" /\ t[2] = "x",
             Len(t) = 4 => t[3] = "0" /\ t[4] = "x"
      PROVE  t \in PrefixesOf
  <2>1. CASE Len(t) = 0
    BY <2>1 DEF PrefixesOf
  <2>2. CASE Len(t) = 2
    <3>1. t = <<"0", "x">>
      BY <1>2, <2>2
    <3> QED BY <3>1 DEF PrefixesOf
  <2>3. CASE Len(t) = 4
    <3>1. t = <<"0", "x", "0", "x">>
      BY <1>2, <2>3
    <3> QED BY <3>1 DEF PrefixesOf
  <2> QED BY <1>2, <2>1, <2>2, <2>3
<1> QED BY <1>1, <1>2

LEMMA CutIsNumeral ==
  ASSUME NEW S, NEW s \in Seq(S), NEW y \in 0 .. Len(s), NEW c \in Nat, y + c < Len(s)
  PROVE  /\ NumeralAt(From(s, y + 1), c)
              <=> /\ SubSeq(s, y + 1, y + c) \in PrefixesOf
                  /\ \A k \in (y + c + 1) .. Len(s) : s[k] \in DOMAIN DigitsOf(BaseOf(c))
         /\ From(From(s, y + 1), c + 1) = From(s, y + c + 1)
         /\ c < Len(From(s, y + 1))
<1> DEFINE L == Len(s)
           q == From(s, y + 1)
           t == SubSeq(s, y + 1, y + c)
<1>1. L \in Nat /\ \A i \in 1 .. L : s[i] \in S
  BY LenProperties, ElementOfSeq
<1>2. y \in Nat /\ y + 1 \in 1 .. (L + 1) /\ y + c < L
  BY <1>1
<1>3. q \in Seq(S) /\ Len(q) = L - y /\ \A i \in 1 .. (L - y) : q[i] = s[y + i]
  <2>1. q \in Seq(S) /\ Len(q) = L + 1 - (y + 1) /\ \A i \in 1 .. (L + 1 - (y + 1)) : q[i] = s[y + 1 + i - 1]
    BY <1>2, FromFacts
  <2> HIDE DEF q, L
  <2>2. L + 1 - (y + 1) = L - y /\ \A i \in 1 .. (L - y) : y + 1 + i - 1 = y + i
    BY <1>1, <1>2
  <2> QED BY <2>1, <2>2
<1>4. t \in Seq(S) /\ Len(t) = c /\ \A i \in 1 .. c : t[i] = s[y + i]
  <2>1. \A i \in (y + 1) .. (y + c) : s[i] \in S
    BY <1>1, <1>2
  <2>2. y + 1 \in Int /\ y + c \in Int
    BY <1>2
  <2>3. /\ t \in Seq(S)
        /\ Len(t) = IF y + 1 <= y + c THEN y + c - (y + 1) + 1 ELSE 0
        /\ \A i \in 1 .. (y + c - (y + 1) + 1) : t[i] = s[y + 1 + i - 1]
    BY <2>1, <2>2, SubSeqProperties
  <2> HIDE DEF t, L
  <2>4. /\ y + c - (y + 1) + 1 = c /\ (y + 1 <= y + c <=> c # 0)
        /\ \A i \in 1 .. c : y + 1 + i - 1 = y + i
    BY <1>2
  <2> QED BY <2>3, <2>4
<1>5. From(q, c + 1) = From(s, y + c + 1)
  <2>1. y + 1 \in 1 .. (Len(s) + 1) /\ c + 1 \in 1 .. (Len(s) + 2 - (y + 1)) /\ y + 1 + (c + 1) - 1 = y + c + 1
    BY <1>1, <1>2
  <2> HIDE DEF L
  <2>2. From(From(s, y + 1), c + 1) = From(s, y + 1 + (c + 1) - 1)
    BY <2>1, FromFrom
  <2> QED BY <2>1, <2>2
<1> HIDE DEF q, t, L
<1>6. c < Len(q) /\ \A i \in 1 .. c : t[i] = q[i]
  <2>1. c < L - y /\ \A i \in 1 .. c : i \in 1 .. (L - y)
    BY <1>1, <1>2
  <2> QED BY <1>3, <1>4, <2>1
<1>7. t \in PrefixesOf <=> /\ c \in {0, 2, 4}
                           /\ c # 0 => q[1] = "0" /\ q[2] = "x"
                           /\ c = 4 => q[3] = "0" /\ q[4] = "x"
  <2>1. t \in PrefixesOf <=> /\ c \in {0, 2, 4}
                             /\ c # 0 => t[1] = "0" /\ t[2] = "x"
                             /\ c = 4 => t[3] = "0" /\ t[4] = "x"
    BY <1>4, PrefixIs
  <2>2. c \in {0, 2, 4} => /\ c # 0 => t[1] = q[1] /\ t[2] = q[2]
                           /\ c = 4 => t[3] = q[3] /\ t[4] = q[4]
    BY <1>6
  <2> QED BY <2>1, <2>2
<1>8. ASSUME NEW C PROVE (\A k \in (c + 1) .. Len(q) : q[k] \in C)
                           <=> \A k \in (y + c + 1) .. L : s[k] \in C
  <2>1. ASSUME \A k \in (c + 1) .. Len(q) : q[k] \in C, NEW k \in (y + c + 1) .. L PROVE s[k] \in C
    <3> DEFINE i == k - y
    <3>1. i \in 1 .. (L - y) /\ i \in (c + 1) .. (L - y) /\ y + i = k
      BY <1>1, <1>2
    <3> HIDE DEF i
    <3>2. q[i] = s[k] /\ i \in (c + 1) .. Len(q)
      BY <1>3, <3>1
    <3> QED BY <2>1, <3>2
  <2>2. ASSUME \A k \in (y + c + 1) .. L : s[k] \in C, NEW k \in (c + 1) .. Len(q) PROVE q[k] \in C
    <3>1. k \in 1 .. (L - y) /\ y + k \in (y + c + 1) .. L
      BY <1>1, <1>2, <1>3
    <3> QED BY <1>3, <2>2, <3>1
  <2> QED BY <2>1, <2>2
<1>9. NumeralAt(q, c) <=> /\ t \in PrefixesOf
                          /\ \A k \in (y + c + 1) .. L : s[k] \in DOMAIN DigitsOf(BaseOf(c))
  BY <1>6, <1>7, <1>8 DEF NumeralAt
<1> QED BY <1>5, <1>6, <1>9 DEF q, t, L

(* A sign is one character or none.                                        *)
LEMMA SignOne ==
  ASSUME NEW S, NEW s \in Seq(S), NEW x \in 0 .. Len(s), NEW y \in x .. Len(s)
  PROVE  /\ SubSeq(s, x + 1, y) = <<>> <=> y = x
         /\ \A g : SubSeq(s, x + 1, y) = <<g>> <=> y = x + 1 /\ s[y] = g
<1> DEFINE t == SubSeq(s, x + 1, y)
<1>1. Len(s) \in Nat /\ \A i \in 1 .. Len(s) : s[i] \in S
  BY LenProperties, ElementOfSeq
<1>2. x \in Nat /\ y \in Nat /\ x <= y /\ y <= Len(s)
  BY <1>1
<1>3. t \in Seq(S) /\ Len(t) = y - x /\ \A i \in 1 .. (y - x) : t[i] = s[x + i]
  <2>1. \A i \in (x + 1) .. y : s[i] \in S
    BY <1>1, <1>2
  <2>2. x + 1 \in Int /\ y \in Int
    BY <1>2
  <2>3. /\ t \in Seq(S)
        /\ Len(t) = IF x + 1 <= y THEN y - (x + 1) + 1 ELSE 0
        /\ \A i \in 1 .. (y - (x + 1) + 1) : t[i] = s[x + 1 + i - 1]
    BY <2>1, <2>2, SubSeqProperties
  <2> HIDE DEF t
  <2>4. /\ y - (x + 1) + 1 = y - x /\ (~(x + 1 <= y) => y - x = 0)
        /\ \A i \in 1 .. (y - x) : x + 1 + i - 1 = x + i
    BY <1>2
  <2> QED BY <2>3, <2>4
<1> HIDE DEF t
<1>4. ASSUME t = <<>> PROVE y = x
  BY <1>2, <1>3, <1>4
<1>5. ASSUME NEW g, t = <<g>> PROVE y = x + 1 /\ s[y] = g
  <2>1. Len(t) = 1 /\ t[1] = g
    BY <1>5
  <2>2. y - x = 1
    BY <1>3, <2>1, Zenon
  <2>3. y = x + 1 /\ 1 \in 1 .. (y - x)
    BY <1>2, <2>2
  <2>4. s[x + 1] = g
    BY <1>3, <2>1, <2>3
  <2> QED BY <2>3, <2>4
<1>6. ASSUME y = x PROVE t = <<>>
  <2>1. Len(t) = 0
    BY <1>2, <1>3, <1>6
  <2> QED BY <1>3, <2>1, EmptySeq
<1>7. ASSUME y = x + 1 PROVE t = <<s[y]>>
  <2>1. Len(t) = 1 /\ 1 \in 1 .. (y - x)
    BY <1>2, <1>3, <1>7
  <2>2. t[1] = s[y]
    BY <1>3, <1>7, <2>1
  <2>3. s[y] \in S
    BY <1>1, <1>2, <1>7
  <2>4. /\ <<s[y]>> \in Seq(S) /\ Len(<<s[y]>>) = 1
        /\ \A i \in 1 .. 1 : <<s[y]>>[i] = t[i]
    BY <2>2, <2>3
  <2> QED BY <1>3, <2>1, <2>4, SeqEqual
<1>8. \A g : t = <<g>> <=> y = x + 1 /\ s[y] = g
  BY <1>5, <1>7, Zenon
<1> QED BY <1>4, <1>6, <1>8, Zenon DEF t

LEMMA SignIs ==
  ASSUME NEW S, NEW s \in Seq(S), NEW x \in 0 .. Len(s), NEW y \in x .. Len(s), NEW signs
  PROVE  SubSeq(s, x + 1, y) \in {<<>>} \cup {<<g>> : g \in signs}
           <=> y = x \/ (y = x + 1 /\ s[y] \in signs)
<1> DEFINE t == SubSeq(s, x + 1, y)
<1>1. t \in {<<>>} \cup {<<g>> : g \in signs} <=> t = <<>> \/ \E g \in signs : t = <<g>>
  BY Zenon
<1>2. t = <<>> <=> y = x
  BY SignOne
<1>3. ASSUME NEW g PROVE t = <<g>> <=> y = x + 1 /\ s[y] = g
  BY SignOne, SMTT(60)
<1> HIDE DEF t
<1>4. (\E g \in signs : t = <<g>>) <=> y = x + 1 /\ s[y] \in signs
  BY <1>3, Zenon
<1> QED BY <1>1, <1>2, <1>4, Zenon DEF t

-----------------------------------------------------------------------------
(***************************************************************************)
(* The grammar the parsers do accept: strtoul skips a prefix of its own in *)
(* base 16, so that there may be a second one.                             *)
(***************************************************************************)
WideCuts(signs, s) ==
  {cut \in (0 .. Len(s)) \X (0 .. Len(s)) \X (0 .. Len(s)) :
    LET a == cut[1]  b == cut[2]  c == cut[3] IN
    /\ a <= b /\ b <= c /\ c < Len(s)
    /\ \A k \in 1..a : s[k] = Space
    /\ SubSeq(s, a + 1, b) \in {<<>>} \cup {<<g>> : g \in signs}
    /\ SubSeq(s, b + 1, c) \in {<<>>, <<"0", "x">>, <<"0", "x", "0", "x">>}
    /\ \A k \in (c + 1) .. Len(s) : s[k] \in DOMAIN DigitsOf(IF b = c THEN 10 ELSE 16)}

WideMeaning(signs, s) ==
  {(IF SubSeq(s, cut[1] + 1, cut[2]) = <<"-">> THEN -1 ELSE 1)
     * Positional(From(s, cut[3] + 1), IF cut[2] = cut[3] THEN 10 ELSE 16) :
   cut \in WideCuts(signs, s)}

WideMeaningIn(type, s) ==
  CASE type \in UnsignedTypes -> WideMeaning({"+"}, s)
    [] type \in SignedTypes   -> WideMeaning({"+", "-"}, s)
    [] OTHER                  -> Meaning(type, s)

LEMMA CutParts ==
  ASSUME NEW S, NEW s \in Seq(S), NEW signs,
         NEW x \in 0 .. Len(s), NEW y \in 0 .. Len(s), NEW z \in 0 .. Len(s)
  PROVE  <<x, y, z>> \in WideCuts(signs, s)
           <=> /\ x <= y /\ y <= z /\ z < Len(s) /\ \A k \in 1 .. x : s[k] = Space
               /\ y = x \/ (y = x + 1 /\ s[y] \in signs)
               /\ NumeralAt(From(s, y + 1), z - y)
<1> DEFINE blank == \A k \in 1 .. x : s[k] = Space
           sign  == SubSeq(s, x + 1, y) \in {<<>>} \cup {<<g>> : g \in signs}
           pre   == SubSeq(s, y + 1, z) \in PrefixesOf
           digits(base) == \A k \in (z + 1) .. Len(s) : s[k] \in DOMAIN DigitsOf(base)
<1>0. Len(s) \in Nat
  BY LenProperties
<1>1. <<x, y, z>> \in WideCuts(signs, s)
        <=> x <= y /\ y <= z /\ z < Len(s) /\ blank /\ sign /\ pre /\ digits(IF y = z THEN 10 ELSE 16)
  <2> DEFINE cut == <<x, y, z>>
             box == (0 .. Len(s)) \X (0 .. Len(s)) \X (0 .. Len(s))
             ok(t) == LET a == t[1]  b == t[2]  c == t[3] IN
                /\ a <= b /\ b <= c /\ c < Len(s)
                /\ \A k \in 1..a : s[k] = Space
                /\ SubSeq(s, a + 1, b) \in {<<>>} \cup {<<g>> : g \in signs}
                /\ SubSeq(s, b + 1, c) \in {<<>>, <<"0", "x">>, <<"0", "x", "0", "x">>}
                /\ \A k \in (c + 1) .. Len(s) : s[k] \in DOMAIN DigitsOf(IF b = c THEN 10 ELSE 16)
  <2>1. WideCuts(signs, s) = {t \in box : ok(t)}
    BY DEF WideCuts
  <2>2. cut \in box /\ cut[1] = x /\ cut[2] = y /\ cut[3] = z
    OBVIOUS
  <2>3. ok(cut) <=> x <= y /\ y <= z /\ z < Len(s) /\ blank /\ sign /\ pre /\ digits(IF y = z THEN 10 ELSE 16)
    <3> HIDE DEF cut
    <3> QED BY <2>2, Zenon DEF PrefixesOf
  <2> HIDE DEF cut, ok, box
  <2> QED BY <2>1, <2>2, <2>3, Zenon DEF cut
<1>2. CASE ~(x <= y /\ y <= z /\ z < Len(s))
  BY <1>1, <1>2, Zenon
<1>3. CASE x <= y /\ y <= z /\ z < Len(s)
  <2> DEFINE c == z - y
  <2>1. c \in Nat /\ y + c = z /\ y \in x .. Len(s) /\ y + c < Len(s) /\ y + c + 1 = z + 1
    BY <1>0, <1>3
  <2>2. BaseOf(c) = IF y = z THEN 10 ELSE 16
    BY <1>3 DEF BaseOf
  <2>3. sign <=> y = x \/ (y = x + 1 /\ s[y] \in signs)
    BY <2>1, SignIs
  <2> HIDE DEF c
  <2>4. NumeralAt(From(s, y + 1), c)
          <=> /\ SubSeq(s, y + 1, y + c) \in PrefixesOf
              /\ \A k \in (y + c + 1) .. Len(s) : s[k] \in DOMAIN DigitsOf(BaseOf(c))
    BY <2>1, CutIsNumeral
  <2>5. NumeralAt(From(s, y + 1), c) <=> pre /\ digits(BaseOf(c))
    BY <2>1, <2>4
  <2>6. NumeralAt(From(s, y + 1), c) <=> pre /\ digits(IF y = z THEN 10 ELSE 16)
    BY <2>2, <2>5, Zenon
  <2> HIDE DEF sign, pre, digits, blank
  <2>7. <<x, y, z>> \in WideCuts(signs, s)
          <=> blank /\ (y = x \/ (y = x + 1 /\ s[y] \in signs)) /\ NumeralAt(From(s, y + 1), c)
    BY <1>1, <1>3, <2>3, <2>6, Zenon
  <2> QED BY <1>3, <2>7, Zenon DEF c, blank
<1> QED BY <1>2, <1>3

(* Where a numeral starts: behind the blanks and the sign, if the type has *)
(* one.                                                                    *)
SignAt(signs, s) == IF At(SkipSpace(s), 1) \in signs THEN 1 ELSE 0
Unsigned(signs, s) == From(SkipSpace(s), SignAt(signs, s) + 1)

LEMMA StartOf ==
  ASSUME NEW S, NEW s \in Seq(S), NEW signs \in SUBSET {"+", "-"}
  PROVE  LET a == SpanOf(s, {Space})  b == SignAt(signs, s) IN
         /\ Len(s) \in Nat /\ a \in Nat /\ b \in {0, 1} /\ a + b <= Len(s)
         /\ \A k \in 1 .. a : s[k] = Space
         /\ a < Len(s) => s[a + 1] # Space /\ At(SkipSpace(s), 1) = s[a + 1]
         /\ b = 1 <=> a < Len(s) /\ s[a + 1] \in signs
         /\ Unsigned(signs, s) = From(s, a + b + 1)
         /\ Unsigned(signs, s) \in Seq(S)
<1> DEFINE a == SpanOf(s, {Space})
           b == SignAt(signs, s)
           p == SkipSpace(s)
           L == Len(s)
<1>1. L \in Nat /\ DOMAIN s = 1 .. L
  BY TextParts
<1>2. a \in 0 .. L /\ (\A k \in 1 .. a : s[k] \in {Space}) /\ (a < L => s[a + 1] \notin {Space})
  BY <1>1, SpanFacts
<1>3. p = From(s, a + 1)
  BY DEF SkipSpace
<1> HIDE DEF a, p
<1>4. a \in Nat /\ a + 1 \in 1 .. (L + 1) /\ a <= L
  BY <1>1, <1>2
<1>5. /\ p \in Seq(S) /\ Len(p) = L + 1 - (a + 1)
      /\ \A i \in 1 .. (L + 1 - (a + 1)) : p[i] = s[a + 1 + i - 1]
  BY <1>3, <1>4, FromFacts
<1>6. Len(p) = L - a
  <2> HIDE DEF L
  <2> QED BY <1>1, <1>4, <1>5
<1>7. a < L => At(p, 1) = s[a + 1]
  <2> SUFFICES ASSUME a < L PROVE At(p, 1) = s[a + 1]
    OBVIOUS
  <2> HIDE DEF L
  <2>1. 1 \in 1 .. (L + 1 - (a + 1)) /\ 1 <= Len(p) /\ a + 1 + 1 - 1 = a + 1
    BY <1>1, <1>4, <1>6
  <2> QED BY <1>5, <2>1 DEF At
<1>8. ~(a < L) => At(p, 1) = NUL
  <2> HIDE DEF L
  <2> QED BY <1>1, <1>4, <1>6 DEF At
<1>9. b = IF At(p, 1) \in signs THEN 1 ELSE 0
  BY DEF SignAt, p
<1>10. b \in {0, 1} /\ (b = 1 <=> a < L /\ s[a + 1] \in signs)
  <2>1. NUL \notin signs
    BY DEF NUL
  <2> HIDE DEF b
  <2> QED BY <1>7, <1>8, <1>9, <2>1
<1>11. a + b <= L /\ b + 1 \in 1 .. (L + 2 - (a + 1)) /\ a + 1 + (b + 1) - 1 = a + b + 1
  <2> HIDE DEF L, b
  <2>1. b = 1 => a < L
    BY <1>10
  <2> QED BY <1>1, <1>4, <1>10, <2>1
<1>12. Unsigned(signs, s) = From(From(s, a + 1), b + 1)
  BY <1>3 DEF Unsigned, p
<1>13. From(From(s, a + 1), b + 1) = From(s, a + b + 1)
  <2>1. From(From(s, a + 1), b + 1) = From(s, a + 1 + (b + 1) - 1)
    BY <1>4, <1>11, FromFrom
  <2> QED BY <1>11, <2>1
<1>14. From(s, a + b + 1) \in Seq(S)
  <2>1. a + b + 1 \in Nat \ {0}
    BY <1>4, <1>10
  <2> QED BY <2>1, TextParts
<1> HIDE DEF b, L
<1>15. /\ L \in Nat /\ a \in Nat /\ b \in {0, 1} /\ a + b <= L
       /\ \A k \in 1 .. a : s[k] = Space
       /\ a < L => s[a + 1] # Space /\ At(p, 1) = s[a + 1]
       /\ b = 1 <=> a < L /\ s[a + 1] \in signs
       /\ Unsigned(signs, s) = From(s, a + b + 1)
       /\ Unsigned(signs, s) \in Seq(S)
  <2>1. \A k \in 1 .. a : s[k] = Space
    BY <1>2
  <2>2. a < L => s[a + 1] # Space /\ At(p, 1) = s[a + 1]
    BY <1>2, <1>7
  <2> QED BY <1>1, <1>4, <1>10, <1>11, <1>12, <1>13, <1>14, <2>1, <2>2, Zenon
<1> QED BY <1>15 DEF a, b, p, L

-----------------------------------------------------------------------------
(* What the first character of a numeral is not.                           *)
LEMMA NumeralFirst ==
  ASSUME NEW S, NEW q \in Seq(S), NEW c, NumeralAt(q, c)
  PROVE  /\ Len(q) \in Nat /\ 1 <= Len(q) /\ c \in {0, 2, 4} /\ c < Len(q)
         /\ q[1] \notin {Space, "-", "+"}
<1>1. Len(q) \in Nat
  BY LenProperties
<1>2. c \in {0, 2, 4} /\ c < Len(q) /\ 1 <= Len(q)
  BY <1>1 DEF NumeralAt
<1>3. CASE c = 0
  <2>1. 1 \in (0 + 1) .. Len(q)
    BY <1>1, <1>2
  <2>2. q[1] \in DOMAIN DigitsOf(BaseOf(0))
    BY <1>3, <2>1 DEF NumeralAt
  <2> QED BY <1>1, <1>2, <2>2, DigitsIn, HexFacts
<1>4. CASE c # 0
  BY <1>1, <1>2, <1>4 DEF NumeralAt, Space
<1> QED BY <1>3, <1>4

(***************************************************************************)
(* A text is cut in at most one way up to the prefix, and a cut is there   *)
(* exactly when what follows the blanks and the sign is a numeral.         *)
(***************************************************************************)
LEMMA CutsMean ==
  ASSUME NEW S, NEW s \in Seq(S), NEW signs \in SUBSET {"+", "-"}
  PROVE  LET a == SpanOf(s, {Space})  b == SignAt(signs, s)  q == Unsigned(signs, s) IN
         /\ \A cut \in WideCuts(signs, s) :
              \E c \in {0, 2, 4} : cut = <<a, a + b, a + b + c>> /\ NumeralAt(q, c)
         /\ \A c : NumeralAt(q, c) => <<a, a + b, a + b + c>> \in WideCuts(signs, s)
<1> DEFINE a == SpanOf(s, {Space})
           b == SignAt(signs, s)
           q == Unsigned(signs, s)
           L == Len(s)
<1>1. /\ L \in Nat /\ a \in Nat /\ b \in {0, 1} /\ a + b <= L
      /\ \A k \in 1 .. a : s[k] = Space
      /\ a < L => s[a + 1] # Space
      /\ b = 1 <=> a < L /\ s[a + 1] \in signs
      /\ q = From(s, a + b + 1) /\ q \in Seq(S)
  BY StartOf
<1>2. ASSUME NEW cut \in WideCuts(signs, s)
      PROVE  \E c \in {0, 2, 4} : cut = <<a, a + b, a + b + c>> /\ NumeralAt(q, c)
  <2>1. cut \in (0 .. L) \X (0 .. L) \X (0 .. L)
    BY DEF WideCuts
  <2>2. PICK x \in 0 .. L, y \in 0 .. L, z \in 0 .. L : cut = <<x, y, z>>
    BY <2>1
  <2>3. /\ x <= y /\ y <= z /\ z < L /\ \A k \in 1 .. x : s[k] = Space
        /\ y = x \/ (y = x + 1 /\ s[y] \in signs)
        /\ NumeralAt(From(s, y + 1), z - y)
    BY <2>2, CutParts
  <2>4. /\ From(s, y + 1) \in Seq(S)
        /\ \A i \in 1 .. (L + 1 - (y + 1)) : From(s, y + 1)[i] = s[y + 1 + i - 1]
        /\ Len(From(s, y + 1)) = L + 1 - (y + 1)
    <3>1. y + 1 \in 1 .. (Len(s) + 1)
      BY <1>1
    <3> QED BY <3>1, FromFacts
  <2>5. z - y \in {0, 2, 4} /\ From(s, y + 1)[1] \notin {Space, "-", "+"}
    BY <2>3, <2>4, NumeralFirst
  <2> HIDE DEF a, b, q, L
  <2>6. y < L /\ x < L /\ x + 1 \in 1 .. L
    BY <1>1, <2>3
  <2>7. s[y + 1] \notin {Space, "-", "+"}
    <3>1. 1 \in 1 .. (L + 1 - (y + 1)) /\ y + 1 + 1 - 1 = y + 1
      BY <1>1, <2>6
    <3>2. From(s, y + 1)[1] = s[y + 1]
      BY <2>4, <3>1
    <3> QED BY <2>5, <3>2
  <2>8. s[x + 1] # Space
    <3>1. \A g \in signs : g # Space
      BY DEF Space
    <3> QED BY <2>3, <2>7, <3>1
  <2>9. a = x
    <3>1. \A j \in 1 .. x : s[j] \in {Space}
      BY <2>3
    <3>2. DOMAIN s = 1 .. Len(s) /\ Len(s) \in Nat
      BY TextParts
    <3>3. s[x + 1] \notin {Space}
      BY <2>8
    <3>4. x \in 0 .. Len(s)
      BY DEF L
    <3>5. SpanOf(s, {Space}) = x
      BY <3>1, <3>2, <3>3, <3>4, SpanIs
    <3> QED BY <3>5 DEF a
  <2>10. y = a + b
    <3>1. CASE y = x
      <4>1. s[a + 1] \notin signs
        BY <2>7, <2>9, <3>1
      <4> QED BY <1>1, <2>9, <3>1, <4>1
    <3>2. CASE y = x + 1 /\ s[y] \in signs
      BY <1>1, <2>6, <2>9, <3>2
    <3> QED BY <2>3, <3>1, <3>2
  <2> DEFINE c == z - y
  <2>11. z = a + b + c /\ c \in {0, 2, 4}
    BY <1>1, <2>5, <2>10
  <2>12. NumeralAt(q, c)
    BY <1>1, <2>3, <2>10
  <2> HIDE DEF c
  <2> QED BY <2>2, <2>9, <2>10, <2>11, <2>12, Zenon
<1>3. ASSUME NEW c, NumeralAt(q, c)
      PROVE  <<a, a + b, a + b + c>> \in WideCuts(signs, s)
  <2>1. c \in {0, 2, 4} /\ c < Len(q)
    BY <1>1, <1>3, NumeralFirst
  <2>2. Len(q) = L + 1 - (a + b + 1)
    <3>1. a + b + 1 \in 1 .. (Len(s) + 1)
      BY <1>1
    <3> QED BY <1>1, <3>1, FromFacts, ZenonT(60)
  <2> HIDE DEF a, b, q, L
  <2> DEFINE y == a + b
             z == a + b + c
  <2>3. /\ a \in 0 .. L /\ y \in 0 .. L /\ z \in 0 .. L /\ a <= y /\ y <= z /\ z < L /\ z - y = c
        /\ y = a \/ y = a + 1
    BY <1>1, <2>1, <2>2
  <2>4. y = a \/ (y = a + 1 /\ s[y] \in signs)
    BY <1>1, <2>3
  <2>5. NumeralAt(From(s, y + 1), z - y)
    BY <1>1, <1>3, <2>3
  <2> HIDE DEF y, z
  <2>6. <<a, y, z>> \in WideCuts(signs, s)
    BY <1>1, <2>3, <2>4, <2>5, CutParts DEF L
  <2> QED BY <2>6 DEF y, z
<1> HIDE DEF a, b, q
<1> QED BY <1>2, <1>3, Zenon DEF a, b, q

(***************************************************************************)
(* So the reference has one meaning for it, the magnitude that the parsers *)
(* read, with its sign, or none.                                           *)
(***************************************************************************)
LEMMA IntegerMeans ==
  ASSUME NEW S, NEW s \in Seq(S), NEW signs \in SUBSET {"+", "-"}
  PROVE  LET m == Magnitude(Unsigned(signs, s)) IN
         /\ ~m.number => WideMeaning(signs, s) = {}
         /\ m.number => /\ m.value \in Nat
                        /\ WideMeaning(signs, s)
                             = {IF "-" \in signs /\ At(SkipSpace(s), 1) = "-" THEN -m.value ELSE m.value}
<1> DEFINE a == SpanOf(s, {Space})
           b == SignAt(signs, s)
           q == Unsigned(signs, s)
           m == Magnitude(q)
           minus == "-" \in signs /\ At(SkipSpace(s), 1) = "-"
           value(cut) == (IF SubSeq(s, cut[1] + 1, cut[2]) = <<"-">> THEN -1 ELSE 1)
                           * Positional(From(s, cut[3] + 1), IF cut[2] = cut[3] THEN 10 ELSE 16)
<1>1. /\ Len(s) \in Nat /\ a \in Nat /\ b \in {0, 1} /\ a + b <= Len(s)
      /\ a < Len(s) => At(SkipSpace(s), 1) = s[a + 1]
      /\ b = 1 <=> a < Len(s) /\ s[a + 1] \in signs
      /\ q = From(s, a + b + 1) /\ q \in Seq(S)
  BY StartOf
<1>2. WideMeaning(signs, s) = {value(cut) : cut \in WideCuts(signs, s)}
  BY DEF WideMeaning
<1>3. /\ m.number <=> \E c : NumeralAt(q, c)
      /\ \A c : NumeralAt(q, c) => m.value = Horner(From(q, c + 1), BaseOf(c))
  <2> HIDE DEF q
  <2>1. /\ \A c : NumeralAt(q, c) => c \in {0, 2, 4}
        /\ BaseOf(0) = 10 /\ BaseOf(2) = 16 /\ BaseOf(4) = 16 /\ 0 + 1 = 1 /\ 2 + 1 = 3 /\ 4 + 1 = 5
    BY DEF NumeralAt, BaseOf
  <2>2. CASE HasPrefix(q)
    <3>1. /\ m.number <=> NumeralAt(q, 2) \/ NumeralAt(q, 4)
          /\ NumeralAt(q, 2) => m.value = Horner(From(q, 3), 16)
          /\ NumeralAt(q, 4) => m.value = Horner(From(q, 5), 16)
          /\ ~NumeralAt(q, 0)
      BY <1>1, <2>2, PrefixedMagnitude
    <3> HIDE DEF m
    <3> QED BY <2>1, <3>1
  <2>3. CASE ~HasPrefix(q)
    <3>1. /\ m.number <=> NumeralAt(q, 0)
          /\ m.number => m.value = Horner(From(q, 1), 10)
          /\ ~NumeralAt(q, 2) /\ ~NumeralAt(q, 4)
      BY <1>1, <2>3, PlainMagnitude
    <3> HIDE DEF m
    <3> QED BY <2>1, <3>1
  <2> QED BY <2>2, <2>3
<1>4. /\ \A cut \in WideCuts(signs, s) :
           \E c \in {0, 2, 4} : cut = <<a, a + b, a + b + c>> /\ NumeralAt(q, c)
      /\ \A c : NumeralAt(q, c) => <<a, a + b, a + b + c>> \in WideCuts(signs, s)
  BY CutsMean
<1>5. SubSeq(s, a + 1, a + b) = <<"-">> <=> b = 1 /\ s[a + 1] = "-"
  <2> HIDE DEF a, b
  <2>1. a \in 0 .. Len(s) /\ a + b \in a .. Len(s) /\ (a + b = a + 1 <=> b = 1)
    BY <1>1
  <2>2. SubSeq(s, a + 1, a + b) = <<"-">> <=> a + b = a + 1 /\ s[a + b] = "-"
    BY <2>1, SignOne, SMTT(60)
  <2> QED BY <2>1, <2>2
<1>6. (b = 1 /\ s[a + 1] = "-") <=> minus
  <2>1. minus => b = 1
    BY DEF SignAt
  <2> HIDE DEF a, b
  <2> QED BY <1>1, <2>1
<1> DEFINE v == IF minus THEN -m.value ELSE m.value
<1>7. ASSUME NEW c, NumeralAt(q, c)
      PROVE  m.value \in Nat /\ value(<<a, a + b, a + b + c>>) = v
  <2> DEFINE D == From(q, c + 1)
             h == Horner(D, BaseOf(c))
  <2>1. c \in {0, 2, 4} /\ c < Len(q) /\ Len(q) \in Nat
    BY <1>1, <1>7, NumeralFirst
  <2>2. From(s, a + b + c + 1) = D
    <3>1. a + b + 1 \in 1 .. (Len(s) + 1)
      BY <1>1
    <3>2. Len(q) = Len(s) + 1 - (a + b + 1)
      BY <1>1, <3>1, FromFacts
    <3> HIDE DEF a, b, q
    <3>3. c + 1 \in 1 .. (Len(s) + 2 - (a + b + 1)) /\ a + b + 1 + (c + 1) - 1 = a + b + c + 1
      BY <1>1, <2>1, <3>2
    <3>4. From(From(s, a + b + 1), c + 1) = From(s, a + b + 1 + (c + 1) - 1)
      BY <3>1, <3>3, FromFrom
    <3> QED BY <1>1, <3>3, <3>4
  <2>3. AllDigits(D, BaseOf(c))
    <3> HIDE DEF q
    <3> QED BY <1>1, <1>7, <2>1, NumeralDigits DEF NumeralAt
  <2>4. BaseOf(c) \in {10, 16} /\ BaseOf(c) = IF a + b = a + b + c THEN 10 ELSE 16
    BY <1>1, <2>1 DEF BaseOf
  <2>5. Len(D) \in Nat
    <3>1. c + 1 \in Nat \ {0}
      BY <2>1
    <3>2. D \in Seq(S)
      BY <1>1, <3>1, TextParts
    <3> QED BY <3>2, LenProperties
  <2>6. Positional(D, BaseOf(c)) = h /\ h \in Nat
    BY <2>3, <2>4, <2>5, PositionalIsHorner DEF AllDigits
  <2>7. m.value = h
    BY <1>3, <1>7
  <2> HIDE DEF h, D, m, q, a, b
  <2>8. value(<<a, a + b, a + b + c>>)
          = (IF SubSeq(s, a + 1, a + b) = <<"-">> THEN -1 ELSE 1) * h
    BY <2>2, <2>4, <2>6
  <2>9. (-1) * h = -h /\ 1 * h = h
    BY <2>6
  <2>10. value(<<a, a + b, a + b + c>>) = IF minus THEN -h ELSE h
    BY <1>5, <1>6, <2>8, <2>9
  <2> QED BY <2>6, <2>7, <2>10
<1> HIDE DEF a, b, q, m, minus, value
<1>8. CASE ~m.number
  <2>1. WideCuts(signs, s) = {}
    BY <1>3, <1>4, <1>8, Zenon
  <2> QED BY <1>2, <1>8, <2>1 DEF m, q
<1>9. CASE m.number
  <2>1. PICK c : NumeralAt(q, c)
    BY <1>3, <1>9
  <2>2. m.value \in Nat
    BY <1>7, <2>1
  <2>3. \A cut \in WideCuts(signs, s) : value(cut) = v
    BY <1>4, <1>7, Zenon
  <2>4. <<a, a + b, a + b + c>> \in WideCuts(signs, s)
    BY <1>4, <2>1
  <2> HIDE DEF v
  <2>5. {value(cut) : cut \in WideCuts(signs, s)} = {v}
    BY <2>3, <2>4
  <2> QED BY <1>2, <1>9, <2>2, <2>5, Zenon DEF v, m, q, minus
<1> QED BY <1>8, <1>9

-----------------------------------------------------------------------------
(* The parsers step over a sign with Tail.                                 *)
LEMMA TailIsFrom ==
  ASSUME NEW S, NEW p \in Seq(S), p # <<>>
  PROVE  Tail(p) = From(p, 2)
BY TailIsSubSeq DEF From

LEMMA BehindSign ==
  ASSUME NEW S, NEW s \in Seq(S), NEW signs \in SUBSET {"+", "-"}
  PROVE  LET p == SkipSpace(s) IN
         Unsigned(signs, s) = IF At(p, 1) \in signs THEN Tail(p) ELSE p
<1> DEFINE p == SkipSpace(s)
<1>1. p \in Seq(S)
  BY TextParts
<1> HIDE DEF p
<1>2. CASE At(p, 1) \in signs
  <2>1. p # <<>>
    BY <1>2 DEF At, NUL
  <2>2. Unsigned(signs, s) = From(p, 1 + 1)
    BY <1>2 DEF Unsigned, SignAt, p
  <2>3. 1 + 1 = 2
    OBVIOUS
  <2> QED BY <1>1, <1>2, <2>1, <2>2, <2>3, TailIsFrom DEF p
<1>3. CASE At(p, 1) \notin signs
  <2>1. Unsigned(signs, s) = From(p, 0 + 1)
    BY <1>3 DEF Unsigned, SignAt, p
  <2>2. 0 + 1 = 1
    OBVIOUS
  <2> QED BY <1>1, <1>3, <2>1, <2>2, FromOne DEF p
<1> QED BY <1>2, <1>3

LEMMA MagnitudeFirst ==
  ASSUME NEW S, NEW q \in Seq(S), Magnitude(q).number
  PROVE  At(q, 1) \notin {Space, "-", "+"}
<1>1. \E c : NumeralAt(q, c)
  <2>1. CASE HasPrefix(q)
    BY <2>1, PrefixedMagnitude, Zenon
  <2>2. CASE ~HasPrefix(q)
    BY <2>2, PlainMagnitude, Zenon
  <2> QED BY <2>1, <2>2
<1>2. Len(q) \in Nat /\ 1 <= Len(q) /\ q[1] \notin {Space, "-", "+"}
  BY <1>1, NumeralFirst
<1> QED BY <1>2 DEF At

(***************************************************************************)
(* parse_u32 and parse_i32 against the reference: what they refuse as no   *)
(* number means none, what they refuse as out of range is out of 32 bits,  *)
(* and what they take is what the text means.                              *)
(***************************************************************************)
LEMMA UnsignedMeans ==
  ASSUME NEW S, NEW s \in Seq(S)
  PROVE  LET P == ParseUnsigned(s)  M == WideMeaning({"+"}, s) IN
         \/ P = Refusal("TYPE") /\ M = {}
         \/ P = Refusal("RANGE") /\ \E v \in M : v \in Int /\ v > 2 * H32 - 1
         \/ \E r \in Raw : P = Taken(r) /\ M = {r}
<1> DEFINE p == SkipSpace(s)
           q == Unsigned({"+"}, s)
           m == Magnitude(q)
           M == WideMeaning({"+"}, s)
<1>1. {"+"} \in SUBSET {"+", "-"}
  OBVIOUS
<1>2. q = (IF At(p, 1) = "+" THEN Tail(p) ELSE p) /\ q \in Seq(S) /\ p \in Seq(S)
  <2>1. q = IF At(p, 1) \in {"+"} THEN Tail(p) ELSE p
    BY <1>1, BehindSign
  <2>2. q \in Seq(S) /\ p \in Seq(S)
    BY <1>1, StartOf, TextParts
  <2> HIDE DEF p, q
  <2> QED BY <2>1, <2>2
<1>3. /\ ~m.number => M = {}
      /\ m.number => m.value \in Nat /\ M = {m.value}
  <2>1. "-" \notin {"+"}
    OBVIOUS
  <2> QED BY <1>1, <2>1, IntegerMeans
<1>4. At(p, 1) = "-" => ~m.number
  <2> SUFFICES ASSUME At(p, 1) = "-" PROVE ~m.number
    OBVIOUS
  <2>1. q = p
    BY <1>2
  <2> HIDE DEF p, q
  <2> QED BY <1>2, <2>1, MagnitudeFirst
<1>5. ParseUnsigned(s) = IF At(p, 1) = "-" \/ ~m.number THEN Refusal("TYPE")
                         ELSE IF m.value > 2 * H32 - 1 THEN Refusal("RANGE") ELSE Taken(m.value)
  <2>1. ParseUnsigned(s) =
          LET x == Magnitude(IF At(p, 1) = "+" THEN Tail(p) ELSE p)
          IN  IF At(p, 1) = "-" \/ ~x.number THEN Refusal("TYPE")
              ELSE IF x.value > 2 * H32 - 1 THEN Refusal("RANGE") ELSE Taken(x.value)
    BY DEF ParseUnsigned
  <2> HIDE DEF p, q
  <2> QED BY <1>2, <2>1, Zenon
<1> HIDE DEF m, p, M
<1>6. CASE ~m.number
  <2>1. ParseUnsigned(s) = Refusal("TYPE") /\ M = {}
    BY <1>3, <1>5, <1>6, Zenon
  <2> QED BY <2>1 DEF M
<1>7. CASE m.number /\ m.value > 2 * H32 - 1
  <2>1. ParseUnsigned(s) = Refusal("RANGE")
    BY <1>4, <1>5, <1>7, Zenon
  <2>2. m.value \in M /\ m.value \in Int
    BY <1>3, <1>7
  <2> QED BY <1>7, <2>1, <2>2 DEF M
<1>8. CASE m.number /\ ~(m.value > 2 * H32 - 1)
  <2>1. ParseUnsigned(s) = Taken(m.value)
    BY <1>4, <1>5, <1>8, Zenon
  <2>2. m.value \in Raw /\ M = {m.value}
    BY <1>3, <1>8, WidthAssumption DEF Raw
  <2> QED BY <2>1, <2>2 DEF M
<1> QED BY <1>6, <1>7, <1>8

LEMMA SignedMeans ==
  ASSUME NEW S, NEW s \in Seq(S)
  PROVE  LET P == ParseSigned(s)  M == WideMeaning({"+", "-"}, s) IN
         \/ P = Refusal("TYPE") /\ M = {}
         \/ P = Refusal("RANGE") /\ \E v \in M : v \in Int /\ (v < -H32 \/ v > H32 - 1)
         \/ \E r \in Raw : P = Taken(r) /\ M = {AsInt32(r)}
<1> DEFINE p == SkipSpace(s)
           q == Unsigned({"+", "-"}, s)
           m == Magnitude(q)
           M == WideMeaning({"+", "-"}, s)
           neg == At(p, 1) = "-"
           most == IF neg THEN H32 ELSE H32 - 1
           word == IF neg THEN (-m.value) % (2 * H32) ELSE m.value
<1>1. {"+", "-"} \in SUBSET {"+", "-"} /\ "-" \in {"+", "-"}
  OBVIOUS
<1>2. q = AfterSign(p)
  <2>1. q = IF At(p, 1) \in {"+", "-"} THEN Tail(p) ELSE p
    BY <1>1, BehindSign
  <2> HIDE DEF p, q
  <2> QED BY <2>1 DEF AfterSign
<1>3. /\ ~m.number => M = {}
      /\ m.number => m.value \in Nat /\ M = {IF neg THEN -m.value ELSE m.value}
  BY <1>1, IntegerMeans
<1>4. ParseSigned(s) = IF ~m.number THEN Refusal("TYPE")
                       ELSE IF m.value > most THEN Refusal("RANGE") ELSE Taken(word)
  <2>1. ParseSigned(s) =
          LET x == Magnitude(AfterSign(p))
          IN  IF ~x.number THEN Refusal("TYPE")
              ELSE IF x.value > (IF neg THEN H32 ELSE H32 - 1) THEN Refusal("RANGE")
              ELSE Taken(IF neg THEN (-x.value) % (2 * H32) ELSE x.value)
    BY DEF ParseSigned
  <2> HIDE DEF p, q, neg
  <2> QED BY <1>2, <2>1, Zenon
<1> HIDE DEF m, p, M, neg
<1>5. CASE ~m.number
  <2>1. ParseSigned(s) = Refusal("TYPE") /\ M = {}
    BY <1>3, <1>4, <1>5, Zenon
  <2> QED BY <2>1 DEF M
<1>6. CASE m.number /\ m.value > most
  <2>1. ParseSigned(s) = Refusal("RANGE")
    <3> HIDE DEF most
    <3> QED BY <1>4, <1>6, Zenon
  <2> DEFINE v == IF neg THEN -m.value ELSE m.value
  <2>2. v \in Int /\ (v < -H32 \/ v > H32 - 1)
    BY <1>3, <1>6, WidthAssumption
  <2>3. v \in M
    BY <1>3, <1>6
  <2> QED BY <2>1, <2>2, <2>3 DEF M
<1>7. CASE m.number /\ ~(m.value > most)
  <2>1. ParseSigned(s) = Taken(word)
    <3> HIDE DEF most, word
    <3> QED BY <1>4, <1>7, Zenon
  <2>2. word \in Raw /\ AsInt32(word) = IF neg THEN -m.value ELSE m.value
    <3>1. CASE neg
      <4>1. m.value \in 0 .. H32
        BY <1>3, <1>7, <3>1, WidthAssumption
      <4>2. CASE m.value = 0
        <5>1. -m.value = 0
          <6>1. \A k \in 0 .. 0 : -k \in Int /\ -k <= 0 /\ -k >= 0
            OBVIOUS
          <6>2. \A j \in Int : j <= 0 /\ j >= 0 => j = 0
            OBVIOUS
          <6>3. m.value \in 0 .. 0
            BY <4>2
          <6> QED BY <6>1, <6>2, <6>3, Zenon
        <5>2. 0 % (2 * H32) = 0
          BY WidthAssumption
        <5>3. word = 0
          BY <3>1, <5>1, <5>2
        <5> QED BY <3>1, <5>1, <5>3, WidthAssumption, SMTT(60) DEF Raw, AsInt32
      <4>3. CASE m.value # 0
        <5> DEFINE n == m.value
        <5>1. n \in 1 .. H32
          BY <4>1, <4>3
        <5> HIDE DEF n
        <5>2. (-n) % (2 * H32) = 2 * H32 - n
          BY <5>1, WidthAssumption
        <5>3. word = 2 * H32 - n
          BY <3>1, <5>2 DEF n
        <5> HIDE DEF word
        <5>4. word \in Raw /\ AsInt32(word) = -n
          BY <5>1, <5>3, WidthAssumption DEF Raw, AsInt32
        <5> QED BY <3>1, <5>4 DEF n
      <4> QED BY <4>2, <4>3
    <3>2. CASE ~neg
      <4>1. m.value \in 0 .. (H32 - 1)
        BY <1>3, <1>7, <3>2, WidthAssumption
      <4>2. word = m.value
        BY <3>2
      <4> QED BY <3>2, <4>1, <4>2, WidthAssumption DEF Raw, AsInt32
    <3> QED BY <3>1, <3>2
  <2> HIDE DEF word
  <2>3. M = {AsInt32(word)}
    BY <1>3, <1>7, <2>2
  <2> QED BY <2>1, <2>2, <2>3 DEF M
<1> QED BY <1>5, <1>6, <1>7

-----------------------------------------------------------------------------
(***************************************************************************)
(* The texts of a FLOAT: blanks, a sign or none, and one numeral.          *)
(***************************************************************************)
FloatNumerals == {"zero", "tiny", "large", "huge", "inf"}

LEMMA FloatWordFacts ==
  /\ DOMAIN FloatWord = FloatNumerals \cup {"nan"}
  /\ \A w \in FloatNumerals : FloatWord[w] \in 0 .. INF
  /\ FloatWord["nan"] > INF
  /\ \A w \in DOMAIN FloatWord : w \notin {Space, "-", "+"} /\ w # NUL
<1>1. /\ DOMAIN FloatWord = FloatNumerals \cup {"nan"}
      /\ FloatWord["zero"] = 0 /\ FloatWord["tiny"] = 1 /\ FloatWord["large"] = INF - 1
      /\ FloatWord["huge"] = INF /\ FloatWord["inf"] = INF /\ FloatWord["nan"] = H32 - 1
  BY DEF FloatWord, FloatNumerals
<1>2. 0 \in 0 .. INF /\ 1 \in 0 .. INF /\ INF - 1 \in 0 .. INF /\ INF \in 0 .. INF /\ H32 - 1 > INF
  BY WidthAssumption, TextAssumption
<1>3. \A w \in FloatNumerals \cup {"nan"} : w \notin {Space, "-", "+"} /\ w # NUL
  BY DEF FloatNumerals, Space, NUL
<1>4. \A w \in FloatNumerals : FloatWord[w] \in 0 .. INF
  BY <1>1, <1>2 DEF FloatNumerals
<1>5. FloatWord["nan"] > INF
  BY <1>1, <1>2
<1> QED BY <1>1, <1>3, <1>4, <1>5

LEMMA BlanksRest ==
  ASSUME NEW S, NEW s \in Seq(S)
  PROVE  /\ Blanks(s) \in Seq(S) /\ SkipSpace(s) \in Seq(S)
         /\ Blanks(s) \o SkipSpace(s) = s
<1> DEFINE a == SpanOf(s, {Space})
<1>1. Len(s) \in Nat /\ DOMAIN s = 1 .. Len(s) /\ SkipSpace(s) \in Seq(S) /\ \A k \in 1 .. Len(s) : s[k] \in S
  BY TextParts
<1>2. a \in 0 .. Len(s)
  BY <1>1, SpanFacts
<1>3. Blanks(s) = SubSeq(s, 1, a) /\ SkipSpace(s) = SubSeq(s, a + 1, Len(s))
  BY DEF Blanks, SkipSpace, From
<1> HIDE DEF a
<1>4. 1 \in 1 .. (Len(s) + 1) /\ a \in (1 - 1) .. Len(s) /\ Len(s) \in a .. Len(s)
  BY <1>1, <1>2
<1>5. SubSeq(s, 1, a) \o SubSeq(s, a + 1, Len(s)) = SubSeq(s, 1, Len(s))
  BY <1>4, ConcatAdjacentSubSeq
<1>6. SubSeq(s, 1, a) \in Seq(S)
  <2>1. 1 \in Int /\ a \in Int /\ \A i \in 1 .. a : s[i] \in S
    BY <1>1, <1>2
  <2> QED BY <2>1, SubSeqProperties
<1> QED BY <1>1, <1>3, <1>5, <1>6, SubSeqFull

(* A text of one character, or of a sign and one.                          *)
LEMMA OneCharacter ==
  ASSUME NEW S, NEW p \in Seq(S), NEW w \in S
  PROVE  p = <<w>> <=> Len(p) = 1 /\ p[1] = w
<1>1. <<w>> \in Seq(S) /\ Len(<<w>>) = 1 /\ <<w>>[1] = w
  OBVIOUS
<1>2. ASSUME Len(p) = 1, p[1] = w PROVE p = <<w>>
  <2>1. \A i \in 1 .. 1 : p[i] = <<w>>[i]
    BY <1>1, <1>2
  <2> QED BY <1>1, <1>2, <2>1, SeqEqual
<1> QED BY <1>1, <1>2

LEMMA SignedCharacter ==
  ASSUME NEW S, NEW p \in Seq(S), NEW w \in S, NEW g \in S
  PROVE  p = <<g>> \o <<w>> <=> p # <<>> /\ p[1] = g /\ Tail(p) = <<w>>
<1> DEFINE u == <<g>> \o <<w>>
<1>1. <<g>> \in Seq(S) /\ Len(<<g>>) = 1 /\ <<g>>[1] = g /\ <<w>> \in Seq(S) /\ Len(<<w>>) = 1 /\ <<w>>[1] = w
  OBVIOUS
<1>2. u \in Seq(S) /\ Len(u) = 2 /\ u[1] = g /\ u[2] = w
  <2>1. /\ u \in Seq(S) /\ Len(u) = Len(<<g>>) + Len(<<w>>)
        /\ \A k \in 1 .. Len(<<g>>) : u[k] = <<g>>[k]
        /\ \A k \in 1 .. Len(<<w>>) : u[Len(<<g>>) + k] = <<w>>[k]
    BY <1>1, ConcatFacts
  <2> HIDE DEF u
  <2>2. 1 \in 1 .. 1 /\ 1 + 1 = 2
    OBVIOUS
  <2>3. u[1] = <<g>>[1] /\ u[1 + 1] = <<w>>[1] /\ Len(u) = 1 + 1
    BY <1>1, <2>1, <2>2, Zenon
  <2> QED BY <1>1, <2>1, <2>2, <2>3, Zenon
<1> HIDE DEF u
<1>3. Len(p) \in Nat /\ (p # <<>> => Len(p) # 0)
  BY EmptySeq, LenProperties
<1>4. p # <<>> => /\ Tail(p) \in Seq(S) /\ Len(Tail(p)) = Len(p) - 1
                  /\ \A i \in 1 .. (Len(p) - 1) : Tail(p)[i] = p[i + 1]
  BY HeadTailProperties
<1>5. ASSUME p = u PROVE p # <<>> /\ p[1] = g /\ Tail(p) = <<w>>
  <2>1. p # <<>>
    <3>1. Len(p) = 2
      BY <1>2, <1>5
    <3> QED BY <3>1, EmptySeq
  <2>2. Len(Tail(p)) = 1 /\ Tail(p)[1] = w
    <3>1. Len(p) = 2
      BY <1>2, <1>5, Zenon
    <3>2. Len(p) - 1 = 1 /\ 1 \in 1 .. (Len(p) - 1) /\ 1 + 1 = 2
      BY <3>1
    <3>3. Tail(p)[1] = p[1 + 1] /\ Len(Tail(p)) = Len(p) - 1
      BY <1>4, <2>1, <3>2, Zenon
    <3> QED BY <1>2, <1>5, <3>2, <3>3, Zenon
  <2>3. Tail(p) \in Seq(S)
    BY <1>4, <2>1, Zenon
  <2>4. Tail(p) = <<w>>
    BY <2>2, <2>3, OneCharacter, ZenonT(60)
  <2> QED BY <1>2, <1>5, <2>1, <2>4, Zenon
<1>6. ASSUME p # <<>>, p[1] = g, Tail(p) = <<w>> PROVE p = u
  <2>1. Len(Tail(p)) = 1 /\ Tail(p)[1] = w
    BY <1>1, <1>6, Zenon
  <2>2. Len(p) = 2 /\ 1 \in 1 .. (Len(p) - 1) /\ 1 + 1 = 2
    BY <1>3, <1>4, <1>6, <2>1
  <2>3. p[2] = w
    BY <1>4, <1>6, <2>1, <2>2
  <2>4. \A i \in 1 .. 2 : p[i] = u[i]
    BY <1>2, <1>6, <2>3
  <2> QED BY <1>2, <2>2, <2>4, SeqEqual
<1> QED BY <1>5, <1>6 DEF u

-----------------------------------------------------------------------------
FloatSigns == {<<>>, <<"+">>, <<"-">>}

(* What AfterSign leaves of a text, and the sign it stepped over.          *)
LEMMA FloatBody ==
  ASSUME NEW S, NEW p \in Seq(S), {"+", "-"} \cup DOMAIN FloatWord \subseteq S,
         NEW w \in DOMAIN FloatWord, NEW sign \in FloatSigns
  PROVE  p = sign \o <<w>>
           <=> /\ AfterSign(p) = <<w>>
               /\ sign = IF At(p, 1) \in {"+", "-"} THEN <<At(p, 1)>> ELSE <<>>
<1>1. w \in S /\ "+" \in S /\ "-" \in S /\ w \notin {"+", "-"} /\ "+" # "-"
  BY FloatWordFacts
<1>2. Len(p) \in Nat /\ (p = <<>> <=> Len(p) = 0)
  BY EmptySeq, LenProperties
<1>3. CASE sign = <<>>
  <2>1. sign \o <<w>> = <<w>>
    <3>1. <<w>> \in Seq(S)
      BY <1>1
    <3> QED BY <1>3, <3>1, ConcatEmptySeq, Zenon
  <2>2. (IF At(p, 1) \in {"+", "-"} THEN <<At(p, 1)>> ELSE <<>>) = <<>> <=> At(p, 1) \notin {"+", "-"}
    OBVIOUS
  <2>3. p = <<w>> => At(p, 1) = w
    <3>1. p = <<w>> => Len(p) = 1 /\ p[1] = w
      BY <1>1, OneCharacter, ZenonT(60)
    <3> QED BY <3>1 DEF At
  <2>4. At(p, 1) \notin {"+", "-"} => AfterSign(p) = p
    BY DEF AfterSign
  <2> QED BY <1>1, <1>3, <2>1, <2>2, <2>3, <2>4, Zenon
<1>4. ASSUME NEW g \in {"+", "-"}, sign = <<g>>
      PROVE  p = sign \o <<w>>
               <=> /\ AfterSign(p) = <<w>>
                   /\ sign = IF At(p, 1) \in {"+", "-"} THEN <<At(p, 1)>> ELSE <<>>
  <2>1. g \in S /\ g # NUL
    BY <1>1 DEF NUL
  <2>2. p = <<g>> \o <<w>> <=> p # <<>> /\ p[1] = g /\ Tail(p) = <<w>>
    BY <1>1, <2>1, SignedCharacter
  <2>3. p # <<>> /\ p[1] = g <=> At(p, 1) = g
    BY <1>2, <2>1 DEF At
  <2>4. At(p, 1) = g => AfterSign(p) = Tail(p)
    BY DEF AfterSign
  <2>5. <<g>> = (IF At(p, 1) \in {"+", "-"} THEN <<At(p, 1)>> ELSE <<>>) <=> At(p, 1) = g
    <3>1. <<g>> # <<>>
      OBVIOUS
    <3>2. \A x : <<g>> = <<x>> => g = x
      OBVIOUS
    <3> QED BY <3>1, <3>2, Zenon
  <2> QED BY <1>4, <2>2, <2>3, <2>4, <2>5, Zenon
<1> QED BY <1>3, <1>4 DEF FloatSigns

FloatCuts(s) == {cut \in FloatSigns \X FloatNumerals : Blanks(s) \o cut[1] \o <<cut[2]>> = s}

LEMMA FloatCut ==
  ASSUME NEW S, NEW s \in Seq(S), {"+", "-"} \cup DOMAIN FloatWord \subseteq S,
         NEW w \in FloatNumerals, NEW sign \in FloatSigns
  PROVE  <<sign, w>> \in FloatCuts(s)
           <=> /\ AfterSign(SkipSpace(s)) = <<w>>
               /\ sign = IF At(SkipSpace(s), 1) \in {"+", "-"} THEN <<At(SkipSpace(s), 1)>> ELSE <<>>
<1> DEFINE p == SkipSpace(s)
           B == Blanks(s)
           u == <<w>>
<1>1. B \in Seq(S) /\ p \in Seq(S) /\ B \o p = s
  BY BlanksRest
<1>2. w \in DOMAIN FloatWord /\ w \in S /\ "+" \in S /\ "-" \in S
  BY FloatWordFacts
<1>3. sign \in Seq(S) /\ u \in Seq(S)
  <2>1. <<w>> \in Seq(S) /\ <<"+">> \in Seq(S) /\ <<"-">> \in Seq(S)
    BY <1>2
  <2>2. <<>> \in Seq(S)
    BY EmptySeq
  <2> QED BY <2>1, <2>2, Zenon DEF FloatSigns
<1> HIDE DEF p, B
<1>4. <<sign, w>> \in FloatCuts(s) <=> B \o sign \o u = s
  <2> DEFINE cut == <<sign, w>>
             box == FloatSigns \X FloatNumerals
  <2>1. cut \in box /\ cut[1] = sign /\ cut[2] = w
    OBVIOUS
  <2>2. FloatCuts(s) = {t \in box : B \o t[1] \o <<t[2]>> = s}
    BY DEF FloatCuts, B
  <2> HIDE DEF cut, box
  <2> QED BY <2>1, <2>2, Zenon DEF cut
<1> HIDE DEF u
<1>5. B \o sign \o u = B \o (sign \o u) /\ sign \o u \in Seq(S)
  <2>1. B \o sign \o u = B \o (sign \o u)
    BY <1>1, <1>3, ConcatAssociative, SMTT(60)
  <2>2. sign \o u \in Seq(S)
    BY <1>3, ConcatProperties
  <2> QED BY <2>1, <2>2
<1>6. B \o (sign \o u) = B \o p <=> sign \o u = p
  <2>1. \A t, v \in Seq(S) : B \o t = B \o v => t = v
    BY <1>1, ConcatSimplifications, Zenon
  <2> QED BY <1>1, <1>5, <2>1, Zenon
<1>7. <<sign, w>> \in FloatCuts(s) <=> p = sign \o <<w>>
  BY <1>1, <1>4, <1>5, <1>6, Zenon DEF u
<1>8. p = sign \o <<w>>
        <=> AfterSign(p) = <<w>> /\ sign = IF At(p, 1) \in {"+", "-"} THEN <<At(p, 1)>> ELSE <<>>
  BY <1>1, <1>2, FloatBody, Zenon
<1> QED BY <1>7, <1>8, Zenon DEF p

-----------------------------------------------------------------------------
LEMMA FloatMeans ==
  ASSUME NEW S, NEW s \in Seq(S), {"+", "-"} \cup DOMAIN FloatWord \subseteq S
  PROVE  LET P == ParseFloat(s)  M == Meaning("FLOAT", s) IN
         \/ P = Refusal("TYPE") /\ M = {}
         \/ P = Refusal("RANGE") /\ \E v \in M : v = INF \/ v = -INF
         \/ \E r \in Raw : P = Taken(r) /\ FloatMag(r) < INF /\ M = {FloatKey(r)}
<1> DEFINE p     == SkipSpace(s)
           body  == AfterSign(p)
           neg   == At(p, 1) = "-"
           sg    == IF At(p, 1) \in {"+", "-"} THEN <<At(p, 1)>> ELSE <<>>
           value(cut) == FloatWord[cut[2]] * (IF cut[1] = <<"-">> THEN -1 ELSE 1)
           M     == Meaning("FLOAT", s)
<1>1. p \in Seq(S) /\ body \in Seq(S) /\ Len(body) \in Nat
  <2>1. p \in Seq(S)
    BY TextParts
  <2> HIDE DEF p
  <2> QED BY <2>1, TextParts, LenProperties
<1>2. M = {value(cut) : cut \in FloatCuts(s)}
  BY DEF Meaning, UnsignedTypes, SignedTypes, FloatCuts, FloatSigns, FloatNumerals
<1>3. sg \in FloatSigns /\ (sg = <<"-">> <=> neg)
  <2>1. \A x : <<x>> = <<"-">> => x = "-"
    OBVIOUS
  <2>2. <<>> # <<"-">>
    OBVIOUS
  <2> QED BY <2>1, <2>2 DEF FloatSigns
<1>4. \A w \in FloatNumerals, sign \in FloatSigns :
        <<sign, w>> \in FloatCuts(s) <=> body = <<w>> /\ sign = sg
  BY FloatCut, Zenon
<1>5. ParseFloat(s) = IF Len(body) # 1 \/ At(body, 1) \notin DOMAIN FloatWord THEN Refusal("TYPE")
                      ELSE IF FloatWord[At(body, 1)] > INF THEN Refusal("TYPE")
                      ELSE IF FloatWord[At(body, 1)] = INF THEN Refusal("RANGE")
                      ELSE Taken(IF neg THEN H32 + FloatWord[At(body, 1)] ELSE FloatWord[At(body, 1)])
  BY DEF ParseFloat
<1>6. \A w \in FloatNumerals, sign \in FloatSigns :
        value(<<sign, w>>) = FloatWord[w] * (IF sign = <<"-">> THEN -1 ELSE 1)
  OBVIOUS
<1>7. FloatCuts(s) \subseteq FloatSigns \X FloatNumerals
  BY DEF FloatCuts
<1> HIDE DEF p, body, neg, sg, value, M
<1>8. \A cut \in FloatCuts(s) : \E w \in FloatNumerals : cut = <<sg, w>> /\ body = <<w>>
  <2> TAKE cut \in FloatCuts(s)
  <2>1. PICK sign \in FloatSigns, w \in FloatNumerals : cut = <<sign, w>>
    BY <1>7
  <2> QED BY <1>4, <2>1, Zenon
<1>9. CASE \E w \in FloatNumerals : body = <<w>>
  <2> PICK w \in FloatNumerals : body = <<w>>
    BY <1>9
  <2> DEFINE m == FloatWord[w]
             v == IF neg THEN -m ELSE m
  <2>1. w \in DOMAIN FloatWord /\ m \in 0 .. INF
    BY FloatWordFacts
  <2>2. Len(body) = 1 /\ At(body, 1) = w
    BY DEF At
  <2>3. \A x \in FloatNumerals : body = <<x>> => x = w
    BY <2>2 DEF At
  <2>4. ParseFloat(s) = IF m > INF THEN Refusal("TYPE") ELSE IF m = INF THEN Refusal("RANGE")
                        ELSE Taken(IF neg THEN H32 + m ELSE m)
    BY <1>5, <2>1, <2>2, Zenon
  <2>5. \A cut \in FloatCuts(s) : cut = <<sg, w>>
    BY <1>8, <2>3, Zenon
  <2>6. <<sg, w>> \in FloatCuts(s)
    BY <1>3, <1>4, Zenon
  <2> HIDE DEF m
  <2>7. value(<<sg, w>>) = v
    <3>1. value(<<sg, w>>) = m * (IF neg THEN -1 ELSE 1)
      BY <1>3, <1>6, Zenon DEF m
    <3>2. m * (-1) = -m /\ m * 1 = m
      BY <2>1
    <3> QED BY <3>1, <3>2
  <2>8. M = {v}
    <3> HIDE DEF v
    <3>1. {value(cut) : cut \in FloatCuts(s)} = {v}
      BY <2>5, <2>6, <2>7
    <3> QED BY <1>2, <3>1
  <2>9. CASE m = INF
    <3>1. ParseFloat(s) = Refusal("RANGE")
      BY <2>4, <2>9, WidthAssumption, SMTT(60)
    <3>2. v = INF \/ v = -INF
      BY <2>9
    <3>3. v \in M
      BY <2>8
    <3> QED BY <3>1, <3>2, <3>3 DEF M
  <2>10. CASE m # INF
    <3> DEFINE r == IF neg THEN H32 + m ELSE m
    <3>1. ParseFloat(s) = Taken(r)
      BY <2>1, <2>4, <2>10, WidthAssumption
    <3>2. r \in Raw /\ FloatMag(r) < INF /\ FloatKey(r) = v
      <4>1. m \in 0 .. (INF - 1)
        BY <2>1, <2>10, WidthAssumption
      <4>2. CASE neg
        <5>1. r = H32 + m /\ ~(r < H32)
          BY <4>1, <4>2, WidthAssumption
        <5> HIDE DEF r
        <5>2. r \in Raw /\ FloatMag(r) = m /\ FloatKey(r) = H32 - r
          BY <4>1, <5>1, WidthAssumption DEF Raw, FloatMag, FloatKey
        <5>3. H32 - r = -m
          <6>1. \A k, n \in Int : n - (n + k) = -k
            OBVIOUS
          <6>2. H32 \in Int /\ m \in Int
            BY <4>1, WidthAssumption
          <6> QED BY <5>1, <6>1, <6>2, Zenon
        <5>4. v = -m
          BY <4>2
        <5> QED BY <4>1, <5>2, <5>3, <5>4, WidthAssumption
      <4>3. CASE ~neg
        BY <4>1, <4>3, WidthAssumption DEF Raw, FloatMag, FloatKey
      <4> QED BY <4>2, <4>3
    <3> HIDE DEF r, v
    <3> QED BY <2>8, <3>1, <3>2 DEF M
  <2> QED BY <2>9, <2>10
<1>10. CASE ~\E w \in FloatNumerals : body = <<w>>
  <2>1. FloatCuts(s) = {}
    BY <1>8, <1>10, Zenon
  <2>2. M = {}
    BY <1>2, <2>1
  <2>3. ParseFloat(s) = Refusal("TYPE")
    <3>1. CASE Len(body) # 1 \/ At(body, 1) \notin DOMAIN FloatWord
      BY <1>5, <3>1, Zenon
    <3>2. CASE Len(body) = 1 /\ At(body, 1) \in DOMAIN FloatWord
      <4>1. body[1] = At(body, 1) /\ At(body, 1) \in S
        BY <3>2 DEF At
      <4>2. body = <<At(body, 1)>>
        BY <1>1, <3>2, <4>1, OneCharacter, Zenon
      <4>3. At(body, 1) = "nan"
        BY <1>10, <3>2, <4>2, FloatWordFacts, Zenon
      <4>4. FloatWord[At(body, 1)] > INF
        BY <4>3, FloatWordFacts
      <4> QED BY <1>5, <3>2, <4>4, Zenon
    <3> QED BY <3>1, <3>2
  <2> QED BY <2>2, <2>3, Zenon DEF M
<1> QED BY <1>9, <1>10

(* The words of a BOOL.                                                    *)
LEMMA BoolMeans ==
  ASSUME NEW s
  PROVE  LET P == ParseBool(s)  M == Meaning("BOOL", s) IN
         \/ P = Refusal("TYPE") /\ M = {}
         \/ \E r \in {0, 1} : P = Taken(r) /\ M = {r}
<1> DEFINE yes == {<<"true">>, <<"TRUE">>, <<"1">>}
           no  == {<<"false">>, <<"FALSE">>, <<"0">>}
           M   == Meaning("BOOL", s)
<1>1. M = {n \in {0, 1} : s \in IF n = 1 THEN yes ELSE no}
  BY DEF Meaning, UnsignedTypes, SignedTypes
<1>2. ParseBool(s) = CASE s \in yes -> Taken(1) [] s \in no -> Taken(0) [] OTHER -> Refusal("TYPE")
  BY DEF ParseBool
<1>3. ~(s \in yes /\ s \in no)
  <2>1. \A x \in yes, y \in no : x # y
    OBVIOUS
  <2> QED BY <2>1, Zenon
<1> HIDE DEF yes, no, M
<1>4. CASE s \in yes
  BY <1>1, <1>2, <1>3, <1>4 DEF M
<1>5. CASE s \in no
  BY <1>1, <1>2, <1>3, <1>5 DEF M
<1>6. CASE s \notin yes /\ s \notin no
  BY <1>1, <1>2, <1>6 DEF M
<1> QED BY <1>4, <1>5, <1>6

-----------------------------------------------------------------------------
(***************************************************************************)
(* The parser of any type against the reference.                           *)
(***************************************************************************)
LEMMA ParseMeans ==
  ASSUME NEW S, NEW s \in Seq(S), NEW type \in Types,
         type = "FLOAT" => {"+", "-"} \cup DOMAIN FloatWord \subseteq S
  PROVE  LET P == Parse(type, s)  M == WideMeaningIn(type, s) IN
         \/ P = Refusal("TYPE") /\ M = {}
         \/ P = Refusal("RANGE") /\ \E v \in M : v \notin Numbers(type)
         \/ \E r \in Raw : /\ P = Taken(r) /\ M = {Number(type, Canonical(type, r))}
                           /\ type = "FLOAT" => FloatMag(r) < INF
<1> DEFINE M == WideMeaningIn(type, s)
<1>0. Half(type) \in Nat /\ 1 <= Half(type) /\ Half(type) <= H32
  BY HalfBounds
<1>1. CASE type \in UnsignedTypes
  <2>1. Parse(type, s) = ParseUnsigned(s) /\ M = WideMeaning({"+"}, s)
    BY <1>1 DEF Parse, WideMeaningIn, UnsignedTypes, SignedTypes
  <2>2. Numbers(type) = 0 .. (2 * Half(type) - 1)
    BY <1>1 DEF Numbers, UnsignedTypes, SignedTypes
  <2>3. \A r : Number(type, Canonical(type, r)) = r
    BY <1>1 DEF Number, Canonical, UnsignedTypes, SignedTypes
  <2>4. \A v \in Int : v > 2 * H32 - 1 => v \notin Numbers(type)
    BY <1>0, <2>2, WidthAssumption
  <2>5. type # "FLOAT"
    BY <1>1 DEF UnsignedTypes
  <2> HIDE DEF M
  <2>6. \/ ParseUnsigned(s) = Refusal("TYPE") /\ M = {}
        \/ ParseUnsigned(s) = Refusal("RANGE") /\ \E v \in M : v \in Int /\ v > 2 * H32 - 1
        \/ \E r \in Raw : ParseUnsigned(s) = Taken(r) /\ M = {r}
    BY <2>1, UnsignedMeans, Zenon
  <2> QED BY <2>1, <2>3, <2>4, <2>5, <2>6, Zenon DEF M
<1>2. CASE type \in SignedTypes
  <2>1. Parse(type, s) = ParseSigned(s) /\ M = WideMeaning({"+", "-"}, s)
    BY <1>2 DEF Parse, WideMeaningIn, UnsignedTypes, SignedTypes
  <2>2. Numbers(type) = -Half(type) .. (Half(type) - 1)
    BY <1>2 DEF Numbers, SignedTypes
  <2>3. \A r : Number(type, Canonical(type, r)) = AsInt32(r)
    BY <1>2 DEF Number, Canonical, SignedTypes
  <2>4. \A v \in Int : v < -H32 \/ v > H32 - 1 => v \notin Numbers(type)
    BY <1>0, <2>2, WidthAssumption
  <2>5. type # "FLOAT"
    BY <1>2 DEF SignedTypes
  <2> HIDE DEF M
  <2>6. \/ ParseSigned(s) = Refusal("TYPE") /\ M = {}
        \/ ParseSigned(s) = Refusal("RANGE") /\ \E v \in M : v \in Int /\ (v < -H32 \/ v > H32 - 1)
        \/ \E r \in Raw : ParseSigned(s) = Taken(r) /\ M = {AsInt32(r)}
    BY <2>1, SignedMeans, Zenon
  <2> QED BY <2>1, <2>3, <2>4, <2>5, <2>6, Zenon DEF M
<1>3. CASE type = "FLOAT"
  <2>1. Parse(type, s) = ParseFloat(s) /\ M = Meaning("FLOAT", s)
    BY <1>3 DEF Parse, WideMeaningIn, UnsignedTypes, SignedTypes
  <2>2. Numbers(type) = -(INF - 1) .. (INF - 1)
    BY <1>3 DEF Numbers, SignedTypes
  <2>3. \A r : Number(type, Canonical(type, r)) = FloatKey(r)
    BY <1>3 DEF Number, Canonical, SignedTypes
  <2>4. INF \notin Numbers(type) /\ -INF \notin Numbers(type)
    BY <2>2, WidthAssumption
  <2> HIDE DEF M
  <2>5. \/ ParseFloat(s) = Refusal("TYPE") /\ M = {}
        \/ ParseFloat(s) = Refusal("RANGE") /\ \E v \in M : v = INF \/ v = -INF
        \/ \E r \in Raw : ParseFloat(s) = Taken(r) /\ FloatMag(r) < INF /\ M = {FloatKey(r)}
    BY <1>3, <2>1, FloatMeans, Zenon
  <2> QED BY <2>1, <2>3, <2>4, <2>5, Zenon DEF M
<1>4. CASE type = "BOOL"
  <2>1. Parse(type, s) = ParseBool(s) /\ M = Meaning("BOOL", s)
    BY <1>4 DEF Parse, WideMeaningIn, UnsignedTypes, SignedTypes
  <2>2. \A r \in {0, 1} : Number(type, Canonical(type, r)) = r
    BY <1>4 DEF Number, Canonical, SignedTypes
  <2>3. {0, 1} \subseteq Raw /\ type # "FLOAT"
    BY <1>4, WidthAssumption DEF Raw
  <2> HIDE DEF M
  <2>4. \/ ParseBool(s) = Refusal("TYPE") /\ M = {}
        \/ \E r \in {0, 1} : ParseBool(s) = Taken(r) /\ M = {r}
    BY <2>1, BoolMeans, Zenon
  <2>5. CASE ParseBool(s) = Refusal("TYPE") /\ M = {}
    BY <2>1, <2>5, Zenon DEF M
  <2>6. ASSUME NEW r \in {0, 1}, ParseBool(s) = Taken(r) /\ M = {r}
        PROVE  \E x \in Raw : /\ Parse(type, s) = Taken(x) /\ M = {Number(type, Canonical(type, x))}
                              /\ type = "FLOAT" => FloatMag(x) < INF
    <3>1. r \in Raw /\ Number(type, Canonical(type, r)) = r
      BY <2>2, <2>3
    <3> QED BY <2>1, <2>3, <2>6, <3>1, Zenon
  <2> QED BY <2>4, <2>5, <2>6, Zenon DEF M
<1> QED BY <1>1, <1>2, <1>3, <1>4 DEF Types

(***************************************************************************)
(* The two grammars differ in the texts with two prefixes, and in nothing  *)
(* else: the numerals are among what is accepted, with the same numbers.   *)
(***************************************************************************)
LEMMA WideCut ==
  ASSUME NEW S, NEW s \in Seq(S), NEW signs \in SUBSET {"+", "-"}
  PROVE  /\ IntegerCuts(signs, s) \subseteq WideCuts(signs, s)
         /\ ~TwicePrefixed(s) => IntegerCuts(signs, s) = WideCuts(signs, s)
<1>1. IntegerCuts(signs, s) \subseteq WideCuts(signs, s)
  BY DEF IntegerCuts, WideCuts
<1>2. ASSUME NEW cut \in WideCuts(signs, s), cut \notin IntegerCuts(signs, s)
      PROVE  TwicePrefixed(s)
  <2> DEFINE L == Len(s)
             t == <<"0", "x", "0", "x">>
  <2>0. L \in Nat
    BY LenProperties
  <2>1. cut \in (0 .. L) \X (0 .. L) \X (0 .. L)
    BY DEF WideCuts
  <2>2. PICK x \in 0 .. L, y \in 0 .. L, z \in 0 .. L : cut = <<x, y, z>>
    BY <2>1
  <2>3. /\ x <= y /\ y <= z /\ z < L /\ \A k \in 1 .. x : s[k] = Space
        /\ SubSeq(s, x + 1, y) \in {<<>>} \cup {<<g>> : g \in signs}
        /\ SubSeq(s, y + 1, z) = t
    BY <1>2, <2>2 DEF WideCuts, IntegerCuts
  <2>4. y = x \/ (y = x + 1 /\ s[y] \in signs)
    <3>1. y \in x .. Len(s)
      BY <2>0, <2>3
    <3> QED BY <2>3, <3>1, SignIs
  <2>5. z = y + 4
    <3>1. \A i \in (y + 1) .. z : s[i] \in S
      <4>1. \A i \in 1 .. L : s[i] \in S
        BY ElementOfSeq
      <4> QED BY <2>0, <2>3, <4>1
    <3>2. y + 1 \in Int /\ z \in Int
      OBVIOUS
    <3>3. Len(SubSeq(s, y + 1, z)) = IF y + 1 <= z THEN z - (y + 1) + 1 ELSE 0
      BY <3>1, <3>2, SubSeqProperties
    <3>4. Len(SubSeq(s, y + 1, z)) = 4
      <4>1. Len(t) = 4
        OBVIOUS
      <4>2. SubSeq(s, y + 1, z) = t
        BY <2>3
      <4> HIDE DEF t
      <4> QED BY <4>1, <4>2, Zenon
    <3> HIDE DEF t
    <3>5. /\ x \in Int /\ y \in Int /\ z \in Int
      BY <2>0
    <3> QED BY <3>3, <3>4, <3>5
  <2> DEFINE k == y + 1
  <2>6. /\ k \in 1 .. Len(s) /\ k + 3 <= Len(s) /\ k + 3 = z /\ k - 1 = y
    BY <2>0, <2>3, <2>5
  <2>7. SubSeq(s, k, k + 3) = t
    BY <2>3, <2>6
  <2>8. ASSUME NEW j \in 1 .. (k - 1) PROVE s[j] \in {Space, "+", "-"}
    <3>1. j \in 1 .. x \/ (y = x + 1 /\ j = y)
      BY <2>4, <2>6
    <3>2. CASE j \in 1 .. x
      BY <2>3, <3>2
    <3>3. CASE y = x + 1 /\ j = y
      <4>1. y # x
        BY <3>3
      <4> QED BY <2>4, <3>3, <4>1
    <3> QED BY <3>1, <3>2, <3>3
  <2> HIDE DEF k
  <2> QED BY <2>6, <2>7, <2>8, Zenon DEF TwicePrefixed, t
<1> QED BY <1>1, <1>2

LEMMA WideInteger ==
  ASSUME NEW S, NEW s \in Seq(S), NEW signs \in SUBSET {"+", "-"}
  PROVE  /\ IntegerMeaning(signs, s) = {} \/ IntegerMeaning(signs, s) = WideMeaning(signs, s)
         /\ ~TwicePrefixed(s) => IntegerMeaning(signs, s) = WideMeaning(signs, s)
<1> DEFINE value(cut) == (IF SubSeq(s, cut[1] + 1, cut[2]) = <<"-">> THEN -1 ELSE 1)
                           * Positional(From(s, cut[3] + 1), IF cut[2] = cut[3] THEN 10 ELSE 16)
           I == IntegerMeaning(signs, s)
           M == WideMeaning(signs, s)
<1>1. I = {value(cut) : cut \in IntegerCuts(signs, s)} /\ M = {value(cut) : cut \in WideCuts(signs, s)}
  BY DEF IntegerMeaning, WideMeaning
<1>2. M = {} \/ \E v : M = {v}
  BY IntegerMeans, Zenon
<1> HIDE DEF value, I, M
<1>3. I \subseteq M /\ (~TwicePrefixed(s) => I = M)
  BY <1>1, WideCut
<1>4. I = {} \/ I = M
  BY <1>2, <1>3
<1> QED BY <1>3, <1>4 DEF I, M

LEMMA WideOrNone ==
  ASSUME NEW S, NEW s \in Seq(S), NEW type \in Types
  PROVE  /\ Meaning(type, s) = {} \/ Meaning(type, s) = WideMeaningIn(type, s)
         /\ ~TwicePrefixed(s) => Meaning(type, s) = WideMeaningIn(type, s)
<1>1. CASE type \in UnsignedTypes
  <2>1. Meaning(type, s) = IntegerMeaning({"+"}, s) /\ WideMeaningIn(type, s) = WideMeaning({"+"}, s)
    BY <1>1 DEF Meaning, WideMeaningIn, UnsignedTypes, SignedTypes
  <2> QED BY <2>1, WideInteger, {"+"} \in SUBSET {"+", "-"}
<1>2. CASE type \in SignedTypes
  <2>1. /\ Meaning(type, s) = IntegerMeaning({"+", "-"}, s)
        /\ WideMeaningIn(type, s) = WideMeaning({"+", "-"}, s)
    BY <1>2 DEF Meaning, WideMeaningIn, UnsignedTypes, SignedTypes
  <2> QED BY <2>1, WideInteger, {"+", "-"} \in SUBSET {"+", "-"}
<1>3. CASE type \notin UnsignedTypes \cup SignedTypes
  BY <1>3 DEF WideMeaningIn
<1> QED BY <1>1, <1>2, <1>3

LEMMA SetStrMeans ==
  ASSUME AtHand, SetStr
  PROVE  TextMeansItsNumber'
<1> DEFINE T == entry.type
<1>1. PICK s \in SeqOf(Letters(T), IF T \in {"BOOL", "FLOAT"} THEN 3 ELSE MaxText) :
        /\ text' = s
        /\ raw' = Canonical(T, Parse(T, s).raw)
        /\ answer' = IF Parse(T, s).result = "OK" THEN CheckRaw(entry, Parse(T, s).raw) ELSE Parse(T, s).result
        /\ cell' = IF answer' = "OK" THEN StoreRaw(T, raw') ELSE cell
  BY DEF SetStr
<1>2. IsRow(entry) /\ Sane(entry) /\ entry' = entry /\ T \in Types /\ entry.perm \in Perms
  BY DEF AtHand, SetStr, inputs, IsRow
<1>3. s \in Seq(Letters(T)) /\ (T = "FLOAT" => {"+", "-"} \cup DOMAIN FloatWord \subseteq Letters(T))
  BY TextIsText DEF Letters
<1> DEFINE P == Parse(T, s)
           M == WideMeaningIn(T, s)
           N == Meaning(T, s)
           fits == entry.perm = "RW" /\ M # {} /\ M \subseteq Numbers(T) \cap Interval(entry)
<1>4. \/ P = Refusal("TYPE") /\ M = {}
      \/ P = Refusal("RANGE") /\ \E v \in M : v \notin Numbers(T)
      \/ \E r \in Raw : /\ P = Taken(r) /\ M = {Number(T, Canonical(T, r))}
                        /\ T = "FLOAT" => FloatMag(r) < INF
  BY <1>2, <1>3, ParseMeans
<1>5. TextMeansItsNumber' <=> (text' # NotAText =>
        LET meant == Meaning(entry'.type, text') IN
        /\ answer' = "TYPE" => meant = {}
        /\ meant = {} => answer' = "TYPE" \/ TwicePrefixed(text')
        /\ meant # {} =>
             /\ answer' = "OK" <=> /\ entry'.perm = "RW"
                                   /\ meant \subseteq Numbers(entry'.type) \cap Interval(entry')
             /\ answer' = "OK" => Number(entry'.type, LoadRaw(entry'.type, cell')) \in meant)
  BY Zenon DEF TextMeansItsNumber, TwicePrefixed
<1>n. (N = {} \/ N = M) /\ (~TwicePrefixed(s) => N = M)
  BY <1>2, <1>3, WideOrNone
<1>m. SUFFICES /\ answer' = "TYPE" => N = {}
               /\ N = {} => answer' = "TYPE" \/ TwicePrefixed(s)
               /\ N # {} =>
                    /\ answer' = "OK" <=> /\ entry.perm = "RW"
                                          /\ N \subseteq Numbers(T) \cap Interval(entry)
                    /\ answer' = "OK" => Number(T, LoadRaw(T, cell')) \in N
  BY <1>1, <1>2, <1>5, Zenon
<1> HIDE DEF N
<1>6. SUFFICES /\ answer' = "TYPE" <=> M = {}
               /\ answer' = "OK" <=> fits
               /\ answer' = "OK" => Number(T, LoadRaw(T, cell')) \in M
  BY <1>n, Zenon
<1> HIDE DEF T, P, M
<1>7. CASE P = Refusal("TYPE") /\ M = {}
  <2>1. P.result = "TYPE"
    BY <1>7 DEF Refusal
  <2>2. answer' = "TYPE"
    BY <1>1, <2>1 DEF P
  <2> QED BY <1>7, <2>2
<1>8. CASE P = Refusal("RANGE") /\ \E v \in M : v \notin Numbers(T)
  <2>1. P.result = "RANGE"
    BY <1>8 DEF Refusal
  <2>2. answer' = "RANGE"
    BY <1>1, <2>1 DEF P
  <2>3. M # {} /\ ~(M \subseteq Numbers(T) \cap Interval(entry))
    BY <1>8
  <2> QED BY <2>2, <2>3
<1>9. ASSUME NEW r \in Raw, P = Taken(r) /\ M = {Number(T, Canonical(T, r))},
             T = "FLOAT" => FloatMag(r) < INF
      PROVE  /\ answer' = "TYPE" <=> M = {}
             /\ answer' = "OK" <=> fits
             /\ answer' = "OK" => Number(T, LoadRaw(T, cell')) \in M
  <2>1. P.result = "OK" /\ P.raw = r
    BY <1>9 DEF Taken
  <2>2. answer' = CheckRaw(entry, r) /\ raw' = Canonical(T, r)
    BY <1>1, <2>1 DEF P
  <2>3. answer' # "TYPE" /\ M # {}
    <3>1. answer' = "TYPE" <=> entry.perm = "RW" /\ T = "FLOAT" /\ FloatMag(r) >= INF
      BY <1>2, <2>2, TypeErrorFacts DEF T
    <3>2. FloatMag(r) \in Int
      BY WidthAssumption DEF FloatMag, Raw
    <3> QED BY <1>9, <3>1, <3>2, WidthAssumption
  <2>4. answer' = "OK" <=> Allowed(entry, Canonical(T, r))
    BY <1>2, <2>2, AcceptedIsAllowed, AllowedIsAccepted DEF T
  <2>5. Allowed(entry, Canonical(T, r)) <=> fits
    BY <1>9 DEF Allowed, T
  <2>6. ASSUME answer' = "OK" PROVE Number(T, LoadRaw(T, cell')) \in M
    <3>1. cell' = StoreRaw(T, Canonical(T, r))
      BY <1>1, <2>2, <2>6 DEF T
    <3>2. LoadRaw(T, StoreRaw(T, Canonical(T, r))) = Canonical(T, r)
      BY <1>2, <2>2, <2>6, StoredFacts DEF T
    <3> QED BY <1>9, <3>1, <3>2
  <2> QED BY <2>3, <2>4, <2>5, <2>6, Zenon
<1> QED BY <1>4, <1>7, <1>8, <1>9

(***************************************************************************)
(* reg_set_str, for every type, every length of text and every width of    *)
(* the machine: a numeral of the type is never a type error, is taken      *)
(* exactly when the entry may hold its number, and that number is what is  *)
(* stored; any other text is a type error, but for the texts that have two *)
(* prefixes where a numeral has one.                                       *)
(***************************************************************************)
THEOREM Texts == Spec => []TextMeansItsNumber
<1>1. Init => TextMeansItsNumber
  BY DEF Init, TextMeansItsNumber
<1>2. AtHand /\ TextMeansItsNumber /\ [Next]_vars => TextMeansItsNumber'
  <2> SUFFICES ASSUME AtHand, TextMeansItsNumber, [Next]_vars PROVE TextMeansItsNumber'
    OBVIOUS
  <2>0. answer = "none" => text = NotAText
    BY DEF AtHand
  <2>1. CASE AppAssign
    BY <2>0, <2>1 DEF AppAssign, TextMeansItsNumber
  <2>2. CASE SetRaw
    BY <2>0, <2>2 DEF SetRaw, TextMeansItsNumber
  <2>3. CASE SetStr
    BY <2>3, SetStrMeans
  <2>4. CASE regmb_init
    BY <2>0, <2>4 DEF regmb_init, TextMeansItsNumber
  <2>5. CASE regmqtt_init
    BY <2>0, <2>5 DEF regmqtt_init, TextMeansItsNumber
  <2>6. CASE Generate
    BY <2>0, <2>6 DEF Generate, TextMeansItsNumber
  <2>7. CASE UNCHANGED vars
    BY <2>7 DEF vars, inputs, TextMeansItsNumber
  <2> QED BY <2>1, <2>2, <2>3, <2>4, <2>5, <2>6, <2>7 DEF Next
<1> QED BY <1>1, <1>2, AlwaysAtHand, PTL DEF Spec
=============================================================================
