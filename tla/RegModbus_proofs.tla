-------------------------- MODULE RegModbus_proofs --------------------------
(***************************************************************************)
(* The Modbus slave keeps its promises for every table regmb_init accepts, *)
(* every request, buffer size and order of hooks, and every width of a     *)
(* word.                                                                   *)
(***************************************************************************)
EXTENDS RegModbus, Rules_proofs, SequenceTheorems

(***************************************************************************)
(* The strengthening.  The loops' cursor always stands where an entry      *)
(* begins, and what is left of the request is made of whole entries: the   *)
(* check before the first entry holds for the loops however often they     *)
(* search again.  Behind the cursor a write has stored what was sent and a *)
(* read has collected what was held, ahead of it nothing has happened.     *)
(***************************************************************************)
Typed ==
  /\ cell \in [Index -> Int] /\ \A i \in Index : cell[i] \in CellOf(Table[i].type)
  /\ held \in [Index -> SUBSET Int] /\ old \in [Index -> Int] /\ own \subseteq Index
  /\ phase \in {"idle", "busy", "done"}
  /\ bcast \in BOOLEAN /\ pcap \in Nat /\ cursor \in Nat
  /\ out \in Seq(Word)

IdleHasNoPDU == phase = "idle" => req = NoPDU

(* The request in hand was found whole, deliverable and on the map.        *)
Checked ==
  phase = "busy" =>
    /\ req \in PDUs /\ req.whole /\ req.fc \in {"read", "write1", "write"}
    /\ WholeEntries(WordMap, req.start, req.qty)
    /\ RoomFor(req, pcap, bcast)
    /\ bcast => req.fc # "read"

OnTheMap ==
  phase = "busy" => /\ req.start <= cursor /\ cursor <= End
                    /\ Rest(WordMap, cursor, End)

WrittenUpToCursor ==
  phase = "busy" /\ IsWrite =>
    \A i \in Index :
      IF i \in Touched(req.start, cursor) \ own
      THEN Number(Table[i].type, Val(i)) = NumberAt(req.data, req.start, i)
      ELSE cell[i] = old[i]

ReadUpToCursor ==
  phase = "busy" /\ req.fc = "read" =>
    /\ Len(out) = cursor - req.start
    /\ \A i \in Touched(req.start, cursor) :
         NumberAt(out, req.start, i) \in {Number(Table[i].type, raw) : raw \in held[i]}

IInv == /\ Typed /\ IdleHasNoPDU /\ Checked /\ OnTheMap
        /\ WrittenUpToCursor /\ ReadUpToCursor
        /\ NoUnheardWrite /\ WriteIsPrefix /\ NoHalfValue /\ ReadIsHeld

-----------------------------------------------------------------------------
(* The slave's map is one that regmb_init accepted.                        *)
LEMMA MapOK ==
  /\ WordMap.addr = Addr /\ WordMap.top = TOP
  /\ \A i \in Index : WordMap.span[i] = EntryWords(i)
  /\ MapTyped(WordMap) /\ MapAccepted(WordMap) /\ WellMapped(WordMap)
<1>1. /\ WordMap.addr = Addr /\ WordMap.top = TOP
      /\ WordMap.span = [i \in Index |-> EntryWords(i)]
  BY DEF WordMap
<1>2. MapTyped(WordMap)
  BY <1>1, ModbusAssumption DEF MapTyped, Index, EntryWords
<1> QED BY <1>1, <1>2, ModbusAssumption, AcceptedIsWellMapped

LEMMA CoveredIsWhole ==
  ASSUME NEW start \in 0 .. (TOP - 1), NEW qty \in Nat \ {0}
  PROVE  SpanCovered(WordMap, start, qty) <=> WholeEntries(WordMap, start, qty)
BY MapOK, CoveredMeansWhole

-----------------------------------------------------------------------------
(* The wire.                                                               *)
LEMMA WidthFacts ==
  /\ W \in Nat /\ W >= 4 /\ W = 2 * H16 /\ 2 * H32 = W * W /\ H32 >= 2 * W
  /\ Word = 0 .. (W - 1) /\ Raw = 0 .. (W * W - 1) /\ H16 \in Nat /\ H8 \in Nat /\ H8 < H16
<1>1. W \in Nat /\ W >= 4 /\ W = 2 * H16
  BY WidthAssumption DEF W
<1>2. \A w \in Nat : w >= 4 => w * w >= 4 * w
  OBVIOUS
<1>3. W * W >= 4 * W
  BY <1>1, <1>2
<1> QED BY <1>1, <1>3, ModbusAssumption, WidthAssumption DEF Word, Raw

(* The same without the square.                                            *)
LEMMA Doubled ==
  /\ W \in Nat /\ H16 \in Nat /\ H32 \in Nat
  /\ W >= 4 /\ W = 2 * H16 /\ H32 >= 2 * W
  /\ H8 \in Nat /\ H8 < H16
BY WidthFacts, WidthAssumption

LEMMA TableFacts ==
  ASSUME NEW i \in Index
  PROVE  /\ Table[i] \in Entry /\ Sane(Table[i]) /\ Table[i].type \in Types
         /\ EntryWords(i) \in {1, 2} /\ (EntryWords(i) = 2 <=> TwoWord(Table[i].type))
         /\ i \in Nat
BY ModbusAssumption DEF Index, Entry, EntryWords

(* Two words make a raw value, and of a raw value two words.               *)
LEMMA TwoWords ==
  /\ \A high, low \in Word : high * W + low \in Raw
  /\ \A raw \in Raw : /\ raw \div W \in Word /\ raw % W \in Word
                      /\ (raw \div W) * W + (raw % W) = raw
<1>1. \A w \in Nat \ {0} : \A h, l \in 0 .. (w - 1) : h * w + l \in 0 .. (w * w - 1)
  <2> SUFFICES ASSUME NEW w \in Nat \ {0}, NEW h \in 0 .. (w - 1), NEW l \in 0 .. (w - 1)
               PROVE  h * w + l \in 0 .. (w * w - 1)
    OBVIOUS
  <2>1. h * w <= (w - 1) * w /\ h * w >= 0
    OBVIOUS
  <2>2. (w - 1) * w = w * w - w
    OBVIOUS
  <2> QED BY <2>1, <2>2
<1>2. \A w \in Nat \ {0} : \A r \in Int : r % w \in 0 .. (w - 1) /\ (r \div w) * w + (r % w) = r
  OBVIOUS
<1>3. \A w \in Nat \ {0} : \A r \in 0 .. (w * w - 1) : r \div w \in 0 .. (w - 1)
  <2> SUFFICES ASSUME NEW w \in Nat \ {0}, NEW r \in 0 .. (w * w - 1)
               PROVE  r \div w \in 0 .. (w - 1)
    OBVIOUS
  <2> DEFINE q == r \div w
  <2>1. q \in Int /\ q * w <= r /\ r < q * w + w
    BY <1>2
  <2> HIDE DEF q
  <2>2. q < w
    <3> SUFFICES ASSUME q >= w PROVE FALSE
      BY <2>1
    <3>1. q * w >= w * w
      BY <2>1
    <3> QED BY <2>1, <3>1
  <2>3. q >= 0
    <3> SUFFICES ASSUME q <= -1 PROVE FALSE
      BY <2>1
    <3>1. q * w <= -w
      BY <2>1
    <3> QED BY <2>1, <3>1
  <2> QED BY <2>1, <2>2, <2>3 DEF q
<1>4. W \in Nat \ {0} /\ Word = 0 .. (W - 1) /\ Raw = 0 .. (W * W - 1)
  BY WidthFacts
<1>5. \A high, low \in Word : high * W + low \in Raw
  BY <1>1, <1>4
<1>6. \A raw \in Raw : raw \in Int /\ raw \div W \in Word
  <2> SUFFICES ASSUME NEW raw \in Raw PROVE raw \in Int /\ raw \div W \in Word
    OBVIOUS
  <2>1. raw \in 0 .. (W * W - 1)
    BY <1>4, Zenon
  <2>2. raw \div W \in 0 .. (W - 1)
    BY <1>3, <1>4, <2>1, Zenon
  <2> QED BY <1>4, <2>1, <2>2
<1>7. \A raw \in Raw : raw % W \in Word /\ (raw \div W) * W + (raw % W) = raw
  BY <1>2, <1>4, <1>6
<1> QED BY <1>5, <1>6, <1>7

(* words_to_raw makes a raw value whose number is the one on the wire.     *)
LEMMA WireIn ==
  ASSUME NEW i \in Index, NEW words \in Seq(Word), NEW start \in Int, NEW at \in Nat, Addr[i] = at,
         start <= at, at + EntryWords(i) <= start + Len(words)
  PROVE  LET raw == WordsToRaw(Table[i].type, SubSeq(words, at - start + 1, Len(words))) IN
         /\ raw \in Raw
         /\ Number(Table[i].type, Canonical(Table[i].type, raw)) = NumberAt(words, start, i)
<1> DEFINE type == Table[i].type
           k    == at - start + 1
           in   == SubSeq(words, k, Len(words))
           raw  == WordsToRaw(type, in)
<1>1. /\ k \in 1 .. Len(words) /\ k + EntryWords(i) - 1 \in 1 .. Len(words)
      /\ Len(words) \in Nat
  <2>1. Len(words) \in Nat
    OBVIOUS
  <2> QED BY <2>1, TableFacts
<1>2. in[1] = words[k] /\ words[k] \in Word
  <2> HIDE DEF k
  <2> QED BY <1>1
<1>3. TwoWord(type) => in[2] = words[k + 1] /\ words[k + 1] \in Word
  <2>1. SUFFICES ASSUME TwoWord(type) PROVE in[2] = words[k + 1] /\ words[k + 1] \in Word
    OBVIOUS
  <2>2. k + 1 \in 1 .. Len(words)
    BY <1>1, <2>1, TableFacts
  <2> HIDE DEF k
  <2> QED BY <1>1, <2>2
<1>4. CASE TwoWord(type)
  <2> DEFINE high == IF WordSwap THEN words[k + 1] ELSE words[k]
             low  == IF WordSwap THEN words[k] ELSE words[k + 1]
  <2>1. high \in Word /\ low \in Word
    BY <1>2, <1>3, <1>4
  <2>2. raw = high * W + low
    <3> HIDE DEF in, k
    <3> QED BY <1>2, <1>3, <1>4 DEF WordsToRaw, TwoWord
  <2>3. Canonical(type, raw) = raw
    BY <1>4 DEF Canonical, TwoWord
  <2>4. NumberAt(words, start, i) = Number(type, high * W + low)
    BY <1>4 DEF NumberAt
  <2> HIDE DEF high, low
  <2> QED BY <2>1, <2>2, <2>3, <2>4, TwoWords
<1>5. CASE type \in {"I8", "I16"}
  <2>1. NumberAt(words, start, i) = IF words[k] >= H16 THEN words[k] - W ELSE words[k]
    <3>1. ~TwoWord(type) /\ type \in SignedTypes /\ type # "BOOL"
      BY <1>5 DEF TwoWord, SignedTypes
    <3> QED BY <3>1 DEF NumberAt
  <2>2. raw = IF words[k] < H16 THEN words[k] ELSE words[k] + 2 * H32 - W
    BY <1>2, <1>5 DEF WordsToRaw
  <2>3. Canonical(type, raw) = raw /\ Number(type, raw) = AsInt32(raw)
    BY <1>5 DEF Canonical, Number, SignedTypes
  <2> DEFINE w == words[k]
  <2>4. w \in 0 .. (W - 1)
    BY <1>2, WidthFacts
  <2>5. raw = IF w < H16 THEN w ELSE w + 2 * H32 - W
    BY <2>2
  <2>6. NumberAt(words, start, i) = IF w >= H16 THEN w - W ELSE w
    BY <2>1
  <2> HIDE DEF raw, w
  <2>7. raw \in Raw
    BY <2>4, <2>5, WidthFacts, WidthAssumption DEF Raw
  <2>8. AsInt32(raw) = IF w >= H16 THEN w - W ELSE w
    BY <2>4, <2>5, Doubled DEF AsInt32
  <2> QED BY <2>3, <2>6, <2>7, <2>8 DEF raw
<1>6. CASE type \in {"U8", "U16", "BOOL"}
  <2>1. NumberAt(words, start, i) = IF type = "BOOL" /\ words[k] # 0 THEN 1 ELSE words[k]
    <3>1. ~TwoWord(type) /\ type \notin SignedTypes
      BY <1>6 DEF TwoWord, SignedTypes
    <3> QED BY <3>1 DEF NumberAt
  <2>2. raw = words[k]
    BY <1>2, <1>6 DEF WordsToRaw, TwoWord
  <2>3. \A r : Number(type, r) = r
    BY <1>6 DEF Number, SignedTypes
  <2>4. raw \in Raw
    <3> HIDE DEF raw, k
    <3> QED BY <1>2, <2>2, WidthFacts, WidthAssumption DEF Raw
  <2> QED BY <2>1, <2>2, <2>3, <2>4 DEF Canonical
<1> QED BY <1>4, <1>5, <1>6, TableFacts DEF Types, UnsignedTypes, SignedTypes, TwoWord

(* Whole words on top do not change the lowest one.                        *)
LEMMA ModOfSum ==
  ASSUME NEW w \in Nat \ {0}, NEW x \in Int, NEW y \in 0 .. (w - 1)
  PROVE  (x * w + y) % w = y
<1> DEFINE r == x * w + y
           q == r \div w
           m == r % w
<1>1. r \in Int /\ q \in Int /\ m \in 0 .. (w - 1) /\ r = q * w + m
  <2>1. r \in Int
    OBVIOUS
  <2> HIDE DEF r
  <2>2. q \in Int /\ m \in 0 .. (w - 1) /\ r - w * q = m
    BY <2>1
  <2> HIDE DEF q, m
  <2> QED BY <2>1, <2>2
<1>2. r = x * w + y
  OBVIOUS
<1> HIDE DEF r, q, m
<1>3. (x - q) * w = m - y
  BY <1>1, <1>2
<1>4. ~(x - q >= 1)
  <2> SUFFICES ASSUME x - q >= 1 PROVE FALSE
    OBVIOUS
  <2>1. (x - q) * w >= w
    BY <1>1
  <2> QED BY <2>1, <1>1, <1>3
<1>5. ~(x - q <= -1)
  <2> SUFFICES ASSUME x - q <= -1 PROVE FALSE
    OBVIOUS
  <2>1. (x - q) * w <= -w
    BY <1>1
  <2> QED BY <2>1, <1>1, <1>3
<1>6. x = q
  BY <1>1, <1>4, <1>5
<1>7. m = y
  BY <1>1, <1>2, <1>6
<1> QED BY <1>7 DEF m, r

(* raw_to_words puts the number of the raw value a variable holds there.   *)
LEMMA WireOut ==
  ASSUME NEW i \in Index, NEW c \in CellOf(Table[i].type), NEW words \in Seq(Word),
         NEW start \in Int, Addr[i] = start + Len(words)
  PROVE  LET raw == LoadRaw(Table[i].type, c)
             sent == RawToWords(Table[i].type, raw)
         IN  /\ raw \in Raw /\ sent \in Seq(Word) /\ Len(sent) = EntryWords(i)
             /\ NumberAt(words \o sent, start, i) = Number(Table[i].type, raw)
<1> DEFINE type == Table[i].type
           raw  == LoadRaw(type, c)
           sent == RawToWords(type, raw)
           k    == Len(words) + 1
<1>1. raw \in Raw
  BY TableFacts, LoadRawInRaw
<1>2. raw \div W \in Word /\ raw % W \in Word /\ (raw \div W) * W + (raw % W) = raw
  BY <1>1, TwoWords
<1>3. Addr[i] - start + 1 = k /\ k \in Nat \ {0} /\ Len(words) \in Nat
  OBVIOUS
<1>4. CASE TwoWord(type)
  <2> DEFINE a == IF WordSwap THEN raw % W ELSE raw \div W
             b == IF WordSwap THEN raw \div W ELSE raw % W
  <2>1. sent = <<a, b>>
    BY <1>4 DEF RawToWords
  <2>2. a \in Word /\ b \in Word
    BY <1>2
  <2> HIDE DEF a, b
  <2>3. /\ <<a, b>> \in Seq(Word) /\ Len(<<a, b>>) = 2
        /\ (words \o <<a, b>>)[k] = a /\ (words \o <<a, b>>)[k + 1] = b
    BY <2>2
  <2>4. NumberAt(words \o sent, start, i)
          = Number(type, (IF WordSwap THEN b ELSE a) * W + (IF WordSwap THEN a ELSE b))
    <3> HIDE DEF k
    <3> QED BY <2>1, <2>3, <1>3, <1>4 DEF NumberAt
  <2>5. (IF WordSwap THEN b ELSE a) * W + (IF WordSwap THEN a ELSE b) = raw
    <3>1. CASE WordSwap
      BY <1>2, <3>1 DEF a, b
    <3>2. CASE ~WordSwap
      BY <1>2, <3>2 DEF a, b
    <3> QED BY <3>1, <3>2
  <2> QED BY <1>1, <1>4, <2>1, <2>3, <2>4, <2>5, TableFacts
<1>5. CASE ~TwoWord(type)
  <2>1. sent = <<raw % W>>
    BY <1>5 DEF RawToWords
  <2> DEFINE a == raw % W
  <2>2. a \in Word
    BY <1>2
  <2> HIDE DEF a
  <2>3. <<a>> \in Seq(Word) /\ Len(<<a>>) = 1 /\ (words \o <<a>>)[k] = a
    BY <2>2
  <2>4. NumberAt(words \o sent, start, i) =
          IF type \in SignedTypes /\ a >= H16 THEN a - W
          ELSE IF type = "BOOL" /\ a # 0 THEN 1 ELSE a
    <3> HIDE DEF k
    <3> QED BY <2>1, <2>3, <1>3, <1>5 DEF NumberAt, a
  <2>5. ASSUME type \in {"I8", "I16"}
        PROVE  NumberAt(words \o sent, start, i) = Number(type, raw)
    <3>1. c \in -H16 .. (H16 - 1)
      <4>1. type \in SignedTypes /\ Half(type) \in {H8, H16}
        BY <2>5 DEF SignedTypes, Half
      <4>2. c \in -Half(type) .. (Half(type) - 1)
        BY <4>1 DEF CellOf
      <4> QED BY <4>1, <4>2, WidthFacts
    <3>2. raw = IF c < 0 THEN c + 2 * H32 ELSE c
      BY <2>5 DEF LoadRaw, SignedTypes
    <3>3. a = IF c < 0 THEN c + W ELSE c
      <4>1. CASE c < 0
        <5>1. raw = (W - 1) * W + (c + W) /\ c + W \in 0 .. (W - 1)
          <6>1. \A w \in Nat : (w - 1) * w = w * w - w
            OBVIOUS
          <6>2. (W - 1) * W = 2 * H32 - W
            BY <6>1, WidthFacts
          <6>3. c + W \in 0 .. (W - 1)
            BY <3>1, <4>1, Doubled
          <6> QED BY <3>1, <3>2, <4>1, <6>2, <6>3, Doubled
        <5>3. ((W - 1) * W + (c + W)) % W = c + W
          <6> DEFINE x == W - 1
                     y == c + W
          <6>1. W \in Nat \ {0} /\ x \in Int /\ y \in 0 .. (W - 1)
            BY <5>1, Doubled
          <6> HIDE DEF x, y
          <6>2. (x * W + y) % W = y
            BY <6>1, ModOfSum
          <6> QED BY <6>2 DEF x, y
        <5>4. a = c + W
          BY <5>1, <5>3 DEF a
        <5> QED BY <5>4, <4>1
      <4>2. CASE c >= 0
        <5>1. raw = c /\ c \in 0 .. (W - 1)
          <6> HIDE DEF raw
          <6> QED BY <3>1, <3>2, <4>2, Doubled
        <5>2. c % W = c
          <6> HIDE DEF raw, a
          <6> QED BY <5>1, Doubled, ModOfSmall
        <5>3. a = c
          BY <5>1, <5>2 DEF a
        <5>4. ~(c < 0)
          BY <3>1, <4>2, Doubled
        <5> HIDE DEF raw, a
        <5> QED BY <5>3, <5>4, Zenon
      <4>3. c < 0 \/ c >= 0
        BY <3>1, Doubled
      <4> HIDE DEF raw, a
      <4> QED BY <4>1, <4>2, <4>3
    <3>4. Number(type, raw) = c
      <4>1. Number(type, raw) = AsInt32(raw)
        BY <2>5 DEF Number, SignedTypes
      <4> HIDE DEF raw, type
      <4> QED BY <4>1, <3>1, <3>2, Doubled DEF AsInt32
    <3>5. type \in SignedTypes
      BY <2>5 DEF SignedTypes
    <3>6. (IF a >= H16 THEN a - W ELSE a) = c
      BY <3>1, <3>3, Doubled
    <3>7. type # "BOOL"
      BY <2>5
    <3>8. NumberAt(words \o sent, start, i) = IF a >= H16 THEN a - W ELSE a
      BY <2>4, <3>5, <3>7, Zenon
    <3> QED BY <3>4, <3>6, <3>8
  <2>6. ASSUME type \in {"U8", "U16", "BOOL"}
        PROVE  NumberAt(words \o sent, start, i) = Number(type, raw)
    <3>1. raw \in 0 .. (W - 1)
      <4>1. type \notin SignedTypes /\ Half(type) \in {H8, H16}
        BY <2>6 DEF SignedTypes, Half
      <4>2. c \in 0 .. (2 * Half(type) - 1)
        BY <4>1 DEF CellOf
      <4>3. raw = IF type = "BOOL" THEN IF c # 0 THEN 1 ELSE 0 ELSE c
        BY <4>1 DEF LoadRaw
      <4>4. 2 * Half(type) <= W
        BY <4>1, Doubled
      <4>5. Half(type) \in Nat
        BY <4>1, Doubled
      <4> HIDE DEF raw, type
      <4>6. c \in 0 .. (W - 1)
        BY <4>2, <4>4, <4>5, Doubled
      <4>7. 0 \in 0 .. (W - 1) /\ 1 \in 0 .. (W - 1)
        BY Doubled
      <4> QED BY <4>3, <4>6, <4>7, Zenon
    <3>2. a = raw
      BY <3>1, Doubled, ModOfSmall DEF a
    <3>3. type = "BOOL" => raw \in {0, 1}
      BY DEF LoadRaw, SignedTypes
    <3>4. Number(type, raw) = raw /\ type \notin SignedTypes
      BY <2>6 DEF Number, SignedTypes
    <3>5. raw # 0 /\ type = "BOOL" => raw = 1
      BY <3>3
    <3>6. NumberAt(words \o sent, start, i) = IF type = "BOOL" /\ raw # 0 THEN 1 ELSE raw
      BY <2>4, <3>2, <3>4, Zenon
    <3> QED BY <3>4, <3>5, <3>6
  <2>7. type \in {"U8", "U16", "BOOL", "I8", "I16"}
    BY <1>5, TableFacts DEF Types, UnsignedTypes, SignedTypes, TwoWord
  <2> QED BY <1>1, <1>5, <2>1, <2>2, <2>3, <2>5, <2>6, <2>7, TableFacts DEF a
<1> QED BY <1>4, <1>5

-----------------------------------------------------------------------------
(* The map.                                                                *)
LEMMA MappedFacts ==
  ASSUME NEW i \in Mapped(WordMap)
  PROVE  /\ i \in Index /\ Addr[i] \in 1 .. (TOP - 1) /\ EntryWords(i) \in {1, 2}
         /\ \A w : w \in WordsOf(WordMap, i) <=> w \in Int /\ Addr[i] <= w /\ w < Addr[i] + EntryWords(i)
<1>1. i \in Index /\ i \in Mapped(WordMap)
  BY MapOK, ModbusAssumption DEF Mapped
<1> QED BY <1>1, MapOK, EntryFacts, TableFacts

LEMMA Disjoint ==
  ASSUME NEW i \in Mapped(WordMap), NEW j \in Mapped(WordMap), i # j
  PROVE  WordsOf(WordMap, i) \cap WordsOf(WordMap, j) = {}
BY MapOK DEF WellMapped

(* Where the cursor stands begins an entry, which ends before the request. *)
LEMMA EntryHere ==
  ASSUME NEW k \in Nat, NEW end \in Nat, k < end, Rest(WordMap, k, end),
         NEW i, i = EntryAt(WordMap, k % TOP)
  PROVE  /\ i \in Mapped(WordMap) /\ Addr[i] = k /\ k + EntryWords(i) <= end
         /\ Rest(WordMap, k + EntryWords(i), end)
<1> DEFINE j == EntryAt(WordMap, k)
<1>2. j # Nobody /\ Rest(WordMap, k + WordMap.span[j], end)
  BY MapOK, RestStep
<1>3. j \in Mapped(WordMap) /\ Addr[j] = k
  BY MapOK, <1>2, EntryAtFacts
<1>4. j \in Index /\ k \in 1 .. (TOP - 1)
  BY <1>3, MappedFacts
<1>5. k % TOP = k
  <2>1. TOP \in Nat /\ k \in 0 .. (TOP - 1)
    BY <1>4, ModbusAssumption
  <2> QED BY <2>1, ModOfSmall, Zenon
<1>6. i = j
  BY <1>5
<1>7. WordMap.span[j] = EntryWords(j) /\ EntryWords(j) \in {1, 2}
  BY <1>4, MapOK, TableFacts
<1>8. Rest(WordMap, k + EntryWords(i), end)
  BY <1>2, <1>6, <1>7
<1>9. k + EntryWords(i) <= end
  BY <1>6, <1>7, <1>8 DEF Rest
<1> QED BY <1>3, <1>6, <1>8, <1>9

(* The entries from the start of a request up to where another begins.     *)
LEMMA TouchedStep ==
  ASSUME NEW from \in Int, NEW i \in Mapped(WordMap), from <= Addr[i]
  PROVE  /\ Touched(from, Addr[i] + EntryWords(i)) = Touched(from, Addr[i]) \cup {i}
         /\ i \notin Touched(from, Addr[i])
         /\ \A j \in Touched(from, Addr[i]) : from <= Addr[j] /\ Addr[j] + EntryWords(j) <= Addr[i]
<1>1. \A j \in Mapped(WordMap) : Addr[j] \in Int /\ EntryWords(j) \in {1, 2}
  BY MappedFacts
<1>2. ASSUME NEW j \in Mapped(WordMap), j # i
      PROVE  ~(Addr[i] <= Addr[j] /\ Addr[j] < Addr[i] + EntryWords(i))
  <2> SUFFICES ASSUME Addr[i] <= Addr[j], Addr[j] < Addr[i] + EntryWords(i) PROVE FALSE
    OBVIOUS
  <2>1. Addr[j] \in WordsOf(WordMap, j) /\ Addr[j] \in WordsOf(WordMap, i)
    BY <1>1, MappedFacts
  <2> QED BY <2>1, <1>2, Disjoint
<1>3. ASSUME NEW j \in Mapped(WordMap), Addr[j] < Addr[i]
      PROVE  Addr[j] + EntryWords(j) <= Addr[i]
  <2> SUFFICES ASSUME Addr[i] < Addr[j] + EntryWords(j) PROVE FALSE
    BY <1>1
  <2>1. Addr[i] \in WordsOf(WordMap, j) /\ Addr[i] \in WordsOf(WordMap, i)
    BY <1>1, <1>3, MappedFacts
  <2>2. i # j
    BY <1>1, <1>3
  <2> QED BY <2>1, <2>2, Disjoint
<1>4. i \notin Touched(from, Addr[i])
  BY <1>1 DEF Touched
<1>5. \A j \in Touched(from, Addr[i]) : from <= Addr[j] /\ Addr[j] + EntryWords(j) <= Addr[i]
  BY <1>1, <1>3 DEF Touched
<1>6. Touched(from, Addr[i] + EntryWords(i)) = Touched(from, Addr[i]) \cup {i}
  BY <1>1, <1>2 DEF Touched
<1> QED BY <1>4, <1>5, <1>6

LEMMA NothingTouched == \A k \in Int : Touched(k, k) = {}
BY MappedFacts DEF Touched

(* What was put at an entry's place stays there when more words follow.    *)
LEMMA NumberStays ==
  ASSUME NEW i \in Mapped(WordMap), NEW words \in Seq(Word), NEW more \in Seq(Word), NEW start \in Int,
         start <= Addr[i], Addr[i] + EntryWords(i) <= start + Len(words)
  PROVE  NumberAt(words \o more, start, i) = NumberAt(words, start, i)
<1> DEFINE k == Addr[i] - start + 1
<1>1. k \in 1 .. Len(words) /\ (TwoWord(Table[i].type) => k + 1 \in 1 .. Len(words))
  BY MappedFacts, TableFacts, SMTT(60)
<1>2. \A n \in 1 .. Len(words) : (words \o more)[n] = words[n]
  OBVIOUS
<1> HIDE DEF k
<1>3. (words \o more)[k] = words[k]
  BY <1>1, <1>2
<1>4. TwoWord(Table[i].type) => (words \o more)[k + 1] = words[k + 1]
  BY <1>1, <1>2
<1> QED BY <1>3, <1>4, Zenon DEF NumberAt, k

-----------------------------------------------------------------------------
(* The requests.                                                           *)
LEMMA PDUFacts ==
  ASSUME NEW p \in PDUs
  PROVE  /\ p.start \in Nat /\ p.start < TOP /\ p.qty \in Nat /\ p.data \in Seq(Word)
         /\ p.fc \in FunctionCodes
         /\ p.whole /\ p.fc \in {"write1", "write"} => Len(p.data) = p.qty
         /\ p.fc = "write1" => p.qty = 1
<1>1. /\ p \in PDU /\ (p.whole /\ p.fc = "write" => Len(p.data) = p.qty)
      /\ (p.fc = "write1" => Len(p.data) = 1 /\ p.qty = 1)
  BY ModbusAssumption, Zenon
<1>2. p.start \in 0 .. (TOP - 1) /\ p.qty \in Nat /\ p.data \in Seq(Word) /\ p.fc \in FunctionCodes
  BY <1>1 DEF PDU
<1>3. p.start \in Nat /\ p.start < TOP
  BY <1>2, ModbusAssumption
<1> QED BY <1>1, <1>2, <1>3

(* What do_read and the writes let through is made of whole entries.       *)
LEMMA VerdictFacts ==
  ASSUME NEW p \in PDUs, Verdict(p) = 0
  PROVE  /\ p.whole /\ p.fc \in {"read", "write1", "write"}
         /\ WholeEntries(WordMap, p.start, p.qty)
         /\ Rest(WordMap, p.start, p.start + p.qty)
<1> DEFINE end == p.start + p.qty
<1>1. /\ p.start \in 0 .. (TOP - 1) /\ p.start \in Int /\ p.qty \in Nat /\ end \in Int
      /\ MapTyped(WordMap) /\ WellMapped(WordMap)
  BY PDUFacts, MapOK, AcceptedIsWellMapped, ModbusAssumption
<1>2. WholeEntries(WordMap, p.start, p.qty) <=> WholeTo(WordMap, p.start, end)
  <2>1. p.qty \in Int
    BY <1>1
  <2> QED BY <2>1, <1>1, WholeFacts
<1>3. CASE p.fc \in {"read", "write"}
  <2>1. p.whole /\ p.qty >= 1 /\ SpanCovered(WordMap, p.start, p.qty)
    BY <1>1, <1>3 DEF Verdict, SpanVerdict
  <2>2. WholeEntries(WordMap, p.start, p.qty)
    BY <2>1, <1>1, CoveredIsWhole
  <2>3. p.start < end
    BY <2>1, <1>1
  <2> QED BY <2>1, <2>2, <2>3, <1>1, <1>2, <1>3 DEF Rest
<1>4. CASE p.fc = "write1"
  <2> DEFINE i == EntryAt(WordMap, p.start)
  <2>1. p.whole /\ i # Nobody /\ EntryWords(i) = 1
    BY <1>4 DEF Verdict, SingleVerdict
  <2>2. i \in Index
    BY <2>1, <1>1, EntryAtFacts, MappedFacts
  <2>3. p.start + WordMap.span[i] = end /\ p.start < end
    BY <2>1, <2>2, <1>1, <1>4, PDUFacts, MapOK
  <2>4. Rest(WordMap, p.start + WordMap.span[i], end)
    BY <2>3, <1>1 DEF Rest
  <2>5. Rest(WordMap, p.start, end)
    <3> HIDE DEF end
    <3> QED BY <2>1, <2>3, <2>4, <1>1, RestStep
  <2>6. WholeTo(WordMap, p.start, end)
    BY <2>3, <2>5, <1>1 DEF Rest
  <2> QED BY <2>1, <2>5, <2>6, <1>2, <1>4
<1>5. CASE p.fc = "other"
  BY <1>5 DEF Verdict
<1> QED BY <1>3, <1>4, <1>5, PDUFacts DEF FunctionCodes

LEMMA VerdictIsNotFour == \A p : Verdict(p) # 4
BY DEF Verdict, SpanVerdict, SingleVerdict

LEMMA CellFacts ==
  ASSUME NEW type, type \in Types, NEW c \in CellOf(type)
  PROVE  c \in Int
BY HalfBounds DEF CellOf

-----------------------------------------------------------------------------
(* While a request is in hand, what its fields are.                        *)
LEMMA InHand ==
  ASSUME Checked, OnTheMap, Typed, phase = "busy"
  PROVE  /\ req \in PDUs /\ req.whole /\ req.start \in Nat /\ req.qty \in Nat /\ End \in Nat
         /\ End = req.start + req.qty
         /\ req.data \in Seq(Word) /\ req.fc \in {"read", "write1", "write"}
         /\ req.fc # "read" => Len(req.data) = req.qty
         /\ cursor \in Nat /\ req.start <= cursor /\ cursor <= End
         /\ Rest(WordMap, cursor, End)
         /\ RoomFor(req, pcap, bcast) /\ pcap \in Nat
<1>1. req \in PDUs /\ req.whole /\ req.fc \in {"read", "write1", "write"} /\ RoomFor(req, pcap, bcast)
  BY DEF Checked
<1>2. End \in Nat
  BY <1>1, PDUFacts DEF End
<1> QED BY <1>1, <1>2, PDUFacts DEF OnTheMap, Typed, End

(* One round of a loop: the entry at the cursor, and the cursor after it.  *)
LEMMA Round ==
  ASSUME Checked, OnTheMap, Typed, phase = "busy", cursor < End, NEW i, At = i
  PROVE  /\ i \in Mapped(WordMap) /\ i \in Index /\ Addr[i] = cursor /\ EntryWords(i) \in {1, 2}
         /\ cursor + EntryWords(i) <= End
         /\ Rest(WordMap, cursor + EntryWords(i), End)
         /\ Touched(req.start, cursor + EntryWords(i)) = Touched(req.start, cursor) \cup {i}
         /\ i \notin Touched(req.start, cursor)
         /\ \A j \in Touched(req.start, cursor) :
              req.start <= Addr[j] /\ Addr[j] + EntryWords(j) <= cursor
<1>1. cursor \in Nat /\ End \in Nat /\ Rest(WordMap, cursor, End) /\ req.start \in Nat /\ req.start <= cursor
  BY InHand
<1>2. /\ i \in Mapped(WordMap) /\ Addr[i] = cursor /\ cursor + EntryWords(i) <= End
      /\ Rest(WordMap, cursor + EntryWords(i), End)
  BY <1>1, EntryHere DEF At
<1>3. req.start \in Int /\ req.start <= Addr[i]
  BY <1>1, <1>2
<1> QED BY <1>2, <1>3, TouchedStep, MappedFacts

(* What pdu_handle does before the loops.                                  *)
LEMMA StepHandle ==
  ASSUME IInv, NEW f \in Frames, NEW cap \in Caps, NEW p \in PDUs, Handle(f, cap, p)
  PROVE  IInv'
<1>1. /\ req' = p /\ cell' = cell /\ old' = cell /\ own' = {} /\ out' = <<>> /\ cursor' = p.start
      /\ held' = [i \in Index |-> {Val(i)}] /\ pcap' = PduRoom(f, cap) /\ bcast' = IsBroadcast(f)
  BY DEF Handle
<1>2. p.start \in Nat /\ p.qty \in Nat /\ p.start <= p.start + p.qty
  BY PDUFacts
<1>3. \/ /\ phase' = "done"
         /\ answer' = Silent \/ \E c : c # 4 /\ answer' = Exception(c)
      \/ /\ phase' = "busy" /\ answer' = Silent
         /\ Verdict(p) = 0 /\ RoomFor(p, pcap', bcast') /\ (bcast' => p.fc # "read")
  BY VerdictIsNotFour DEF Handle, Refuse
<1>4. Typed'
  <2>1. pcap' \in Nat
    <3>1. cap \in Nat
      BY ModbusAssumption
    <3> QED BY <1>1, <3>1 DEF PduRoom, Handle, Discarded, Frames
  <2>2. \A i \in Index : Val(i) \in Int
    <3> SUFFICES ASSUME NEW i \in Index PROVE Val(i) \in Int
      OBVIOUS
    <3>1. cell[i] \in CellOf(Table[i].type) /\ Table[i].type \in Types
      BY TableFacts DEF IInv, Typed
    <3>2. Val(i) \in Raw
      BY <3>1, LoadRawInRaw DEF Val
    <3> QED BY <3>2, WidthAssumption DEF Raw
  <2>3. [i \in Index |-> {Val(i)}] \in [Index -> SUBSET Int]
    BY <2>2
  <2>4. bcast' \in BOOLEAN
    BY <1>1 DEF IsBroadcast
  <2>5. /\ cell \in [Index -> Int] /\ \A i \in Index : cell[i] \in CellOf(Table[i].type)
        /\ <<>> \in Seq(Word)
    BY DEF IInv, Typed
  <2> QED BY <1>1, <1>2, <1>3, <2>1, <2>3, <2>4, <2>5 DEF Typed
<1>5. IdleHasNoPDU'
  BY <1>3 DEF IdleHasNoPDU
<1>6. Checked'
  BY <1>1, <1>3, VerdictFacts DEF Checked
<1>7. OnTheMap'
  BY <1>1, <1>2, <1>3, VerdictFacts DEF OnTheMap, End
<1>8. Touched(p.start, p.start) = {}
  BY <1>2, NothingTouched
<1>9. WrittenUpToCursor'
  BY <1>1, <1>8 DEF WrittenUpToCursor
<1>10. ReadUpToCursor'
  BY <1>1, <1>2, <1>8 DEF ReadUpToCursor
<1>11. NoUnheardWrite'
  BY <1>1 DEF NoUnheardWrite
<1>12. phase' = "done" => answer'.kind \notin {"data", "echo"} /\ answer' # Echo
                          /\ (answer'.kind = "exception" => answer'.code # 4)
  BY <1>3 DEF Silent, Exception, Echo
<1>13. WriteIsPrefix'
  <2> SUFFICES ASSUME Answered', IsWrite' PROVE WriteIsPrefix'
    BY DEF WriteIsPrefix
  <2>1. phase' = "done"
    BY DEF Answered
  <2>2. p.start \in p.start .. (p.start + p.qty)
    BY <1>2
  <2> QED BY <1>1, <1>8, <1>12, <2>1, <2>2 DEF WriteIsPrefix, End
<1>14. NoHalfValue' /\ ReadIsHeld'
  BY <1>12 DEF NoHalfValue, ReadIsHeld, Answered
<1> QED BY <1>4, <1>5, <1>6, <1>7, <1>9, <1>10, <1>11, <1>13, <1>14 DEF IInv

(* Between two entries of a request nothing is answered yet.               *)
LEMMA NotAnsweredYet ==
  ASSUME phase' = "busy"
  PROVE  IdleHasNoPDU' /\ NoUnheardWrite' /\ WriteIsPrefix' /\ NoHalfValue' /\ ReadIsHeld'
BY DEF IdleHasNoPDU, NoUnheardWrite, WriteIsPrefix, NoHalfValue, ReadIsHeld, Answered

LEMMA StepReadEntry ==
  ASSUME IInv, NEW i \in Index, ReadEntry(i)
  PROVE  IInv'
<1> DEFINE words == RawToWords(Table[i].type, Val(i)')
<1>1. /\ phase = "busy" /\ req.fc = "read" /\ cursor < End /\ At = i
      /\ cursor' = cursor + EntryWords(i) /\ out' = out \o words
      /\ held' = [held EXCEPT ![i] = @ \cup {Val(i)'}]
      /\ phase' = phase /\ req' = req /\ bcast' = bcast /\ pcap' = pcap /\ old' = old
      /\ own' = own
  BY DEF ReadEntry
<1>2. PICK c \in CellOf(Table[i].type) : cell' = [cell EXCEPT ![i] = c]
  BY ModbusAssumption DEF ReadEntry, IInv, Typed
<1>3. Val(i)' = LoadRaw(Table[i].type, c)
  BY <1>2 DEF Val, IInv, Typed
<1>4. Checked /\ OnTheMap /\ Typed /\ out \in Seq(Word) /\ Len(out) = cursor - req.start
  BY <1>1 DEF IInv, Typed, ReadUpToCursor
<1>5. /\ i \in Mapped(WordMap) /\ Addr[i] = cursor /\ EntryWords(i) \in {1, 2}
      /\ cursor + EntryWords(i) <= End /\ Rest(WordMap, cursor + EntryWords(i), End)
      /\ Touched(req.start, cursor + EntryWords(i)) = Touched(req.start, cursor) \cup {i}
      /\ \A j \in Touched(req.start, cursor) : req.start <= Addr[j] /\ Addr[j] + EntryWords(j) <= cursor
  BY <1>1, <1>4, Round
<1>6. req.start \in Nat /\ cursor \in Nat /\ req.start <= cursor
  BY <1>1, <1>4, InHand
<1>7. /\ Val(i)' \in Raw /\ words \in Seq(Word) /\ Len(words) = EntryWords(i)
      /\ NumberAt(out \o words, req.start, i) = Number(Table[i].type, Val(i)')
  <2>1. req.start \in Int /\ Addr[i] = req.start + Len(out)
    BY <1>4, <1>5, <1>6
  <2> QED BY <1>3, <1>4, <2>1, WireOut
<1> HIDE DEF words
<1>8. Typed'
  <2>1. c \in Int /\ Val(i)' \in Int
    BY <1>7, TableFacts, CellFacts, WidthAssumption DEF Raw
  <2>2. out \o words \in Seq(Word)
    BY <1>4, <1>7
  <2>3. cursor' \in Nat
    BY <1>1, <1>5, <1>6
  <2> QED BY <1>1, <1>2, <1>4, <2>1, <2>2, <2>3 DEF Typed
<1>9. Checked'
  BY <1>1, <1>4 DEF Checked
<1>10. OnTheMap'
  BY <1>1, <1>5, <1>6 DEF OnTheMap, End
<1>11. WrittenUpToCursor'
  BY <1>1 DEF WrittenUpToCursor, IsWrite
<1>12. ReadUpToCursor'
  <2>1. Len(out') = cursor' - req.start
    <3>1. Len(out \o words) = Len(out) + Len(words)
      BY <1>4, <1>7
    <3> QED BY <3>1, <1>1, <1>4, <1>5, <1>6, <1>7
  <2>2. i \in DOMAIN held
    BY <1>4 DEF Typed
  <2>3. NumberAt(out', req.start, i) \in {Number(Table[i].type, raw) : raw \in held'[i]}
    BY <1>1, <1>7, <2>2
  <2>4. ASSUME NEW j \in Touched(req.start, cursor)
        PROVE  NumberAt(out', req.start, j) \in {Number(Table[j].type, raw) : raw \in held'[j]}
    <3>1. j \in Mapped(WordMap) /\ j \in Index
      BY MappedFacts DEF Touched
    <3>2. NumberAt(out', req.start, j) = NumberAt(out, req.start, j)
      <4>1. req.start \in Int /\ req.start <= Addr[j] /\ Addr[j] + EntryWords(j) <= req.start + Len(out)
        BY <1>4, <1>5, <1>6
      <4> QED BY <1>1, <1>4, <1>7, <3>1, <4>1, NumberStays
    <3>3. NumberAt(out, req.start, j) \in {Number(Table[j].type, raw) : raw \in held[j]}
      BY <1>1 DEF IInv, ReadUpToCursor
    <3>4. held[j] \subseteq held'[j]
      BY <1>1, <1>4, <3>1 DEF Typed
    <3> QED BY <3>2, <3>3, <3>4
  <2> QED BY <1>1, <1>5, <2>1, <2>3, <2>4 DEF ReadUpToCursor
<1> QED BY <1>1, <1>8, <1>9, <1>10, <1>11, <1>12, NotAnsweredYet DEF IInv

LEMMA StepWriteEntry ==
  ASSUME IInv, NEW i \in Index, WriteEntry(i)
  PROVE  IInv'
<1> DEFINE type == Table[i].type
           raw  == RawOf(i)
           c    == StoreRaw(type, Canonical(type, raw))
<1>1. /\ phase = "busy" /\ req.fc \in {"write1", "write"} /\ cursor < End /\ At = i
      /\ CheckRaw(Table[i], raw) = "OK"
      /\ cell' = [cell EXCEPT ![i] = c] /\ cursor' = cursor + EntryWords(i)
      /\ phase' = phase /\ req' = req /\ bcast' = bcast /\ pcap' = pcap /\ out' = out
      /\ old' = old /\ own' = own \ {i} /\ held' = held
  BY DEF WriteEntry, Writing
<1>2. Checked /\ OnTheMap /\ Typed /\ WrittenUpToCursor
  BY DEF IInv
<1>3. /\ i \in Mapped(WordMap) /\ Addr[i] = cursor /\ EntryWords(i) \in {1, 2}
      /\ cursor + EntryWords(i) <= End /\ Rest(WordMap, cursor + EntryWords(i), End)
      /\ Touched(req.start, cursor + EntryWords(i)) = Touched(req.start, cursor) \cup {i}
      /\ i \notin Touched(req.start, cursor)
  BY <1>1, <1>2, Round
<1>4. /\ req.start \in Nat /\ cursor \in Nat /\ req.start <= cursor /\ End = req.start + req.qty
      /\ req.data \in Seq(Word) /\ Len(req.data) = req.qty /\ req.qty \in Nat
  BY <1>1, <1>2, InHand
<1>5. raw \in Raw /\ Number(type, Canonical(type, raw)) = NumberAt(req.data, req.start, i)
  <2>1. cursor + EntryWords(i) <= req.start + Len(req.data) /\ req.start \in Int
    BY <1>3, <1>4
  <2> QED BY <2>1, <1>3, <1>4, WireIn DEF RawOf
<1> HIDE DEF raw
<1>6. Table[i] \in Entry /\ type \in Types /\ Canonical(type, raw) \in Raw
  BY <1>1, <1>5, TableFacts, AcceptedFits, EntryIsRow
<1>7. c \in CellOf(type) /\ c \in Int /\ LoadRaw(type, c) = Canonical(type, raw)
  BY <1>1, <1>5, <1>6, StoreRawInCell, StoredIsLoadedBack, EntryIsRow, CellFacts
<1>8. Table[i].perm = "RW"
  BY <1>1, <1>6 DEF CheckRaw, Entry, Perms
<1> HIDE DEF c
<1>9. Typed'
  BY <1>1, <1>2, <1>3, <1>4, <1>7, SMTT(60) DEF Typed
<1>10. Checked'
  BY <1>1, <1>2 DEF Checked
<1>11. OnTheMap'
  BY <1>1, <1>3, <1>4 DEF OnTheMap, End
<1>12. WrittenUpToCursor'
  <2> SUFFICES ASSUME NEW j \in Index
               PROVE  IF j \in Touched(req.start, cursor') \ own'
                      THEN Number(Table[j].type, Val(j)') = NumberAt(req.data, req.start, j)
                      ELSE cell'[j] = old[j]
    BY <1>1 DEF WrittenUpToCursor
  <2>1. CASE j = i
    <3>1. Val(j)' = Canonical(type, raw)
      BY <1>1, <1>2, <1>7, <2>1 DEF Val, Typed
    <3>2. j \in Touched(req.start, cursor') \ own'
      BY <1>1, <1>3, <2>1
    <3> QED BY <3>1, <3>2, <1>5, <2>1
  <2>2. CASE j # i
    <3>1. cell'[j] = cell[j] /\ Val(j)' = Val(j)
      BY <1>1, <1>2, <2>2 DEF Typed, Val
    <3>2. j \in Touched(req.start, cursor') \ own' <=> j \in Touched(req.start, cursor) \ own
      BY <1>1, <1>3, <2>2
    <3>3. IsWrite
      BY <1>1 DEF IsWrite
    <3> QED BY <3>1, <3>2, <3>3, <1>1, <1>2 DEF WrittenUpToCursor
  <2> QED BY <2>1, <2>2
<1>13. ReadUpToCursor'
  BY <1>1 DEF ReadUpToCursor
<1> QED BY <1>1, <1>9, <1>10, <1>11, <1>12, <1>13, NotAnsweredYet DEF IInv

(* Once there is an answer the loops' part of the invariant says nothing.  *)
LEMMA LoopsOver ==
  ASSUME phase' = "done"
  PROVE  IdleHasNoPDU' /\ Checked' /\ OnTheMap' /\ WrittenUpToCursor' /\ ReadUpToCursor'
BY DEF IdleHasNoPDU, Checked, OnTheMap, WrittenUpToCursor, ReadUpToCursor

(* What a write has changed when it stops at the cursor.                   *)
LEMMA WrittenSoFar ==
  ASSUME IInv, phase = "busy", IsWrite
  PROVE  /\ cursor \in req.start .. End
         /\ \A i \in Index :
              IF i \in Touched(req.start, cursor) \ own
              THEN Number(Table[i].type, Val(i)) = NumberAt(req.data, req.start, i)
              ELSE cell[i] = old[i]
<1>1. Checked /\ OnTheMap /\ Typed /\ WrittenUpToCursor
  BY DEF IInv
<1>2. cursor \in req.start .. End
  BY <1>1, InHand
<1> QED BY <1>1, <1>2 DEF WrittenUpToCursor

LEMMA StepWriteRefused ==
  ASSUME IInv, NEW i \in Index, WriteRefused(i)
  PROVE  IInv'
<1> DEFINE type == Table[i].type
           raw  == RawOf(i)
<1>1. /\ phase = "busy" /\ req.fc \in {"write1", "write"} /\ cursor < End /\ At = i
      /\ CheckRaw(Table[i], raw) # "OK" \/ Table[i].onWrite
      /\ phase' = "done" /\ answer' = Refuse(4, pcap, bcast)
      /\ cell' = cell /\ req' = req /\ bcast' = bcast /\ pcap' = pcap /\ cursor' = cursor
      /\ out' = out /\ old' = old /\ own' = own /\ held' = held
  BY DEF WriteRefused, Writing
<1>2. Checked /\ OnTheMap /\ Typed
  BY DEF IInv
<1>3. /\ i \in Mapped(WordMap) /\ Addr[i] = cursor /\ EntryWords(i) \in {1, 2}
      /\ cursor + EntryWords(i) <= End
  BY <1>1, <1>2, Round
<1>4. /\ req.start \in Nat /\ cursor \in Nat /\ req.start <= cursor /\ End = req.start + req.qty
      /\ req.data \in Seq(Word) /\ Len(req.data) = req.qty /\ req.qty \in Nat
      /\ RoomFor(req, pcap, bcast) /\ pcap \in Nat
  BY <1>1, <1>2, InHand
<1>5. raw \in Raw /\ Number(type, Canonical(type, raw)) = NumberAt(req.data, req.start, i)
  <2>1. cursor + EntryWords(i) <= req.start + Len(req.data) /\ req.start \in Int
    BY <1>3, <1>4
  <2> QED BY <2>1, <1>3, <1>4, WireIn DEF RawOf
<1> HIDE DEF raw
<1>6. \/ Table[i].onWrite \/ Table[i].perm = "RO"
      \/ NumberAt(req.data, req.start, i) \notin Numbers(type) \cap Interval(Table[i])
  <2> SUFFICES ASSUME CheckRaw(Table[i], raw) # "OK", Table[i].perm # "RO",
                      NumberAt(req.data, req.start, i) \in Numbers(type) \cap Interval(Table[i])
               PROVE  FALSE
    BY <1>1
  <2>1. Table[i] \in Entry /\ Sane(Table[i])
    BY TableFacts
  <2>2. Table[i].perm = "RW"
    BY <2>1 DEF Entry, Perms
  <2>3. Allowed(Table[i], Canonical(type, raw))
    BY <1>5, <2>2 DEF Allowed
  <2> QED BY <1>5, <2>1, <2>3, AllowedIsAccepted, EntryIsRow
<1>7. ~bcast => answer' = Exception(4)
  BY <1>1, <1>4 DEF RoomFor, Refuse
<1>8. answer' = Silent \/ answer' = Exception(4)
  BY <1>1 DEF Refuse
<1>9. Typed'
  BY <1>1, <1>2 DEF Typed
<1>10. NoUnheardWrite'
  BY <1>1, <1>7 DEF NoUnheardWrite, Silent, Exception
<1>11. WriteIsPrefix'
  <2>1. IsWrite
    BY <1>1 DEF IsWrite
  <2>2. answer' # Echo /\ (answer'.kind = "exception" => answer'.code = 4)
    BY <1>8 DEF Silent, Exception, Echo
  <2>3. /\ cursor \in req'.start .. End'
        /\ \A j \in Index :
             IF j \in Touched(req'.start, cursor) \ own'
             THEN Number(Table[j].type, Val(j)') = NumberAt(req'.data, req'.start, j)
             ELSE cell'[j] = old'[j]
    BY <1>1, <2>1, WrittenSoFar DEF End, Val
  <2> QED BY <1>3, <1>6, <1>1, <2>2, <2>3 DEF WriteIsPrefix
<1>12. NoHalfValue' /\ ReadIsHeld'
  BY <1>8 DEF NoHalfValue, ReadIsHeld, Silent, Exception
<1> QED BY <1>1, <1>9, <1>10, <1>11, <1>12, LoopsOver DEF IInv

LEMMA StepRespond ==
  ASSUME IInv, Respond
  PROVE  IInv'
<1>1. /\ phase = "busy" /\ cursor >= End /\ phase' = "done"
      /\ answer' = Normal(req, pcap, bcast, out)
      /\ cell' = cell /\ req' = req /\ bcast' = bcast /\ pcap' = pcap /\ cursor' = cursor
      /\ out' = out /\ old' = old /\ own' = own /\ held' = held
  BY DEF Respond
<1>2. Checked /\ OnTheMap /\ Typed /\ ReadUpToCursor
  BY DEF IInv
<1>3. /\ req.fc \in {"read", "write1", "write"} /\ cursor = End /\ End = req.start + req.qty
      /\ req.start \in Nat /\ req.qty \in Nat /\ RoomFor(req, pcap, bcast) /\ pcap \in Nat
  BY <1>1, <1>2, InHand
<1>4. Typed'
  BY <1>1, <1>2 DEF Typed
<1>5. answer' \in {Silent, Echo, Data(out)} /\ (req.fc # "read" => answer' # Data(out))
  BY <1>1 DEF Normal, Silent, Echo, Data
<1>6. NoUnheardWrite'
  <2>1. req.fc \in {"write1", "write"} /\ ~bcast => answer' = Echo
    BY <1>1, <1>3 DEF Normal, RoomFor
  <2> QED BY <1>1, <2>1 DEF NoUnheardWrite, IsWrite, Echo, Silent
<1>7. WriteIsPrefix'
  <2> SUFFICES ASSUME IsWrite' PROVE WriteIsPrefix'
    BY DEF WriteIsPrefix
  <2>1. IsWrite
    BY <1>1 DEF IsWrite
  <2>2. /\ cursor \in req'.start .. End' /\ cursor = End'
        /\ \A j \in Index :
             IF j \in Touched(req'.start, cursor) \ own'
             THEN Number(Table[j].type, Val(j)') = NumberAt(req'.data, req'.start, j)
             ELSE cell'[j] = old'[j]
    BY <1>1, <1>3, <2>1, WrittenSoFar DEF End, Val
  <2>3. answer'.kind # "exception"
    BY <1>5 DEF Silent, Echo, Data
  <2> QED BY <2>2, <2>3 DEF WriteIsPrefix
<1>8. NoHalfValue'
  BY <1>1, <1>2 DEF NoHalfValue, Checked
<1>9. ReadIsHeld'
  <2> SUFFICES ASSUME answer'.kind = "data" PROVE ReadIsHeld'
    BY DEF ReadIsHeld
  <2>1. answer' = Data(out) /\ req.fc = "read"
    BY <1>5, <1>3 DEF Silent, Echo, Data
  <2>2. answer'.words = out
    BY <2>1 DEF Data
  <2>3. /\ Len(out) = cursor - req.start
        /\ \A i \in Touched(req.start, cursor) :
             NumberAt(out, req.start, i) \in {Number(Table[i].type, raw) : raw \in held[i]}
    BY <1>1, <1>2, <2>1 DEF ReadUpToCursor
  <2>4. Len(out) = req.qty
    BY <1>3, <2>3
  <2>5. End' = cursor
    BY <1>1, <1>3 DEF End
  <2> QED BY <1>1, <2>2, <2>3, <2>4, <2>5 DEF ReadIsHeld
<1> QED BY <1>1, <1>4, <1>6, <1>7, <1>8, <1>9, LoopsOver DEF IInv

(* What a hook assigned counts as the application's, not as the request's. *)
LEMMA StepAppAssign ==
  ASSUME IInv, NEW i \in Index, AppAssign(i)
  PROVE  IInv'
<1>1. /\ phase = "busy"
      /\ phase' = phase /\ req' = req /\ bcast' = bcast /\ pcap' = pcap /\ cursor' = cursor
      /\ out' = out /\ answer' = answer /\ own' = own \cup {i}
  BY DEF AppAssign
<1>2. PICK c \in CellOf(Table[i].type) :
        /\ cell' = [cell EXCEPT ![i] = c]
        /\ old' = [old EXCEPT ![i] = c]
        /\ held' = [held EXCEPT ![i] = @ \cup {LoadRaw(Table[i].type, c)}]
  BY ModbusAssumption DEF AppAssign
<1>3. Checked /\ OnTheMap /\ Typed /\ WrittenUpToCursor /\ ReadUpToCursor
  BY DEF IInv
<1>4. Typed'
  <2>1. c \in Int /\ LoadRaw(Table[i].type, c) \in Raw
    BY TableFacts, CellFacts, LoadRawInRaw
  <2>2. LoadRaw(Table[i].type, c) \in Int
    BY <2>1, WidthAssumption DEF Raw
  <2> QED BY <1>1, <1>2, <1>3, <2>1, <2>2 DEF Typed
<1>5. Checked' /\ OnTheMap'
  BY <1>1, <1>3 DEF Checked, OnTheMap, End
<1>6. WrittenUpToCursor'
  <2> SUFFICES ASSUME IsWrite, NEW j \in Index
               PROVE  IF j \in Touched(req.start, cursor) \ own'
                      THEN Number(Table[j].type, Val(j)') = NumberAt(req.data, req.start, j)
                      ELSE cell'[j] = old'[j]
    BY <1>1 DEF WrittenUpToCursor, IsWrite
  <2>1. CASE j = i
    BY <2>1, <1>1, <1>2, <1>3 DEF Typed
  <2>2. CASE j # i
    <3>1. cell'[j] = cell[j] /\ old'[j] = old[j] /\ Val(j)' = Val(j)
      BY <2>2, <1>2, <1>3 DEF Typed, Val
    <3> QED BY <3>1, <2>2, <1>1, <1>3 DEF WrittenUpToCursor
  <2> QED BY <2>1, <2>2
<1>7. ReadUpToCursor'
  <2>1. ASSUME NEW j \in Index PROVE held[j] \subseteq held'[j]
    BY <1>2, <1>3 DEF Typed
  <2>2. \A j \in Touched(req.start, cursor) : j \in Index
    BY MappedFacts DEF Touched
  <2> QED BY <1>1, <1>3, <2>1, <2>2 DEF ReadUpToCursor
<1> QED BY <1>1, <1>4, <1>5, <1>6, <1>7, NotAnsweredYet DEF IInv

LEMMA StepDiscard ==
  ASSUME IInv, NEW f, NEW cap, Discard(f, cap)
  PROVE  IInv'
<1>1. /\ phase' = "done" /\ req' = NoPDU /\ cell' = cell /\ bcast' = bcast /\ pcap' = pcap
      /\ cursor' = cursor /\ out' = out /\ held' = held /\ old' = old /\ own' = own
  BY DEF Discard, IInv, IdleHasNoPDU
<1>2. Typed'
  BY <1>1 DEF IInv, Typed
<1>3. ~Answered'
  BY <1>1 DEF Answered
<1>4. NoUnheardWrite' /\ WriteIsPrefix' /\ NoHalfValue' /\ ReadIsHeld'
  BY <1>3 DEF NoUnheardWrite, WriteIsPrefix, NoHalfValue, ReadIsHeld
<1> QED BY <1>1, <1>2, <1>4, LoopsOver DEF IInv

(* Before a request there is nothing to say but what the variables hold.   *)
LEMMA IdleFacts ==
  ASSUME Typed, phase = "idle", req = NoPDU
  PROVE  IInv
BY DEF IInv, IdleHasNoPDU, Checked, OnTheMap, WrittenUpToCursor, ReadUpToCursor,
       NoUnheardWrite, WriteIsPrefix, NoHalfValue, ReadIsHeld, Answered

LEMMA StepNextFrame ==
  ASSUME IInv, NextFrame
  PROVE  IInv'
<1>1. phase' = "idle" /\ req' = NoPDU
  BY DEF NextFrame
<1>2. Typed'
  <2>1. <<>> \in Seq(Word)
    OBVIOUS
  <2> QED BY <2>1 DEF NextFrame, IInv, Typed
<1>3. IdleHasNoPDU' /\ Checked' /\ OnTheMap' /\ WrittenUpToCursor' /\ ReadUpToCursor'
  BY <1>1 DEF IdleHasNoPDU, Checked, OnTheMap, WrittenUpToCursor, ReadUpToCursor
<1>4. NoUnheardWrite' /\ WriteIsPrefix' /\ NoHalfValue' /\ ReadIsHeld'
  BY <1>1 DEF NoUnheardWrite, WriteIsPrefix, NoHalfValue, ReadIsHeld, Answered
<1> QED BY <1>2, <1>3, <1>4 DEF IInv

(***************************************************************************)
(* Each step of the slave keeps the invariant.                             *)
(***************************************************************************)
THEOREM Invariance == Spec => []IInv
<1>1. Init => IInv
  <2> SUFFICES ASSUME Init PROVE IInv
    OBVIOUS
  <2>1. Typed
    <3>1. <<>> \in Seq(Word)
      OBVIOUS
    <3> QED BY <3>1, ModbusAssumption DEF Init, Typed
  <2> QED BY <2>1, IdleFacts DEF Init
<1>2. IInv /\ [Next]_vars => IInv'
  <2> SUFFICES ASSUME IInv, [Next]_vars PROVE IInv'
    OBVIOUS
  <2>1. ASSUME NEW f \in Frames, NEW cap \in Caps, Discard(f, cap) PROVE IInv'
    BY <2>1, StepDiscard
  <2>2. ASSUME NEW f \in Frames, NEW cap \in Caps, NEW p \in PDUs, Handle(f, cap, p) PROVE IInv'
    BY <2>2, StepHandle
  <2>3. ASSUME NEW i \in Index, ReadEntry(i) PROVE IInv'
    BY <2>3, StepReadEntry
  <2>4. ASSUME NEW i \in Index, WriteEntry(i) PROVE IInv'
    BY <2>4, StepWriteEntry
  <2>5. ASSUME NEW i \in Index, WriteRefused(i) PROVE IInv'
    BY <2>5, StepWriteRefused
  <2>6. ASSUME NEW i \in Index, AppAssign(i) PROVE IInv'
    BY <2>6, StepAppAssign
  <2>7. ASSUME Respond PROVE IInv'
    BY <2>7, StepRespond
  <2>8. ASSUME NextFrame PROVE IInv'
    BY <2>8, StepNextFrame
  <2>9. CASE UNCHANGED vars
    BY <2>9 DEF vars, IInv, Typed, IdleHasNoPDU, Checked, OnTheMap, WrittenUpToCursor,
                ReadUpToCursor, NoUnheardWrite, WriteIsPrefix, NoHalfValue, ReadIsHeld,
                Answered, IsWrite, End, Val
  <2> QED BY <2>1, <2>2, <2>3, <2>4, <2>5, <2>6, <2>7, <2>8, <2>9 DEF Next
<1> QED BY <1>1, <1>2, PTL DEF Spec

(***************************************************************************)
(* A write the master cannot hear about does not happen, whatever buffer   *)
(* the platform code passes; only a broadcast is carried out in silence.   *)
(***************************************************************************)
THEOREM SilentWritesNothing == Spec => []NoUnheardWrite
BY Invariance, PTL DEF IInv

(***************************************************************************)
(* A write is carried out up to some word address and no further: what is  *)
(* before it has the numbers sent, what is after it is as it was, and the  *)
(* answer says where it stopped and why.                                   *)
(***************************************************************************)
THEOREM WriteStopsAtRefusal == Spec => []WriteIsPrefix
BY Invariance, PTL DEF IInv

(* No request that is answered covers half of a value, or a hole.          *)
THEOREM OnlyWholeValues == Spec => []NoHalfValue
BY Invariance, PTL DEF IInv

(* Every number of a read's answer is one that its register had meanwhile. *)
THEOREM AnswersAreHeld == Spec => []ReadIsHeld
BY Invariance, PTL DEF IInv
=============================================================================
