---------------------------- MODULE Rules_proofs ----------------------------
(***************************************************************************)
(* The rules of the core and of the Modbus map, which the machines that    *)
(* use them cite: the checks of a value are what the value means, for      *)
(* every width, entry and raw word; regmb_init and span_covered do what    *)
(* the reference by sets of words says, for every table and every size of  *)
(* the address space.                                                      *)
(***************************************************************************)
EXTENDS RegTypes, ModbusMap, WellFoundedInduction, TLAPS

(* Every set of naturals that is not empty has a least element: the form   *)
(* of induction that needs no predicate as a parameter.                    *)
LEMMA LeastNatural ==
  ASSUME NEW T, T \subseteq Nat, T # {}
  PROVE  \E x \in T : \A y \in T : x <= y
<1> DEFINE R == OpToRel(<, Nat)
<1>1. IsWellFoundedOn(R, Nat)
  BY NatLessThanWellFounded
<1>2. \A x, y \in Nat : y < x => <<y, x>> \in R
  BY DEF OpToRel
<1>3. \E x \in T : \A y \in T : ~(<<y, x>> \in R)
  <2> HIDE DEF R
  <2> QED BY <1>1, WFMin
<1>4. PICK x \in T : \A y \in T : <<y, x>> \notin R
  BY <1>3
<1>5. ASSUME NEW y \in T PROVE x <= y
  <2>1. ~(y < x)
    BY <1>2, <1>4
  <2> QED BY <2>1
<1> QED BY <1>5

-----------------------------------------------------------------------------
(* What the checks look at of a table row, with hooks or without.          *)
IsRow(e) == e.type \in Types /\ e.perm \in Perms /\ e.min \in Raw /\ e.max \in Raw

LEMMA EntryIsRow == \A e \in Entry : IsRow(e)
BY DEF Entry, IsRow

(* Every type's half size is positive and at most that of 32 bits.         *)
LEMMA HalfBounds ==
  ASSUME NEW type \in Types
  PROVE  Half(type) \in Nat /\ 1 <= Half(type) /\ Half(type) <= H32
BY WidthAssumption DEF Half, Types, UnsignedTypes, SignedTypes

(* A value below the modulus is left alone by the C conversion.            *)
LEMMA ModOfSmall == \A m \in Nat : \A x \in 0 .. (m - 1) : x % m = x
OBVIOUS

(* x % m is a remainder.                                                   *)
LEMMA ModIsSmall == \A m \in Nat \ {0} : \A x \in Int : x % m \in 0 .. (m - 1)
OBVIOUS

(* Sign extension is the inverse of AsInt32.                               *)
LEMMA AsInt32Facts ==
  ASSUME NEW raw \in Raw
  PROVE  /\ AsInt32(raw) \in -H32 .. (H32 - 1)
         /\ (IF AsInt32(raw) < 0 THEN AsInt32(raw) + 2 * H32 ELSE AsInt32(raw)) = raw
BY WidthAssumption DEF Raw, AsInt32

(* store_raw leaves a value of the variable's own C type, whatever the raw. *)
LEMMA StoreRawInCell ==
  ASSUME NEW type \in Types, NEW raw \in Raw
  PROVE  StoreRaw(type, raw) \in CellOf(type)
<1> DEFINE h == Half(type)
<1>1. h \in Nat /\ 1 <= h
  BY HalfBounds
<1>2. 2 * h \in Nat \ {0}
  BY <1>1
<1>3. CASE type \in SignedTypes
  <2>1. AsInt32(raw) \in Int
    BY AsInt32Facts, WidthAssumption
  <2> DEFINE x == AsInt32(raw) + h
  <2>2. x % (2 * h) \in 0 .. (2 * h - 1)
    <3>1. x \in Int
      BY <2>1, <1>1
    <3> QED BY <3>1, <1>2, ModIsSmall
  <2>3. StoreRaw(type, raw) = (x % (2 * h)) - h
    BY <1>3 DEF StoreRaw, WrapSigned
  <2> HIDE DEF x, h
  <2>4. (x % (2 * h)) - h \in -h .. (h - 1)
    BY <2>2, <1>1
  <2> QED BY <2>3, <2>4, <1>3 DEF CellOf, h
<1>4. CASE type \notin SignedTypes
  <2>1. raw % (2 * h) \in 0 .. (2 * h - 1)
    <3>1. raw \in Int
      BY WidthAssumption DEF Raw
    <3> QED BY <3>1, <1>2, ModIsSmall
  <2> QED BY <2>1, <1>4 DEF StoreRaw, CellOf
<1> QED BY <1>3, <1>4

(* load_raw of such a variable is a raw value.                             *)
LEMMA LoadRawInRaw ==
  ASSUME NEW type \in Types, NEW c \in CellOf(type)
  PROVE  LoadRaw(type, c) \in Raw
<1>1. Half(type) \in Nat /\ 1 <= Half(type) /\ Half(type) <= H32
  BY HalfBounds
<1>2. CASE type \in SignedTypes
  <2>1. LoadRaw(type, c) = IF c < 0 THEN c + 2 * H32 ELSE c
    BY <1>2 DEF LoadRaw, SignedTypes
  <2>2. c \in -Half(type) .. (Half(type) - 1)
    BY <1>2 DEF CellOf
  <2> QED BY <2>1, <2>2, <1>1, WidthAssumption DEF Raw
<1>3. CASE type = "BOOL"
  <2>1. LoadRaw(type, c) \in {0, 1}
    BY <1>3 DEF LoadRaw, SignedTypes
  <2> QED BY <2>1, WidthAssumption DEF Raw
<1>4. CASE type \notin SignedTypes /\ type # "BOOL"
  <2>1. LoadRaw(type, c) = c
    BY <1>4 DEF LoadRaw
  <2>2. c \in 0 .. (2 * Half(type) - 1)
    BY <1>4 DEF CellOf
  <2> QED BY <2>1, <2>2, <1>1, WidthAssumption DEF Raw
<1> QED BY <1>2, <1>3, <1>4

(* What the checks accept is a raw value of the variable's type: it needs  *)
(* no conversion.                                                          *)
LEMMA AcceptedFits ==
  ASSUME NEW e, IsRow(e), NEW raw \in Raw, CheckRaw(e, raw) = "OK"
  PROVE  /\ Canonical(e.type, raw) \in Raw
         /\ e.type \in SignedTypes =>
              AsInt32(raw) \in -Half(e.type) .. (Half(e.type) - 1)
         /\ e.type \notin SignedTypes =>
              Canonical(e.type, raw) \in 0 .. (2 * Half(e.type) - 1)
<1>1. DomainResult(e.type, raw) = "OK" /\ e.perm # "RO"
  BY DEF CheckRaw
<1>2. e.type \in Types
  BY DEF IsRow
<1>3. Half(e.type) \in Nat /\ 1 <= Half(e.type)
  BY <1>2, HalfBounds
<1>4. AsInt32(raw) \in -H32 .. (H32 - 1) /\ raw \in Int /\ 0 <= raw /\ raw <= 2 * H32 - 1
  BY AsInt32Facts, WidthAssumption DEF Raw
<1>5. CASE e.type = "BOOL"
  <2>1. Canonical(e.type, raw) \in {0, 1}
    BY <1>5, <1>4 DEF Canonical
  <2> QED BY <2>1, <1>3, <1>5, WidthAssumption DEF Raw, SignedTypes
<1>6. CASE e.type \in {"U8", "U16"}
  BY <1>6, <1>1, <1>3, <1>4 DEF DomainResult, Canonical, SignedTypes
<1>7. CASE e.type \in {"I8", "I16"}
  BY <1>7, <1>1, <1>3, <1>4 DEF DomainResult, Canonical, SignedTypes
<1>8. CASE e.type \in {"U32", "I32", "FLOAT"}
  <2>1. Half(e.type) = H32
    BY <1>8 DEF Half
  <2> QED BY <2>1, <1>8, <1>4, WidthAssumption DEF Canonical, SignedTypes
<1> QED BY <1>2, <1>5, <1>6, <1>7, <1>8 DEF Types, UnsignedTypes, SignedTypes

(***************************************************************************)
(* What reg_set_raw stores is what reg_get_raw loads, bit for bit: the     *)
(* value an adapter wrote is the value every adapter reads back, in every  *)
(* type and at every width.                                                *)
(***************************************************************************)
THEOREM StoredIsLoadedBack ==
  ASSUME NEW e, IsRow(e), NEW raw \in Raw, CheckRaw(e, raw) = "OK"
  PROVE  LoadRaw(e.type, StoreRaw(e.type, Canonical(e.type, raw))) = Canonical(e.type, raw)
<1> DEFINE h == Half(e.type)
<1>1. e.type \in Types /\ h \in Nat /\ 1 <= h
  BY HalfBounds DEF IsRow
<1>2. CASE e.type \in SignedTypes
  <2>1. Canonical(e.type, raw) = raw
    BY <1>2 DEF Canonical, SignedTypes
  <2>2. AsInt32(raw) \in -h .. (h - 1)
    BY <1>2, AcceptedFits
  <2> DEFINE x == AsInt32(raw) + h
  <2>3. x \in 0 .. (2 * h - 1) /\ 2 * h \in Nat
    BY <2>2, <1>1
  <2>4. x % (2 * h) = x
    <3> HIDE DEF x, h
    <3> QED BY <2>3, ModOfSmall
  <2>5. StoreRaw(e.type, raw) = x - h
    BY <2>4, <1>2 DEF StoreRaw, WrapSigned
  <2>6. StoreRaw(e.type, raw) = AsInt32(raw)
    BY <2>5, <2>2, <1>1
  <2>7. LoadRaw(e.type, AsInt32(raw)) = raw
    BY <1>2, AsInt32Facts DEF LoadRaw, SignedTypes
  <2> QED BY <2>1, <2>6, <2>7
<1>3. CASE e.type \notin SignedTypes
  <2> DEFINE c == Canonical(e.type, raw)
  <2>1. c \in 0 .. (2 * h - 1) /\ 2 * h \in Nat
    BY <1>3, <1>1, AcceptedFits
  <2>2. c % (2 * h) = c
    <3> HIDE DEF c, h
    <3> QED BY <2>1, ModOfSmall
  <2>3. StoreRaw(e.type, c) = c
    BY <2>2, <1>3 DEF StoreRaw
  <2>4. e.type = "BOOL" => c \in {0, 1}
    BY WidthAssumption DEF Canonical, Raw
  <2>5. LoadRaw(e.type, c) = c
    BY <1>3, <2>4 DEF LoadRaw
  <2> QED BY <2>3, <2>5
<1> QED BY <1>2, <1>3

(* The order of floats is the order of their keys, and a number is within  *)
(* the finite ones exactly when it is neither NaN nor infinite.            *)
LEMMA FloatFacts ==
  ASSUME NEW raw \in Raw
  PROVE  /\ FloatKey(raw) \in Int
         /\ FloatKey(raw) \in -(INF - 1) .. (INF - 1) <=> ~IsNaN(raw) /\ ~IsInf(raw)
BY WidthAssumption DEF Raw, FloatKey, IsNaN, IsInf, FloatMag

(***************************************************************************)
(* The gate of reg_set_raw: whatever it accepts is, as a number, one of    *)
(* the entry's type and inside the entry's interval, and the entry is RW.  *)
(***************************************************************************)
THEOREM AcceptedIsAllowed ==
  ASSUME NEW e, IsRow(e), Sane(e), NEW raw \in Raw, CheckRaw(e, raw) = "OK"
  PROVE  Allowed(e, Canonical(e.type, raw))
<1>1. /\ e.perm = "RW" /\ DomainResult(e.type, raw) = "OK" /\ ~OutOfRange(e, raw)
      /\ e.type \in Types /\ e.min \in Raw /\ e.max \in Raw
  BY DEF CheckRaw, IsRow, Perms
<1>2. /\ raw \in Int /\ 0 <= raw /\ raw <= 2 * H32 - 1
      /\ Half(e.type) \in Nat /\ 1 <= Half(e.type)
  BY <1>1, HalfBounds, WidthAssumption DEF Raw
<1>3. CASE e.type = "BOOL"
  <2>1. Canonical(e.type, raw) \in {0, 1}
    BY <1>3, <1>2 DEF Canonical
  <2> QED BY <2>1, <1>1, <1>3 DEF Allowed, Number, Numbers, Interval, SignedTypes
<1>4. CASE e.type \in UnsignedTypes
  <2>1. Number(e.type, raw) = raw /\ Canonical(e.type, raw) = raw
    BY <1>4 DEF Number, Canonical, UnsignedTypes, SignedTypes
  <2>2. raw \in Numbers(e.type)
    <3>1. raw \in 0 .. (2 * Half(e.type) - 1)
      BY <1>4, <2>1, AcceptedFits DEF UnsignedTypes, SignedTypes
    <3> QED BY <3>1, <1>4 DEF Numbers, UnsignedTypes, SignedTypes
  <2>3. HasRange(e) => raw \in Number(e.type, e.min) .. Number(e.type, e.max)
    BY <1>1, <1>2, <1>4, WidthAssumption
       DEF OutOfRange, Number, Raw, UnsignedTypes, SignedTypes
  <2> QED BY <2>1, <2>2, <2>3, <1>1 DEF Allowed, Interval
<1>5. CASE e.type \in SignedTypes
  <2>1. Number(e.type, raw) = AsInt32(raw) /\ Canonical(e.type, raw) = raw
    BY <1>5 DEF Number, Canonical, SignedTypes
  <2>2. AsInt32(raw) \in Numbers(e.type)
    <3>1. AsInt32(raw) \in -Half(e.type) .. (Half(e.type) - 1)
      BY <1>5, AcceptedFits
    <3> QED BY <3>1, <1>5 DEF Numbers, SignedTypes
  <2>3. HasRange(e) => AsInt32(raw) \in AsInt32(e.min) .. AsInt32(e.max)
    <3>1. AsInt32(raw) \in Int /\ AsInt32(e.min) \in Int /\ AsInt32(e.max) \in Int
      BY <1>1, AsInt32Facts, WidthAssumption
    <3> QED BY <3>1, <1>1, <1>5 DEF OutOfRange
  <2>4. /\ Number(e.type, e.min) = AsInt32(e.min)
        /\ Number(e.type, e.max) = AsInt32(e.max)
    BY <1>5 DEF Number, SignedTypes
  <2> QED BY <2>1, <2>2, <2>3, <2>4, <1>1 DEF Allowed, Interval
<1>6. CASE e.type = "FLOAT"
  <2>1. Number(e.type, raw) = FloatKey(raw) /\ Canonical(e.type, raw) = raw
    BY <1>6 DEF Number, Canonical, SignedTypes
  <2>2. ~IsNaN(raw) /\ ~IsInf(raw)
    BY <1>1, <1>6 DEF DomainResult
  <2>3. FloatKey(raw) \in Numbers(e.type)
    BY <2>2, <1>6, FloatFacts DEF Numbers, SignedTypes
  <2>4. HasRange(e) => FloatKey(raw) \in FloatKey(e.min) .. FloatKey(e.max)
    <3>1. /\ FloatKey(raw) \in Int /\ FloatKey(e.min) \in Int /\ FloatKey(e.max) \in Int
      BY <1>1, FloatFacts
    <3>2. ~IsNaN(e.min) /\ ~IsNaN(e.max)
      BY <1>6 DEF Sane
    <3> QED BY <3>1, <3>2, <2>2, <1>1, <1>6 DEF OutOfRange, FloatLess
  <2>5. /\ Number(e.type, e.min) = FloatKey(e.min)
        /\ Number(e.type, e.max) = FloatKey(e.max)
    BY <1>6 DEF Number, SignedTypes
  <2> QED BY <2>1, <2>3, <2>4, <2>5, <1>1 DEF Allowed, Interval
<1> QED BY <1>1, <1>3, <1>4, <1>5, <1>6 DEF Types

(***************************************************************************)
(* And the other way round: a number of the type inside the interval of an *)
(* RW entry is never refused by the checks, negative ones included.        *)
(***************************************************************************)
THEOREM AllowedIsAccepted ==
  ASSUME NEW e, IsRow(e), Sane(e), NEW raw \in Raw, Allowed(e, Canonical(e.type, raw))
  PROVE  CheckRaw(e, raw) = "OK"
<1>1. /\ e.perm = "RW" /\ e.type \in Types /\ e.min \in Raw /\ e.max \in Raw
      /\ Number(e.type, Canonical(e.type, raw)) \in Numbers(e.type) \cap Interval(e)
  BY DEF Allowed, IsRow
<1>2. raw \in Int /\ 0 <= raw /\ Half(e.type) \in Nat /\ 1 <= Half(e.type)
  BY <1>1, HalfBounds, WidthAssumption DEF Raw
<1>3. ASSUME DomainResult(e.type, raw) = "OK", ~OutOfRange(e, raw) PROVE CheckRaw(e, raw) = "OK"
  BY <1>1, <1>3 DEF CheckRaw
<1>4. CASE e.type = "BOOL"
  BY <1>3, <1>4 DEF DomainResult, OutOfRange, UnsignedTypes, SignedTypes
<1>5. CASE e.type \in UnsignedTypes
  <2>1. \A r : Number(e.type, r) = r /\ Canonical(e.type, r) = r
    BY <1>5 DEF Number, Canonical, UnsignedTypes, SignedTypes
  <2>2. raw \in 0 .. (2 * Half(e.type) - 1) /\ (HasRange(e) => raw \in e.min .. e.max)
    <3>1. Numbers(e.type) = 0 .. (2 * Half(e.type) - 1) /\ e.type # "BOOL"
      BY <1>5 DEF Numbers, UnsignedTypes, SignedTypes
    <3>2. raw \in Numbers(e.type) \cap Interval(e)
      BY <1>1, <2>1
    <3> QED BY <3>1, <3>2, <2>1 DEF Interval
  <2>3. DomainResult(e.type, raw) = "OK"
    BY <2>2, <1>2, <1>5 DEF DomainResult, UnsignedTypes
  <2>4. ~OutOfRange(e, raw)
    BY <2>2, <1>1, <1>5, WidthAssumption DEF OutOfRange, Raw, UnsignedTypes, SignedTypes
  <2> QED BY <1>3, <2>3, <2>4
<1>6. CASE e.type \in SignedTypes
  <2>1. \A r : Number(e.type, r) = AsInt32(r) /\ Canonical(e.type, r) = r
    BY <1>6 DEF Number, Canonical, SignedTypes
  <2>2. /\ AsInt32(raw) \in -Half(e.type) .. (Half(e.type) - 1)
        /\ HasRange(e) => AsInt32(raw) \in AsInt32(e.min) .. AsInt32(e.max)
    <3>1. Numbers(e.type) = -Half(e.type) .. (Half(e.type) - 1) /\ e.type # "BOOL"
      BY <1>6 DEF Numbers, SignedTypes
    <3>2. AsInt32(raw) \in Numbers(e.type) \cap Interval(e)
      BY <1>1, <2>1
    <3> QED BY <3>1, <3>2, <2>1 DEF Interval
  <2>3. DomainResult(e.type, raw) = "OK"
    BY <2>2, <1>2, <1>6 DEF DomainResult, SignedTypes
  <2>4. ~OutOfRange(e, raw)
    <3>1. AsInt32(raw) \in Int /\ AsInt32(e.min) \in Int /\ AsInt32(e.max) \in Int
      BY <1>1, AsInt32Facts, WidthAssumption
    <3> QED BY <2>2, <3>1, <1>6 DEF OutOfRange, UnsignedTypes, SignedTypes
  <2> QED BY <1>3, <2>3, <2>4
<1>7. CASE e.type = "FLOAT"
  <2>1. \A r : Number(e.type, r) = FloatKey(r) /\ Canonical(e.type, r) = r
    BY <1>7 DEF Number, Canonical, SignedTypes
  <2>2. /\ FloatKey(raw) \in -(INF - 1) .. (INF - 1)
        /\ HasRange(e) => FloatKey(raw) \in FloatKey(e.min) .. FloatKey(e.max)
    BY <1>1, <1>7, <2>1 DEF Numbers, Interval, SignedTypes
  <2>3. DomainResult(e.type, raw) = "OK"
    BY <2>2, <1>7, FloatFacts DEF DomainResult
  <2>4. ~OutOfRange(e, raw)
    <3>1. FloatKey(raw) \in Int /\ FloatKey(e.min) \in Int /\ FloatKey(e.max) \in Int
      BY <1>1, FloatFacts
    <3> QED BY <2>2, <3>1, <1>7 DEF OutOfRange, FloatLess, UnsignedTypes, SignedTypes
  <2> QED BY <1>3, <2>3, <2>4
<1> QED BY <1>1, <1>4, <1>5, <1>6, <1>7 DEF Types

(* A type error is the answer to a float that is no finite number, and to  *)
(* nothing else.                                                           *)
LEMMA TypeErrorFacts ==
  ASSUME NEW e, IsRow(e), NEW raw \in Raw
  PROVE  CheckRaw(e, raw) = "TYPE" <=> e.perm = "RW" /\ e.type = "FLOAT" /\ FloatMag(raw) >= INF
BY WidthAssumption DEF CheckRaw, DomainResult, IsRow, Perms, Raw, FloatMag, IsNaN, IsInf

-----------------------------------------------------------------------------
(* What a table gives: spans of one or two words, 16-bit addresses.        *)
MapTyped(m) ==
  /\ m.top \in Nat \ {0} /\ DOMAIN m.addr \subseteq Nat
  /\ m.addr \in [DOMAIN m.addr -> 0 .. (m.top - 1)]
  /\ m.span \in [DOMAIN m.addr -> {1, 2}]

LEMMA EntryFacts ==
  ASSUME NEW m, MapTyped(m), NEW i \in Mapped(m)
  PROVE  /\ i \in Nat /\ i # Nobody /\ m.span[i] \in 1 .. 2 /\ m.addr[i] \in 1 .. (m.top - 1)
         /\ \A w : w \in WordsOf(m, i) <=> w \in Int /\ m.addr[i] <= w /\ w < m.addr[i] + m.span[i]
<1>1. i \in Nat /\ i # Nobody
  BY DEF Mapped, MapTyped, Nobody
<1>2. m.span[i] \in 1 .. 2 /\ m.addr[i] \in 1 .. (m.top - 1)
  BY DEF Mapped, MapTyped
<1> QED BY <1>1, <1>2, SMT DEF WordsOf, MapTyped

(***************************************************************************)
(* regmb_init accepts a table exactly when every word address has one      *)
(* owner at most and no value sticks out of the top of the address space.  *)
(***************************************************************************)
THEOREM AcceptedIsWellMapped ==
  ASSUME NEW m, MapTyped(m)
  PROVE  MapAccepted(m) <=> WellMapped(m)
<1>1. ASSUME MapAccepted(m) PROVE WellMapped(m)
  <2>1. ASSUME NEW i \in Mapped(m) PROVE WordsOf(m, i) \subseteq 1 .. (m.top - 1)
    BY <1>1, EntryFacts DEF MapAccepted, MapTyped
  <2>2. ASSUME NEW i \in Mapped(m), NEW j \in Mapped(m), i # j, NEW w \in WordsOf(m, i), w \in WordsOf(m, j)
        PROVE  FALSE
    <3>1. i \in Nat /\ j \in Nat
      BY EntryFacts
    <3>2. m.addr[i] < m.addr[j] + m.span[j] /\ m.addr[j] < m.addr[i] + m.span[i]
      BY <2>2, EntryFacts DEF MapTyped
    <3>3. j > i \/ i > j
      BY <3>1, <2>2
    <3> QED BY <1>1, <3>2, <3>3 DEF MapAccepted
  <2> QED BY <2>1, <2>2 DEF WellMapped
<1>2. ASSUME WellMapped(m) PROVE MapAccepted(m)
  <2>1. ASSUME NEW i \in Mapped(m) PROVE m.addr[i] + m.span[i] <= m.top
    <3>1. m.addr[i] + m.span[i] - 1 \in WordsOf(m, i)
      BY EntryFacts DEF MapTyped
    <3>2. m.addr[i] + m.span[i] - 1 \in 1 .. (m.top - 1)
      BY <1>2, <3>1 DEF WellMapped
    <3> QED BY <3>2, EntryFacts DEF MapTyped
  <2>2. ASSUME NEW i \in Mapped(m), NEW j \in Mapped(m), j > i,
               m.addr[i] < m.addr[j] + m.span[j], m.addr[j] < m.addr[i] + m.span[i]
        PROVE  FALSE
    <3>1. i # j /\ WordsOf(m, i) \cap WordsOf(m, j) = {}
      <4>1. i # j
        BY <2>2, EntryFacts
      <4> QED BY <4>1, <1>2 DEF WellMapped
    <3>2. m.addr[i] \in Int /\ m.addr[j] \in Int
      BY EntryFacts
    <3>3. m.addr[i] \in WordsOf(m, i) /\ m.addr[j] \in WordsOf(m, j)
      BY EntryFacts
    <3>4. CASE m.addr[i] <= m.addr[j]
      BY <3>1, <3>2, <3>3, <3>4, <2>2, EntryFacts
    <3>5. CASE m.addr[j] <= m.addr[i]
      BY <3>1, <3>2, <3>3, <3>5, <2>2, EntryFacts
    <3> QED BY <3>2, <3>4, <3>5
  <2> QED BY <2>1, <2>2 DEF MapAccepted
<1> QED BY <1>1, <1>2

-----------------------------------------------------------------------------
(* The scan finds the one entry that starts at an address, or nobody.      *)
LEMMA EntryAtFacts ==
  ASSUME NEW m, MapTyped(m), WellMapped(m), NEW a
  PROVE  /\ \A i \in Mapped(m) : m.addr[i] = a => EntryAt(m, a) = i
         /\ EntryAt(m, a) # Nobody => EntryAt(m, a) \in Mapped(m) /\ m.addr[EntryAt(m, a)] = a
<1> DEFINE there == {i \in Mapped(m) : m.addr[i] = a}
<1>1. ASSUME NEW i \in Mapped(m), m.addr[i] = a PROVE EntryAt(m, a) = i
  <2>1. ASSUME NEW j \in Mapped(m), m.addr[j] = a PROVE j = i
    <3>1. a \in WordsOf(m, i) /\ a \in WordsOf(m, j)
      BY <1>1, <2>1, EntryFacts
    <3> QED BY <3>1 DEF WellMapped
  <2>2. there = {i}
    BY <1>1, <2>1
  <2>3. i <= i
    BY EntryFacts
  <2>4. Min({i}) = i
    BY <2>3 DEF Min
  <2> QED BY <2>2, <2>4 DEF EntryAt
<1>2. ASSUME EntryAt(m, a) # Nobody PROVE EntryAt(m, a) \in Mapped(m) /\ m.addr[EntryAt(m, a)] = a
  <2>1. there # {}
    BY <1>2 DEF EntryAt
  <2>2. PICK i \in Mapped(m) : m.addr[i] = a
    BY <2>1
  <2> QED BY <2>2, <1>1
<1> QED BY <1>1, <1>2

(* No entry has word 0, none has a word from TOP on.                       *)
LEMMA WordFacts ==
  ASSUME NEW m, MapTyped(m), WellMapped(m), NEW i \in Mapped(m), NEW w \in WordsOf(m, i)
  PROVE  w \in 1 .. (m.top - 1)
BY DEF WellMapped

-----------------------------------------------------------------------------
(* The words from k up to end are made of whole entries, word by word; and *)
(* what is left of a span when the walk has come to k.                     *)
WholeTo(m, k, end) ==
  /\ \A w \in k .. (end - 1) : \E i \in Mapped(m) : w \in WordsOf(m, i)
  /\ \A i \in Mapped(m) : \A w \in k .. (end - 1) :
       w \in WordsOf(m, i) => \A v \in WordsOf(m, i) : v \in k .. (end - 1)

Rest(m, k, end) == IF k >= end THEN k = end ELSE WholeTo(m, k, end)

LEMMA WholeFacts ==
  ASSUME NEW m, MapTyped(m), NEW start \in Int, NEW qty \in Int
  PROVE  WholeEntries(m, start, qty) <=> WholeTo(m, start, start + qty)
BY DEF WholeEntries, WholeTo

(* A walk along whole entries: the first of them starts the span, and the  *)
(* others are the rest.                                                    *)
LEMMA RestStep ==
  ASSUME NEW m, MapTyped(m), WellMapped(m), NEW k \in Int, NEW end \in Int, k < end
  PROVE  Rest(m, k, end) <=> EntryAt(m, k) # Nobody /\ Rest(m, k + m.span[EntryAt(m, k)], end)
<1>1. ASSUME Rest(m, k, end)
      PROVE  EntryAt(m, k) # Nobody /\ Rest(m, k + m.span[EntryAt(m, k)], end)
  <2>1. WholeTo(m, k, end)
    BY <1>1 DEF Rest
  <2>2. PICK i \in Mapped(m) : k \in WordsOf(m, i)
    BY <2>1 DEF WholeTo
  <2>3. \A v \in WordsOf(m, i) : v \in k .. (end - 1)
    BY <2>1, <2>2 DEF WholeTo
  <2>4. m.addr[i] = k /\ k + m.span[i] <= end
    <3>1. m.addr[i] \in WordsOf(m, i) /\ m.addr[i] + m.span[i] - 1 \in WordsOf(m, i)
      BY EntryFacts
    <3> QED BY <2>2, <2>3, <3>1, EntryFacts
  <2>5. EntryAt(m, k) = i /\ i # Nobody
    BY <2>4, EntryAtFacts, EntryFacts
  <2>6. CASE k + m.span[i] = end
    BY <2>5, <2>6 DEF Rest
  <2>7. CASE k + m.span[i] < end
    <3> DEFINE next == k + m.span[i]
    <3>0. next \in Int /\ k < next
      BY EntryFacts
    <3>1. \A w \in next .. (end - 1) : \E j \in Mapped(m) : w \in WordsOf(m, j)
      BY <2>1, <3>0 DEF WholeTo
    <3>2. ASSUME NEW j \in Mapped(m), NEW w \in next .. (end - 1), w \in WordsOf(m, j),
                 NEW v \in WordsOf(m, j)
          PROVE  v \in next .. (end - 1)
      <4>1. v \in k .. (end - 1)
        BY <2>1, <3>0, <3>2 DEF WholeTo
      <4>2. j # i
        BY <2>4, <3>2, EntryFacts
      <4>3. v \notin WordsOf(m, i)
        BY <4>2, <3>2 DEF WellMapped
      <4> QED BY <4>1, <4>3, <2>4, EntryFacts
    <3>3. WholeTo(m, next, end)
      BY <3>1, <3>2, Zenon DEF WholeTo
    <3> QED BY <3>0, <3>3, <2>5, <2>7 DEF Rest
  <2> QED BY <2>4, <2>6, <2>7, EntryFacts
<1>2. ASSUME EntryAt(m, k) # Nobody, Rest(m, k + m.span[EntryAt(m, k)], end)
      PROVE  Rest(m, k, end)
  <2> DEFINE i == EntryAt(m, k)
             next == k + m.span[i]
  <2>1. i \in Mapped(m) /\ m.addr[i] = k
    BY <1>2, EntryAtFacts
  <2>2. next \in Int /\ k < next
    BY <2>1, EntryFacts
  <2>3. /\ \A w \in next .. (end - 1) : \E j \in Mapped(m) : w \in WordsOf(m, j)
        /\ \A j \in Mapped(m) : \A w \in next .. (end - 1) :
             w \in WordsOf(m, j) => \A v \in WordsOf(m, j) : v \in next .. (end - 1)
        /\ next <= end
    <3> HIDE DEF i, next
    <3>1. CASE next >= end
      BY <3>1, <1>2, <2>2 DEF Rest, i, next
    <3>2. CASE next < end
      <4>1. WholeTo(m, next, end)
        BY <3>2, <1>2, <2>2 DEF Rest, i, next
      <4> QED BY <4>1, <3>2, <2>2 DEF WholeTo
    <3> QED BY <3>1, <3>2, <2>2
  <2>4. \A w \in Int : w \in WordsOf(m, i) <=> k <= w /\ w < next
    BY <2>1, EntryFacts
  <2> HIDE DEF i, next
  <2>5. \A w \in k .. (end - 1) : \E j \in Mapped(m) : w \in WordsOf(m, j)
    <3> SUFFICES ASSUME NEW w \in k .. (end - 1) PROVE \E j \in Mapped(m) : w \in WordsOf(m, j)
      OBVIOUS
    <3>1. CASE w < next
      BY <3>1, <2>1, <2>4
    <3>2. CASE w >= next
      BY <3>2, <2>2, <2>3
    <3> QED BY <3>1, <3>2, <2>2
  <2>6. ASSUME NEW j \in Mapped(m), NEW w \in k .. (end - 1), w \in WordsOf(m, j), NEW v \in WordsOf(m, j)
        PROVE  v \in k .. (end - 1)
    <3>1. v \in Int
      BY EntryFacts
    <3>2. CASE j = i
      BY <3>1, <3>2, <2>2, <2>3, <2>4
    <3>3. CASE j # i
      <4>1. w \notin WordsOf(m, i)
        BY <3>3, <2>1, <2>6 DEF WellMapped
      <4>2. w \in next .. (end - 1)
        BY <4>1, <2>2, <2>4
      <4>3. v \in next .. (end - 1)
        BY <4>2, <2>3, <2>6
      <4> QED BY <4>3, <2>2
    <3> QED BY <3>2, <3>3
  <2> QED BY <2>5, <2>6 DEF Rest, WholeTo
<1> QED BY <1>1, <1>2

-----------------------------------------------------------------------------
(***************************************************************************)
(* The walk of span_covered, as TLA+ has it: any function that satisfies   *)
(* its equation.  The cursor runs past TOP and is cut to 16 bits for the   *)
(* search, so the equation speaks of twice the address space.              *)
(***************************************************************************)
Cursors(m) == 0 .. (m.top + m.top)

IsWalk(m, walk, end) ==
  walk = [a \in Cursors(m) |->
            IF a >= end THEN a = end
            ELSE LET i == EntryAt(m, a % m.top) IN i # Nobody /\ walk[a + m.span[i]]]

(* What the walk says at a cursor, beyond TOP once more from word 0.       *)
Answer(m, a, end) == IF a < m.top THEN Rest(m, a, end) ELSE Rest(m, a - m.top, end - m.top)

LEMMA CutCursor ==
  ASSUME NEW m, MapTyped(m), NEW a \in Cursors(m)
  PROVE  /\ a \in Int
         /\ a < m.top => a % m.top = a
         /\ m.top <= a /\ a < m.top + m.top => a % m.top = a - m.top
         /\ a = m.top + m.top => a % m.top = 0
BY DEF MapTyped, Cursors

(* TOP is where a walk ends or fails: nothing has word TOP or word 0.      *)
LEMMA RestAtTop ==
  ASSUME NEW m, MapTyped(m), WellMapped(m), NEW end \in Int
  PROVE  /\ Rest(m, m.top, end) <=> end = m.top
         /\ Rest(m, 0, end - m.top) <=> end = m.top
         /\ EntryAt(m, 0) = Nobody
<1>1. m.top \in Int
  BY DEF MapTyped
<1>2. \A i \in Mapped(m) : 0 \notin WordsOf(m, i) /\ m.top \notin WordsOf(m, i)
  BY WordFacts, <1>1
<1>3. end > m.top => ~WholeTo(m, m.top, end) /\ ~WholeTo(m, 0, end - m.top)
  BY <1>1, <1>2 DEF WholeTo
<1>4. EntryAt(m, 0) = Nobody
  BY EntryAtFacts, EntryFacts
<1> QED BY <1>1, <1>3, <1>4 DEF Rest

LEMMA AnswerSolves ==
  ASSUME NEW m, MapTyped(m), WellMapped(m), NEW end \in Int, NEW a \in Cursors(m), a < end
  PROVE  LET i == EntryAt(m, a % m.top) IN
         /\ Answer(m, a, end) <=> i # Nobody /\ Answer(m, a + m.span[i], end)
         /\ i # Nobody => a + m.span[i] \in Cursors(m) /\ a < a + m.span[i]
<1> DEFINE i == EntryAt(m, a % m.top)
<1> SUFFICES /\ Answer(m, a, end) <=> i # Nobody /\ Answer(m, a + m.span[i], end)
             /\ i # Nobody => a + m.span[i] \in Cursors(m) /\ a < a + m.span[i]
  OBVIOUS
<1>1. m.top \in Int /\ 0 < m.top /\ a \in Int /\ 0 <= a /\ a <= m.top + m.top
  BY DEF MapTyped, Cursors
<1>2. ASSUME i # Nobody
      PROVE  i \in Mapped(m) /\ m.span[i] \in 1 .. 2 /\ m.addr[i] = a % m.top /\ (a % m.top) + m.span[i] <= m.top
  <2>1. i \in Mapped(m) /\ m.addr[i] = a % m.top
    BY <1>2, EntryAtFacts
  <2>2. m.addr[i] + m.span[i] - 1 \in WordsOf(m, i)
    BY <2>1, EntryFacts
  <2>3. m.addr[i] + m.span[i] - 1 \in 1 .. (m.top - 1)
    BY <2>1, <2>2, WordFacts
  <2> QED BY <2>1, <2>3, <1>1, EntryFacts
<1>3. CASE a < m.top
  <2>1. a % m.top = a
    BY <1>3, CutCursor
  <2>2. Rest(m, a, end) <=> i # Nobody /\ Rest(m, a + m.span[i], end)
    BY <2>1, <1>1, RestStep
  <2>3. ASSUME i # Nobody PROVE Rest(m, a + m.span[i], end) <=> Answer(m, a + m.span[i], end)
    <3>1. m.span[i] \in 1 .. 2 /\ a + m.span[i] <= m.top
      BY <2>1, <2>3, <1>2
    <3>2. CASE a + m.span[i] = m.top
      BY <3>2, <1>1, RestAtTop DEF Answer
    <3>3. CASE a + m.span[i] < m.top
      BY <3>3 DEF Answer
    <3> QED BY <3>1, <3>2, <3>3, <1>1
  <2> HIDE DEF i
  <2> QED BY <2>1, <2>2, <2>3, <1>1, <1>2, <1>3 DEF Answer, Cursors
<1>4. CASE m.top <= a /\ a < m.top + m.top
  <2> DEFINE k == a - m.top
  <2>1. a % m.top = k /\ k \in Int /\ k < end - m.top
    BY <1>1, <1>4, CutCursor
  <2>2. Rest(m, k, end - m.top) <=> i # Nobody /\ Rest(m, k + m.span[i], end - m.top)
    BY <2>1, <1>1, RestStep
  <2>3. ASSUME i # Nobody PROVE /\ Answer(m, a + m.span[i], end) <=> Rest(m, k + m.span[i], end - m.top)
                                /\ m.span[i] \in 1 .. 2 /\ k + m.span[i] <= m.top
    <3>1. m.span[i] \in 1 .. 2 /\ k + m.span[i] <= m.top
      BY <2>1, <2>3, <1>2
    <3>2. ~(a + m.span[i] < m.top) /\ a + m.span[i] - m.top = k + m.span[i]
      BY <3>1, <1>1, <1>4
    <3>3. Answer(m, a + m.span[i], end) <=> Rest(m, a + m.span[i] - m.top, end - m.top)
      <4> HIDE DEF i
      <4> QED BY <3>1, <3>2, <1>1 DEF Answer
    <3> HIDE DEF i, k
    <3> QED BY <3>1, <3>2, <3>3
  <2> HIDE DEF i
  <2> QED BY <2>2, <2>3, <1>1, <1>4 DEF Answer, Cursors
<1>5. CASE a = m.top + m.top
  <2>1. i = Nobody
    BY <1>5, CutCursor, RestAtTop
  <2>2. ~Rest(m, m.top, end - m.top)
    BY <1>1, <1>5, RestAtTop
  <2> QED BY <2>1, <2>2, <1>1, <1>5 DEF Answer
<1> QED BY <1>1, <1>3, <1>4, <1>5

(* The answer is a walk: there is a function of that equation.             *)
LEMMA WalkExists ==
  ASSUME NEW m, MapTyped(m), WellMapped(m), NEW end \in Int
  PROVE  \E walk : IsWalk(m, walk, end)
<1> DEFINE f == [a \in Cursors(m) |-> IF Answer(m, a, end) THEN TRUE ELSE FALSE]
<1>0. \A a \in Cursors(m) : f[a] \in BOOLEAN /\ (f[a] <=> Answer(m, a, end))
  <2> HIDE DEF Answer
  <2> QED OBVIOUS
<1> HIDE DEF f
<1>1. ASSUME NEW a \in Cursors(m)
      PROVE  f[a] = IF a >= end THEN a = end
                    ELSE LET i == EntryAt(m, a % m.top) IN i # Nobody /\ f[a + m.span[i]]
  <2>0. a \in Int /\ end \in Int /\ m.top \in Int
    BY DEF Cursors, MapTyped
  <2>1. CASE a >= end
    <3>1. Answer(m, a, end) <=> a = end
      BY <2>0, <2>1, SMT DEF Answer, Rest
    <3>2. f[a] <=> a = end
      BY <1>0, <3>1
    <3>3. f[a] = (a = end)
      BY <1>0, <3>2
    <3> QED BY <2>1, <3>3
  <2>2. CASE ~(a >= end)
    <3> DEFINE i == EntryAt(m, a % m.top)
    <3>1. a < end
      BY <2>0, <2>2
    <3>2. /\ Answer(m, a, end) <=> i # Nobody /\ Answer(m, a + m.span[i], end)
          /\ i # Nobody => a + m.span[i] \in Cursors(m)
      BY <3>1, AnswerSolves
    <3>3. f[a] <=> i # Nobody /\ f[a + m.span[i]]
      <4> HIDE DEF i
      <4> QED BY <3>2, <1>0
    <3>4. f[a] = (i # Nobody /\ f[a + m.span[i]])
      BY <1>0, <3>3
    <3> QED BY <2>2, <3>4
  <2> QED BY <2>1, <2>2
<1>2. IsWalk(m, f, end)
  <2> HIDE DEF f
  <2>1. f = [a \in Cursors(m) |-> f[a]]
    BY DEF f
  <2> QED BY <1>1, <2>1, Zenon DEF IsWalk
<1> QED BY <1>2

(***************************************************************************)
(* And it is the only one: were another walk to differ, it would at a last *)
(* cursor, but there the equation looks further on, where they agree.      *)
(***************************************************************************)
LEMMA WalkIsAnswer ==
  ASSUME NEW m, MapTyped(m), WellMapped(m), NEW end \in Int, NEW walk, IsWalk(m, walk, end), NEW a \in Cursors(m)
  PROVE  walk[a] <=> Answer(m, a, end)
<1> DEFINE bad == {n \in Nat : \E b \in Cursors(m) : n = m.top + m.top - b /\ ~(walk[b] <=> Answer(m, b, end))}
<1>1. bad = {}
  <2> SUFFICES ASSUME bad # {} PROVE FALSE
    OBVIOUS
  <2>1. PICK n \in bad : \A k \in bad : n <= k
    BY LeastNatural
  <2>2. PICK b \in Cursors(m) : n = m.top + m.top - b /\ ~(walk[b] <=> Answer(m, b, end))
    BY <2>1
  <2>3. b \in Int /\ m.top \in Int
    BY DEF Cursors, MapTyped
  <2>4. walk[b] = IF b >= end THEN b = end
                  ELSE LET i == EntryAt(m, b % m.top) IN i # Nobody /\ walk[b + m.span[i]]
    BY DEF IsWalk
  <2>5. CASE b >= end
    <3>1. Answer(m, b, end) <=> b = end
      BY <2>3, <2>5, SMT DEF Answer, Rest
    <3> QED BY <2>2, <2>4, <2>5, <3>1
  <2>6. CASE b < end
    <3> DEFINE i == EntryAt(m, b % m.top)
    <3>1. /\ Answer(m, b, end) <=> i # Nobody /\ Answer(m, b + m.span[i], end)
          /\ i # Nobody => b + m.span[i] \in Cursors(m) /\ b < b + m.span[i]
      BY <2>6, AnswerSolves
    <3>2. walk[b] = (i # Nobody /\ walk[b + m.span[i]])
      <4>1. ~(b >= end)
        BY <2>3, <2>6
      <4> QED BY <2>4, <4>1
    <3>3. i # Nobody /\ ~(walk[b + m.span[i]] <=> Answer(m, b + m.span[i], end))
      BY <2>2, <3>1, <3>2
    <3> DEFINE c == b + m.span[i]
    <3>4. m.top + m.top - c \in bad /\ c \in Int /\ b < c
      <4>1. c \in Cursors(m) /\ b < c /\ ~(walk[c] <=> Answer(m, c, end))
        BY <3>1, <3>3
      <4>2. c \in Int /\ m.top + m.top - c \in Nat
        BY <4>1, <2>3 DEF Cursors
      <4> HIDE DEF c
      <4> QED BY <4>1, <4>2
    <3> HIDE DEF c, bad
    <3>5. n <= m.top + m.top - c
      BY <2>1, <3>4
    <3> QED BY <2>2, <2>3, <3>4, <3>5
  <2> QED BY <2>3, <2>5, <2>6
<1>2. m.top + m.top - a \in Nat
  BY DEF Cursors, MapTyped
<1> QED BY <1>1, <1>2

(***************************************************************************)
(* On an accepted map the walk of span_covered lets through exactly the    *)
(* spans made of whole entries, however long the request and however the   *)
(* map is laid out: no half of a value, no hole, nothing beyond the top of *)
(* the address space although the search cuts the cursor to 16 bits.       *)
(***************************************************************************)
THEOREM CoveredMeansWhole ==
  ASSUME NEW m, MapTyped(m), MapAccepted(m), NEW start \in 0 .. (m.top - 1), NEW qty \in Nat \ {0}
  PROVE  SpanCovered(m, start, qty) <=> WholeEntries(m, start, qty)
<1> DEFINE end  == start + qty
           walk == CHOOSE w : IsWalk(m, w, end)
<1>1. WellMapped(m)
  BY AcceptedIsWellMapped
<1>2. start \in Cursors(m) /\ start < m.top /\ start < end /\ end \in Int /\ start \in Int
  BY DEF Cursors, MapTyped
<1>3. IsWalk(m, walk, end)
  <2> HIDE DEF end
  <2> QED BY <1>1, <1>2, WalkExists
<1>4. SpanCovered(m, start, qty) = walk[start]
  BY DEF SpanCovered, IsWalk, Cursors
<1>5. walk[start] <=> Answer(m, start, end)
  <2> HIDE DEF end, walk
  <2> QED BY <1>1, <1>2, <1>3, WalkIsAnswer
<1>6. Answer(m, start, end) <=> WholeTo(m, start, start + qty)
  BY <1>2 DEF Answer, Rest
<1>7. WholeEntries(m, start, qty) <=> WholeTo(m, start, start + qty)
  BY <1>2, WholeFacts
<1> HIDE DEF walk, end
<1> QED BY <1>4, <1>5, <1>6, <1>7
=============================================================================
