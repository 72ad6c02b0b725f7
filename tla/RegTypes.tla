------------------------------ MODULE RegTypes ------------------------------
(***************************************************************************)
(* The value rules of regtable_core.c: what a raw command may be, how it   *)
(* is checked, stored and loaded.  "Raw" is the 32-bit convention of       *)
(* regtable_core.h: unsigned and BOOL zero-extended, signed sign-extended, *)
(* FLOAT the IEEE-754 bit pattern.                                         *)
(*                                                                         *)
(* The widths are parameters.  H8, H16 and H32 are HALF the size of the    *)
(* 8, 16 and 32 bit types (128, 32768 and 2^31 in the code), so that TLC   *)
(* can enumerate every raw value of a scaled-down machine while the        *)
(* theorems hold for the real one.  A FLOAT is a sign and a magnitude      *)
(* below H32; magnitudes order finite floats, INF is infinity's and every  *)
(* larger one is a NaN (16#7F800000 in the code).                          *)
(***************************************************************************)
EXTENDS Integers

CONSTANTS H8, H16, H32, INF

ASSUME WidthAssumption ==
  /\ H8 \in Nat /\ H16 \in Nat /\ H32 \in Nat /\ INF \in Nat
  /\ 1 <= H8 /\ H8 < H16 /\ H16 < H32
  /\ 1 <= INF /\ INF < H32

UnsignedTypes == {"U8", "U16", "U32"}
SignedTypes   == {"I8", "I16", "I32"}
Types         == UnsignedTypes \cup SignedTypes \cup {"FLOAT", "BOOL"}
Perms         == {"RO", "RW"}

Raw == 0 .. (2 * H32 - 1)

(***************************************************************************)
(* A table row, as far as values and hooks go.  Hooks are NULL or not.     *)
(***************************************************************************)
Entry == [type : Types, perm : Perms, min : Raw, max : Raw,
          onWrite : BOOLEAN, onRead : BOOLEAN, onChange : BOOLEAN]

Half(type) == CASE type \in {"U8", "I8", "BOOL"} -> H8
                [] type \in {"U16", "I16"}       -> H16
                [] OTHER                         -> H32

AsInt32(raw) == IF raw < H32 THEN raw ELSE raw - 2 * H32

(* The order of the floats a bit pattern stands for; -0 and +0 are equal. *)
FloatKey(raw)     == IF raw < H32 THEN raw ELSE H32 - raw
FloatMag(raw)     == IF raw < H32 THEN raw ELSE raw - H32
IsNaN(raw)        == FloatMag(raw) > INF
IsInf(raw)        == FloatMag(raw) = INF
FloatLess(a, b)   == ~IsNaN(a) /\ ~IsNaN(b) /\ FloatKey(a) < FloatKey(b)

(* A FLOAT bound is a number; the code trusts the table on this.           *)
Sane(e) == e.type = "FLOAT" => ~IsNaN(e.min) /\ ~IsNaN(e.max)

HasRange(e) == ~(e.min = 0 /\ e.max = 0)

(***************************************************************************)
(* What *ptr may hold: the values of the C variable an entry points at.    *)
(* A BOOL entry points at a whole byte, a FLOAT is kept as its bits.       *)
(***************************************************************************)
CellOf(type) == IF type \in SignedTypes THEN -Half(type) .. (Half(type) - 1)
                                        ELSE 0 .. (2 * Half(type) - 1)

(* (intN_t)v for a value outside the type: two's complement wrap. *)
WrapSigned(v, h) == ((v + h) % (2 * h)) - h

LoadRaw(type, cell) ==
  CASE type \in SignedTypes -> IF cell < 0 THEN cell + 2 * H32 ELSE cell
    [] type = "BOOL"        -> IF cell # 0 THEN 1 ELSE 0
    [] OTHER                -> cell

StoreRawNarrow(type, raw) ==              \* faulty: every signed type through int8_t
  IF type \in SignedTypes THEN WrapSigned(AsInt32(raw), H8)
                          ELSE raw % (2 * Half(type))

StoreRaw(type, raw) ==
  IF type \in SignedTypes THEN WrapSigned(AsInt32(raw), Half(type))
                          ELSE raw % (2 * Half(type))

(***************************************************************************)
(* reg_set_raw up to the hook: the permission, the type's domain, then the *)
(* entry's own range, each in the domain of the type.  The first refusal   *)
(* is the answer.                                                          *)
(***************************************************************************)
DomainResultFinite(type, raw) ==          \* faulty: isnan only, no isinf
  IF type = "FLOAT" /\ IsNaN(raw) THEN "TYPE" ELSE "OK"

DomainResult(type, raw) ==
  CASE type \in {"U8", "U16"} -> IF raw > 2 * Half(type) - 1 THEN "RANGE" ELSE "OK"
    [] type \in {"I8", "I16"} -> IF \/ AsInt32(raw) < -Half(type)
                                    \/ AsInt32(raw) > Half(type) - 1
                                 THEN "RANGE" ELSE "OK"
    [] type = "FLOAT"         -> IF IsNaN(raw) \/ IsInf(raw) THEN "TYPE" ELSE "OK"
    [] OTHER                  -> "OK"

(* `raw ? 1 : 0` for a BOOL; other types go on with the raw they were given. *)
Canonical(type, raw) == IF type = "BOOL" /\ raw # 0 THEN 1 ELSE raw

OutOfRangeUnsigned(e, raw) ==             \* faulty: a signed range compared raw
  /\ HasRange(e)
  /\ \/ e.type = "FLOAT" /\ (FloatLess(raw, e.min) \/ FloatLess(e.max, raw))
     \/ e.type \in UnsignedTypes \cup SignedTypes /\ (raw < e.min \/ raw > e.max)

OutOfRange(e, raw) ==
  /\ HasRange(e)
  /\ \/ e.type = "FLOAT" /\ (FloatLess(raw, e.min) \/ FloatLess(e.max, raw))
     \/ e.type \in SignedTypes /\ (\/ AsInt32(raw) < AsInt32(e.min)
                                   \/ AsInt32(raw) > AsInt32(e.max))
     \/ e.type \in UnsignedTypes /\ (raw < e.min \/ raw > e.max)

CheckRawAnyPerm(e, raw) ==                \* faulty: the permission is not asked
  IF DomainResult(e.type, raw) # "OK" THEN DomainResult(e.type, raw)
  ELSE IF OutOfRange(e, raw) THEN "RANGE" ELSE "OK"

CheckRaw(e, raw) ==
  IF e.perm = "RO" THEN "READONLY"
  ELSE IF DomainResult(e.type, raw) # "OK" THEN DomainResult(e.type, raw)
  ELSE IF OutOfRange(e, raw) THEN "RANGE"
  ELSE "OK"

(***************************************************************************)
(* The reference the checks are compared with, written from what a value   *)
(* MEANS and not from how it is tested: the number a raw stands for in a   *)
(* type, the numbers the type has, and the closed interval the table row   *)
(* asks for.                                                               *)
(***************************************************************************)
Number(type, raw) == CASE type \in SignedTypes -> AsInt32(raw)
                       [] type = "FLOAT"       -> FloatKey(raw)
                       [] OTHER                -> raw

Numbers(type) == CASE type \in SignedTypes -> -Half(type) .. (Half(type) - 1)
                   [] type = "FLOAT"       -> -(INF - 1) .. (INF - 1)
                   [] type = "BOOL"        -> {0, 1}
                   [] OTHER                -> 0 .. (2 * Half(type) - 1)

Interval(e) == IF HasRange(e) /\ e.type # "BOOL"
               THEN Number(e.type, e.min) .. Number(e.type, e.max)
               ELSE Numbers(e.type)

Allowed(e, raw) ==
  /\ e.perm = "RW"
  /\ Number(e.type, raw) \in Numbers(e.type) \cap Interval(e)
=============================================================================
