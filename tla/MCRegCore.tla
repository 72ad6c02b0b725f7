----------------------------- MODULE MCRegCore ------------------------------
(***************************************************************************)
(* RegCore on a machine of small words, for TLC: the 8, 16 and 32 bit      *)
(* types have 2, 4 and 8 values.                                           *)
(***************************************************************************)
EXTENDS RegCore, TLC

Row(type, perm, min, max, hooks) ==
  [type |-> type, perm |-> perm, min |-> min, max |-> max,
   onWrite |-> "w" \in hooks, onRead |-> "r" \in hooks, onChange |-> "c" \in hooks]

(* A guarded setpoint, a sensor the program updates, a switch.             *)
SafetyTable == 0 :> Row("I16", "RW", 7, 1, {"w", "c"})
            @@ 1 :> Row("U8", "RO", 0, 0, {"c"})
            @@ 2 :> Row("BOOL", "RW", 0, 1, {"r"})
=============================================================================
