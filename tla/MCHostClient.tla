---------------------------- MODULE MCHostClient ----------------------------
(***************************************************************************)
(* HostClient with three registers: a number, a FLOAT that may be NaN      *)
(* (value 9), and a switch.  The second firmware has made the number a     *)
(* switch and starts with other values.                                    *)
(***************************************************************************)
EXTENDS HostClient

MCDomainOf == [f \in Firmware |-> [r \in Regs |->
                 IF r = "flag" \/ (f = "B" /\ r = "a") THEN {0, 1} ELSE {0, 2}]]
MCHeldBy   == [f \in Firmware |-> [r \in Regs |->
                 MCDomainOf[f][r] \cup (IF r = "b" THEN {9} ELSE {})]]
MCInitial  == [f \in Firmware |-> [r \in Regs |-> IF f = "B" /\ r = "flag" THEN 1 ELSE 0]]
=============================================================================
