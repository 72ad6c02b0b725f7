----------------------------- MODULE MCRegMqtt -----------------------------
(***************************************************************************)
(* RegMqtt with three firmwares: one has dropped a register of the first   *)
(* and gives the other another type, one has renamed what was left.        *)
(***************************************************************************)
EXTENDS RegMqtt

Shape(name, rest) == [name |-> name, rest |-> rest]

Tables == [first   |-> <<Shape(0, "U8"), Shape(1, "U8")>>,
           dropped |-> <<Shape(0, "FLOAT")>>,
           renamed |-> <<Shape(2, "FLOAT")>>]

MCFirmware == DOMAIN Tables
MCCountOf  == [f \in MCFirmware |-> Len(Tables[f])]
MCShapeOf  == [f \in MCFirmware |-> [i \in 0 .. (Len(Tables[f]) - 1) |-> Tables[f][i + 1]]]
=============================================================================
