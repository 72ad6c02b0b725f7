--------------------------- MODULE MCNucleoSerial ---------------------------
(***************************************************************************)
(* A board with room for any line that is sent.                            *)
(***************************************************************************)
EXTENDS NucleoSerial

BoardSetups == {[size |-> 10, args |-> 4, letters |-> {"set", "r", "1", " "},
                 erases |-> FALSE, keys |-> 7]}
=============================================================================
