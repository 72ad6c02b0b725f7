------------------------------ MODULE MCRegCli ------------------------------
(***************************************************************************)
(* Buffers, alphabets and users for the CLI.                               *)
(***************************************************************************)
EXTENDS RegCli

Setup(size, args, letters, erases, max) ==
  [size |-> size, args |-> args, letters |-> letters, erases |-> erases, keys |-> max]

(* Somebody edits "set r 1", which just fits; a program sends whole lines, *)
(* with more words than the CLI takes.                                     *)
Editing  == Setup(6, 4, {"set", "r", "1", " "}, TRUE, 8)
Wording  == Setup(10, 2, {"list", "help", "r", " ", "--json", "NUL"}, FALSE, 7)
MCSetups == {Editing, Wording}
=============================================================================
