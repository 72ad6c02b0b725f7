---------------------------- MODULE NucleoSerial ----------------------------
(***************************************************************************)
(* The CLI on the Nucleo example's USART: the loop feeds it the bytes it   *)
(* finds in the receive register.  A byte that arrives while the loop is   *)
(* busy elsewhere (a reply of the CLI is written out by polling) overruns  *)
(* the register and is lost; the loop then clears the ORE flag.            *)
(***************************************************************************)
EXTENDS RegCli

VARIABLE lostAt     \* the key of this line that was lost last, 0 if none

(* The byte is gone, the flag is cleared, and the session is as it was.    *)
LoseByte(c) ==
  /\ keys < MaxKeys /\ keys' = keys + 1
  /\ lostAt' = keys'
  /\ typed' = Append(typed, c)
  /\ UNCHANGED <<setup, buf, overflow, held, reply>>

Receive == CliNext /\ lostAt' = IF keys' = 0 THEN 0 ELSE lostAt

BoardSpec == /\ CliInit /\ lostAt = 0
             /\ [][Receive \/ \E c \in Letters : LoseByte(c)]_<<cliVars, lostAt>>

(***************************************************************************)
(* "a byte lost: start the line over" (examples/nucleo_l073/main.c): when  *)
(* the line ends, what is run came after the byte that was lost.           *)
(***************************************************************************)
LossStartsOver ==
  [][FeedEnd => Len(buf) <= keys - lostAt]_<<cliVars, lostAt>>
=============================================================================
