------------------------------- MODULE RegCli -------------------------------
(***************************************************************************)
(* One session of the serial CLI (regtable_cli.c): the line editor with    *)
(* its fixed buffer, the tokeniser and the commands, and a register `held` *)
(* that the line "set r <value>" writes.  The echo is left out.            *)
(*                                                                         *)
(* A byte is a letter of a small alphabet in which the words that matter   *)
(* are one letter long: the keywords, the flag "--json", the register's    *)
(* name "r" and the digits.  " " separates words and "NUL" is the byte 0.  *)
(*                                                                         *)
(* Beside the buffer stands what the person or the host program MEANT:     *)
(* `typed`, an editor without a limit fed the same keys.                   *)
(***************************************************************************)
EXTENDS Naturals, Sequences, SequencesExt

CONSTANT
  Setups      \* builds of the CLI and who uses them, one of which is at hand:
              \*   size     REGTABLE_CLI_BUF_SIZE
              \*   args     REGTABLE_CLI_MAX_ARGS
              \*   letters  the ordinary bytes that are sent
              \*   erases   is backspace (0x08 or 0x7F) used
              \*   keys     bound: keys of one line, erased ones included

ASSUME SetupAssumption ==
  \A s \in Setups : s.size \in Nat \ {0} /\ s.args \in Nat \ {0}
                      /\ s.erases \in BOOLEAN /\ s.keys \in Nat

VARIABLES
  setup,
  buf,        \* buf[0 .. pos-1]
  overflow,   \* cli->overflow
  held,       \* the register's value, as the word that set it
  reply,      \* the answer the last byte got: its format, and what it is about
  \* history, not in the code:
  keys,       \* keys since the line began
  typed       \* the line as meant

cliVars == <<setup, buf, overflow, held, reply, keys, typed>>

Size      == setup.size
MaxArgs   == setup.args
Letters   == setup.letters
MaxKeys   == setup.keys

Digits == {"1", "2"}
NoReply == [as |-> "text", about |-> "nothing"]

-----------------------------------------------------------------------------
(* cli_split goes through the line byte by byte, up to the NUL that ends   *)
(* it as a C string: `word` is the one it is in, "--json" sets the flag    *)
(* wherever it sits, and an argument too many does not stop the scan.      *)
NewScan == [argv |-> <<>>, json |-> FALSE, tooMany |-> FALSE,
            word |-> <<>>, over |-> FALSE]

EndWordStops(s) ==           \* faulty: the scan stops at the first argument too many
  IF s.word = <<>> THEN s
  ELSE IF s.word = <<"--json">> THEN [s EXCEPT !.json = TRUE, !.word = <<>>]
  ELSE IF Len(s.argv) = MaxArgs THEN [s EXCEPT !.tooMany = TRUE, !.over = TRUE, !.word = <<>>]
  ELSE [s EXCEPT !.argv = Append(s.argv, s.word), !.word = <<>>]

EndWord(s) ==
  IF s.word = <<>> THEN s
  ELSE IF s.word = <<"--json">> THEN [s EXCEPT !.json = TRUE, !.word = <<>>]
  ELSE IF Len(s.argv) = MaxArgs THEN [s EXCEPT !.tooMany = TRUE, !.word = <<>>]
  ELSE [s EXCEPT !.argv = Append(s.argv, s.word), !.word = <<>>]

ScanByte(s, c) ==
  IF s.over         THEN s
  ELSE IF c = " "   THEN EndWord(s)
  ELSE IF c = "NUL" THEN [EndWord(s) EXCEPT !.over = TRUE]
  ELSE [s EXCEPT !.word = Append(s.word, c)]

Split(line) ==
  LET scan[n \in 0 .. Len(line)] ==
        IF n = 0 THEN NewScan ELSE ScanByte(scan[n - 1], line[n])
  IN EndWord(scan[Len(line)])

Args(line) == Split(line).argv
Json(line) == Split(line).json
TooMany(line) == Split(line).tooMany

(* cmds[]: the exact count of words each command takes, itself included.   *)
Arity == [list |-> 1, get |-> 2, set |-> 3, info |-> 2,
          id |-> 1, fetch |-> 1, help |-> 1]
IsCommand(word, name) == word = <<name>>

IsNumber(word) == word \in Seq(Digits)

(* Which of cli_process's branches a line takes. *)
SetsRegister(args) ==
  /\ Len(args) = 3 /\ IsCommand(args[1], "set")
  /\ args[2] = <<"r">> /\ IsNumber(args[3])

Answered(args) ==
  \/ \E name \in {"list", "id", "fetch"} : Len(args) = 1 /\ IsCommand(args[1], name)
  \/ /\ Len(args) = 2 /\ \E name \in {"get", "info"} : IsCommand(args[1], name)
     /\ args[2] = <<"r">>

Helped(args) == Len(args) = Arity["help"] /\ IsCommand(args[1], "help")

-----------------------------------------------------------------------------
CliInit ==
  /\ setup \in Setups
  /\ buf = <<>> /\ overflow = FALSE
  /\ held = <<>> /\ reply = NoReply
  /\ keys = 0 /\ typed = <<>>

FeedLetterOneMore(c) ==      \* faulty: no room is left for the terminator
  /\ keys < MaxKeys /\ keys' = keys + 1
  /\ IF Len(buf) < Size
     THEN buf' = Append(buf, c) /\ overflow' = overflow
     ELSE overflow' = TRUE /\ buf' = buf
  /\ typed' = Append(typed, c)
  /\ reply' = NoReply
  /\ UNCHANGED held

(* regcli_feed of an ordinary byte: keep it, or mark the line as cut.      *)
FeedLetter(c) ==
  /\ keys < MaxKeys /\ keys' = keys + 1
  /\ IF Len(buf) < Size - 1
     THEN buf' = Append(buf, c) /\ overflow' = overflow
     ELSE overflow' = TRUE /\ buf' = buf
  /\ typed' = Append(typed, c)
  /\ reply' = NoReply
  /\ UNCHANGED held

FeedEraseForgives ==         \* faulty: a byte has gone, so the line fits again
  /\ setup.erases
  /\ keys < MaxKeys /\ keys' = keys + 1
  /\ buf # <<>> /\ buf' = Front(buf)
  /\ overflow' = FALSE
  /\ typed' = IF typed = <<>> THEN <<>> ELSE Front(typed)
  /\ reply' = NoReply
  /\ UNCHANGED held

(* ... of a backspace: the last byte kept goes, and a cut line stays cut.  *)
FeedErase ==
  /\ setup.erases
  /\ keys < MaxKeys /\ keys' = keys + 1
  /\ buf' = IF buf = <<>> THEN <<>> ELSE Front(buf)
  /\ typed' = IF typed = <<>> THEN <<>> ELSE Front(typed)
  /\ reply' = NoReply
  /\ UNCHANGED <<overflow, held>>

-----------------------------------------------------------------------------
(* ... of '\r' or '\n'.  The line is over whatever becomes of it.          *)
EndOfLine == /\ buf' = <<>> /\ overflow' = FALSE
             /\ keys' = 0 /\ typed' = <<>>

ReplyIs(about, json) ==
  reply' = [as |-> IF json THEN "json" ELSE "text", about |-> about]

(* Nothing in the line: the second half of a "\r\n", blanks, a lone flag.  *)
EndEmpty ==
  /\ ~overflow /\ Args(buf) = <<>>
  /\ reply' = NoReply
  /\ EndOfLine /\ UNCHANGED held

EndTooLong ==
  /\ overflow
  /\ ReplyIs("too long", FALSE)
  /\ EndOfLine /\ UNCHANGED held

EndSetCut ==                 \* faulty: what there is of the line is run
  /\ ~TooMany(buf)
  /\ SetsRegister(Args(buf))
  /\ held' = Args(buf)[3]
  /\ ReplyIs("result", Json(buf))
  /\ EndOfLine

EndSet ==
  /\ ~overflow /\ ~TooMany(buf)
  /\ SetsRegister(Args(buf))
  /\ held' = Args(buf)[3]
  /\ ReplyIs("result", Json(buf))
  /\ EndOfLine

EndAnswer ==
  /\ ~overflow /\ ~TooMany(buf)
  /\ Answered(Args(buf))
  /\ ReplyIs("result", Json(buf))
  /\ EndOfLine /\ UNCHANGED held

EndHelp ==
  /\ ~overflow /\ ~TooMany(buf)
  /\ Helped(Args(buf))
  /\ ReplyIs("help", FALSE)
  /\ EndOfLine /\ UNCHANGED held

(* Too many words, a wrong count, no such command, register or number.     *)
EndRefused ==
  /\ ~overflow /\ Args(buf) # <<>>
  /\ \/ TooMany(buf)
     \/ /\ ~SetsRegister(Args(buf)) /\ ~Answered(Args(buf)) /\ ~Helped(Args(buf))
  /\ ReplyIs("error", Json(buf))
  /\ EndOfLine /\ UNCHANGED held

FeedEnd == EndEmpty \/ EndTooLong \/ EndSet \/ EndAnswer \/ EndHelp \/ EndRefused

Feed == \/ \E c \in Letters : FeedLetter(c)
        \/ FeedErase
        \/ FeedEnd

CliNext == Feed /\ UNCHANGED setup

CliSpec == CliInit /\ [][CliNext]_cliVars

-----------------------------------------------------------------------------
(* The buffer always has room for its terminator, and the register holds a *)
(* number.                                                                 *)
TypeOK ==
  /\ setup \in Setups
  /\ buf \in Seq(Letters) /\ Len(buf) < Size
  /\ overflow \in BOOLEAN
  /\ held \in Seq(Digits)
  /\ reply \in [as : {"text", "json"},
                about : {"nothing", "result", "help", "error", "too long"}]
  /\ keys \in 0 .. MaxKeys /\ typed \in Seq(Letters) /\ Len(typed) <= keys

(***************************************************************************)
(* regcli_feed: "the line was cut; running the remainder could write a     *)
(* different, valid-looking value. Drop it whole."  Whatever is typed and  *)
(* erased, before and after the buffer was full, a line that is going to   *)
(* be run is the line that was meant.                                      *)
(***************************************************************************)
RunsWhatWasMeant == ~overflow => buf = typed

(***************************************************************************)
(* A register changes only at the end of a line that, read whole, is the   *)
(* command to set it to just that value, with no argument too many.        *)
(***************************************************************************)
WritesOnlyWhatWasMeant ==
  [][held' # held => /\ ~TooMany(typed) /\ SetsRegister(Args(typed))
                     /\ held' = Args(typed)[3]]_cliVars

(* A line asks for JSON when the flag stands in it as a word of its own:   *)
(* between blanks or the ends of the string, wherever it is.               *)
AsksForJson(line) ==
  \E k \in DOMAIN line :
    /\ line[k] = "--json"
    /\ \A j \in 1 .. k : line[j] # "NUL"
    /\ k > 1 => line[k - 1] = " "
    /\ k < Len(line) => line[k + 1] \in {" ", "NUL"}

(***************************************************************************)
(* cli_split: "keep scanning for --json".  A result or an error of a line  *)
(* that was taken in comes in the format the line asked for, the flag      *)
(* being honoured wherever it sits, after the arguments that were too many *)
(* as well, and nothing but the flag asks for it.  A line that was cut is  *)
(* never split: regcli_feed refuses it in text, whatever it asked for,     *)
(* where README.md lets "errors come back as {"error":"..."}".             *)
(***************************************************************************)
AnswersAsAsked ==
  [][reply'.about \in {"result", "error"} =>
       (reply'.as = "json" <=> AsksForJson(typed))]_cliVars
=============================================================================
