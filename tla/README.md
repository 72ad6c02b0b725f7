# A verification development for regtable

regtable exposes a table of named C variables over a serial CLI, Modbus and
MQTT. This directory holds TLA+ models of that code, the TLC configurations that
check them and proofs for TLAPS. Paths below are relative to the repository;
`core.c` is `src/regtable_core.c`, and so on.

## 1. Inventory

| component | state | operations | talks to | what is hard | what makes it correct |
| --- | --- | --- | --- | --- | --- |
| **core** `core.c/.h` | the variables behind the entries, the dirty bitmap `t->dirty` | `reg_table_init`, `reg_set_raw`, `reg_get_raw`, `reg_mark_dirty`, `reg_poll` | hooks of the application, called synchronously (`on_write`, `on_read`) or from `reg_poll` (`on_change`) | hooks call back into the table while a pass runs; one raw word stands for eight types; interrupts | only allowed values enter; no change goes unreported; a pass ends |
| **text values** `core.c:262-413` | none | `reg_raw_str`, `reg_set_str` | CLI, MQTT | signs and prefixes that `strtoul` would take, the most negative number | a text is taken for the number it is, or refused; what is shown can be typed |
| **CLI** `cli.c/.h` | `buf`, `pos`, `overflow` | `regcli_feed`: echo, erase, end of line; tokenise, dispatch, answer | core, terminal or host program | a fixed buffer, erasing after overflow, a flag that may be anywhere | what runs is what was meant; the answer has the form asked for |
| **Modbus** `modbus.c/.h` | none between frames | `regmb_init`, `regmb_process`, `regmb_process_tcp`; FC 03, 04, 06, 10 | core, a master | values of two words, partial writes, room for the answer, 0xFFFF, broadcast | nothing half read or half written; nothing written that cannot be answered |
| **MQTT state** `mqtt.c` | `shadow`, `synced` | `regmqtt_poll`, `regmqtt_publish_all`, `regmqtt_handle` | core, a client, a broker | refused and lost messages, values that change while being sent | the broker ends up with every value |
| **MQTT metadata** `mqtt.c` | identity | `regmqtt_init`, `regmqtt_announce` | the same | buffer sizes, half an announcement, old retained metas | what init accepts, announce can send; a host never takes a mixture of two tables for one |
| **sketches** `examples/arduino*`, `nucleo_l073/main.c` | frame and line collection | a main loop | adapters | reconnects, T3.5 gaps, receive overruns | order of calls |
| **Python client** `client.py` | connection, dead or not | commands with a timeout; verify, discover, identity | CLI over a serial port | late answers without request ids, a device that is flashed, Ctrl-C | an answer belongs to its call, the client's table to the device |
| **browser panel** `regtable_panel.html` | command queue, connection state and generation, read buffer | connect, disconnect, teardown, read loop, auto-poll, list, set, console | CLI | promises, teardown while commands wait, cables, late replies | the same; the status is true; every attempt ends and touches only its own port |
| **Stream Deck panel** | display, one lock | HID callbacks, poll loop | client | callbacks against the loop | one owner of the wire |
| **generator** `gen.py`, `svd.py` | none | YAML or SVD to C, docs and Python | build | its rules must match what the adapters accept at start | what is generated starts |

All adapters reach the variables only through `reg_set_raw`, `reg_get_raw` and
their text forms; they share the table, and changes that one makes are seen by
the others through the values (MQTT compares with its shadow) and by the
application through `on_change`. The library takes no locks. Everything runs in
one loop, unless the application uses interrupts as README, Concurrency, allows.

The hazards of each part, with the line where each bites and the properties that
cover it, are the `hazards` of `PROJECT.json`.

## 2. Modules

| module | models | composed of |
| --- | --- | --- |
| `RegTypes` | the value rules: `load_raw`, `store_raw`, the checks of `reg_set_raw`, and what the bounds *mean* | |
| `RegText` | the string layer: the parsers and `reg_raw_str`, and what a text *means* by the grammar that the comments state | RegTypes |
| `ModbusMap` | address map: `entry_at`, `span_covered`, `regmb_init`'s rules, as operators on a record of addresses, lengths and the top | |
| `MqttMeta` | prefix, name and size rules of `regmqtt_init`, topics, `regmqtt_handle`'s matching, the appender and `meta_body` | |
| `GenRules` | `validate`, the table row of `emit_c`, and the client's `check_value`; the length of a name is a parameter | RegTypes |
| `MCTables` | every entry with every value and text, every address map, set of topics and description of a small machine | RegText, ModbusMap, MqttMeta, GenRules |
| `ChangeFeed` | abstract: items, listeners, calls that are owed | |
| `RegCore` | the core under one main loop, hooks as sequences of steps | RegTypes; implements ChangeFeed |
| `RegRace` | the same statements, one memory access per step, and an interrupt | implements ChangeFeed |
| `RegModbus` | `regmb_process`, `regmb_process_tcp` and the handlers | RegTypes, ModbusMap |
| `RegMqtt` | state topics, announcements, the Arduino sketch's loop, restarts with other firmware, a connection, a broker and a host that reads the metas | |
| `RegCli` | line editor, tokeniser, dispatch | |
| `MCRegCli`, `MCNucleoSerial` | buffer sizes, alphabets and users | RegCli, NucleoSerial |
| `NucleoSerial` | the board's receive loop in front of the CLI | RegCli |
| `HostClient` | the Python client, the wire and a device that answers in its own time and may be flashed | |
| `Panel` | the browser panel's coroutines, its port, and a device that answers, is slow or goes | |
| `Rules_proofs`, `RegCore_proofs`, `RegRace_proofs`, `RegModbus_proofs`, `RegMqtt_proofs`, `SerialLine_proofs`, `Panel_proofs`, `MCTables_proofs` | theorems about the module of that name; `Rules_proofs` about `RegTypes` and `ModbusMap`, `SerialLine_proofs` about `HostClient` and `RegCli` (section 4) | that module; `RegCore_proofs`, `RegModbus_proofs` and `MCTables_proofs` use `Rules_proofs` |

`MC*` modules give constants their values. Operators marked `faulty:` are
variants of the definition after them with a plausible mistake; they take no part
in a specification and exist to show that the properties notice.

### How state and actions correspond to the code

**Values.** A raw word has 2^32 values in the code and `2*H32` in `RegTypes`,
where `H8 <= H16 <= H32` are half the number of values of the three widths. Signed
types are two's complement; a FLOAT is sign and magnitude, with `INF` the first
magnitude that is not a number's, which keeps the order and the place of NaN
and the infinities and drops the fractions. `CheckRaw` makes the comparisons the
C code makes on words; `Allowed` says what they should amount to, on numbers.

**Core.** `reg_set_raw` is one action when nothing runs inside it (`SetRefused`,
`SetDirect`) and two with an `on_write` hook between (`SetBegin`, then `SetVetoed`
or `SetEnd`). `reg_poll` is a cursor `pos`: `PollSkip`, `PollVisit` (clear the bit,
call the hook) and `HookReturn` are its loop body. A running hook (`hook`) is not a
step but a state in which the program may write, assign and mark any entry,
its own included. An `on_write` hook may itself call `reg_set_raw`, so the calls that
are out form a stack (`calls`), of which the innermost returns first. A table with more
than `MaxEntries` entries is refused by `reg_table_init` (`Bound` is FALSE): adapters and
hooks still find its entries, but there is no bit to set and nothing to poll. The run has a table that fits; the theorems hold
of both.
`AppAssign` and `AppMark` are the two statements the header asks
application code to make; `unmarked` remembers that the second is missing.
`seen` and `writer` are history.

**Interrupts.** `RegRace` has a step per memory access of those functions, and a
variable `pattern`, fixed at the start, that selects one of the two remedies of README, Concurrency.

**Modbus.** A frame's verdicts before the handlers (length, CRC, address, MBAP
header) are `Discarded`; a handler's are `Verdict`, in the order of the code. A read
or a multiple write visits one entry per step, because hooks run in between; these may
assign any variable, behind the cursor or ahead of it (`AppAssign`). `old` is what the
application itself left in the variables and `own` says which of them it assigned after
the request wrote them, so that the properties can tell its doing from the request's.

**Texts.** A text is a sequence of characters of a small alphabet with every one the
parsers tell apart. `Strtoul` does what the C function does, wrapping and its own
prefix included; `Meaning` is the grammar that `core.c:302` and `core.h:191` state, decimal
or hex behind one `0x`, and nothing of `Strtoul` is in it. The two differ on a text with two
prefixes, which `TextMeansItsNumber` names as its exception (`TwicePrefixed`). `MqttMeta` counts
characters with the real sizes (64, 31, 160 and 21); its words stand for whole runs
of them. `GenRules` keeps YAML entries as records with optional numbers; `NameRe` matches as
`re.match` does, where `$` also stands before a final newline.

**MQTT.** `regmqtt_poll` fetches a sample, compares it with the shadow and
publishes, in steps of their own, since the application's own hooks may change the
value in between. Its publish callback is accepted or refused by the connection;
a broken connection loses what it had accepted, and the client notices later.
`regmqtt_announce` is one action: it samples nothing and its publishes run without
a break, each accepted or refused; `metas` are those on their way, delivered in the order
of their topics' numbers, which is the order of the announcement. The fingerprint `Schema` is the table's shape
itself: two tables that FNV-1a would confuse are left out. Each firmware has its own
number of entries and its own names (`CountOf`, `ShapeOf`), and the broker retains by topic,
so by name: registers that were renamed or removed leave their metas behind. `Flash`
restarts the device with any firmware; `Kept` and `WholeTable` are the host of `regtable_mqtt.h:73-84`.

**CLI.** Words that matter are single letters of the alphabet. `typed` is an
editor without limits fed with the same keys. `Split` goes through a line byte by byte as
`cli_split` does (`ScanByte`, `EndWord`), keeps the arguments, notes one too many and goes on
to look for `--json`; the reference `AsksForJson` says of the line as a whole that
the flag is a word of it. The echo is left out.

**Client.** `_cmd_json` is `Issue`, then `ReadNoise`, `ReadAnswer`, `ReadMisfit` or
`Timeout`; `_fail` is `Fail`. The device serves its queue of commands whenever it
likes. Bytes lost on the line are not modelled here: to the client an answer that
never comes is a timeout, which may strike at any moment. Nor is half a command,
left by a write that failed. `Open` is a generated class that verifies or `discover`;
the device may restart with other firmware at any moment (`Flash`), and `Interrupt` is
Ctrl-C: it ends a program (`AtPrompt` FALSE) but not the prompt of `regtable connect`.

**Panel.** A step runs from one `await` to the next, as the browser's event loop does.
`opener[a]` is where attempt `a`'s `toggleConnect` waits and whether its generation is
still the current one; `tear[o]` where the `teardown` called by `o` (a click, a read
loop, an attempt) waits; `running` the read loops. `cmdQueue` is the promise chain of
`enqueue`: its head has the line, `Take` is the loop of `sendCmdGetLine` or
`sendCmdGetAll` over the lines received, and `Finish` what the caller goes on to do.
A line carries the history whether it answers the command that waits.

## 3. Runs

`tlc -config X.cfg M`, with M the module of the run in `PROJECT.json`.

| run | shows | bounds, and why they are enough |
| --- | --- | --- |
| `tables` | `reg_set_raw`'s checks mean what the bounds say (`ChecksMatchMeaning`); stored is loaded (`StoredIsLoaded`); a text is taken for its number or refused (`TextMeansItsNumber`), what is shown is taken (`ShownIsTaken`); `regmb_init` accepts a table and a slave address exactly when it should (`InitAcceptsWellMapped`), `CoveredIsWhole`; no two entries share a topic and only its own `/set` commands an entry (`OneOwnerPerTopic`); what `regmqtt_init` accepts is announced whole (`AnnouncesWhatItTook`); what the generator accepts the C code accepts (`GeneratedIsAccepted`), but for a name that ends in a newline | every entry and every word of 4/8/16-valued types: each type has both borders, a sign, and for FLOAT both infinities and NaNs; every integer text of up to five characters (a blank, a sign, `0x` and a digit fit), three for BOOL and FLOAT; every map of three entries in seven addresses and every span, slave addresses at both borders; tables of two names of up to two words under prefixes around the limit; every body within 40 characters of the buffer's end; one description per type with bounds and start in and around its domain, and pairs with every pair of addresses and names around the limit, with and without a newline |
| `core` | `NoLostChange`, `WireValuesAllowed`, `HookAskedAboutAllowed`, `PassEnds`, refinement of `ChangeFeed` with and without its fairness | three entries: signed with range and both hooks, read-only with a hook, BOOL with `on_read`; two requests per hook and between passes, which lets a hook write before and behind the cursor, call `reg_set_raw` from `on_write`, and mark itself for ever |
| `race` | `ReplacesWhatItCompared`, `NothingUnread`, refinement of `ChangeFeed`, `Settles` | both patterns; two entries, so that a lost bit may be another entry's; two commands and two interrupts, one more than a lost update needs |
| `modbus` | `NoUnheardWrite`, `WriteIsPrefix`, `NoHalfValue`, `ReadIsHeld` | four entries, eight addresses with a hole, a two-word value in the middle and an entry at the top; requests of up to five words, every value a write's first entry may refuse, by its bounds or its hook, with a two-word entry and a guarded switch behind it; hooks that assign any variable between two entries; three response sizes around the ones needed; words swapped, the order that is not the obvious one (the other differs only in which half `RawToWords` and `WordsToRaw` take first) |
| `mqtt` | `NeverMixed`, `AnnouncedIsWhole`, `SyncedMeansSent`, `Converges` | three firmwares: two registers, one of them dropped and the other of another type, and that one renamed; one restart, two breaks, one refusal, one change: a break in the middle of an announcement, a refusal on the next one, a change while sending |
| `cli` | `RunsWhatWasMeant`, `WritesOnlyWhatWasMeant`, `AnswersAsAsked` | two set-ups. Editing: a buffer of five bytes and eight keys, a command of exactly five letters, overflow by three, erasing all the way back. Wording: two arguments allowed, seven keys, the flag in front, in between and behind one word too many; NUL bytes |
| `client` | `ReadsAreFresh`, `SetsAreDone`, `HoldsTheTable` | three sessions, three calls, two firmwares and one restart; a register of another type, one whose hook refuses, one that may be NaN, one that the other firmware gives another type |
| `panel` | `RepliesAreOwn`, `StatusIsTrue`, `PollLives`, `AttemptsEnd` | two names of attempts, used again for ever; two lines per answer, so that an echo uses one up; the user queues up to two commands, one to wait and one to come late |

Four runs end in a violation, each of a sentence of the repository that the code
does not keep (`findings`):

- `panel_late`: a panel command that times out leaves its answer to come, and the
  next one takes it (`regtable_panel.html:949`); `Behind` = 2 lets the device owe it.
- `panel_stale`: connect, then disconnect and connect again while the first attempt
  still waits for its second list: the first attempt's `catch` releases the second's
  port (`regtable_panel.html:1083-1088`). `Impatient` is the user who does so.
- `client_interrupt`: Ctrl-C at the prompt of `regtable connect` leaves the
  connection open with an answer to come (`client.py:402`, `cli.py:76`).
- `nucleo_lost_byte`: after a receive overrun the board "starts the line over"
  only in the comment (`main.c:164`).

The passing runs of these components have the environment in which the code can keep
its promise: `panel` a device that owes nothing when a command is sent (`Behind` = 0)
and a user who lets an attempt come to its end; `client` a device that resets when the
port opens (`Resets`) and a program that an interrupt ends.

### Observations

Met while modelling. The first three contradict a sentence of the repository; each is the
exception that a property of a passing run names, and the smallest one it holds with.

- `0x0x1` is accepted as 1: `strtoul` in base 16 skips a prefix of its own behind the one
  that `int_base` has seen, where the comment at `core.c:302` says "Nothing else" than
  decimal, or hex with a prefix, is read (`TextMeansItsNumber`).
- `NAME_RE` (`gen.py:81`) ends in `$`, which also matches before a final newline. Such a
  name is validated, breaks the C string it is put into, and after 31 characters is one
  more than `regmqtt_init` takes, where `gen.py:10-12` says that "every constraint the
  adapters enforce at init time is checked here" (`GeneratedIsAccepted`).
- A line that is too long is answered in text even if it said `--json` (`cli.c:545`),
  where `README.md:207` says that "errors come back as" JSON (`AnswersAsAsked`).

No property is about the others.

- `client.py:90` holds of a freshly opened port that "nothing is in flight yet". With a
  device that does not reset (`Resets` = FALSE) a late list passes the new session's
  verification, and a set is then reported done by the answer to an older one.
- `help` is answered in text even if it said `--json`. 0x08 is echoed and then rubbed out,
  two columns for one byte (`cli.c:535`); with 0x7F the screen is right.
- With `--max-entries` above 100, a 31-character FLOAT with the longest bounds, a Modbus
  address and an index of three digits has a meta body of 139 characters, which
  `regmqtt_init` refuses and the generator does not; up to index 99 it just fits. A prefix
  of more than 25 characters can refuse long names; the generator does not know the prefix.
- A FLOAT bound of -0 is shown as `-0`, an integer to Python: a discovered client's
  fingerprint then differs from the device's.
- Commands queued in the panel survive `teardown` and go to the device connected next
  (`regtable_panel.html:844`). A console `list --json` whose quiet timer fires after a
  disconnect stores its table in a disconnected panel.
- In `arduino_modbus_tcp.ino:121` a header with a pause in it is dropped without closing
  the connection, so the rest of the request is read as the next header.

### Fairness

`RegCore`: the loop calls `reg_poll` again, `reg_poll` takes its steps, hooks return
and code that has assigned reaches its next statement: straight-line code of a loop
that runs for ever. Nothing is assumed of requests. `RegRace`: the same; starting
`reg_poll` and picking up a flag are strongly fair, because an interrupt may
disable them again and again but the loop, which comes back to both in every round,
gets through whenever interrupts are on. `RegMqtt`: the loop polls, the client finds
out that its connection is dead (keepalive), reconnects, and a live connection
delivers; faults are bounded, so there is a last one. `Panel`: timers fire, promises
settle, the device serves or loses what it was sent, and the user closes the port
chooser; nothing the user starts is fair, and each kind of step is fair as a whole, not
for each attempt. The other models have no liveness property: a CLI waits for its user,
a Modbus slave for its master, a Python client for its program.

### History variables and bounds

`seen`, `writer` (RegCore); `seen`, `taken` (RegRace); `old`, `own`, `held` (RegModbus); `keys`, `typed`
(RegCli); `lostAt` (NucleoSerial); `had`, `ran`, `done` (HostClient);
`crossed` and a line's `to` (Panel) are not in the code.
Counters capped in guards: `ops` by MaxOps, `commands`, `interrupts`, `changes`,
`breaks`, `refusals`, `flashes`, `keys`, `calls`, `opens`, `prints` by the constants of
those names; in `Panel` the length of the queue by MaxQueue.
CHECK_DEADLOCK is off for the `tables` run, which takes one step, and for
the `client` runs, which end when their sessions are used up.

## 4. Proofs

Each `*_proofs` module extends the module it is about. A theorem holds for every value
of the constants that the module's assumptions allow, so for tables, maps, queues and
histories of any size, where a run has two or three of each. Every inductive invariant
below was checked by TLC as an invariant of its component's run before it was proved.

**`Rules_proofs`**, what the other proofs take the rules to be. On values, for every
width that `WidthAssumption` allows (2^8, 2^16 and 2^32 values among them):
`AcceptedIsAllowed`, a word that passes the checks of `reg_set_raw` is, made canonical, a
number of the type within the bounds; `AllowedIsAccepted`, every such word passes;
`StoredIsLoadedBack`, storing and loading it gives it back. On address maps of any
size: `AcceptedIsWellMapped`, `regmb_init` accepts exactly the maps in which every word
has one owner at most and nothing sticks out of the address space; `CoveredMeansWhole`,
on such a map the walk of `span_covered` lets through exactly the spans made of whole
entries, although the search cuts its cursor to 16 bits. The walk is a recursive
function; that it exists is shown by an explicit solution, and that any solution gives
the same answer by a least counterexample (the distance of the cursor from the top of
the address space is a natural number; take the smallest at which two solutions differ).

**`RegCore_proofs`**, for every table that `TableAssumption` allows, any set of commands
and any number of requests per hook: `TypeCorrect`, `ChangesAreKept`, `WireIsChecked`,
`HooksAskedAboutAllowed` and `CoreImplementsFeed` (the core refines `ChangeFeed`). Two
facts had to be added to the invariants. `CallAccepted`: every write that waits for its
`on_write` hook, however deep in the stack, has been through the checks; otherwise `SetEnd` could store anything,
and the comparison of old and new raw, which decides about the mark, would not be one of
the value that the variable then has. `OneContext`: while `reg_poll` is between two
hooks, nobody is half-way through an assignment or a write; otherwise a bit could be
cleared before the value it stands for is there. `CommitKeeps` does the three statements
that end `reg_set_raw`, `AssignStep` an assignment, and `QuietStep` everything that
touches neither values nor bits. The refinement has an update of the feed for a store
and an assignment, a `Tell` for a visit, and a stutter for the rest.

**`RegRace_proofs`**: both remedies of README, Concurrency, are sound. `SetIsAtomic`,
`InterruptIsHeard`, `TypeCorrect`, and `RaceImplementsFeed`, the refinement at the grain
of memory accesses. The strengthening says who may be inside: `Alone`, by the lock
(`critical section`) or because the interrupt stays out (`own variable`). From it
follows `LoadedIsCurrent`: what was loaded, a value or a word of the bitmap, is still
what memory holds when it is stored back; and `BitFound`: the bit that `reg_poll` found
set stays set until it clears it, and is clear until after the hook.

**`RegModbus_proofs`**, for every table that `regmb_init` accepts, every request and
response size, either word order and every width: `SilentWritesNothing`,
`WriteStopsAtRefusal`, `OnlyWholeValues`, `AnswersAreHeld`. The check before the first
entry is made once, but the loops search the map again for every entry. `OnTheMap` is
the fact that makes this safe: the cursor stands where an entry begins and the rest of
the request is made of whole entries. `WrittenUpToCursor` and `ReadUpToCursor` say that
behind the cursor a write has stored what was sent and a read has collected what was
held, and that everything else is as the application left it, in the request or before. The proof uses `CoveredMeansWhole` for
the map and the theorems on values for the words (`W` is any base, so the two words of a
value are a quotient and a remainder).

**`RegMqtt_proofs`**, for any table, firmwares, number of restarts, breaks, refusals and
changes: `TablesNeverMix`, `FullCountIsWhole`, `ShadowIsTheBrokers`. `SaidByOne`: a
retained meta was said by one firmware about its own topic, which may mean another register
in the next one, or none. A host that finds `count`
metas under the descriptor's fingerprint therefore has all indices of one table, by
counting. `ArrivedOrOnItsWay`: after a full count, whatever is not on its way has
arrived, as long as the connection holds.

**`SerialLine_proofs`**, the two ends of the serial line, each with a state of its own.
The client: `UsableIsVerified` (an action property) needs no hypothesis:
nothing stale makes a client usable with a table that no firmware had since it asked.
`ReadsAreOwn` and `SetsReportThemselves` assume `Resets` and `~AtPrompt`. There are no
request ids, so the invariant is about there being nothing to mistake: `OneAnswer`, at
most one line on the wire that is not noise, in answer to the call that is out;
`Silent`, none before the device has served it or when there is no call. Without the
reset the device may owe answers to an earlier session (section 3, Observations), and at
the prompt an interrupted call leaves one (`client_interrupt`). The CLI, whose
specification is `CliSpec`, for every buffer size, number of arguments, alphabet and line:
`CliTypeCorrect`, `CliRunsTheLine`, `CliAnswersInForm`, `CliWritesTheLine`. `RunsWhatWasMeant` is inductive as it stands, because only the end of
a line clears `overflow`. `CliWritesTheLine` follows from it whatever the tokeniser makes of
a line, since it makes the same of the line typed. `CliAnswersInForm` is about the tokeniser:
at every byte of its scan the flag has been found exactly if it is a word of what was
read, or the scan has met a NUL, and the word at hand is what stands since the last blank.

**`Panel_proofs`**. `OwnReplies` assumes `Behind = 0` and no patience of the user: while
a command waits, every line in the buffer, on the wire or owed is its own (`Owned`); with
a larger `Behind` run `panel_late` refutes it. `ShownIsSo`, `TickedPolls` and
`CleansItsOwn` assume `~Impatient`; with an impatient user `panel_stale` refutes the
last. Their invariant is about ownership: one attempt at work at most (`OneAttempt`),
one teardown at most and only while the panel closes or its attempt cleans up
(`OneTeardown`), nothing open but `port` and nothing running but `reader`'s loop, released step by
step (`Holds`); an attempt waits for a command that is in the queue once (`Turns`), so
that the end of a command wakes the right coroutine.

**`MCTables_proofs`**: all that the run `tables` checks of one call, for machines of every
width, tables and maps of every size and texts of every length. The invariants are small,
since a behaviour is one call: `AtHand`, `TopicsAtHand` and `YamlAtHand` say what the
inputs are. The work is in what the operators compute, and the operators fold.
A fold is a recursive function here. That it exists, and that two that
take the same steps agree, is shown by a least counterexample each time (`LeastNatural`):
`Horner*` for the digits a parser reads from the left, `Weight*` and `Last*` for the
reference that counts them from the right, `Decimal*` for what `printf` makes of a
number, `Sum*` and `Appended*` for lengths and buffers.

- `Checks` and `Stored` carry the theorems on values to `reg_set_raw` and `reg_set_str`.
- `Texts`. `StrtoulMeans`: `strtoul` leaves nothing of a text that begins with a digit
  exactly if all of it is digits of the base, behind a prefix of its own in base 16.
  `PlainMagnitude`, `PrefixedMagnitude`: what the parsers' two tests (a digit first, the
  whole string read) let through is a numeral of the grammar, or has two prefixes. `CutsMean`: the
  grammar cuts a text in one way at most, so a text has one meaning at most.
  `PositionalIsHorner`: both read the same number. `ParseMeans` puts this together for each
  type. It needs `TextAssumption`, that some magnitude above infinity is a NaN's.
- `Shows`. `DecimalIsTaken`, `NegativeIsTaken`: reading undoes showing, and the magnitude
  of the most negative number, which is one more than the largest, is still within the limit.
- `InitAccepts` and `Covered` are the two theorems on maps, of `regmb_init`'s run.
- `Owners`. What tells kinds of topics apart is whether a second `/` follows the prefix and
  what stands around it (`KindOf`); names without `/` that do not begin with `$` cannot make
  one kind look like another (`TopicsDiffer`), and `regmqtt_handle`, which looks for the first
  `/` of the rest, finds the name before it (`IsSetTopic`, `HandledIsSet`).
- `Announces`. `Filled`: a buffer holds exactly what was put into it as long as that
  fits and overflows for ever otherwise; so taking back a description that did not fit
  (`RolledBack`) leaves the body as it was (`BodyHolds`), and `PayloadFits` adds the trailer.
- `Generates`. A validated description is a map that `regmb_init` takes, metas that fit the
  buffers at the longest (`LongestMetaFits`) unless a name ends in a newline, and rows whose bounds and initial
  values are allowed by the checks in C, where signed bounds are kept as words
  (`IntegersAgree`, `FloatsAgree`). The client's `check_value` then agrees with the device.

The first three and `Covered` are general in every parameter. The alphabet of names and
the sizes of the buffers are the real ones or fixed by `MCTables`; the lemmas on topics
and buffers are stated for names, tables and pieces of any length.

The proofs had a say in the models. TLC takes the first true case of a CASE and TLA+
any, so a parser written as a CASE with overlapping guards was no function of its
text to the provers; they are IFs now, in the order of the code. And `INF < H32 - 1`, without which
the word `nan` of a FLOAT would be infinity, had been left to the configuration.

### Only model-checked

- All liveness (`PassEnds`, `Settles`, `Converges`, `AttemptsEnd`, the fair feed):
  fairness and ENABLED are out of the prover's reach.

Every invariant and every action property of the passing runs is proved. Six of the
theorems have a hypothesis, which the run's constants satisfy: a device that resets and a
program that an interrupt ends (`ReadsAreOwn`, `SetsReportThemselves`), a device that owes
nothing (`OwnReplies`), a patient user (`ShownIsSo`, `TickedPolls`, `CleansItsOwn`). The
violating runs show what happens without; for the reset see the first of the observations.

## 5. Not modelled

- **Stream Deck panel, T3.5 framing and TCP headers of the sketches**: planned.
- **The panel's rendering, in-place editing, completion and themes; command line, SVD
  import, layout of generated files and of answers**: no state that others see, and no
  ordering. Of an answer only its form (JSON or not) and what it is about is kept.
- **Digits of FLOATs**: `strtod` and `printf` are the C library's.
- **Reserved words and hook rules of the generator**: lists of names.
- **`regmqtt_set_identity` and the length of `$id`**: one test with the same appender.
- **CRC**: a frame carries a flag that says whether it fits.
- **Generated code, the HAL, CMSIS, tool chain files, the library's copy in the Nucleo
  project**: not this project's logic, though most of the repository's lines.

## 6. What could come next

1. `ModbusLine`: T3.5 framing, TCP headers and a master that retries, over `RegModbus`.
2. The Stream Deck's lock over `HostClient`.
