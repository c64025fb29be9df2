# Verification of hawk and hawkd

TLA+ specifications of the Hawk-tui health mirror, the TLC runs that check them
on small instances, and TLAPS proofs for every value of the constants. Paths
below are relative to the repository; `hawkd/…` and `hawk/…` stand for
`crates/hawkd/src/…` and `crates/hawk/src/…`.

## 1. The system

`hawkd` is a daemon. Producer threads turn input into lines (HawkFrames: seven
TAB-separated columns) and send them to one unbounded channel, the *spine*. The
main thread takes lines off the spine and writes each to every UI client of a
Unix socket. Producers are stdin, connections to an ingest socket, one watcher
per systemd unit and one per gRPC health service.

`hawk` is the terminal interface. A reader thread parses lines from stdin or
from hawkd's socket. They go to the interface directly or through an awk
process (a *transform*, a *thread* of a *pack*). The interface keeps the last
frame of each entity and draws a status bar, a table ordered by urgency, and a
tail. `hawk` also loads packs and has a *doctor* that checks them, by reading
their scripts and by a smoke test of each under awk.

`hawk_tui.py` is an older operator console, apart from the two. One thread polls
shell commands and files, draws, and handles keys, some of which act on the
daemon's systemd unit through `adapters/daemon_ctl.sh`.

### Inventory

| part | source | state | module |
|---|---|---|---|
| broadcast | `hawkd/main.rs` | client list under a mutex, spine, sockets | `HawkdBroadcast`, abstract `FanOut` |
| stdin and ingest sources | `hawkd/main.rs`, `hawkd/unix_ingest.rs` | a loop per thread | `HawkdSources` |
| hawkd | `hawkd/main.rs` | the two joined by the spine | `Hawkd`, `Spine` |
| systemd watcher | `hawkd/systemd.rs` | retry loop, subscription, cache, snapshot in progress | `SystemdWatch`, `Backoff` |
| gRPC watcher | `hawkd/grpc_health.rs` | retry loop, stream | `GrpcWatch`, `Backoff` |
| readers, transform | `hawk/io.rs`, `hawk/main.rs`, `hawk/awk.rs` | five channels, two pipes, a process | `HawkPipeline` |
| state and screen | `hawk/app.rs`, `hawk/ui.rs`, `hawk/ui/draw.rs` | entities, tail, counters, clock, screen | `HawkApp` |
| codec, levels | `crates/hawk_core/src` | none (pure); a line on its way | `Texts`, `HawkFrame`, `FrameRelay` |
| packs | `hawk/packs.rs`, `hawk/main.rs` | none kept | `Packs` |
| doctor | `hawk/doctor.rs`, `hawk/main.rs` | a scan, a report, a process with two pipes | `PackDoctor` |
| operator console (in part) | `hawk_tui.py` | timers, selection, files, child processes | `OperatorConsole` |
| adapters (in part) | `adapters/daemon_ctl.sh`, `adapters/grpc_health.sh` | units in two scopes; rows printed so far | `OperatorConsole` |

What is left out, and why, is in section 7.

## 2. Modules

**FanOut** is the promise of the broadcast socket: one log, and per client a
read position that starts at the end of the log when it joins. `Greet`, `Join`
and `Deliver` are all that can happen to a client.

**HawkdBroadcast.** `bpc` is the main thread: `"recv"` (waits on the channel),
`"lock"` (has a line), `"write"` (inside `broadcast()`, mutex held). Each turn
of its `while` is `WriteClient` or `DropClient`; `cursor` is `i`. `accept_loop`
is `AcceptClient` (accept and greet, no lock) and `PushClient` (waits for the
mutex). A socket is everything ever written to it (`out`) and how much the
client has read (`rd`); `write_all` waits while the difference is `SockCap`.
Clients are external: they connect, read and close when they like. `cast`,
`joined` and `closedAt` are history variables.

**HawkdSources.** A source reads a line and either has something to send
(`pc = "send"`) or goes on. Another thread may run between the two. An input is
what the handlers tell apart: whether it parses, is blank or a comment, is bad,
or is not UTF-8, and, of a bad line, whether the cut at byte 240 falls inside a
character. `strict` is chosen at the start and never changes.

**Hawkd** composes the two over the variable `spine` (module **Spine**). The
sources replace the free `Send` of the broadcast module.

**SystemdWatch.** `wpc` is the await at which the task stands. The three
property reads of a snapshot are three actions, so a unit may change between
them. Any await may fail (`AttemptFails`), which sends an error frame, drops the
subscription and sleeps. The bus is external. The unit's proxy caches: the first
read of an attempt fetches all properties into `cache`; later ones return what
is there, and zbus applies each signal to it (`updates`) at a time of its own.
`lagged` records that a snapshot read a cache that was behind. `emits` says
whether systemd signals at all, which depends on whether some client has called
`Manager.Subscribe`.

**GrpcWatch.** `gpc` is the place in the loop of `watch_one`. The server is
external: reachable or not, with a status it streams. `connect_channel` is its
two results; preparing URI and TLS only decides between them. A server that goes
away ends the stream in order or with an error, or is `silent`. **Backoff** is the
retry delay of both watchers, which start from the same two numbers.

**HawkPipeline.** The reader (`rpc`), the threads of `main` (`Forward`, `Split`,
`ForwardFrame`, `ForwardError`) and the bridge's writer, reader and waiter
(`wrpc`, `opc`, `reaped`). awk is external. It answers a line with at most one
line of any kind, holds output in its own buffer, and may exit or be killed. A
message is its kind and the ordinal of its line. `cli` holds the options and
never changes.

**HawkApp.** `upc` is the place in `run_tui`. A draw is three actions because it
reads the clock three times (`draw.rs:34`, `draw.rs:83`, `app.rs:169`).
`compute_liveness_with_ttl`, `counts_by_state` and `sorted_entities` are the
functions of the same names. Entities are numbers in id order.

**HawkFrame** has the codec as operators on sequences of tokens: the characters
the codec looks at (TAB, newline, blank, `#`, `;`, `=`) and words it does not
look into. `parse_tsv_line`, `to_tsv_line`, `parse_kv_bag`, `serialize_kv_bag`
and `Level::parse` keep their names; **Texts** has `trim`, `split` and `join`,
which the packs use too. **FrameRelay** sends a line through several hops, each
of which parses what it reads and writes the frame out again, and each of which
may leave a line cut anywhere. The line is an adapter's, or one of those that a
reader makes of a frame which hawkd builds itself (`IsBuilt`): stamped, with keys
of hawkd's own, and with values that nobody has looked into, so that line breaks
in them make several lines of it (`LinesOf`).

**Packs** has the loader, the checks of manifests and arguments and the
resolution of `--transform` as operators on a packs directory. An argument's
value is one of the six classes the checks tell apart. **PackDoctor** adds the
commands: list, doctor, and the start of a transform. The doctor's scan goes
thread by thread, one action per look at a script, as somebody may remove
scripts meanwhile (`RemoveScript`). The smoke test is the doctor's side
(spawn, write, close, read, judge) and awk's, over a bounded output pipe.

**OperatorConsole.** `pc` is what the console's one thread waits for, `todo`
the polls it has yet to run and `stage` on whose behalf: before the loop, in a
turn of it, for a key, or for `--check`. Times are kept as ages, `age[p]` since
poll `p` and `since` since `periodic_poll` read the clock, because a poll is
stamped with the time at which its round began and not with its own. Time passes
only where the thread waits. `poll_logs_and_chat` is one action per look at a
file, the log or the notes; others grow the log, empty and move both (as
`init_fake_env.sh` does), and a second console polls and writes notes. `removed`
has the files that were moved away since the console last found them there.
`poll_grpc` is hawk-cmd with `grpc_health.sh`: rows at once from the fake file,
probes one after the other, no targets file, or a failure at any point
(`GrpcFails`); `listed` are the endpoints that have a row, `asked` those at the
last poll, and `code` its exit code. `daemon_ctl.sh` tries the system scope, then
the user scope; systemd may finish an action (`job`) after the console has given
it up, and a restart that fails may have stopped its unit.

Operators introduced by the comment "Mutant:" are deliberate bugs. No
specification uses them; each shows that some property fails when the named
definition is replaced by it.

## 3. Runs

Passing runs:

| run | checks | bounds | states |
|---|---|---|---|
| `broadcast` | NoneLeftBehind, ReapedByNextLine, OpenClientKept, EveryClientServed, ImplementsFanOut | 2 clients, 3 lines of 2 kinds, 1 line of socket buffer | 229,869 |
| `sources` | ForwardsInOrder, StrictStopsAtBadLine | stdin and 1 ingest connection, 3 lines each, every kind of line, strict or not | 66,892 |
| `hawkd` | SourceOrderAtClient, ImplementsBroadcast, LineReachesClient | 2 sources of 2 lines, 1 client | 194,866 |
| `systemd` | AtRestCurrent, OutageStands, DelayByFailures, MirroredUnlessMissed | 4 unit states, 3 changes, 7 failures | 260,808 |
| `grpc` | StreamCurrent, RetryDelay, ServerMirrored | 5 statuses, 4 changes, 2 failures without cause | 27,059 |
| `pipeline` | ArrivesInOrder, BridgeFailureShown, WindsUp | 4 lines of 3 kinds, pipes and awk buffer of 1 line, all options | 555,187 |
| `app` | MirrorsLastFrames, BarBackedByTable, OnlyFramesRevive, ScreenCatchesUp | 3 entities, 3 messages, clock 0 to 2, 2 rows | 255,074 |
| `codec` | StableAfterFirstHop, CutConfined, TtlSafe | kv bags and descriptions of up to 3 tokens, 3 hops, 2 cuts | 286,649 |
| `doctor` | DoctorVerdict, DoctorOkLoads, VanishedReported, LoadedThreadStarts, CommandEnds | up to 2 threads in one pack or two, pipe of 2 lines, 1 removal | 180,615 |
| `console` | CTypeOK, CrashOnlyByRemoval, GrowthIsReal, TableHonest, MessageSeen, VerdictSound, NotesOutliveStart, OutputCatchesUp | 2 endpoints, 5 scenes (below) | 379,257 |

What they show, run by run:

- `broadcast`: whoever comes, lags or leaves in the middle of a broadcast, each
  client gets consecutive lines from one point of the stream on; a closed peer
  is out of the list after the next line; every client that reads is served.
- `sources` and `hawkd`: the order of each source survives the shared channel up
  to the clients, also the last line of a source that ends right after it.
- `systemd`: torn snapshots are repaired and failures stand; the watcher settles
  on the unit's state *unless* a change was not signalled to it (it came before
  the subscription, or nobody has called `Manager.Subscribe`) or the cache was
  behind when it was read.
- `grpc`: no status is lost on a live stream; outage and recovery end up shown
  unless the peer vanished silently. The delay restarts with each connect.
- `pipeline`: lines arrive complete and in order, a failing awk is shown, and
  writer, awk and reader never wait for each other in a circle.
- `app`: the bar and the table of one screen belong to different moments, but
  the table backs what the bar warns of; the screen ends up with the final state.
- `codec`: what the first hop reads is what every later hop reads, and none
  refuses it; a cut line is refused or loses part of its kv bag only; an
  unescaped description cannot change the TTLs of its frame (`Tame` says short of
  what: a TAB, a line break, or a `;` in the name of the unit).
- `doctor`: the report has exactly the errors there are, what passes can be
  loaded, a thread that loads starts unless it has an int or a bool without a
  default, and a command ends if the scripts do.
- `console`: no index goes astray when the catalog shrinks; the table of
  endpoints is whole or, after a failure, empty, and shows as serving only what
  served; a message is drawn at least once however slow the polls are; an action
  is carried out in one scope at most; a console empties the notes only when it
  is just starting or after somebody has moved the file away.

Why the bounds are enough. Two clients suffice for a removal that moves another
client under the cursor, and a one-line buffer makes every second write block.
Seven failures take the delay past its cap. Four lines fill both pipes and awk's
buffer with one more waiting; blank lines and comments, which put nothing into a
channel, are left to the proof. Three entities on two rows, all dead at the end
if the frames are so dated, make the cut happen among dead rows; with the
default limits and with their own they pass through all four states of liveness
(one of them with a dead limit below its stale limit). Three tokens are the
shortest kv bags with a repeated key, an empty key or value, and a second `=`;
three hops show that nothing changes after the second. A pipe of two lines is
shorter than what the scripts print, and two threads are enough for equal ids
within a pack and across packs.

In the console, what is polled hangs together only by the loop, so the run has
five *scenes* and every behaviour is in one of them: *commands* (4 keys, a
catalog that fails or shrinks, polls and prompt that take longer than every
interval), *endpoints* (3 changes of a status or of the fake file, each way
`grpc_health.sh` can work or fail), *log* (4 things others do to it), *notes* (2
of the operator's, 3 things others do to them) and *daemon* (3 actions, the unit
in either, both or no scope), with files there or not. The time limit of a poll
is longer than a message stays, and two slow probes use it up.

Deadlock is not checked, because every behaviour stops when its bounds are used
up; what must not get stuck is stated as liveness.

Runs that show a disagreement between the code and what is said of it:

| run | property | what happens |
|---|---|---|
| `sources_panic` | BadLineEndsNoSource | `truncate(240)` inside a character panics and ends the connection's thread, though `--strict` is off (`hawkd/unix_ingest.rs:114`, `hawkd/main.rs:44`) |
| `doctor_unstamped` | ValidOutputPasses | the smoke test trims a line before it counts columns, so valid frames without a timestamp fail it (`hawk/doctor.rs:380`, `docs/HAWK.AWK.BOOK.md:17`) |

## 4. Fairness

Weak fairness only, and only for threads and tasks the scheduler runs when they
are not blocked: both hawkd loops, a source with a line in hand, the watcher
tasks, the threads of hawk and its interface loop, the doctor, and the console's
loop (each of its waits has a time limit, save the prompt, which waits for the
operator and is not fair). Nothing makes input arrive, a producer send, a client
connect or close, a unit, server or file change, a key be pressed, or an await
fail.

Some assumptions are about others. A UI client keeps reading (hawk's reader
does: its channel is unbounded). awk works off its input, and writes its buffer
out when it is full or its input has ended; the doctor's awk ends if its script
does. A dead gRPC connection is noticed unless the peer is silent. The clock
runs. EveryClientServed is false without the first: `write_all` blocks with the
mutex held, so one client that stops reading stops all the others.

## 5. Proofs

Eight modules `…_proofs` extend the modules they are about. What they prove
holds for every value of the constants under the assumption named in the module
that declares them: sets of clients, sources, unit states, frames or packs of
any size, buffers of at least one line, any time limits, and any number of
steps. Of the frames that hawkd builds the proofs assume `IsBuilt`. Of a packs
directory they assume what `PackDoctor` says in `IsDisk`: that it is a list of
manifests with threads, scripts and arguments, and that a directory that is
missing or cannot be read shows no packs. Type correctness is proved there, and
therefore not among the properties of the runs, but for the console's, which its
run checks as well.

**HawkdBroadcast** (in `Hawkd_proofs`): TypeOK, GapFree, NoneLeftBehind,
ReapedByNextLine, OpenClientKept, and that the specification implements FanOut.
NoneLeftBehind says nothing while a broadcast is under way, so it is not
inductive. `IInv` adds

- *NoDuplicate*: a stream is in the list once, so a write moves one position;
- *Lifecycle*: a client is waiting, being accepted, or registered, never two of
  these, and has joined exactly from its registration on;
- *Positions*: during a broadcast the clients before the cursor have been handed
  the current line and those from the cursor on have not;
- *Reaping*: the same split for closed peers.

`DropClient` is the interesting step: `VecRemoveFacts` says what `Vec::remove`
does to the positions after the cursor. In the refinement `WriteClient` is
`Deliver`, `PushClient` is `Join`, `AcceptClient` is `Greet` or a stutter, and
`LockClients` is `Publish`.

**HawkdSources** (in `Hawkd_proofs`): STypeOK, ForwardsInOrder,
StrictStopsAtBadLine. `SIInv` adds *Hands* (the answer in hand is to the last line
read) and *NoBadYet* (a source of a strict run that still reads has met no bad
line).

**Hawkd**: every step of the whole is a step of HawkdBroadcast or leaves it
alone, so what is proved there carries over (ImplementsBroadcast). For
SourceOrderAtClient the proof follows the *log*: the lines broadcast, the one in
the main thread's hand, and the spine. Only a send changes it, by appending.
`HInv` is `IInv`, STypeOK, Hands, and that the log has each source's lines in
order and completely.

**SystemdWatch** (in `HealthWatch_proofs`): WTypeOK, AtRestCurrent,
OutageStands. AtRestCurrent needs *ReadsCurrent* (at each await, the values read
so far are still the unit's, unless a signal is pending, the change was missed
or the cache was behind) and *CacheTold* (the newest of the cache and the
signals on their way to it is the unit's). *Phases* ties the subscription to the
await. DelayByFailures: up to the fifth doubling the delays are single cases,
and from the sixth on they are at the cap, because 2^n is the number of subsets
of a set of n elements and so at least 64; this replaces the induction.

**GrpcWatch** (in `HealthWatch_proofs`): GTypeOK and StreamCurrent, from
*StreamTold*: the newest status received or on its way is the server's.
RetryDelay as for the systemd watcher.

**HawkPipeline**: PTypeOK, from the types of all channels, their *Bounds*, and
*Orphans*: nothing is left in a channel or pipe for a thread that has ended.
ArrivesInOrder: `OInv` follows the messages from thread to thread. *Reading* and
*Passed* say that what was read is, in order, in the interface or on its way;
*Supply* and *AwkSide* that awk's output is of lines before those it has yet to
read; *UiSide* that of the frames awk made, a beginning has come back and the
rest is coming or was cut off behind it.

**HawkApp**: ATypeOK (every message counted once) and MirrorsLastFrames: the
entities and the tail are those of the last frames ingested. For the screen,
`SInv` says that bar, labels and order of a screen were computed from the same
entities at three moments in that order (*DrawnBy*; no message is taken during a
draw), and that an entity which differs from the one drawn has had a frame since
(*ChangedByFrames*). BarBackedByTable then needs that an entity only ages
(`LivenessAges`), and that `sorted_entities` has every entity once and in order
(`SortedTable`: the comparison is a strict total order, so the number of entities
before one is its place). OnlyFramesRevive needs `LivenessAges` alone.

**PackDoctor**: DTypeOK (awk never outlives its smoke test), VanishedReported,
DoctorOkLoads, LoadedThreadStarts and DoctorVerdict. VanishedReported rests on
*AtFault* (an awk started without its script does not end well). DoctorOkLoads
follows the scan: as long as no error was found, everything *Behind* the doctor
parses, has ids that are all different, and is in `seen_thread_ids`.
LoadedThreadStarts is about `Packs`: a default that loading accepts is, merged
into no variables, one that `validate_tvars` accepts (`DefaultsPass`), also when
an argument is declared twice and the last one counts (`LastOfPlaces`).
DoctorVerdict is the scan once more, now with its errors: *Walk* says that the
errors reported are those due to the packs and threads it is *Through* with, and
of the smoke test under way *AwkAccount* says which lines awk has printed, which
are in the pipe and which the doctor has judged.

**OperatorConsole**: CTypeOK, GrowthIsReal, TableHonest, MessageSeen,
VerdictSound and the action properties CrashOnlyByRemoval and NotesOutliveStart,
for any number of endpoints and any intervals and time limits. `CInv` has a part
for each thing the loop looks after. All rest on *Control*, which says which
polls can lie ahead at each place where the thread waits. What the table shows,
and that the notes file is there or was removed, hold only after the first
polling, so *Probing* and *Notes* say what is still *Pending*. CrashOnlyByRemoval
rests on *Catalog* (the selection is in range) and, for the two files, on
*LogCounted* and *Notes*: a file that was found and is gone is in `removed`.

**HawkFrame**: CodecRoundTrip, for texts of any length over the tokens: what
`parse_tsv_line` makes a frame of, it makes the same frame of after
`to_tsv_line`, but for the stamp and a flag of the empty key. The operators go
through a text token by token, and what they compute for texts of any length
would be proved by induction, which is not available in that form. `Least`
replaces it: a set of numbers that is not empty has a least one, so the shortest
text (or the first place) at which a claim fails is taken, and a shorter one
contradicts it. From this follow what trim, split and join do (`SplitJoin`:
parts without the separator are found again; `SplitAppend`: what a text after
another adds to the parts), that the parts written are those of the keys in
order, and so

- *BagRoundTrip*: `parse_kv_bag` of `serialize_kv_bag` of a parsed bag is that bag
  without a flag of the empty key (`Expressible`);
- *FrameRoundTrip*: the same for a frame and its line;
- *CutAccepted*, and *CutBag* (in `FrameRelay_proofs`): a line of a frame that is cut and still accepted has
  all columns whole, and its bag has the parts before the cut, and of the part
  that was cut a beginning. One key at most is then wrong.

**FrameRelay**: StableAfterFirstHop, CutConfined and TtlSafe, for lines of any
length, any frames with `IsBuilt`, and as many hops as there are stamps.
`RelayInv` is inductive. *LineInv* says of the line under way that it is the
line of the last frame parsed, or a beginning of it; *StableInv* that without a
cut all frames seen are the first one with `Expressible` bag and stamp; *CutInv*
that each frame has the columns of the whole line and wrong keys no more than
cuts, one less while a cut line has not been read. Properties about `seen` alone
are not inductive, as they do not say what the next hop will read. *TtlInv* adds
that every hop reads the TTL of a built frame that is `Tame`: the frame is one
line (`BuiltLine`), the parts that a `;` in an earlier value makes come before
that of the TTL (`SplitTail`, `TameBag`), and the last of equal keys wins.

Only model-checked is all liveness, as fairness and ENABLED are out of the
prover's reach: EveryClientServed, LineReachesClient, MirroredUnlessMissed,
ServerMirrored, BridgeFailureShown, WindsUp, ScreenCatchesUp, CommandEnds and
OutputCatchesUp. Every invariant and every action property of a passing run is
proved.

## 6. Limits and observations

- Apart from `FrameRelay`, lines are atomic; a line cut by a crash is there.
- A unit description or the text of an error may contain a TAB, which moves the
  columns of its frame, or a line break, after which the rest of the frame, with
  its TTLs, is read as a line of its own. hawkd does not escape either, though
  `docs/HAWK.AWK.BOOK.md:28` says that there are no newlines in a kv bag. The
  relay has both; TtlSafe excludes them, and the other two properties do not.
- The drain loop of `run_tui` draws only when its channel is empty. With bounded
  input it always gets there; a rate of input is not modelled.
- hawk connects once. When hawkd is restarted the entities only age.
- An error while drawing leaves `run_tui` with the terminal in raw mode. The
  error is an action; the terminal's mode is not part of the state.
- awk may hold lines in its output buffer for as long as its input is open, and
  may exit with status 0 before the end of its input; lines in its pipe are then
  gone without an error.
- The console says `health ok` whatever `systemctl status` says, because
  `daemon_ctl.sh` exits with 0 for it. It ends with an uncaught
  FileNotFoundError if the log or the notes are moved away between two looks at
  them. CrashOnlyByRemoval says that of the polls and keys nothing else ends it,
  as long as files that exist can be read and written: a missing permission, a
  full disk or a directory in the place of a file would, and are not modelled.
- An empty fake file, a missing targets file and a hawk-cmd that fails look the
  same on the console: no endpoints, and none bad. Which source of rows
  `grpc_health.sh` uses stays the same in a behaviour.
- After a timeout the console calls an action failed that systemd may still
  finish (VerdictSound leaves this case open on purpose). It is about where an
  action was carried out: a restart that failed in the system scope may have
  stopped that unit before the user scope is tried.
- In `sorted_entities` an active healthy row stands above a failed one that is in
  dream, a line that is not UTF-8 ends hawk's reader without `--strict`, and
  hawkd's error frame repeats the TABs of the bad line it quotes. The first two
  are modelled as they are; no run states anything against them.

## 7. Not modelled

- Layout, colours, wording, and the parsing of command lines and of unit and
  watch specifications: no state follows from them that the properties tell
  apart. In the console also the page shown and the rows of the streams pane.
- The health watchers inside `Hawkd`. They are specified apart; as producers
  they do what `Send` of `HawkdBroadcast` does, which its proofs cover.
- `bin/hawk-cmd`, `awk/commands` and the other adapters: text filters that run
  once and keep nothing. The console sees of them an output, a failure or a
  timeout.
- The awk scripts of `packs/`: an arbitrary awk program in `HawkPipeline` and
  `PackDoctor` stands for them; what each computes is not specified.
- `run.sh`, `shims/` and the launchers in `shell/` start processes. Of the fake
  environment there is what its scripts do to files that a console reads.
- gRPC, TLS, D-Bus, systemd, awk and the terminal are external, and modelled from
  how the code uses them.
