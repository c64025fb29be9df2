---------------------------- MODULE OperatorConsole ----------------------------
(***************************************************************************)
(* The operator console hawk_tui.py with the scripts it runs: one thread   *)
(* that polls what is due, draws, and handles a key.  Every poll and every *)
(* action of a key is a child process it waits for, or a file it looks at  *)
(* while others write, truncate and remove it.                             *)
(*                                                                         *)
(* Time passes only where the thread waits: in a child process, in the     *)
(* sleep of an idle turn (the unit of time) and at the prompt.  Instead of *)
(* the times of the last polls their ages are kept, up to their intervals. *)
(* A file is -1 when it does not exist, else its size; one that exists can *)
(* be read and written.  The page shown and the rows of the streams pane   *)
(* are left out: nothing else depends on them.                             *)
(***************************************************************************)
EXTENDS Integers, Sequences, FiniteSets, FiniteSetsExt

CONSTANTS
    Targets,    \* number of endpoints; the targets file lists them all
    Every,      \* intervals of the timed polls (2, 2, 2.5 and 0.8 s)
    FlashFor,   \* how long a message stays (1.5 and 1.8 s)
    Limit,      \* timeout of run_capture (4 to 6 s)
    ProbeTime,  \* grpcurl -max-time (2 s)
    Scenes      \* bound: what a behaviour may be about, see IsScene

(* The polls of periodic_poll, in its order, and all polls. *)
Order == <<"grpc", "streams", "command", "log">>
Timed == Range(Order)
AllPolls == <<"catalog">> \o Order

Scopes == {"system", "user"}
Changing == {"start", "stop", "restart"}
Asking == {"health", "status"}
Statuses == {"SERVING", "NOT_SERVING", "UNREACHABLE"}

(* What the console watches hangs together only by its loop, so a behaviour *)
(* varies some of it: which keys are pressed and what others do, how often, *)
(* what hawk-cmd list prints (<<>> when it fails), which polls may be slow  *)
(* (and whether that of the endpoints may fail), and what there is at the   *)
(* start.                                                                   *)
IsScene(sc) ==
    /\ sc.keys \subseteq {"q", "select", "enter", "r", "m"} \cup Changing \cup Asking
    /\ sc.events \subseteq {"log", "notes", "endpoint"}
    /\ {sc.maxKeys, sc.maxEvents} \subseteq Nat
    /\ \A c \in sc.catalogs : c \in Seq(STRING)
    /\ sc.slow \subseteq Range(AllPolls) \cup {"prompt"}
    /\ sc.adapters \subseteq {"fake", "grpcurl", "fallback", "missing"}
    /\ {sc.logs, sc.chats} \subseteq SUBSET {-1, 0, 1}
    /\ sc.units \subseteq [Scopes -> {"absent", "down"}]

ASSUME ConsoleAssumption ==
    /\ Every \in [Timed -> Nat \ {0}]
    /\ FlashFor \in Nat
    /\ Targets \in Nat
    /\ {Limit, ProbeTime} \subseteq Nat \ {0}
    /\ \A sc \in Scenes : IsScene(sc)

VARIABLES
    scene,              \* the scene, chosen at the start
    pc,                 \* where the thread waits, or "end", "crashed"
    stage,              \* whose polls run: "init", "first" (before the loop),
                        \* "round" (in it), "key" (a key's) or "check"
    todo,               \* polls still to run
    keys, events,       \* history: keys pressed, things others did
    age, since,         \* since the polls, and since periodic_poll read the clock
    flash, flashLeft,   \* a message is set, and the time it still has
    expired,            \* it had none left when the loop read the clock
    say,                \* the handler at work will set a message
    unseen,             \* history: the message has not been drawn
    command_catalog, selected_command,
    command_output,     \* the command whose output it is
    adapter,            \* what grpc_health.sh finds to use
    endpoint,           \* the status of each endpoint
    listed,             \* endpoints with a row in the fake file, or all of them
    probed, spent,      \* rows so far, and the time the probes have taken
    grpc_rows,
    code,               \* history: the exit code of the last poll of the endpoints
    asked, served,      \* history: endpoints listed at, serving during that poll
    log, log_size, log_delta,
    written, growth,    \* history: bytes written to the log, sum of log_delta
    removed,            \* history: those of "log" and "notes" that have been
                        \* removed since the console last found them there
    chat,               \* the notes file: number of notes
    other,              \* a second console: "off", "missing" (it saw no notes
                        \* file), "up"
    unit,               \* the daemon's unit in each scope
    ctl,                \* the last daemon action: its name, scope and verdict
    effects,            \* history: scopes in which that action was carried out
    job                 \* per scope, the action systemd has yet to finish, or "none"

loopvars == <<pc, stage, todo, say>>
timevars == <<age, since, flashLeft>>
flashvars == <<flash, expired, unseen>>
cmdvars == <<command_catalog, selected_command, command_output>>
grpcvars == <<probed, spent, grpc_rows, code, asked, served>>
logvars == <<log, log_size, log_delta, written, growth>>
ctlvars == <<unit, ctl, effects, job>>
filevars == <<logvars, removed, chat, other>>
world == <<scene, adapter, endpoint, listed, keys, events>>
cvars == <<loopvars, timevars, flashvars, cmdvars, grpcvars, filevars, ctlvars, world>>

NoRow == "none loaded"      \* command_output without a catalog

(* main: --check polls everything once; otherwise run_ui starts. *)
CInit ==
    /\ scene \in Scenes
    /\ pc = "poll"
    /\ \/ stage = "init" /\ todo = <<"catalog">>
       \/ stage = "check" /\ todo = AllPolls
    /\ keys = 0 /\ events = 0
    /\ age = Every /\ since = 0
    /\ flash = FALSE /\ flashLeft = -1 /\ expired = FALSE
    /\ say = FALSE /\ unseen = FALSE
    /\ command_catalog = <<>> /\ selected_command = 0 /\ command_output = "never"
    /\ adapter \in scene.adapters
    /\ endpoint = [e \in 1 .. Targets |-> "SERVING"]
    /\ listed \in IF adapter = "fake" THEN {{}, 1 .. Targets} ELSE {1 .. Targets}
    /\ probed = <<>> /\ spent = 0 /\ grpc_rows = <<>>
    /\ code = 0 /\ asked = {} /\ served = {}
    /\ log \in scene.logs /\ written = Max({log, 0})
    /\ log_size = 0 /\ log_delta = 0 /\ growth = 0 /\ removed = {}
    /\ chat \in scene.chats
    /\ other = "off"
    /\ unit \in scene.units
    /\ ctl = [action |-> "none", scope |-> "user", verdict |-> "none"]
    /\ effects = {} /\ job = [s \in Scopes |-> "none"]

(* d passes while the thread waits. *)
Pass(d) ==
    /\ age' = [p \in Timed |-> Min({age[p] + d, Every[p]})]
    /\ since' = Min({since + d, Max(Range(Every))})
    /\ flashLeft' = Max({flashLeft - d, -1})

(* A poll returns after d.  periodic_poll then sets the poll's time to the  *)
(* one at which periodic_poll began; a poll for a key leaves it alone.      *)
PollDone(d) ==
    /\ todo' = Tail(todo)
    /\ pc' = "poll"
    /\ since' = Min({since + d, Max(Range(Every))})
    /\ flashLeft' = Max({flashLeft - d, -1})
    /\ age' = [p \in Timed |->
                  IF p = Head(todo) /\ stage \in {"first", "round"}
                    THEN Min({since + d, Every[p]})
                    ELSE Min({age[p] + d, Every[p]})]
    /\ UNCHANGED <<stage, say>>

(* A poll that runs into the timeout of run_capture. *)
PollTooSlow == Head(todo) \in scene.slow /\ PollDone(Limit)

Stay == UNCHANGED <<stage, todo, say, timevars>>

At(poll) == pc = "poll" /\ todo # <<>> /\ Head(todo) = poll

-------------------------------------------------------------------------------
(* Polls of commands *)

(* Mutant: the selection is not looked at when the catalog shrinks. *)
SelectedAnyway(rows) == selected_command

SelectedIn(rows) == IF selected_command >= Len(rows) THEN 0 ELSE selected_command

(* hawk-cmd list prints the catalog, or fails, or runs into its timeout. *)
PollCatalog ==
    /\ At("catalog")
    /\ \/ command_catalog' \in scene.catalogs /\ PollDone(0)
       \/ command_catalog' = <<>> /\ PollTooSlow
    /\ selected_command' = SelectedIn(command_catalog')
    /\ UNCHANGED <<command_output, flashvars, grpcvars, filevars, ctlvars, world>>

Selected == command_catalog[selected_command + 1]

(* Mutant: a command that fails leaves the pane as it is. *)
OutputAsBefore == command_output

(* A command that fails or is too slow is named in the pane, too. *)
OutputOfFailure == Selected

(* An index out of range would be an IndexError. *)
PollCommand ==
    /\ At("command")
    /\ \/ command_catalog = <<>> /\ command_output' = NoRow /\ PollDone(0)
       \/ /\ command_catalog # <<>>
          /\ IF selected_command + 1 \in DOMAIN command_catalog
               THEN \/ command_output' = Selected /\ PollDone(0)
                    \/ command_output' = OutputOfFailure /\ (PollDone(0) \/ PollTooSlow)
               ELSE pc' = "crashed" /\ UNCHANGED <<stage, todo, say, timevars, command_output>>
    /\ UNCHANGED <<command_catalog, selected_command,
                   flashvars, grpcvars, filevars, ctlvars, world>>

PollStreams ==
    /\ At("streams")
    /\ PollDone(0) \/ PollTooSlow
    /\ UNCHANGED <<cmdvars, flashvars, grpcvars, filevars, ctlvars, world>>

-------------------------------------------------------------------------------
(* poll_grpc and adapters/grpc_health.sh *)

Serving == {e \in 1 .. Targets : endpoint[e] = "SERVING"}

(* What the script prints at once: the last row of every endpoint that has  *)
(* one in the fake file, or the targets as unknown.                         *)
RowsAtOnce ==
    CASE adapter = "fake"     -> [e \in listed |-> endpoint[e]]
      [] adapter = "fallback" -> [e \in listed |-> "UNKNOWN"]

(* Mutant: the table stays when the poll fails. *)
RowsAsBefore == grpc_rows

RowsOfFailure == <<>>

(* The poll of the endpoints returns after d. *)
GrpcDone(d, exit, rows) ==
    /\ code' = exit
    /\ grpc_rows' = rows
    /\ probed' = <<>>
    /\ spent' = 0
    /\ PollDone(d)
    /\ UNCHANGED <<cmdvars, flashvars, filevars, ctlvars, world>>

(* hawk-cmd runs the script, which finds rows to print, endpoints to probe, *)
(* or no targets file and exits with 1.                                     *)
PollGrpc ==
    /\ At("grpc")
    /\ asked' = listed
    /\ served' = Serving
    /\ \/ adapter \in {"fake", "fallback"} /\ GrpcDone(0, 0, RowsAtOnce)
       \/ adapter = "missing" /\ GrpcDone(0, 1, RowsOfFailure)
       \/ /\ adapter = "grpcurl"
          /\ pc' = "probe"
          /\ Stay
          /\ UNCHANGED <<code, grpc_rows, probed, spent,
                         cmdvars, flashvars, filevars, ctlvars, world>>

(* hawk-cmd does not start, fails, or hangs until its timeout: nothing that *)
(* it printed is used.                                                      *)
GrpcFails ==
    /\ At("grpc") \/ pc = "probe"
    /\ "grpc" \in scene.slow
    /\ GrpcDone(0, 1, RowsOfFailure) \/ GrpcDone(Limit - spent, 1, RowsOfFailure)
    /\ UNCHANGED <<asked, served>>

(* emit_from_grpcurl probes one endpoint after the other; a probe takes no  *)
(* time worth mentioning, or all it is given.                               *)
Probe(d) ==
    /\ pc = "probe"
    /\ Len(probed) < Targets
    /\ spent + d < Limit
    /\ probed' = Append(probed, endpoint[Len(probed) + 1])
    /\ spent' = spent + d
    /\ Pass(d)
    /\ UNCHANGED <<loopvars, grpc_rows, code, asked, served,
                   cmdvars, flashvars, filevars, ctlvars, world>>

(* Slow endpoints use up the time: the timeout kills hawk-cmd. *)
ProbesTooSlow(d) ==
    /\ pc = "probe"
    /\ Len(probed) < Targets
    /\ spent + d >= Limit
    /\ GrpcDone(Limit - spent, 1, RowsOfFailure)
    /\ UNCHANGED <<asked, served>>

ProbesDone ==
    /\ pc = "probe"
    /\ Len(probed) = Targets
    /\ GrpcDone(0, 0, probed)
    /\ UNCHANGED <<asked, served>>

-------------------------------------------------------------------------------
(* poll_logs_and_chat: one step per look at a file *)

Others == <<cmdvars, flashvars, grpcvars, ctlvars>>

(* A look at a file that leads on to another. *)
Look(here, next) ==
    /\ pc' = next
    /\ here
    /\ Stay
    /\ UNCHANGED <<Others, other, world>>

(* exists(): a file that is found there has not been removed since. *)
Finds(file, size) == removed' = IF size >= 0 THEN removed \ {file} ELSE removed

LookForLog ==
    /\ Look(At("log"), IF log >= 0 THEN "size" ELSE "tail")
    /\ Finds("log", log)
    /\ UNCHANGED <<logvars, chat>>

(* Mutant: the size is not kept. *)
SizeForgotten == log_size

SizeKept == log

StatSize ==
    /\ Look(pc = "size" /\ log >= 0, "mtime")
    /\ log_delta' = Max({0, log - log_size})
    /\ log_size' = SizeKept
    /\ growth' = growth + log_delta'
    /\ UNCHANGED <<log, written, removed, chat>>

StatTime == Look(pc = "mtime" /\ log >= 0, "tail") /\ UNCHANGED <<logvars, removed, chat>>

(* tail_lines looks for the log again, and opens it. *)
LookForTail ==
    /\ Look(pc = "tail", IF log >= 0 THEN "open" ELSE "chat")
    /\ Finds("log", log)
    /\ UNCHANGED <<logvars, chat>>

ReadTail == Look(pc = "open" /\ log >= 0, "chat") /\ UNCHANGED <<logvars, removed, chat>>

(* Nothing catches the FileNotFoundError of stat and open. *)
LogVanished ==
    /\ Look(pc \in {"size", "mtime", "open"} /\ log < 0, "crashed")
    /\ UNCHANGED <<logvars, removed, chat>>

(* Mutant: the notes file is made anew by every poll. *)
ChatAlways == TRUE

ChatMissing == chat < 0

LookForChat ==
    /\ Look(pc = "chat", IF ChatMissing THEN "create" ELSE "notes")
    /\ Finds("notes", chat)
    /\ UNCHANGED <<logvars, chat>>

(* write_text("") empties a file that has come into being meanwhile. *)
CreateChat ==
    /\ Look(pc = "create", "notes")
    /\ chat' = 0
    /\ removed' = removed \ {"notes"}
    /\ UNCHANGED logvars

(* tail_lines looks for the notes again: there are none to show, or it      *)
(* opens them.                                                              *)
LookForNotes ==
    /\ pc = "notes"
    /\ IF chat >= 0 THEN pc' = "read" /\ Stay ELSE PollDone(0)
    /\ Finds("notes", chat)
    /\ UNCHANGED <<Others, logvars, chat, other, world>>

ReadNotes ==
    /\ pc = "read" /\ chat >= 0
    /\ PollDone(0)
    /\ UNCHANGED <<Others, filevars, world>>

NotesVanished ==
    Look(pc = "read" /\ chat < 0, "crashed") /\ UNCHANGED <<logvars, removed, chat>>

PollLog ==
    \/ LookForLog \/ StatSize \/ StatTime \/ LookForTail \/ ReadTail \/ LogVanished
    \/ LookForChat \/ CreateChat \/ LookForNotes \/ ReadNotes \/ NotesVanished

-------------------------------------------------------------------------------
(* run_ui *)

(* A poll, if its interval has passed. *)
IfDue(p) == IF age[p] >= Every[p] THEN <<p>> ELSE <<>>

(* The polls that are due when periodic_poll reads the clock. *)
Due == IfDue("grpc") \o IfDue("streams") \o IfDue("command") \o IfDue("log")

(* The loop starts over once a handler is done: it reads the clock, and     *)
(* periodic_poll selects the polls that are due.  Nothing waits between the *)
(* setting of a message and that.                                           *)
PeriodicPoll ==
    /\ pc = "poll" /\ todo = <<>>
    /\ stage \in {"init", "first", "key"}
    /\ stage' = IF stage = "init" THEN "first" ELSE "round"
    /\ todo' = Due
    /\ since' = 0
    /\ flash' = (flash \/ say)
    /\ unseen' = (unseen \/ say)
    /\ flashLeft' = IF say THEN FlashFor ELSE flashLeft
    /\ expired' = (flashLeft' < 0)
    /\ say' = FALSE
    /\ UNCHANGED <<pc, age, cmdvars, grpcvars, filevars, ctlvars, world>>

(* Mutant: the clock is read again before the message is dropped. *)
MessageOverByNow == flashLeft < 0

MessageOver == expired

Draw ==
    /\ pc = "poll" /\ todo = <<>> /\ stage = "round"
    /\ pc' = "key"
    /\ flash' = (flash /\ ~MessageOver)
    /\ unseen' = (unseen /\ ~flash')
    /\ UNCHANGED <<stage, todo, say, timevars, expired, cmdvars, grpcvars, filevars, ctlvars, world>>

(* run_check prints what was polled. *)
CheckEnds ==
    /\ pc = "poll" /\ todo = <<>> /\ stage = "check"
    /\ pc' = "end"
    /\ UNCHANGED <<stage, todo, say, timevars, Others, filevars, world>>

NoKey ==
    /\ pc = "key"
    /\ pc' = "poll"
    /\ stage' = "key"
    /\ Pass(1)
    /\ UNCHANGED <<todo, say, Others, filevars, world>>

(* A key whose handler runs these polls and sets a message or does not. *)
Key(name, place, polls, message) ==
    /\ pc = "key"
    /\ name \in scene.keys
    /\ keys < scene.maxKeys
    /\ keys' = keys + 1
    /\ pc' = place
    /\ stage' = "key"
    /\ todo' = polls
    /\ say' = message
    /\ UNCHANGED <<timevars, flashvars, grpcvars, filevars,
                   scene, adapter, endpoint, listed, events>>

KeyQuit == Key("q", "end", <<>>, FALSE) /\ UNCHANGED <<cmdvars, ctlvars>>
KeyEnter == Key("enter", "poll", <<"command">>, TRUE) /\ UNCHANGED <<cmdvars, ctlvars>>
KeyRefresh == Key("r", "poll", AllPolls, TRUE) /\ UNCHANGED <<cmdvars, ctlvars>>
KeyNote == Key("m", "prompt", <<>>, FALSE) /\ UNCHANGED <<cmdvars, ctlvars>>

(* Mutant: the selection does not wrap. *)
MovedStraight(step) == Max({0, selected_command + step})

Moved(step) == (selected_command + step) % Len(command_catalog)

(* "[" and "]" do nothing without a catalog. *)
KeySelect(step) ==
    /\ Key("select", "poll", <<>>, command_catalog # <<>>)
    /\ selected_command' = IF command_catalog = <<>> THEN selected_command ELSE Moved(step)
    /\ UNCHANGED <<command_catalog, command_output, ctlvars>>

(* The prompt waits for the operator; append_chat makes the file if need be.*)
Prompt ==
    /\ pc = "prompt"
    /\ pc' = "poll"
    /\ say' = TRUE
    /\ Pass(0) \/ ("prompt" \in scene.slow /\ Pass(Limit))
    /\ \/ todo' = <<"log">> /\ chat' = Max({chat, 0}) + 1 /\ removed' = removed \ {"notes"}
       \/ todo' = <<>> /\ UNCHANGED <<chat, removed>>
    /\ UNCHANGED <<stage, Others, logvars, other, world>>
-------------------------------------------------------------------------------
(* daemon_action and adapters/daemon_ctl.sh *)

(* a, z, e, h and u *)
KeyDaemon(action) ==
    /\ Key(action, "ctl", <<>>, FALSE)
    /\ ctl' = [action |-> action, scope |-> "system", verdict |-> "running"]
    /\ effects' = {}
    /\ UNCHANGED <<unit, job, cmdvars>>

Verdict(v, d) ==
    /\ ctl' = [ctl EXCEPT !.verdict = v]
    /\ pc' = "poll"
    /\ Pass(d)
    /\ UNCHANGED <<stage, todo, say, cmdvars, flashvars, grpcvars, filevars, world>>

After(action) == IF action = "stop" THEN "down" ELSE "up"

(* health and status exit with 0 whatever systemctl says. *)
CtlAnswers ==
    /\ pc = "ctl" /\ ctl.action \in Asking
    /\ Verdict("ok", 0) \/ Verdict("timed out", Limit)
    /\ UNCHANGED <<unit, effects, job>>

(* The script goes on to the user scope. *)
NextScope ==
    /\ ctl.scope = "system"
    /\ ctl' = [ctl EXCEPT !.scope = "user"]
    /\ UNCHANGED <<loopvars, timevars, cmdvars, flashvars, grpcvars, filevars, world>>

(* Mutant: it does so after a success. *)
SuccessUnnoticed == IF ctl.scope = "user" THEN Verdict("ok", 0) ELSE NextScope

Success == Verdict("ok", 0)

(* systemctl succeeds, and takes the place of what was still to be done. *)
CtlWorks ==
    /\ pc = "ctl" /\ ctl.action \in Changing
    /\ unit[ctl.scope] # "absent"
    /\ unit' = [unit EXCEPT ![ctl.scope] = After(ctl.action)]
    /\ job' = [job EXCEPT ![ctl.scope] = "none"]
    /\ effects' = effects \cup {ctl.scope}
    /\ Success

(* A restart may have stopped the unit before it fails. *)
Stopped == ctl.action = "restart" /\ unit[ctl.scope] = "up"

(* It fails, or there is no systemctl. *)
CtlRefused ==
    /\ pc = "ctl" /\ ctl.action \in Changing
    /\ NextScope \/ (ctl.scope = "user" /\ Verdict("failed", 0))
    /\ UNCHANGED unit \/ (Stopped /\ unit' = [unit EXCEPT ![ctl.scope] = "down"])
    /\ UNCHANGED <<effects, job>>

(* It waits for systemd until the timeout kills the script: systemd is not  *)
(* told, and may finish later.                                              *)
CtlTimesOut ==
    /\ pc = "ctl" /\ ctl.action \in Changing
    /\ unit[ctl.scope] # "absent"
    /\ job' = [job EXCEPT ![ctl.scope] = ctl.action]
    /\ Verdict("timed out", Limit)
    /\ UNCHANGED <<unit, effects>>

Daemon == CtlAnswers \/ CtlWorks \/ CtlRefused \/ CtlTimesOut

-------------------------------------------------------------------------------
(* Everybody else *)

Console == <<loopvars, timevars, flashvars, cmdvars>>

JobFinishes(s) ==
    /\ job[s] # "none"
    /\ unit' = [unit EXCEPT ![s] = After(job[s])]
    /\ job' = [job EXCEPT ![s] = "none"]
    /\ effects' = IF ctl.verdict = "timed out" /\ ctl.action \in Changing /\ ctl.scope = s
                    THEN effects \cup {s} ELSE effects
    /\ UNCHANGED <<ctl, Console, grpcvars, filevars, world>>

Event(name) ==
    /\ name \in scene.events
    /\ events < scene.maxEvents
    /\ events' = events + 1

(* Something becomes of a file. *)
FileEvent(name) ==
    /\ Event(name)
    /\ UNCHANGED <<Console, grpcvars, ctlvars, other, scene, adapter, endpoint, listed, keys>>

LogGrows ==
    /\ FileEvent("log")
    /\ log' = Max({log, 0}) + 1
    /\ written' = written + 1
    /\ UNCHANGED <<log_size, log_delta, growth, removed, chat>>

(* The log is emptied (init_fake_env.sh), or moved away. *)
LogRotates ==
    /\ FileEvent("log")
    /\ log >= 0
    /\ log' \in {-1, 0}
    /\ removed' = IF log' < 0 THEN removed \cup {"log"} ELSE removed
    /\ UNCHANGED <<log_size, log_delta, written, growth, chat>>

(* So are the notes. *)
NotesRotate ==
    /\ FileEvent("notes")
    /\ chat >= 0
    /\ chat' \in {-1, 0}
    /\ removed' = IF chat' < 0 THEN removed \cup {"notes"} ELSE removed
    /\ UNCHANGED logvars

(* A second console appends a note; this makes the file if need be. *)
OtherNotes ==
    /\ FileEvent("notes")
    /\ other = "up"
    /\ chat' = Max({chat, 0}) + 1
    /\ UNCHANGED <<logvars, removed>>

(* It polls the notes file by the same code, when it starts and later on. *)
OtherLooks ==
    /\ "notes" \in scene.events
    /\ other \in {"off", "up"}
    /\ other' = IF chat < 0 THEN "missing" ELSE "up"
    /\ UNCHANGED <<Console, grpcvars, logvars, removed, chat, ctlvars, world>>

OtherCreates ==
    /\ other = "missing"
    /\ other' = "up"
    /\ chat' = 0
    /\ UNCHANGED <<Console, grpcvars, logvars, removed, ctlvars, world>>

(* The endpoint has another status, or gets a new row in the fake file. *)
EndpointChanges(e, status) ==
    /\ Event("endpoint")
    /\ endpoint[e] # status \/ e \notin listed
    /\ endpoint' = [endpoint EXCEPT ![e] = status]
    /\ listed' = listed \cup {e}
    /\ served' = IF pc = "probe" /\ status = "SERVING" THEN served \cup {e} ELSE served
    /\ UNCHANGED <<probed, spent, grpc_rows, code, asked, Console, filevars, ctlvars,
                   scene, adapter, keys>>

(* init_fake_env.sh empties the fake file, and then fills it. *)
FakeFileMade ==
    /\ Event("endpoint")
    /\ adapter = "fake"
    /\ listed' \in {{}, 1 .. Targets}
    /\ UNCHANGED <<Console, grpcvars, filevars, ctlvars, scene, adapter, endpoint, keys>>

World ==
    \/ \E s \in Scopes : JobFinishes(s)
    \/ LogGrows \/ LogRotates \/ NotesRotate
    \/ OtherLooks \/ OtherCreates \/ OtherNotes
    \/ \E e \in 1 .. Targets, status \in Statuses : EndpointChanges(e, status)
    \/ FakeFileMade

-------------------------------------------------------------------------------
Loop ==
    \/ PollCatalog \/ PollCommand \/ PollStreams
    \/ PollGrpc \/ GrpcFails \/ ProbesDone
    \/ \E d \in {0, ProbeTime} : Probe(d) \/ ProbesTooSlow(d)
    \/ PollLog
    \/ PeriodicPoll \/ Draw \/ CheckEnds \/ NoKey
    \/ Daemon

Operator ==
    \/ KeyQuit \/ KeyEnter \/ KeyRefresh \/ KeyNote
    \/ \E step \in {-1, 1} : KeySelect(step)
    \/ \E action \in Changing \cup Asking : KeyDaemon(action)
    \/ Prompt

CNext == Loop \/ Operator \/ World

CSpec == CInit /\ [][CNext]_cvars

(* The thread is scheduled, and every wait of it but the prompt's ends. *)
CFairSpec == CSpec /\ WF_cvars(Loop)
-------------------------------------------------------------------------------
(* Properties *)

(* Type invariant of the console: its selection is one of the catalog, or 0, *)
(* its timers are within their intervals, and it probes only in a poll.      *)
CTypeOK ==
    /\ pc \in {"poll", "probe", "size", "mtime", "tail", "open", "chat", "create", "notes",
               "read", "key", "prompt", "ctl", "end", "crashed"}
    /\ stage \in {"init", "first", "round", "key", "check"}
    /\ todo \in Seq(Range(AllPolls))
    /\ \A p \in Timed : age[p] \in 0 .. Every[p]
    /\ flashLeft \in -1 .. FlashFor
    /\ {flash, expired, say, unseen} \subseteq BOOLEAN
    /\ removed \subseteq {"log", "notes"}
    /\ command_catalog \in scene.catalogs \cup {<<>>}
    /\ selected_command \in 0 .. Max({0, Len(command_catalog) - 1})
    /\ pc # "probe" => probed = <<>>
    /\ spent \in 0 .. Limit
    /\ log >= -1 /\ chat >= -1
    /\ unit \in [Scopes -> {"absent", "up", "down"}]
    /\ job \in [Scopes -> Changing \cup {"none"}]
    /\ \A s \in Scopes : unit[s] = "absent" => job[s] = "none"

(* Whatever becomes of the catalog while commands are selected and run, no  *)
(* index is out of range: the console crashes only when the log, or the     *)
(* notes, are removed between a look that finds them and their use, which   *)
(* nothing catches (poll_command, poll_logs_and_chat, tail_lines).          *)
CrashOnlyByRemoval ==
    [][pc' = "crashed" /\ pc # "crashed" =>
          \/ pc \in {"size", "mtime", "open"} /\ "log" \in removed
          \/ pc = "read" /\ "notes" \in removed]_cvars

(* What the console calls the growth of the log adds up to no more than was *)
(* written, also when the log is emptied or replaced between two polls, and *)
(* to no less than the size it shows (poll_logs_and_chat).                  *)
GrowthIsReal == log_size <= growth /\ growth <= written

(* Apart from somebody else who empties or removes the file, notes are lost *)
(* only to a console that found none and makes the file, over one that has  *)
(* come into being meanwhile; and this happens to a console only when it    *)
(* starts, or after the file has been removed since it last found it there  *)
(* (exists and write_text in poll_logs_and_chat).                           *)
NotesOutliveStart ==
    [][chat' < chat =>
          \/ UNCHANGED <<pc, other>>
          \/ other = "missing" /\ other' = "up"
          \/ pc = "create" /\ (stage \in {"first", "check"} \/ "notes" \in removed)]_cvars

OnScreen == pc \in {"key", "prompt"} \/ (stage = "check" /\ pc = "end")

(* The table has exactly the endpoints that were listed when it was last    *)
(* polled, or is empty if hawk-cmd failed or took too long: it is never cut *)
(* short, nor left over from an earlier poll.  It shows no endpoint as      *)
(* serving that did not serve during that poll (poll_grpc, run_capture,     *)
(* emit_from_grpcurl).                                                      *)
TableHonest ==
    OnScreen =>
        /\ DOMAIN grpc_rows = IF code = 0 THEN asked ELSE {}
        /\ \A e \in DOMAIN grpc_rows : grpc_rows[e] = "SERVING" => e \in served

(* A message is drawn at least once, however long the polls before the next *)
(* drawing take (flash_until in run_ui).                                    *)
MessageSeen == pc = "key" => ~unseen

(* An action reported as ok was carried out in one scope, one that failed   *)
(* in none; only after a timeout may the report be wrong, as systemd may    *)
(* finish what the console has given up (daemon_action, daemon_ctl.sh).     *)
VerdictSound ==
    /\ ctl.action \in Asking => effects = {}
    /\ ctl.verdict = "ok" /\ ctl.action \in Changing => effects = {ctl.scope}
    /\ ctl.verdict = "failed" => effects = {}
    /\ ctl.verdict = "timed out" => effects \subseteq {ctl.scope}

Wanted == IF command_catalog = <<>> THEN NoRow ELSE Selected

(* Once the operator leaves the keys alone, the pane titled SELECTED OUTPUT *)
(* ends up with the output of the command that is selected, also if it was  *)
(* selected, or the catalog read again, while others were running.          *)
OutputCatchesUp ==
    <>[](pc \in {"prompt", "end", "crashed"} \/ command_output = Wanted)
===============================================================================
