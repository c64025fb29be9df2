------------------------------ MODULE PackDoctor -------------------------------
(***************************************************************************)
(* hawk's commands on packs (run_pack_cmd and run_doctor of main.rs), the  *)
(* start of a transform in main, and the pack doctor of                    *)
(* crates/hawk/src/doctor.rs with the awk process of its smoke test.       *)
(*                                                                         *)
(* A script is what its static checks see of it and how awk behaves when   *)
(* it runs it: awk prints some lines first, then, if it reads its input at *)
(* all, some more for every line read, and ends with a status, or never.   *)
(* Somebody may remove scripts while hawk looks at them.                   *)
(***************************************************************************)
EXTENDS Packs

CONSTANTS
    Disks,          \* the packs directories considered
    Commands,       \* the command lines considered
    PipeCap,        \* bound: lines awk's output pipe holds
    MaxRemovals     \* bound: scripts removed meanwhile

(* The sample fits into awk's input pipe (64 KiB), so that writing it never *)
(* waits for awk.                                                           *)
SampleLines == 3

(* A line that awk prints, by its columns: "" empty, "ts" a timestamp, "#"  *)
(* the start of a comment, "x" anything else.                               *)
PrintedLine == Seq({"", "ts", "#", "x"})

IsProgram(program) ==
    /\ {program.begin, program.each} \subseteq Seq(PrintedLine)
    /\ program.reads \in BOOLEAN
    /\ program.status \in {"ok", "failed", "never"}

IsDisk(d) ==
    /\ d.dir \in {"missing", "unreadable", "entry unreadable", "ok"}
    /\ d.packs \in Seq(Range(d.packs))
    /\ d.dir \in {"missing", "unreadable"} => d.packs = <<>>
    /\ \A p \in DOMAIN d.packs : d.packs[p].threads \in Seq(Range(d.packs[p].threads))
    /\ \A pt \in Places(d.packs) :
          /\ ThreadAt(d.packs, pt).args \in Seq(Range(ThreadAt(d.packs, pt).args))
          /\ ThreadAt(d.packs, pt).script.risk \in {"none", "getline", "denied"}
          /\ IsProgram(ThreadAt(d.packs, pt).script.program)

ASSUME DoctorAssumption ==
    /\ PipeCap \in Nat \ {0}
    /\ MaxRemovals \in Nat
    /\ \A d \in Disks : IsDisk(d)

VARIABLES
    cli,        \* the command line
    disk,       \* the packs directory: what it is, and its packs
    gone,       \* threads whose script is not there
    removals,   \* number of scripts removed since hawk started
    pc,         \* where hawk is
    at,         \* the place <<p, t>> of the thread looked at
    seen,       \* seen_thread_ids
    errors,     \* rep.errors, as a set of <<what, place>>
    warnings,   \* rep.warnings
    exit,       \* "running", "tui", or the exit status 0, 1, 2 as text
    wrote,      \* lines of the sample written to awk
    closed,     \* awk's stdin has been dropped
    feed,       \* awk's stdin: lines not read yet
    awk,        \* "off", "run", "ok", "failed"
    prog,       \* the script awk has loaded
    todo,       \* lines awk is about to print
    pipe,       \* awk's stdout
    out,        \* what the doctor has read of it
    absent      \* history: threads whose script was missing at its smoke test

report == <<seen, errors, warnings>>
smoke == <<wrote, closed, feed, awk, prog, todo, pipe, out>>
dvars == <<cli, disk, gone, removals, pc, at, report, exit, smoke, absent>>

(* awk -f without a file to read. *)
NoScript == [begin |-> <<>>, reads |-> FALSE, each |-> <<>>, status |-> "failed"]

DInit ==
    /\ cli \in Commands
    /\ disk \in Disks
    /\ gone \in {{}} \cup {{pt} : pt \in Listed(disk)}
    /\ removals = 0
    /\ pc = "start"
    /\ at = <<0, 0>>
    /\ seen = {} /\ errors = {} /\ warnings = {}
    /\ exit = "running"
    /\ wrote = 0 /\ closed = FALSE /\ feed = 0
    /\ awk = "off" /\ prog = NoScript
    /\ todo = <<>> /\ pipe = <<>> /\ out = <<>>
    /\ absent = {}

Thread == ThreadAt(disk.packs, at)
Script == Thread.script
Gone == at \in gone

RemoveScript(pt) ==
    /\ exit = "running"
    /\ removals < MaxRemovals
    /\ gone' = gone \cup {pt}
    /\ removals' = removals + 1
    /\ UNCHANGED <<cli, disk, pc, at, report, exit, smoke, absent>>

-------------------------------------------------------------------------------
(* The commands *)

Goto(place) == pc' = place /\ UNCHANGED exit
Leave(status) == pc' = "end" /\ exit' = status

(* All but "hawk pack-doctor" load the packs first.  An Err from main is    *)
(* exit status 1.                                                           *)
StartCommand ==
    /\ pc = "start"
    /\ IF cli.cmd # "pack-doctor" /\ ~LoadOk(disk, gone) THEN Leave("1")
       ELSE \/ cli.cmd = "pack list" /\ Leave("0")
            \/ /\ cli.cmd = "pack show"
               /\ Leave(IF cli.target \in DOMAIN load_packs(disk) THEN "0" ELSE "1")
            \/ cli.cmd \in {"pack doctor", "pack-doctor"} /\ Goto("doctor")
            \/ cli.cmd = "run" /\ Goto("transform")
    /\ UNCHANGED <<cli, disk, gone, removals, at, report, smoke, absent>>

(* main with --transform, up to AwkRunner::spawn, which looks for the       *)
(* script once more.                                                        *)
StartTransform ==
    /\ pc = "transform"
    /\ LET option == cli.transform
           started == \/ option.mode = "none"
                      \/ /\ parse_transform(option)
                         /\ option.mode = "thread" =>
                               /\ ThreadResolves(disk, option.target, cli.tvars)
                               /\ load_packs(disk)[Trim(option.target)] \notin gone
       IN  Leave(IF started THEN "tui" ELSE "1")
    /\ UNCHANGED <<cli, disk, gone, removals, at, report, smoke, absent>>

RunDoctor ==
    /\ pc = "doctor"
    /\ IF cli.security \in {"strict", "warn", "off"} THEN Goto("open") ELSE Leave("1")
    /\ UNCHANGED <<cli, disk, gone, removals, at, report, smoke, absent>>

-------------------------------------------------------------------------------
(* run_pack_doctor *)

Note(what) == {<<what, at>>}

(* A directory that is missing is a warning, one that cannot be read an     *)
(* error; entries that cannot be read are passed over.                      *)
OpenPacks ==
    /\ pc = "open"
    /\ warnings' = IF disk.dir = "missing" THEN Note("dir missing") ELSE {}
    /\ errors' = IF disk.dir = "unreadable" THEN Note("dir unreadable") ELSE {}
    /\ pc' = IF disk.dir \in {"ok", "entry unreadable"} THEN "pack" ELSE "report"
    /\ UNCHANGED <<cli, disk, gone, removals, at, seen, exit, smoke, absent>>

(* Mutant: the doctor gives up at the first pack that does not parse. *)
NextPackOrGiveUp ==
    /\ pc = "pack"
    /\ LET p == at[1] + 1 IN
          \/ p > Len(disk.packs) /\ pc' = "report" /\ UNCHANGED <<at, errors, warnings>>
          \/ /\ p <= Len(disk.packs)
             /\ at' = <<p, 0>>
             /\ pc' = IF parse_pack_manifest(disk.packs, p, gone) THEN "thread" ELSE "report"
             /\ errors' = IF pc' = "report" /\ disk.packs[p].manifest # "missing"
                          THEN errors \cup {<<"parse", at'>>} ELSE errors
             /\ UNCHANGED warnings
    /\ UNCHANGED <<cli, disk, gone, removals, seen, exit, smoke, absent>>

NextPack ==
    /\ pc = "pack"
    /\ LET p == at[1] + 1
           manifest == disk.packs[p].manifest
           parsed == parse_pack_manifest(disk.packs, p, gone)
       IN  \/ /\ p > Len(disk.packs)
              /\ pc' = "report"
              /\ UNCHANGED <<at, errors, warnings>>
           \/ /\ p <= Len(disk.packs)
              /\ at' = <<p, 0>>
              /\ pc' = IF manifest # "missing" /\ parsed THEN "thread" ELSE "pack"
              /\ errors' = IF manifest # "missing" /\ ~parsed
                           THEN errors \cup {<<"parse", at'>>} ELSE errors
              /\ warnings' = IF pc' = "thread" /\ disk.packs[p].threads = <<>>
                             THEN warnings \cup {<<"no threads", at'>>} ELSE warnings
    /\ UNCHANGED <<cli, disk, gone, removals, seen, exit, smoke, absent>>

(* Mutant: ids are compared within a pack only. *)
NextThreadForgetting ==
    /\ pc = "thread"
    /\ LET pt == <<at[1], at[2] + 1>> IN
          \/ pt \notin Listed(disk) /\ pc' = "pack" /\ seen' = {} /\ UNCHANGED <<at, errors>>
          \/ /\ pt \in Listed(disk)
             /\ at' = pt
             /\ seen' = seen \cup {IdAt(disk.packs, pt)}
             /\ errors' = errors \cup {<<what, pt>> : what \in
                    {w \in {"collision", "missing"} :
                        \/ w = "collision" /\ IdAt(disk.packs, pt) \in seen
                        \/ w = "missing" /\ pt \in gone}}
             /\ pc' = IF pt \in gone THEN "thread" ELSE "style"
    /\ UNCHANGED <<cli, disk, gone, removals, warnings, exit, smoke, absent>>

(* The id, and whether the script (still) exists. *)
NextThread ==
    /\ pc = "thread"
    /\ LET pt == <<at[1], at[2] + 1>> IN
          \/ pt \notin Listed(disk) /\ pc' = "pack" /\ UNCHANGED <<at, seen, errors>>
          \/ /\ pt \in Listed(disk)
             /\ at' = pt
             /\ seen' = seen \cup {IdAt(disk.packs, pt)}
             /\ errors' = errors \cup {<<what, pt>> : what \in
                    {w \in {"collision", "missing"} :
                        \/ w = "collision" /\ IdAt(disk.packs, pt) \in seen
                        \/ w = "missing" /\ pt \in gone}}
             /\ pc' = IF pt \in gone THEN "thread" ELSE "style"
    /\ UNCHANGED <<cli, disk, gone, removals, warnings, exit, smoke, absent>>

check_header_and_terminator ==
    /\ pc = "style"
    /\ pc' = "schema"
    /\ warnings' = IF Gone \/ ~Script.header \/ ~Script.terminator
                   THEN warnings \cup Note("style") ELSE warnings
    /\ UNCHANGED <<cli, disk, gone, removals, at, seen, errors, exit, smoke, absent>>

(* Whether contains_word finds an argument's name outside comments. *)
scan_declared_arg_usage ==
    /\ pc = "schema"
    /\ pc' = "security"
    /\ warnings' = IF /\ Thread.args # <<>>
                      /\ Gone \/ ~(ArgNames(Thread.args) \subseteq Script.words)
                   THEN warnings \cup Note("schema") ELSE warnings
    /\ UNCHANGED <<cli, disk, gone, removals, at, seen, errors, exit, smoke, absent>>

(* The severity of what the scan finds in the script: "none" is for no      *)
(* findings; reading a file by getline counts by mode, all else is an       *)
(* error.  A script that cannot be read is an error unless the scan is off. *)
FindingSeverity ==
    CASE cli.security = "off" -> "none"
      [] cli.security # "off" /\ Gone -> "error"
      [] cli.security # "off" /\ ~Gone ->
            CASE Script.risk = "none" -> "none"
              [] Script.risk = "getline" -> IF cli.security = "strict" THEN "error" ELSE "warning"
              [] Script.risk = "denied" -> "error"

security_scan_awk ==
    /\ pc = "security"
    /\ pc' = "spawn"
    /\ errors' = IF FindingSeverity = "error" THEN errors \cup Note("security") ELSE errors
    /\ warnings' = IF FindingSeverity = "warning" THEN warnings \cup Note("security") ELSE warnings
    /\ UNCHANGED <<cli, disk, gone, removals, at, seen, exit, smoke, absent>>

-------------------------------------------------------------------------------
(* smoke_test_awk.  --smoke is on by default and cannot be turned off.      *)

(* awk starts with the script, if it finds it. *)
SmokeSpawn ==
    /\ pc = "spawn"
    /\ pc' = "write"
    /\ wrote' = 0 /\ closed' = FALSE /\ feed' = 0
    /\ awk' = "run"
    /\ prog' = IF Gone THEN NoScript ELSE Script.program
    /\ todo' = prog'.begin
    /\ pipe' = <<>> /\ out' = <<>>
    /\ absent' = IF Gone THEN absent \cup {at} ELSE absent
    /\ UNCHANGED <<cli, disk, gone, removals, at, report, exit>>

SmokeError ==
    /\ errors' = errors \cup Note("smoke")
    /\ pc' = "thread"

(* One line of the sample; an awk that has ended breaks the pipe. *)
SmokeWrite ==
    /\ pc = "write"
    /\ wrote < SampleLines
    /\ \/ /\ awk = "run"
          /\ wrote' = wrote + 1
          /\ feed' = feed + 1
          /\ UNCHANGED <<pc, errors>>
       \/ /\ awk # "run"
          /\ SmokeError
          /\ UNCHANGED <<wrote, feed>>
    /\ UNCHANGED <<cli, disk, gone, removals, at, seen, warnings, exit, closed, awk, prog, todo, pipe, out, absent>>

(* Mutant: stdin is still open when the output is read. *)
SmokeCloseNot ==
    /\ pc = "write"
    /\ wrote = SampleLines
    /\ pc' = "read"
    /\ UNCHANGED <<cli, disk, gone, removals, at, report, exit, smoke, absent>>

(* drop(stdin) *)
SmokeClose ==
    /\ pc = "write"
    /\ wrote = SampleLines
    /\ closed' = TRUE
    /\ pc' = "read"
    /\ UNCHANGED <<cli, disk, gone, removals, at, report, exit, wrote, feed, awk, prog, todo, pipe, out, absent>>

(* read_to_string, until awk has ended and its pipe is empty. *)
SmokeRead ==
    /\ pc = "read"
    /\ pipe # <<>>
    /\ out' = Append(out, Head(pipe))
    /\ pipe' = Tail(pipe)
    /\ UNCHANGED <<cli, disk, gone, removals, pc, at, report, exit, wrote, closed, feed, awk, prog, todo, absent>>

(* str::trim takes TABs away too, and with them empty columns at either end. *)
TrimLine(line) ==
    LET ink == {i \in DOMAIN line : line[i] # ""}
    IN  IF ink = {} THEN <<>> ELSE SubSeq(line, Min(ink), Max(ink))

(* What HawkFrame::parse_tsv_line returns an Err for, see HawkFrame. *)
Refused(line) ==
    /\ TrimLine(line) # <<>> /\ TrimLine(line)[1] # "#"
    /\ Len(line) < 7 \/ line[1] \notin {"", "ts"}

(* Mutant: awk's status is not looked at. *)
SmokeOkUnwaited == \A i \in DOMAIN out : ~Refused(TrimLine(out[i]))

(* awk's status, then its lines. *)
SmokeOk ==
    /\ awk = "ok"
    /\ \A i \in DOMAIN out : ~Refused(TrimLine(out[i]))

SmokeJudge ==
    /\ pc = "read"
    /\ pipe = <<>> /\ awk # "run"
    /\ IF SmokeOk THEN pc' = "thread" /\ UNCHANGED errors ELSE SmokeError
    /\ UNCHANGED <<cli, disk, gone, removals, at, seen, warnings, exit, smoke, absent>>

AwkPrints ==
    /\ awk = "run"
    /\ todo # <<>>
    /\ Len(pipe) < PipeCap
    /\ pipe' = Append(pipe, Head(todo))
    /\ todo' = Tail(todo)
    /\ UNCHANGED <<cli, disk, gone, removals, pc, at, report, exit, wrote, closed, feed, awk, prog, out, absent>>

AwkReads ==
    /\ awk = "run"
    /\ todo = <<>> /\ prog.reads
    /\ feed > 0
    /\ feed' = feed - 1
    /\ todo' = prog.each
    /\ UNCHANGED <<cli, disk, gone, removals, pc, at, report, exit, wrote, closed, awk, prog, pipe, out, absent>>

AwkEnds ==
    /\ awk = "run"
    /\ todo = <<>> /\ prog.status # "never"
    /\ prog.reads => feed = 0 /\ closed
    /\ awk' = prog.status
    /\ UNCHANGED <<cli, disk, gone, removals, pc, at, report, exit, wrote, closed, feed, prog, todo, pipe, out, absent>>

-------------------------------------------------------------------------------
(* run_doctor prints the report; errors are exit status 2. *)
Report ==
    /\ pc = "report"
    /\ Leave(IF errors = {} THEN "0" ELSE "2")
    /\ UNCHANGED <<cli, disk, gone, removals, at, report, smoke, absent>>

Doctor ==
    \/ StartCommand \/ StartTransform \/ RunDoctor \/ OpenPacks \/ NextPack \/ NextThread
    \/ check_header_and_terminator \/ scan_declared_arg_usage \/ security_scan_awk
    \/ SmokeSpawn \/ SmokeWrite \/ SmokeClose \/ SmokeRead \/ SmokeJudge \/ Report

Awk == AwkPrints \/ AwkReads \/ AwkEnds

DNext == Doctor \/ Awk \/ \E pt \in Listed(disk) : RemoveScript(pt)

DSpec == DInit /\ [][DNext]_dvars

(* hawk and awk are scheduled. *)
DFairSpec == DSpec /\ WF_dvars(Doctor) /\ WF_dvars(Awk)

-------------------------------------------------------------------------------
(* Properties *)

(* Type invariant of the doctor: awk runs only while its own smoke test is   *)
(* under way and is never left behind, and both pipes keep to their size.    *)
DTypeOK ==
    /\ pc \in {"start", "transform", "doctor", "open", "pack", "thread", "style", "schema",
               "security", "spawn", "write", "read", "report", "end"}
    /\ exit \in {"running", "tui", "0", "1", "2"}
    /\ exit # "running" <=> pc = "end"
    /\ awk \in {"off", "run", "ok", "failed"}
    /\ awk = "run" => pc \in {"write", "read"}
    /\ feed <= wrote /\ wrote <= SampleLines
    /\ Len(pipe) <= PipeCap

Reported == cli.cmd \in {"pack doctor", "pack-doctor"} /\ exit \in {"0", "2"}

(* Places of the threads of the packs that parse. *)
Examined ==
    {pt \in Listed(disk) : /\ disk.dir \in {"ok", "entry unreadable"}
                           /\ parse_pack_manifest(disk.packs, pt[1], gone)}

EarlierPlace(a, b) == a[1] < b[1] \/ (a[1] = b[1] /\ a[2] < b[2])

(* All a program prints for the sample. *)
Printed(program) ==
    program.begin
        \o (IF program.reads THEN program.each \o program.each \o program.each ELSE <<>>)

SmokeFails(program) ==
    \/ program.status = "failed"
    \/ \E i \in DOMAIN Printed(program) : Refused(TrimLine(Printed(program)[i]))

ProgramAt(pt) == ThreadAt(disk.packs, pt).script.program
RiskAt(pt) == ThreadAt(disk.packs, pt).script.risk

(* The errors there are to report. *)
DueErrors ==
    {<<"dir unreadable", <<0, 0>>>> : d \in {disk.dir} \cap {"unreadable"}}
    \cup {<<"parse", <<p, 0>>>> : p \in
            {q \in DOMAIN disk.packs : /\ disk.dir \in {"ok", "entry unreadable"}
                                       /\ disk.packs[q].manifest # "missing"
                                       /\ ~parse_pack_manifest(disk.packs, q, gone)}}
    \cup {<<"collision", pt>> : pt \in
            {b \in Examined : \E a \in Examined : EarlierPlace(a, b)
                                  /\ IdAt(disk.packs, a) = IdAt(disk.packs, b)}}
    \cup {<<"security", pt>> : pt \in
            {b \in Examined : \/ RiskAt(b) = "denied" /\ cli.security # "off"
                              \/ RiskAt(b) = "getline" /\ cli.security = "strict"}}
    \cup {<<"smoke", pt>> : pt \in {b \in Examined : SmokeFails(ProgramAt(b))}}

(* If nobody touches the scripts meanwhile, the doctor reports exactly the  *)
(* errors there are, however early it meets the first; only of a script     *)
(* that does not read its input it is left to chance (awk may end before or *)
(* after the sample is written) whether it fails the smoke test.            *)
DoctorVerdict ==
    Reported /\ removals = 0 =>
        /\ DueErrors \subseteq errors
        /\ errors \subseteq DueErrors \cup {<<"smoke", pt>> : pt \in
                {b \in Examined : ~ProgramAt(b).reads}}

(* Packs that the doctor passes can be loaded: its own checks are as strict *)
(* as load_packs, except that it passes over an unreadable entry.           *)
DoctorOkLoads ==
    Reported /\ exit = "0" /\ removals = 0 /\ disk.dir # "entry unreadable"
        => LoadOk(disk, gone)

(* A script removed while the doctor is at work does not pass: if it is     *)
(* missing when its smoke test starts, there is an error for it.            *)
VanishedReported ==
    \A pt \in absent :
        at # pt \/ pc \in {"thread", "pack", "report", "end"} => <<"smoke", pt>> \in errors

(* An argument whose default passes validate_arg_default, not validate_tvars. *)
NoDefault(a) ==
    \/ a.ty = "int" /\ toml_value_to_string(a.default) \in {"", "blank"}
    \/ a.ty = "bool" /\ toml_value_to_string(a.default) = ""

(* hawk starts with a thread of packs that load, and its defaults, unless   *)
(* the thread has an int or bool argument without one, its id has blanks    *)
(* around it, or its script goes away in between.                           *)
LoadedThreadStarts ==
    cli.cmd = "run" /\ exit = "1" /\ cli.tvars = <<>> /\ LoadOk(disk, gone) =>
        \A pt \in Listed(disk) :
            IdAt(disk.packs, pt) = cli.transform.target /\ cli.transform.mode = "thread" =>
                \/ \E i \in DOMAIN ThreadAt(disk.packs, pt).args :
                        NoDefault(ThreadAt(disk.packs, pt).args[i])
                \/ Trim(IdAt(disk.packs, pt)) # IdAt(disk.packs, pt)

AllScriptsEnd == \A pt \in Listed(disk) : ProgramAt(pt).status # "never"

(* Unless a script loops for ever, every command comes to an end: the       *)
(* doctor and awk never wait for each other, however much awk prints before *)
(* it reads, since the sample fits the pipe and stdin is closed in time.    *)
CommandEnds == AllScriptsEnd ~> (exit # "running")

(* A thread whose output hawk would take passes the smoke test; its frames  *)
(* may have an empty timestamp.  (docs/HAWK.AWK.BOOK.md:17: "`ts` RFC3339   *)
(* or empty"; doctor.rs:380 trims the TABs of empty columns away.)          *)
ValidOutputPasses ==
    \A pt \in Examined :
        /\ Reported /\ removals = 0
        /\ ProgramAt(pt).reads /\ ProgramAt(pt).status = "ok"
        /\ \A i \in DOMAIN Printed(ProgramAt(pt)) :
              ~Refused(Printed(ProgramAt(pt))[i])
        => <<"smoke", pt>> \notin errors
===============================================================================
