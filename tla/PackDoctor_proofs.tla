--------------------------- MODULE PackDoctor_proofs ---------------------------
(***************************************************************************)
(* Proofs about the pack doctor, for every packs directory, command line   *)
(* and capacity of awk's pipe: its types, that a script which vanishes     *)
(* before its smoke test is reported, that what the doctor passes can be   *)
(* loaded, that a thread which loads starts, and that the doctor's report  *)
(* says what is wrong and nothing else.                                    *)
(*                                                                         *)
(* For the last, Walk follows the scan: what was reported so far is due to *)
(* the packs and threads Through which it has gone.                        *)
(***************************************************************************)
EXTENDS PackDoctor, SequenceTheorems, WellFoundedInduction, TLAPS

(* The provers a leaf is tried with, in turn, where it names none. *)
USE SMTT(10), ZenonT(20), SMTT(30), SMTT(40)

(* The places at which a thread is looked at. *)
AtThread == {"style", "schema", "security", "spawn", "write", "read"}

DTypes ==
    /\ DTypeOK
    /\ disk \in Disks
    /\ wrote \in Nat /\ feed \in Nat
    /\ at \in Nat \X Nat
    /\ pc \in AtThread => at \in Listed(disk)
    /\ IsProgram(prog)
    /\ pipe \in Seq(PrintedLine) /\ todo \in Seq(PrintedLine)

(* A script that cannot be run is a program that fails. *)
LEMMA NoScriptType == IsProgram(NoScript) /\ NoScript.status = "failed" /\ ~NoScript.reads
<1>1. <<>> \in Seq(PrintedLine)
  OBVIOUS
<1> QED
  BY <1>1 DEF IsProgram, NoScript

(* The domain of a sequence. *)
LEMMA SeqDomain ==
    ASSUME NEW S, NEW s \in Seq(S)
    PROVE  DOMAIN s = 1 .. Len(s) /\ Len(s) \in Nat
OBVIOUS

(* What is in a sequence has a place in it. *)
LEMMA ListedPlaces ==
    ASSUME NEW d \in Disks, NEW pt \in Listed(d)
    PROVE  /\ pt \in Nat \X Nat
           /\ pt[1] \in 1 .. Len(d.packs)
           /\ pt[2] \in 1 .. Len(d.packs[pt[1]].threads)
           /\ d.packs[pt[1]].manifest # "missing"
           /\ IsProgram(ThreadAt(d.packs, pt).script.program)
<1>1. IsDisk(d)
  BY DoctorAssumption
<1>2. pt \in Places(d.packs) /\ d.packs[pt[1]].manifest # "missing"
  BY DEF Listed
<1>3. PICK p \in DOMAIN d.packs : pt \in {p} \X DOMAIN d.packs[p].threads
  BY <1>2 DEF Places
<1>4. pt[1] = p /\ pt[2] \in DOMAIN d.packs[p].threads /\ pt = <<pt[1], pt[2]>>
  BY <1>3
<1>5. DOMAIN d.packs = 1 .. Len(d.packs) /\ Len(d.packs) \in Nat
  BY <1>1, SeqDomain, ZenonT(60) DEF IsDisk
<1>6. /\ DOMAIN d.packs[p].threads = 1 .. Len(d.packs[p].threads)
      /\ Len(d.packs[p].threads) \in Nat
  <2>1. d.packs[p].threads \in Seq(Range(d.packs[p].threads))
    BY <1>1, <1>3, ZenonT(60) DEF IsDisk
  <2> QED
    BY <2>1, SeqDomain
<1>7. pt \in Nat \X Nat
  BY <1>3, <1>4, <1>5, <1>6
<1> QED
  BY <1>1, <1>2, <1>3, <1>4, <1>5, <1>6, <1>7, ZenonT(60) DEF IsDisk

(* The doctor starts well typed. *)
LEMMA DTypesInit == DInit => DTypes
<1> SUFFICES ASSUME DInit PROVE DTypes
  OBVIOUS
<1>1. Len(pipe) = 0 /\ pipe \in Seq(PrintedLine) /\ todo \in Seq(PrintedLine)
  BY DEF DInit
<1>2. DTypeOK
  BY <1>1, DoctorAssumption DEF DInit, DTypeOK, SampleLines
<1> QED
  BY <1>1, <1>2, NoScriptType DEF DInit, DTypes, AtThread

(* Steps that leave awk alone. *)
LEMMA CommandTypes ==
    ASSUME DTypes,
           \/ StartCommand \/ StartTransform \/ RunDoctor \/ OpenPacks \/ Report
           \/ check_header_and_terminator \/ scan_declared_arg_usage \/ security_scan_awk
           \/ \E pt \in Listed(disk) : RemoveScript(pt)
    PROVE  DTypes'
<1> USE DEF DTypes, DTypeOK, AtThread, report, smoke
<1>1. CASE StartCommand
  BY <1>1, ZenonT(60) DEF StartCommand, Goto, Leave
<1>2. CASE StartTransform
  BY <1>2 DEF StartTransform, Goto, Leave
<1>3. CASE RunDoctor
  BY <1>3 DEF RunDoctor, Goto, Leave
<1>4. CASE OpenPacks
  BY <1>4, ZenonT(60) DEF OpenPacks
<1>5. CASE Report
  BY <1>5 DEF Report, Leave
<1>6. CASE check_header_and_terminator
  BY <1>6 DEF check_header_and_terminator
<1>7. CASE scan_declared_arg_usage
  BY <1>7 DEF scan_declared_arg_usage
<1>8. CASE security_scan_awk
  BY <1>8 DEF security_scan_awk
<1>9. CASE \E pt \in Listed(disk) : RemoveScript(pt)
  BY <1>9 DEF RemoveScript
<1> QED
  BY <1>1, <1>2, <1>3, <1>4, <1>5, <1>6, <1>7, <1>8, <1>9

(* Steps on to the next pack or thread. *)
LEMMA ScanTypes == ASSUME DTypes, NextPack \/ NextThread PROVE DTypes'
<1>1. UNCHANGED <<disk, exit, smoke>>
  BY Zenon DEF NextPack, NextThread
<1>2. awk # "run" /\ exit = "running" /\ at \in Nat \X Nat /\ disk \in Disks
  BY Zenon DEF DTypes, DTypeOK, NextPack, NextThread
<1>3. /\ pc' \in {"pack", "thread", "style", "report"}
      /\ at' \in Nat \X Nat
      /\ pc' = "style" => at' \in Listed(disk)
  <2>1. CASE NextPack
    <3>1. at[1] + 1 \in Nat
      BY <1>2
    <3>2. at' = at \/ at' = <<at[1] + 1, 0>>
      BY <2>1, ZenonT(60) DEF NextPack
    <3>3. pc' \in {"pack", "thread", "report"}
      BY <2>1, ZenonT(60) DEF NextPack
    <3> QED
      BY <1>2, <3>1, <3>2, <3>3
  <2>2. CASE NextThread
    BY <1>2, <2>2 DEF NextThread
  <2> QED
    BY <2>1, <2>2
<1>4. DTypeOK'
  BY <1>1, <1>2, <1>3 DEF DTypes, DTypeOK, smoke
<1> QED
  BY <1>1, <1>3, <1>4 DEF DTypes, smoke, AtThread

(* The smoke test, and awk in it. *)
LEMMA SmokeTypes ==
    ASSUME DTypes, SmokeSpawn \/ SmokeWrite \/ SmokeClose \/ SmokeRead \/ SmokeJudge
    PROVE  DTypes'
<1>1. CASE SmokeSpawn
  <2>1. IsProgram(prog')
    BY <1>1, NoScriptType, ListedPlaces DEF DTypes, AtThread, SmokeSpawn, Script, Thread
  <2>2. todo' \in Seq(PrintedLine)
    BY <1>1, <2>1 DEF SmokeSpawn, IsProgram
  <2>3. pipe' = <<>> /\ pipe' \in Seq(PrintedLine) /\ Len(pipe') = 0
    BY <1>1 DEF SmokeSpawn
  <2>4. UNCHANGED <<disk, at, exit>> /\ pc = "spawn" /\ pc' = "write"
        /\ wrote' = 0 /\ feed' = 0 /\ awk' = "run"
    BY <1>1 DEF SmokeSpawn
  <2>5. DTypeOK'
    BY <2>3, <2>4, DoctorAssumption DEF DTypes, DTypeOK, SampleLines
  <2> QED
    BY <2>1, <2>2, <2>3, <2>4, <2>5 DEF DTypes, AtThread
<1>2. CASE SmokeWrite
  BY <1>2 DEF SmokeWrite, SmokeError, DTypes, DTypeOK, AtThread, SampleLines
<1>3. CASE SmokeClose
  BY <1>3 DEF SmokeClose, report, DTypes, DTypeOK, AtThread
<1>4. CASE SmokeRead
  <2>1. pipe' \in Seq(PrintedLine) /\ Len(pipe') <= Len(pipe) /\ Len(pipe) \in Nat /\ Len(pipe') \in Nat
    BY <1>4, HeadTailProperties DEF DTypes, SmokeRead
  <2>2. UNCHANGED <<disk, pc, at, exit, wrote, feed, awk, prog, todo>>
    BY <1>4 DEF SmokeRead
  <2>3. DTypeOK'
    BY <2>1, <2>2, DoctorAssumption DEF DTypes, DTypeOK
  <2> QED
    BY <2>1, <2>2, <2>3 DEF DTypes
<1>5. CASE SmokeJudge
  BY <1>5 DEF SmokeJudge, SmokeError, smoke, DTypes, DTypeOK, AtThread
<1> QED
  BY <1>1, <1>2, <1>3, <1>4, <1>5

(* The steps of awk keep the types. *)
LEMMA AwkTypes == ASSUME DTypes, Awk PROVE DTypes'
<1>1. CASE AwkPrints
  <2>1. /\ pipe' \in Seq(PrintedLine) /\ Len(pipe') = Len(pipe) + 1 /\ Len(pipe) < PipeCap
        /\ todo' \in Seq(PrintedLine) /\ Len(pipe) \in Nat
    BY <1>1, HeadTailProperties DEF DTypes, AwkPrints
  <2>2. UNCHANGED <<disk, pc, at, exit, wrote, feed, awk, prog>>
    BY <1>1 DEF AwkPrints
  <2>3. DTypeOK'
    BY <2>1, <2>2, DoctorAssumption DEF DTypes, DTypeOK
  <2> QED
    BY <2>1, <2>2, <2>3 DEF DTypes
<1>2. CASE AwkReads
  <2>1. todo' \in Seq(PrintedLine)
    BY <1>2 DEF AwkReads, DTypes, IsProgram
  <2>2. UNCHANGED <<disk, pc, at, exit, wrote, awk, prog, pipe>> /\ feed' = feed - 1 /\ feed > 0
    BY <1>2 DEF AwkReads
  <2>3. DTypeOK' /\ feed' \in Nat
    BY <2>2 DEF DTypes, DTypeOK
  <2> QED
    BY <2>1, <2>2, <2>3 DEF DTypes
<1>3. CASE AwkEnds
  <2>1. awk' \in {"ok", "failed"}
    BY <1>3 DEF AwkEnds, DTypes, IsProgram
  <2>2. UNCHANGED <<disk, pc, at, exit, wrote, feed, prog, todo, pipe>>
    BY <1>3 DEF AwkEnds
  <2> QED
    BY <2>1, <2>2 DEF DTypes, DTypeOK
<1> QED
  BY <1>1, <1>2, <1>3 DEF Awk

(* Every step keeps the types. *)
LEMMA DTypesStep == DTypes /\ [DNext]_dvars => DTypes'
<1>1. ASSUME DTypes, UNCHANGED dvars PROVE DTypes'
  BY <1>1 DEF DTypes, DTypeOK, dvars, smoke
<1> QED
  BY <1>1, CommandTypes, ScanTypes, SmokeTypes, AwkTypes DEF DNext, Doctor

(* awk runs only during its own smoke test, and the pipes keep to their     *)
(* size, for any scripts.                                                   *)
THEOREM DoctorTypes == DSpec => []DTypeOK
<1>1. DTypes => DTypeOK
  BY DEF DTypes
<1> QED
  BY <1>1, DTypesInit, DTypesStep, PTL DEF DSpec

-------------------------------------------------------------------------------
(***************************************************************************)
(* A script that is missing when awk starts makes awk fail, and awk's      *)
(* failure is looked at whatever else goes wrong in the smoke test.        *)
(***************************************************************************)

AtFault == at \in absent /\ pc \in {"write", "read"} => prog = NoScript /\ awk # "ok"

Fresh == pc \in {"start", "transform", "doctor", "open"} => absent = {}

VInv == DTypes /\ absent \subseteq gone /\ Fresh /\ AtFault /\ VanishedReported

(* Every step keeps the account of the verdict. *)
LEMMA VInvStep == VInv /\ [DNext]_dvars => VInv'
<1> SUFFICES ASSUME VInv, [DNext]_dvars PROVE VInv'
  OBVIOUS
<1>0. DTypes' /\ DTypes
  BY DTypesStep DEF VInv
<1> SUFFICES absent' \subseteq gone' /\ Fresh' /\ AtFault' /\ VanishedReported'
  BY <1>0 DEF VInv
<1> USE DEF VInv, Fresh, AtFault, VanishedReported
<1>1. CASE UNCHANGED dvars
  BY <1>1 DEF dvars, report, smoke
<1>2. CASE StartCommand \/ StartTransform \/ RunDoctor \/ OpenPacks
  <2>1. UNCHANGED <<gone, absent>> /\ absent = {}
    BY <1>2, ZenonT(60) DEF StartCommand, StartTransform, RunDoctor, OpenPacks
  <2> QED
    BY <2>1
<1>3. CASE check_header_and_terminator \/ scan_declared_arg_usage \/ security_scan_awk
  <2>1. /\ UNCHANGED <<gone, at, absent>> /\ errors \subseteq errors'
        /\ pc' \in {"schema", "security", "spawn"}
    BY <1>3 DEF check_header_and_terminator, scan_declared_arg_usage, security_scan_awk
  <2> QED
    BY <2>1
<1>4. CASE NextPack \/ NextThread
  <2>1. /\ UNCHANGED <<gone, absent>> /\ errors \subseteq errors'
        /\ pc \in {"pack", "thread"} /\ pc' \in {"pack", "thread", "style", "report"}
    BY <1>4, ZenonT(60) DEF NextPack, NextThread
  <2>2. absent \subseteq gone /\ \A pt \in absent : <<"smoke", pt>> \in errors
    BY <2>1
  <2> QED
    BY <2>1, <2>2
<1>5. CASE SmokeSpawn
  <2>1. /\ pc = "spawn" /\ pc' = "write" /\ UNCHANGED <<gone, at, errors>> /\ awk' = "run"
        /\ absent' = IF Gone THEN absent \cup {at} ELSE absent
        /\ Gone => prog' = NoScript
    BY <1>5 DEF SmokeSpawn, report
  <2>2. absent' \subseteq gone /\ at \in absent' => Gone
    BY <2>1 DEF Gone
  <2> QED
    BY <2>1, <2>2 DEF Gone
<1>6. CASE SmokeWrite
  <2>1. /\ UNCHANGED <<gone, at, absent, prog, awk>> /\ errors \subseteq errors'
        /\ pc = "write"
        /\ pc' = "write" \/ (pc' = "thread" /\ <<"smoke", at>> \in errors')
    BY <1>6 DEF SmokeWrite, SmokeError, Note
  <2> QED
    BY <2>1
<1>7. CASE SmokeClose
  BY <1>7 DEF SmokeClose, report
<1>8. CASE SmokeRead
  BY <1>8 DEF SmokeRead, report
<1>9. CASE SmokeJudge
  <2>1. /\ UNCHANGED <<gone, at, absent>> /\ errors \subseteq errors'
        /\ pc = "read" /\ pc' = "thread"
        /\ awk = "ok" \/ <<"smoke", at>> \in errors'
    BY <1>9 DEF SmokeJudge, SmokeOk, SmokeError, Note
  <2> QED
    BY <2>1
<1>10. CASE Awk
  <2>1. UNCHANGED <<gone, at, absent, prog, pc, errors>> /\ awk = "run"
    BY <1>10 DEF Awk, AwkPrints, AwkReads, AwkEnds, report
  <2>2. awk' = awk \/ awk' = prog.status
    BY <1>10 DEF Awk, AwkPrints, AwkReads, AwkEnds
  <2> QED
    BY <2>1, <2>2, NoScriptType
<1>11. CASE Report
  BY <1>11 DEF Report, Leave, report, smoke
<1>12. CASE \E pt \in Listed(disk) : RemoveScript(pt)
  BY <1>12 DEF RemoveScript, report, smoke
<1> QED
  BY <1>1, <1>2, <1>3, <1>4, <1>5, <1>6, <1>7, <1>8, <1>9, <1>10, <1>11, <1>12
     DEF DNext, Doctor

(* A script that is gone when its smoke test starts has an error in the     *)
(* report, whenever and however many scripts are removed, and whichever of  *)
(* writing to awk, reading from it and waiting for it fails first.          *)
THEOREM VanishedScriptsReported == DSpec => []VanishedReported
<1>1. DInit => VInv
  BY DTypesInit DEF DInit, VInv, Fresh, AtFault, VanishedReported
<1>2. VInv => VanishedReported
  BY DEF VInv
<1> QED
  BY <1>1, <1>2, VInvStep, PTL DEF DSpec

-------------------------------------------------------------------------------
(***************************************************************************)
(* What the doctor passes can be loaded.  The doctor goes through the      *)
(* packs in order; as long as it has found no error, what lies behind it   *)
(* parses, has ids that are all different, and is in seen_thread_ids.      *)
(***************************************************************************)

Scanned(pt) == pt[1] < at[1] \/ (pt[1] = at[1] /\ pt[2] <= at[2])

Clean == removals = 0 /\ errors = {}
OpenDir == disk.dir \in {"ok", "entry unreadable"}

Behind ==
    /\ at[1] <= Len(disk.packs)
    /\ \A p \in 1 .. at[1] :
          disk.packs[p].manifest = "missing" \/ parse_pack_manifest(disk.packs, p, gone)
    /\ \A a \in Listed(disk) : Scanned(a) => IdAt(disk.packs, a) \in seen
    /\ \A a, b \in Listed(disk) :
          Scanned(a) /\ Scanned(b) /\ IdAt(disk.packs, a) = IdAt(disk.packs, b) => a = b

PackDone == \A a \in Listed(disk) : a[1] = at[1] => a[2] <= at[2]

LInv ==
    /\ DTypes
    /\ removals \in Nat
    /\ pc \in {"start", "transform", "doctor", "open"} => at = <<0, 0>>
    /\ pc \in AtThread \cup {"pack", "thread"} => OpenDir
    /\ pc \in AtThread \cup {"thread"} =>
          at[1] \in 1 .. Len(disk.packs) /\ disk.packs[at[1]].manifest # "missing"
    /\ pc \in AtThread \cup {"pack", "thread", "report"} /\ Clean /\ OpenDir => Behind
    /\ pc \in {"pack", "report"} /\ Clean /\ OpenDir => PackDone
    /\ pc = "report" /\ Clean /\ OpenDir => at[1] = Len(disk.packs)
    /\ pc = "report" /\ disk.dir = "unreadable" => errors # {}
    /\ DoctorOkLoads

(* What is listed, by the place it is listed at. *)
LEMMA ListedWhere ==
    ASSUME NEW d \in Disks, NEW p \in 1 .. Len(d.packs), NEW t \in Nat,
           d.packs[p].manifest # "missing"
    PROVE  /\ <<p, t>> \in Listed(d) <=> t \in 1 .. Len(d.packs[p].threads)
           /\ Len(d.packs[p].threads) \in Nat
<1>1. IsDisk(d)
  BY DoctorAssumption
<1>2. DOMAIN d.packs = 1 .. Len(d.packs) /\ Len(d.packs) \in Nat
  BY <1>1, SeqDomain, ZenonT(60) DEF IsDisk
<1>3. d.packs[p].threads \in Seq(Range(d.packs[p].threads))
  BY <1>1, <1>2, ZenonT(60) DEF IsDisk
<1>4. /\ DOMAIN d.packs[p].threads = 1 .. Len(d.packs[p].threads)
      /\ Len(d.packs[p].threads) \in Nat
  BY <1>3, SeqDomain
<1>5. <<p, t>> \in Places(d.packs) <=> t \in DOMAIN d.packs[p].threads
  BY <1>2 DEF Places
<1> QED
  BY <1>4, <1>5 DEF Listed

(* The doctor starts with the account of the loads. *)
LEMMA LInvInit == DInit => LInv
<1> SUFFICES ASSUME DInit PROVE LInv
  OBVIOUS
<1>1. DTypes
  BY DTypesInit
<1> QED
  BY <1>1 DEF DInit, LInv, AtThread, DoctorOkLoads, Reported

(* Steps that stay at their place. *)
LEMMA StayKeepsLoads ==
    ASSUME LInv, DTypes',
           UNCHANGED <<cli, disk, at, seen, exit>>,
           errors \subseteq errors', exit = "running",
           (removals' = removals /\ gone' = gone) \/ removals' = removals + 1,
           \/ pc \in AtThread /\ pc' \in AtThread \cup {"thread"}
           \/ pc' = pc
    PROVE  LInv'
<1>1. removals' \in Nat /\ (removals' = 0 => removals = 0 /\ gone' = gone)
  BY DEF LInv
<1>2. Clean' => Clean /\ gone' = gone
  BY <1>1 DEF Clean
<1>3. (OpenDir' <=> OpenDir) /\ (PackDone' <=> PackDone)
  BY DEF OpenDir, PackDone
<1>4. gone' = gone => (Behind' <=> Behind)
  BY DEF Behind, Scanned
<1>5. DoctorOkLoads'
  BY ZenonT(60) DEF DoctorOkLoads, Reported
<1>6. pc = "report" /\ disk.dir = "unreadable" => errors' # {}
  BY DEF LInv
<1>7. CASE pc' = pc
  BY <1>1, <1>2, <1>3, <1>4, <1>5, <1>6, <1>7 DEF LInv
<1>8. CASE pc \in AtThread /\ pc' \in AtThread \cup {"thread"}
  BY <1>1, <1>2, <1>3, <1>4, <1>5, <1>8 DEF LInv, AtThread
<1> QED
  BY <1>7, <1>8

(* The start keeps the account of the loads. *)
LEMMA StartKeepsLoads ==
    ASSUME LInv, DTypes', StartCommand \/ StartTransform \/ RunDoctor \/ OpenPacks
    PROVE  LInv'
<1>1. /\ UNCHANGED <<cli, disk, gone, removals, at>> /\ at = <<0, 0>>
      /\ removals \in Nat
      /\ pc \in {"start", "transform", "doctor", "open"} /\ exit = "running"
  BY ZenonT(60) DEF LInv, StartCommand, StartTransform, RunDoctor, OpenPacks, DTypes, DTypeOK
<1>2. CASE StartCommand \/ StartTransform \/ RunDoctor
  <2>1. pc' \in {"transform", "doctor", "open", "end"}
    BY <1>2, ZenonT(60) DEF StartCommand, StartTransform, RunDoctor, Goto, Leave
  <2>2. exit' = "0" => cli.cmd \notin {"pack doctor", "pack-doctor"}
    BY <1>1, <1>2, ZenonT(60) DEF StartCommand, StartTransform, RunDoctor, Goto, Leave
  <2>3. DoctorOkLoads'
    BY <1>1, <2>2, ZenonT(60) DEF DoctorOkLoads, Reported
  <2> QED
    BY <1>1, <2>1, <2>3 DEF LInv, AtThread
<1>3. CASE OpenPacks
  <2>1. /\ exit' = "running"
        /\ pc' = IF OpenDir THEN "pack" ELSE "report"
        /\ disk.dir = "unreadable" => errors' # {}
    BY <1>1, <1>3, ZenonT(60) DEF OpenPacks, OpenDir, Note
  <2>2. disk \in Disks /\ Len(disk.packs) \in Nat
    <3>1. disk \in Disks
      BY DEF LInv, DTypes
    <3> QED
      BY <3>1, DoctorAssumption, SeqDomain, ZenonT(60) DEF IsDisk
  <2>3. \A a \in Listed(disk) : a[1] \in Nat \ {0}
    BY <2>2, ListedPlaces
  <2>4. at[1] = 0 /\ at[2] = 0 /\ at'[1] = 0
    BY <1>1
  <2>5. \A a \in Listed(disk) : ~Scanned(a)' /\ a[1] # at'[1]
    BY <1>1, <2>3, <2>4 DEF Scanned
  <2>6. Behind' /\ PackDone'
    BY <1>1, <2>2, <2>4, <2>5 DEF Behind, PackDone
  <2>7. DoctorOkLoads'
    BY <2>1, ZenonT(60) DEF DoctorOkLoads, Reported
  <2> QED
    BY <1>1, <2>1, <2>6, <2>7, ZenonT(60) DEF LInv, AtThread, OpenDir
<1> QED
  BY <1>2, <1>3

(* Going on to the next pack keeps the account of the loads. *)
LEMMA NextPackKeepsLoads == ASSUME LInv, DTypes', NextPack PROVE LInv'
<1>1. /\ UNCHANGED <<cli, disk, gone, removals, seen, exit>> /\ pc = "pack" /\ exit = "running"
      /\ removals \in Nat /\ OpenDir /\ disk \in Disks /\ errors \subseteq errors'
  BY ZenonT(60) DEF LInv, NextPack, DTypes, DTypeOK, AtThread
<1>2. Len(disk.packs) \in Nat /\ at[1] \in Nat /\ at[2] \in Nat
  BY <1>1, DoctorAssumption, SeqDomain, ZenonT(60) DEF IsDisk, LInv, DTypes
<1>3. OpenDir' /\ DoctorOkLoads' /\ (Clean' => Clean)
  BY <1>1, ZenonT(60) DEF OpenDir, DoctorOkLoads, Reported, Clean
<1>4. Clean => Behind /\ PackDone
  BY <1>1 DEF LInv
<1>5. CASE at[1] + 1 > Len(disk.packs)
  <2>0. ~(at[1] + 1 <= Len(disk.packs))
    BY <1>2, <1>5
  <2>1. pc' = "report" /\ at' = at
    BY <2>0, ZenonT(60) DEF NextPack
  <2>2. Clean => Behind' /\ PackDone' /\ at[1] = Len(disk.packs)
    BY <1>1, <1>2, <1>4, <1>5, <2>1 DEF Behind, PackDone, Scanned
  <2>3. disk.dir # "unreadable"
    BY <1>1, ZenonT(60) DEF OpenDir
  <2> QED
    BY <1>1, <1>3, <2>1, <2>2, <2>3 DEF LInv, AtThread
<1>6. CASE at[1] + 1 <= Len(disk.packs)
  <2> DEFINE p == at[1] + 1
             manifest == disk.packs[p].manifest
             parsed == parse_pack_manifest(disk.packs, p, gone)
  <2>1. /\ at' = <<p, 0>> /\ p \in 1 .. Len(disk.packs)
        /\ pc' = IF manifest # "missing" /\ parsed THEN "thread" ELSE "pack"
        /\ errors' = IF manifest # "missing" /\ ~parsed
                     THEN errors \cup {<<"parse", at'>>} ELSE errors
    <3>1. ~(at[1] + 1 > Len(disk.packs)) /\ p \in 1 .. Len(disk.packs)
      BY <1>2, <1>6
    <3> QED
      BY <3>1, ZenonT(60) DEF NextPack
  <2>2. at'[1] = p /\ at'[2] = 0 /\ p = at[1] + 1
    BY <2>1
  <2>3. Clean' => manifest = "missing" \/ parsed
    BY <2>1, ZenonT(60) DEF Clean
  <2> HIDE DEF p
  <2>4. ASSUME NEW a \in Listed(disk), Clean PROVE Scanned(a)' <=> Scanned(a)
    <3>1. a[1] \in Nat /\ a[2] \in Nat \ {0}
      BY <1>1, ListedPlaces
    <3>2. a[1] = at[1] => a[2] <= at[2]
      BY <1>4, <2>4 DEF PackDone
    <3> QED
      BY <1>2, <2>2, <3>1, <3>2 DEF Scanned
  <2>5. ASSUME Clean' PROVE Behind'
    <3>1. Clean /\ Behind
      BY <1>3, <1>4, <2>5
    <3>2. \A q \in 1 .. at'[1] :
              disk.packs[q].manifest = "missing" \/ parse_pack_manifest(disk.packs, q, gone)
      <4> TAKE q \in 1 .. at'[1]
      <4>1. q \in 1 .. at[1] \/ q = p
        BY <1>2, <2>2
      <4> QED
        BY <2>3, <2>5, <3>1, <4>1 DEF Behind
    <3> QED
      BY <1>1, <2>1, <2>2, <2>4, <3>1, <3>2 DEF Behind
  <2>6. ASSUME Clean', pc' = "pack" PROVE PackDone'
    <3>1. manifest = "missing"
      BY <2>1, <2>3, <2>6
    <3>2. \A a \in Listed(disk) : a[1] # p
      BY <3>1 DEF Listed
    <3> QED
      BY <1>1, <2>2, <3>2 DEF PackDone
  <2>7. pc' = "thread" => at'[1] \in 1 .. Len(disk.packs) /\ disk.packs[at'[1]].manifest # "missing"
    BY <2>1, <2>2
  <2>8. pc' \in {"pack", "thread"}
    BY <2>1
  <2> QED
    BY <1>1, <1>3, <2>5, <2>6, <2>7, <2>8 DEF LInv, AtThread
<1> QED
  BY <1>2, <1>5, <1>6

(* Going on to the next thread keeps the account of the loads. *)
LEMMA NextThreadKeepsLoads == ASSUME LInv, DTypes', NextThread PROVE LInv'
<1> DEFINE pt == <<at[1], at[2] + 1>>
<1>1. /\ UNCHANGED <<cli, disk, gone, removals, exit>> /\ pc = "thread" /\ exit = "running"
      /\ removals \in Nat /\ OpenDir /\ disk \in Disks /\ errors \subseteq errors'
      /\ at[1] \in 1 .. Len(disk.packs) /\ disk.packs[at[1]].manifest # "missing"
  BY DEF LInv, NextThread, DTypes, DTypeOK, AtThread
<1>2. Len(disk.packs) \in Nat /\ at[1] \in Nat /\ at[2] \in Nat
  BY <1>1, DoctorAssumption, SeqDomain, Zenon DEF IsDisk, LInv, DTypes
<1>3. OpenDir' /\ DoctorOkLoads' /\ (Clean' => Clean)
  BY <1>1, ZenonT(60) DEF OpenDir, DoctorOkLoads, Reported, Clean
<1>4. Clean => Behind
  BY <1>1 DEF LInv
<1>5. pt[1] = at[1] /\ pt[2] = at[2] + 1 /\ at[2] + 1 \in Nat
  BY <1>2
<1>6. /\ pt \in Listed(disk) <=> at[2] + 1 \in 1 .. Len(disk.packs[at[1]].threads)
      /\ Len(disk.packs[at[1]].threads) \in Nat
  BY <1>1, <1>5, ListedWhere, ZenonT(60)
<1>7. CASE pt \notin Listed(disk)
  <2>1. pc' = "pack" /\ at' = at /\ seen' = seen
    BY <1>7, ZenonT(60) DEF NextThread
  <2>2. PackDone'
    <3> SUFFICES ASSUME NEW a \in Listed(disk), a[1] = at[1] PROVE a[2] <= at[2]
      BY <1>1, <2>1 DEF PackDone
    <3>1. a[2] \in 1 .. Len(disk.packs[at[1]].threads)
      BY <1>1, ListedPlaces
    <3> QED
      BY <1>2, <1>6, <1>7, <3>1
  <2>3. Clean => Behind'
    BY <1>1, <1>4, <2>1 DEF Behind, Scanned
  <2> QED
    BY <1>1, <1>3, <2>1, <2>2, <2>3 DEF LInv, AtThread
<1>8. CASE pt \in Listed(disk)
  <2>1. /\ at' = pt /\ pc' \in {"thread", "style"}
        /\ seen' = seen \cup {IdAt(disk.packs, pt)}
        /\ IdAt(disk.packs, pt) \in seen => <<"collision", pt>> \in errors'
    BY <1>8, ZenonT(60) DEF NextThread
  <2>2. Clean' => IdAt(disk.packs, pt) \notin seen
    BY <2>1 DEF Clean
  <2>3. at'[1] = at[1] /\ at'[2] = at[2] + 1
    BY <1>5, <2>1
  <2>4. ASSUME NEW a \in Listed(disk), Scanned(a)' PROVE Scanned(a) \/ a = pt
    <3>1. a \in Nat \X Nat
      BY <1>1, ListedPlaces
    <3>2. a = <<a[1], a[2]>> /\ a[1] \in Nat /\ a[2] \in Nat
      BY <3>1
    <3>3. a[1] < at[1] \/ (a[1] = at[1] /\ a[2] <= at[2] + 1)
      BY <2>3, <2>4 DEF Scanned
    <3>4. Scanned(a) \/ (a[1] = at[1] /\ a[2] = at[2] + 1)
      BY <1>2, <3>2, <3>3 DEF Scanned
    <3> QED
      BY <3>2, <3>4
  <2>5. ASSUME Clean' PROVE Behind'
    <3>1. Clean /\ Behind
      BY <1>3, <1>4, <2>5
    <3>2. \A a \in Listed(disk) : Scanned(a)' => IdAt(disk.packs, a) \in seen'
      BY <2>1, <2>4, <3>1 DEF Behind
    <3>3. ASSUME NEW a \in Listed(disk), NEW b \in Listed(disk), Scanned(a)', Scanned(b)',
                 IdAt(disk.packs, a) = IdAt(disk.packs, b)
          PROVE  a = b
      <4>1. (Scanned(a) \/ a = pt) /\ (Scanned(b) \/ b = pt)
        BY <2>4, <3>3
      <4>2. ~(Scanned(a) /\ b = pt) /\ ~(Scanned(b) /\ a = pt)
        BY <2>2, <2>5, <3>1, <3>3 DEF Behind
      <4> QED
        BY <3>1, <3>3, <4>1, <4>2 DEF Behind
    <3> QED
      BY <1>1, <2>3, <3>1, <3>2, <3>3 DEF Behind
  <2> QED
    BY <1>1, <1>3, <2>1, <2>3, <2>5 DEF LInv, AtThread
<1> QED
  BY <1>7, <1>8

(* A place is the last, or before it. *)
LEMMA BelowOrLast == ASSUME NEW n \in Nat, NEW x \in 1 .. n PROVE x < n \/ x = n
OBVIOUS

(* The report keeps the account of the loads. *)
LEMMA ReportKeepsLoads == ASSUME LInv, DTypes', Report PROVE LInv'
<1>1. UNCHANGED <<cli, disk, gone, removals, at, errors>> /\ pc = "report" /\ pc' = "end"
  BY DEF Report, Leave, report
<1>2. exit' = "0" => errors = {}
  BY DEF Report, Leave
<1>3. DoctorOkLoads'
  <2> SUFFICES ASSUME exit' = "0", removals = 0, disk.dir # "entry unreadable"
               PROVE  LoadOk(disk, gone)
    BY <1>1, ZenonT(60) DEF DoctorOkLoads, Reported
  <2>1. disk \in Disks /\ Clean
    BY <1>2, ZenonT(60) DEF Clean, LInv, DTypes
  <2>2. disk.dir \in {"missing", "ok"}
    BY <1>1, <1>2, <2>1, DoctorAssumption, ZenonT(60) DEF LInv, IsDisk
  <2>3. CASE disk.dir = "ok"
    <3>1. Behind /\ PackDone /\ at[1] = Len(disk.packs)
      BY <1>1, <2>1, <2>3 DEF LInv, OpenDir
    <3>2. DOMAIN disk.packs = 1 .. at[1] /\ at[1] \in Nat
      BY <2>1, <3>1, DoctorAssumption, SeqDomain, ZenonT(60) DEF IsDisk
    <3>3. ASSUME NEW a \in Listed(disk) PROVE Scanned(a)
      <4>1. a[1] \in 1 .. Len(disk.packs)
        BY <2>1, ListedPlaces, ZenonT(60)
      <4>2. a[1] < at[1] \/ a[1] = at[1]
        BY <3>1, <3>2, <4>1, BelowOrLast, ZenonT(60)
      <4>3. a[1] = at[1] => a[2] <= at[2]
        BY <3>1, ZenonT(60) DEF PackDone
      <4> QED
        BY <4>2, <4>3, ZenonT(60) DEF Scanned
    <3> QED
      BY <2>3, <3>1, <3>2, <3>3 DEF LoadOk, Behind
  <2> QED
    BY <2>2, <2>3, ZenonT(60) DEF LoadOk
<1> QED
  BY <1>1, <1>3 DEF LInv, AtThread

(* Every step keeps the account of the loads. *)
LEMMA LInvStep == LInv /\ [DNext]_dvars => LInv'
<1> SUFFICES ASSUME LInv, [DNext]_dvars PROVE LInv'
  OBVIOUS
<1>0. DTypes /\ DTypes'
  BY DTypesStep DEF LInv
<1>1. CASE UNCHANGED dvars
  <2>1. (Behind' <=> Behind) /\ (PackDone' <=> PackDone) /\ (Clean' <=> Clean)
        /\ (OpenDir' <=> OpenDir) /\ (DoctorOkLoads' <=> DoctorOkLoads)
    BY <1>1 DEF dvars, report, Behind, PackDone, Clean, OpenDir, DoctorOkLoads, Scanned, Reported
  <2> QED
    BY <1>0, <1>1, <2>1 DEF LInv, dvars, report
<1>2. CASE \/ check_header_and_terminator \/ scan_declared_arg_usage \/ security_scan_awk
           \/ SmokeSpawn \/ SmokeWrite \/ SmokeClose \/ SmokeRead \/ SmokeJudge \/ Awk
           \/ \E pt \in Listed(disk) : RemoveScript(pt)
  <2>1. UNCHANGED <<cli, disk, at, seen, exit>> /\ errors \subseteq errors'
    <3>1. CASE check_header_and_terminator \/ scan_declared_arg_usage \/ security_scan_awk
      BY <3>1 DEF check_header_and_terminator, scan_declared_arg_usage, security_scan_awk, report
    <3>2. CASE SmokeSpawn \/ SmokeWrite \/ SmokeJudge
      BY <3>2 DEF SmokeSpawn, SmokeWrite, SmokeJudge, SmokeError, report
    <3>3. CASE SmokeClose \/ SmokeRead
      BY <3>3 DEF SmokeClose, SmokeRead, report
    <3>4. CASE Awk \/ \E pt \in Listed(disk) : RemoveScript(pt)
      BY <3>4 DEF Awk, AwkPrints, AwkReads, AwkEnds, RemoveScript, report
    <3> QED
      BY <1>2, <3>1, <3>2, <3>3, <3>4
  <2>2. (removals' = removals /\ gone' = gone) \/ removals' = removals + 1
    BY <1>2, ZenonT(60) DEF check_header_and_terminator, scan_declared_arg_usage, security_scan_awk,
                SmokeSpawn, SmokeWrite, SmokeClose, SmokeRead, SmokeJudge,
                Awk, AwkPrints, AwkReads, AwkEnds, RemoveScript
  <2>3. \/ pc \in AtThread /\ pc' \in AtThread \cup {"thread"}
        \/ pc' = pc
    BY ZenonT(60), <1>2 DEF check_header_and_terminator, scan_declared_arg_usage, security_scan_awk,
                SmokeSpawn, SmokeWrite, SmokeClose, SmokeRead, SmokeJudge, SmokeError,
                Awk, AwkPrints, AwkReads, AwkEnds, RemoveScript, AtThread
  <2>4. exit = "running"
    BY ZenonT(60), <1>0, <1>2
       DEF check_header_and_terminator, scan_declared_arg_usage, security_scan_awk,
           SmokeSpawn, SmokeWrite, SmokeClose, SmokeRead, SmokeJudge,
           Awk, AwkPrints, AwkReads, AwkEnds, RemoveScript, DTypes, DTypeOK
  <2> QED
    BY <1>0, <2>1, <2>2, <2>3, <2>4, StayKeepsLoads
<1> QED
  BY <1>0, <1>1, <1>2, StartKeepsLoads, NextPackKeepsLoads, NextThreadKeepsLoads,
     ReportKeepsLoads DEF DNext, Doctor

(* The doctor is as strict as load_packs: for any packs directory whose     *)
(* entries can be read and whose scripts are left alone meanwhile, exit     *)
(* status 0 of the doctor means that load_packs succeeds.                   *)
THEOREM DoctorPassLoads == DSpec => []DoctorOkLoads
<1>1. LInv => DoctorOkLoads
  BY DEF LInv
<1> QED
  BY <1>1, LInvInit, LInvStep, PTL DEF DSpec

-------------------------------------------------------------------------------
(***************************************************************************)
(* A thread of packs that load can be started: its id leads to it, its     *)
(* defaults are taken for the variables and pass, and its script exists.   *)
(***************************************************************************)

(* A set of places in a sequence has a last one. *)
LEMMA LastOfPlaces ==
    ASSUME NEW n \in Nat, NEW I, I \subseteq 1 .. n, I # {}
    PROVE  Max(I) \in I
<1> DEFINE Below == {p \in Nat \X Nat : p[1] < p[2]}
           T == {n - i : i \in I}
<1>1. T \subseteq Nat /\ T # {}
  <2>1. \A i \in I : n - i \in Nat
    OBVIOUS
  <2> QED
    BY <2>1, ZenonT(60)
<1>2. IsWellFoundedOn(Below, Nat)
  BY NatLessThanWellFounded DEF OpToRel
<1>3. PICK x \in T : \A y \in T : ~(<<y, x>> \in Below)
  BY ZenonT(60), <1>1, <1>2, WFMin
<1>4. PICK i \in I : x = n - i
  OBVIOUS
<1>5. \A j \in I : i >= j
  <2> TAKE j \in I
  <2>1. n - j \in T /\ n - j \in Nat /\ n - i \in Nat /\ i \in Int /\ j \in Int
    OBVIOUS
  <2>2. ~(n - j < n - i)
    BY ZenonT(60), <1>3, <1>4, <2>1
  <2> QED
    BY <2>1, <2>2
<1> QED
  BY <1>4, <1>5, ZenonT(60) DEF Max

(* The argument a variable is checked against is one of that name. *)
LEMMA NamedArgument ==
    ASSUME NEW S, NEW args \in Seq(S), NEW k \in ArgNames(args)
    PROVE  \E i \in DOMAIN args : ArgNamed(args, k) = args[i]
<1> DEFINE I == {i \in 1 .. Len(args) : args[i].name = k}
<1>1. DOMAIN args = 1 .. Len(args) /\ Len(args) \in Nat
  BY SeqDomain
<1>2. I # {} /\ I \subseteq 1 .. Len(args)
  BY <1>1 DEF ArgNames
<1>3. Max(I) \in I
  BY ZenonT(60), <1>1, <1>2, LastOfPlaces
<1>4. ArgNamed(args, k) = args[Max(I)]
  BY <1>1, ZenonT(60) DEF ArgNamed
<1> QED
  BY ZenonT(60), <1>1, <1>3, <1>4

(* The defaults of accepted arguments pass validate_tvars, but for those    *)
(* that only the check of the manifest lets through.                        *)
LEMMA DefaultsPass ==
    ASSUME NEW S, NEW args \in Seq(S),
           \A i \in DOMAIN args :
              validate_arg_default(args[i].ty, toml_value_to_string(args[i].default)),
           \A i \in DOMAIN args : ~NoDefault(args[i])
    PROVE  validate_tvars(args, Merged(args, <<>>))
<1> DEFINE d == Merged(args, <<>>)
<1>1. DOMAIN <<>> = {}
  OBVIOUS
<1>2. DOMAIN d = ArgNames(args) /\ \A k \in ArgNames(args) : d[k] = default_tvars(args)[k]
  BY <1>1 DEF Merged
<1>3. ASSUME NEW k \in ArgNames(args)
      PROVE  /\ ArgNamed(args, k).ty = "int" => IsInt(d[k])
             /\ ArgNamed(args, k).ty = "bool" => IsBool(d[k])
  <2>1. PICK i \in DOMAIN args : ArgNamed(args, k) = args[i]
    BY NamedArgument
  <2>2. d[k] = toml_value_to_string(args[i].default)
    BY <1>2, <2>1, ZenonT(60) DEF default_tvars
  <2> QED
    BY <2>1, <2>2, ZenonT(60) DEF validate_arg_default, NoDefault
<1> QED
  BY <1>2, <1>3, ZenonT(60) DEF validate_tvars

(* What main finds for a thread of packs that load. *)
LEMMA LoadedThreadResolves ==
    ASSUME NEW d \in Disks, NEW g, LoadOk(d, g), NEW pt \in Listed(d),
           Trim(IdAt(d.packs, pt)) = IdAt(d.packs, pt),
           \A i \in DOMAIN ThreadAt(d.packs, pt).args : ~NoDefault(ThreadAt(d.packs, pt).args[i])
    PROVE  /\ Trim(IdAt(d.packs, pt)) # <<>>
           /\ ThreadResolves(d, IdAt(d.packs, pt), <<>>)
           /\ load_packs(d)[Trim(IdAt(d.packs, pt))] \notin g
<1> DEFINE id == IdAt(d.packs, pt)
           th == ThreadAt(d.packs, pt)
<1>1. /\ pt \in Places(d.packs) /\ d.packs[pt[1]].manifest # "missing"
      /\ pt[1] \in DOMAIN d.packs /\ pt[2] \in DOMAIN d.packs[pt[1]].threads
      /\ pt = <<pt[1], pt[2]>>
  <2>1. pt \in Places(d.packs) /\ d.packs[pt[1]].manifest # "missing"
    BY DEF Listed
  <2>2. PICK p \in DOMAIN d.packs : pt \in {p} \X DOMAIN d.packs[p].threads
    BY <2>1 DEF Places
  <2> QED
    BY <2>1, <2>2
<1>2. d.dir = "ok"
  <2>1. CASE d.dir = "missing"
    <3>1. d.packs = <<>>
      BY <2>1, DoctorAssumption, ZenonT(60) DEF IsDisk
    <3> QED
      BY <1>1, <3>1
  <2> QED
    BY <2>1, ZenonT(60) DEF LoadOk
<1>3. /\ parse_pack_manifest(d.packs, pt[1], g)
      /\ \A b \in Listed(d) : IdAt(d.packs, b) = id => b = pt
  BY <1>1, <1>2, ZenonT(60) DEF LoadOk
<1>4. ThreadAccepted(th, pt \notin g)
  BY <1>1, <1>3, ZenonT(60) DEF parse_pack_manifest, ThreadAt
<1>5. Trim(id) # <<>> /\ pt \notin g
  BY <1>4, ZenonT(60) DEF ThreadAccepted, IdAt
<1>6. id \in DOMAIN load_packs(d) /\ load_packs(d)[id] = pt
  <2>1. id \in {IdAt(d.packs, a) : a \in Listed(d)}
    OBVIOUS
  <2>2. (CHOOSE a \in Listed(d) : IdAt(d.packs, a) = id) = pt
    BY <1>3, ZenonT(60)
  <2>3. load_packs(d) = [i \in {IdAt(d.packs, a) : a \in Listed(d)} |->
                            CHOOSE a \in Listed(d) : IdAt(d.packs, a) = i]
    <3> DEFINE found == IF d.dir = "ok" THEN Listed(d) ELSE {}
               index(S) == [i \in {IdAt(d.packs, a) : a \in S} |->
                                CHOOSE a \in S : IdAt(d.packs, a) = i]
    <3>1. found = Listed(d)
      BY <1>2
    <3>2. load_packs(d) = index(found)
      BY ZenonT(60) DEF load_packs
    <3> HIDE DEF found, index
    <3>3. index(found) = index(Listed(d))
      BY <3>1
    <3> QED
      BY <3>2, <3>3, ZenonT(60) DEF index
  <2> QED
    BY <2>1, <2>2, <2>3, ZenonT(60)
<1>7. validate_tvars(th.args, Merged(th.args, <<>>))
  <2>1. th.args \in Seq(Range(th.args))
    BY <1>1, DoctorAssumption, ZenonT(60) DEF IsDisk
  <2>2. \A i \in DOMAIN th.args :
           validate_arg_default(th.args[i].ty, toml_value_to_string(th.args[i].default))
    BY <1>4, ZenonT(60) DEF ThreadAccepted
  <2> QED
    BY <2>1, <2>2, DefaultsPass, ZenonT(60)
<1>8. ThreadResolves(d, id, <<>>)
  BY <1>6, <1>7, ZenonT(60) DEF ThreadResolves
<1> QED
  BY <1>5, <1>6, <1>8, ZenonT(60)

(* A command that has ended does nothing more. *)
LEMMA EndedStays == DTypes /\ [DNext]_dvars => exit = "running" \/ UNCHANGED dvars
BY ZenonT(60) DEF DTypes, DTypeOK, DNext, Doctor, StartCommand, StartTransform, RunDoctor,
   OpenPacks, NextPack, NextThread, check_header_and_terminator, scan_declared_arg_usage,
   security_scan_awk, SmokeSpawn, SmokeWrite, SmokeClose, SmokeRead, SmokeJudge,
   Report, Awk, AwkPrints, AwkReads, AwkEnds, RemoveScript

(* A command that is not the doctor's does not get there, and one that has  *)
(* ended stays as it is.                                                    *)
SInv ==
    /\ DTypes
    /\ pc = "doctor" => cli.cmd # "run"
    /\ LoadedThreadStarts

(* Every step keeps this. *)
LEMMA SInvStep == SInv /\ [DNext]_dvars => SInv'
<1> SUFFICES ASSUME SInv, [DNext]_dvars PROVE SInv'
  OBVIOUS
<1>0. DTypes /\ DTypes'
  BY DTypesStep DEF SInv
<1>1. CASE exit' # "1"
  <2>1. LoadedThreadStarts'
    BY <1>1, ZenonT(60) DEF LoadedThreadStarts
  <2>2. (pc = "start" /\ StartCommand) \/ pc' # "doctor" \/ (pc' = pc /\ cli' = cli)
    BY ZenonT(60) DEF DNext, Doctor, dvars, StartCommand, StartTransform, RunDoctor, OpenPacks,
       NextPack, NextThread, check_header_and_terminator, scan_declared_arg_usage,
       security_scan_awk, SmokeSpawn, SmokeWrite, SmokeError, SmokeClose, SmokeRead, SmokeJudge,
       Report, Goto, Leave, Awk, AwkPrints, AwkReads, AwkEnds, RemoveScript
  <2>3. StartCommand /\ pc' = "doctor" => cli'.cmd # "run"
    BY ZenonT(60) DEF StartCommand, Goto, Leave
  <2> QED
    BY <1>0, <2>1, <2>2, <2>3, ZenonT(60) DEF SInv
<1>2. CASE exit' = "1"
  <2>1. pc' # "doctor"
    BY <1>0, <1>2, ZenonT(60) DEF DTypes, DTypeOK
  <2>2. CASE StartTransform
    <3>1. UNCHANGED <<cli, disk, gone>>
      BY <2>2, ZenonT(60) DEF StartTransform
    <3> SUFFICES ASSUME cli.tvars = <<>>, LoadOk(disk, gone), NEW pt \in Listed(disk),
                        IdAt(disk.packs, pt) = cli.transform.target,
                        cli.transform.mode = "thread",
                        \A i \in DOMAIN ThreadAt(disk.packs, pt).args :
                            ~NoDefault(ThreadAt(disk.packs, pt).args[i]),
                        Trim(IdAt(disk.packs, pt)) = IdAt(disk.packs, pt)
                 PROVE  FALSE
      BY <1>0, <2>1, <3>1, ZenonT(60) DEF SInv, LoadedThreadStarts
    <3>2. disk \in Disks
      BY <1>0, ZenonT(60) DEF DTypes
    <3>3. /\ Trim(cli.transform.target) # <<>>
          /\ ThreadResolves(disk, cli.transform.target, cli.tvars)
          /\ load_packs(disk)[Trim(cli.transform.target)] \notin gone
      BY <3>2, LoadedThreadResolves, ZenonT(60)
    <3>4. exit' = "tui"
      BY <2>2, <3>3, ZenonT(60) DEF StartTransform, Leave, parse_transform
    <3> QED
      BY <1>2, <3>4
  <2>3. CASE StartCommand \/ RunDoctor
    <3>1. UNCHANGED <<cli, disk, gone>>
      BY <2>3, ZenonT(60) DEF StartCommand, RunDoctor
    <3>2. cli.cmd # "run" \/ ~LoadOk(disk, gone)
      BY <1>2, <2>3, ZenonT(60) DEF SInv, StartCommand, RunDoctor, Goto, Leave, DTypes, DTypeOK
    <3>3. LoadedThreadStarts'
      BY <3>1, <3>2, ZenonT(60) DEF LoadedThreadStarts
    <3> QED
      BY <1>0, <2>1, <3>3, ZenonT(60) DEF SInv
  <2>4. CASE UNCHANGED <<cli, disk, gone, exit>>
    <3>1. LoadedThreadStarts' <=> LoadedThreadStarts
      BY <2>4, ZenonT(60) DEF LoadedThreadStarts
    <3> QED
      BY <1>0, <2>1, <3>1, ZenonT(60) DEF SInv
  <2>5. exit = "running" \/ UNCHANGED dvars
    BY <1>0, EndedStays
  <2>6. StartCommand \/ StartTransform \/ RunDoctor \/ exit' # "1" \/ UNCHANGED <<cli, disk, gone, exit>>
    <3>1. CASE UNCHANGED dvars
      BY <3>1, ZenonT(60) DEF dvars
    <3>2. CASE exit = "running"
      BY <3>2, ZenonT(60) DEF DNext, Doctor, dvars, OpenPacks, NextPack, NextThread,
         check_header_and_terminator, scan_declared_arg_usage,
         security_scan_awk, SmokeSpawn, SmokeWrite, SmokeClose, SmokeRead, SmokeJudge,
         Report, Leave, Awk, AwkPrints, AwkReads, AwkEnds, RemoveScript
    <3> QED
      BY <2>5, <3>1, <3>2
  <2> QED
    BY <1>2, <2>2, <2>3, <2>4, <2>6, ZenonT(60)
<1> QED
  BY <1>1, <1>2

(* For any packs directory that loads, hawk starts with any thread of it    *)
(* and the defaults of its manifest, unless an int or bool argument has     *)
(* none, blanks surround the id, or the script is removed meanwhile.        *)
THEOREM LoadedThreadsStart == DSpec => []LoadedThreadStarts
<1>1. DInit => SInv
  BY DTypesInit, ZenonT(60) DEF DInit, SInv, LoadedThreadStarts
<1>2. SInv => LoadedThreadStarts
  BY DEF SInv
<1> QED
  BY <1>1, <1>2, SInvStep, PTL DEF DSpec

-------------------------------------------------------------------------------
(***************************************************************************)
(* The doctor's verdict.  During a smoke test, what awk has printed and is *)
(* about to print are the lines of its script for the input it has read;   *)
(* and at any time the doctor has found the errors there are in what it    *)
(* has been through, and no others, as long as no script is removed.       *)
(***************************************************************************)

Lines == Range(out) \cup Range(pipe) \cup Range(todo)

LinesSoFar ==
    Range(prog.begin) \cup (IF prog.reads /\ feed < wrote THEN Range(prog.each) ELSE {})

AwkAccount ==
    pc \in {"write", "read"} =>
        /\ out \in Seq(PrintedLine)
        /\ Lines = LinesSoFar
        /\ closed <=> pc = "read"
        /\ pc = "read" => wrote = SampleLines
        /\ awk # "off"
        /\ awk # "run" => todo = <<>> /\ awk = prog.status /\ (prog.reads => closed /\ feed = 0)

(* Due errors of a pack and of a thread, and what chance decides. *)
ParseDue(q) ==
    /\ q \in DOMAIN disk.packs /\ OpenDir
    /\ disk.packs[q].manifest # "missing" /\ ~parse_pack_manifest(disk.packs, q, gone)

CollisionDue(b) ==
    \E a \in Examined : EarlierPlace(a, b) /\ IdAt(disk.packs, a) = IdAt(disk.packs, b)

SecurityDue(b) ==
    \/ RiskAt(b) = "denied" /\ cli.security # "off"
    \/ RiskAt(b) = "getline" /\ cli.security = "strict"

ByChance == {<<"smoke", pt>> : pt \in {b \in Examined : ~ProgramAt(b).reads}}

(* The doctor is through with the stages before these for the thread.       *)
Through(b, stages) == Scanned(b) /\ (b = at => pc \notin stages)

Walk ==
    /\ at[1] <= Len(disk.packs)
    /\ pc \in AtThread \cup {"thread"} => parse_pack_manifest(disk.packs, at[1], gone)
    /\ pc \in {"pack", "report"} => \A a \in Examined : a[1] = at[1] => a[2] <= at[2]
    /\ pc = "report" => at[1] = Len(disk.packs)
    /\ pc \in {"write", "read"} => prog = ProgramAt(at)
    /\ seen = {IdAt(disk.packs, a) : a \in {b \in Examined : Scanned(b)}}
    /\ errors \subseteq DueErrors \cup ByChance
    /\ \A q \in 1 .. at[1] : ParseDue(q) => <<"parse", <<q, 0>>>> \in errors
    /\ \A b \in Examined : Scanned(b) /\ CollisionDue(b) => <<"collision", b>> \in errors
    /\ \A b \in Examined :
          Through(b, {"style", "schema", "security"}) /\ SecurityDue(b) => <<"security", b>> \in errors
    /\ \A b \in Examined :
          Through(b, AtThread) /\ SmokeFails(ProgramAt(b)) => <<"smoke", b>> \in errors

DInv ==
    /\ LInv
    /\ AwkAccount
    /\ pc \in {"start", "transform", "doctor", "open"} => seen = {}
    /\ pc \in AtThread \cup {"open", "pack", "thread", "report"} =>
          cli.security \in {"strict", "warn", "off"}
    /\ removals = 0 /\ OpenDir /\ pc \in AtThread \cup {"pack", "thread", "report"} => Walk
    /\ pc = "report" /\ ~OpenDir =>
          errors = {<<"dir unreadable", <<0, 0>>>> : d \in {disk.dir} \cap {"unreadable"}}
    /\ DoctorVerdict

(* What is in a sequence after an append. *)
LEMMA SetOfAppend ==
    ASSUME NEW U, NEW q \in Seq(U), NEW x \in U
    PROVE  Range(Append(q, x)) = Range(q) \cup {x}
<1>1. /\ DOMAIN Append(q, x) = 1 .. Len(q) + 1 /\ DOMAIN q = 1 .. Len(q) /\ Len(q) \in Nat
      /\ \A i \in 1 .. Len(q) : Append(q, x)[i] = q[i]
      /\ Append(q, x)[Len(q) + 1] = x
  OBVIOUS
<1>2. \A i \in 1 .. Len(q) + 1 : i \in 1 .. Len(q) \/ i = Len(q) + 1
  BY <1>1
<1>3. 1 .. Len(q) \subseteq 1 .. Len(q) + 1 /\ Len(q) + 1 \in 1 .. Len(q) + 1
  BY <1>1
<1> QED
  BY <1>1, <1>2, <1>3 DEF Range

(* A sequence is its head and the rest. *)
LEMMA SetOfTail ==
    ASSUME NEW U, NEW q \in Seq(U), q # <<>>
    PROVE  /\ Head(q) \in U /\ Tail(q) \in Seq(U)
           /\ Range(q) = {Head(q)} \cup Range(Tail(q))
<1>1. /\ Head(q) \in U /\ Tail(q) \in Seq(U) /\ Head(q) = q[1]
      /\ Len(q) \in Nat /\ Len(q) > 0 /\ DOMAIN q = 1 .. Len(q)
      /\ DOMAIN Tail(q) = 1 .. Len(q) - 1
      /\ \A i \in 1 .. Len(q) - 1 : Tail(q)[i] = q[i + 1]
  OBVIOUS
<1>2. \A i \in 1 .. Len(q) : i = 1 \/ \E j \in 1 .. Len(q) - 1 : i = j + 1
  <2> TAKE i \in 1 .. Len(q)
  <2>1. i = 1 \/ (i - 1 \in 1 .. Len(q) - 1 /\ i = (i - 1) + 1)
    BY <1>1
  <2> QED
    BY <2>1
<1>3. 1 \in 1 .. Len(q) /\ \A j \in 1 .. Len(q) - 1 : j + 1 \in 1 .. Len(q)
  BY <1>1
<1>4. \A x \in Range(q) : x \in {Head(q)} \cup Range(Tail(q))
  <2> SUFFICES ASSUME NEW i \in 1 .. Len(q), q[i] # Head(q) PROVE q[i] \in Range(Tail(q))
    BY <1>1 DEF Range
  <2>1. PICK j \in 1 .. Len(q) - 1 : i = j + 1
    BY <1>1, <1>2
  <2>2. q[i] = Tail(q)[j]
    BY <1>1, <2>1
  <2> QED
    BY ZenonT(60), <1>1, <2>2 DEF Range
<1>5. Head(q) \in Range(q) /\ \A x \in Range(Tail(q)) : x \in Range(q)
  BY <1>1, <1>3 DEF Range
<1> QED
  BY <1>1, <1>4, <1>5

(* What is in two sequences joined. *)
LEMMA SetOfJoin ==
    ASSUME NEW U, NEW p \in Seq(U), NEW q \in Seq(U)
    PROVE  Range(p \o q) = Range(p) \cup Range(q)
<1>1. /\ DOMAIN (p \o q) = 1 .. Len(p) + Len(q) /\ DOMAIN p = 1 .. Len(p) /\ DOMAIN q = 1 .. Len(q)
      /\ Len(p) \in Nat /\ Len(q) \in Nat
      /\ \A i \in 1 .. Len(p) : (p \o q)[i] = p[i]
      /\ \A i \in 1 .. Len(q) : (p \o q)[Len(p) + i] = q[i]
  OBVIOUS
<1>2. \A i \in 1 .. Len(p) + Len(q) :
         i \in 1 .. Len(p) \/ \E j \in 1 .. Len(q) : i = Len(p) + j
  <2> TAKE i \in 1 .. Len(p) + Len(q)
  <2>1. i \in 1 .. Len(p) \/ (i - Len(p) \in 1 .. Len(q) /\ i = Len(p) + (i - Len(p)))
    BY <1>1
  <2> QED
    BY <2>1
<1>3. /\ \A i \in 1 .. Len(p) : i \in 1 .. Len(p) + Len(q)
      /\ \A i \in 1 .. Len(q) : Len(p) + i \in 1 .. Len(p) + Len(q)
  BY <1>1
<1>4. \A x \in Range(p \o q) : x \in Range(p) \cup Range(q)
  BY <1>1, <1>2 DEF Range
<1>5. \A x \in Range(p) : x \in Range(p \o q)
  BY <1>1, <1>3 DEF Range
<1>6. \A x \in Range(q) : x \in Range(p \o q)
  BY ZenonT(60), <1>1, <1>3 DEF Range
<1> QED
  BY <1>4, <1>5, <1>6

(* Writing and reading, and awk's own steps, keep the account of awk. *)
LEMMA AwkAccountStep ==
    ASSUME LInv, LInv', AwkAccount, [DNext]_dvars
    PROVE  AwkAccount'
<1>0. /\ DTypes /\ DTypes' /\ IsProgram(prog)
      /\ wrote \in Nat /\ feed \in Nat /\ feed <= wrote /\ wrote <= 3
      /\ prog.begin \in Seq(PrintedLine) /\ prog.each \in Seq(PrintedLine)
      /\ pipe \in Seq(PrintedLine) /\ todo \in Seq(PrintedLine)
      /\ prog.reads \in BOOLEAN
  <2>1. DTypes /\ DTypes'
    BY DEF LInv
  <2>2. DTypeOK /\ IsProgram(prog)
    BY <2>1 DEF DTypes
  <2>3. wrote \in Nat /\ feed \in Nat /\ feed <= wrote /\ wrote <= 3
    BY <2>1, <2>2 DEF DTypes, DTypeOK, SampleLines
  <2>4. pipe \in Seq(PrintedLine) /\ todo \in Seq(PrintedLine)
    BY <2>1, <2>2 DEF DTypes, DTypeOK
  <2> QED
    BY <2>1, <2>2, <2>3, <2>4 DEF IsProgram
<1>1. CASE pc' \notin {"write", "read"}
  BY <1>1 DEF AwkAccount
<1>2. CASE SmokeSpawn
  <2>1. /\ pc' = "write" /\ wrote' = 0 /\ closed' = FALSE /\ feed' = 0 /\ awk' = "run"
        /\ todo' = prog'.begin /\ pipe' = <<>> /\ out' = <<>>
    BY <1>2 DEF SmokeSpawn
  <2>2. Range(<<>>) = {} /\ out' \in Seq(PrintedLine)
    BY <2>1 DEF Range
  <2>3. Lines' = Range(todo')
    BY <2>1, <2>2 DEF Lines
  <2>4. LinesSoFar' = Range(prog'.begin)
    BY <2>1 DEF LinesSoFar
  <2> QED
    BY <2>1, <2>2, <2>3, <2>4 DEF AwkAccount
<1>3. CASE SmokeWrite /\ pc' = "write"
  <2>1. /\ pc = "write" /\ awk = "run" /\ wrote < 3 /\ wrote' = wrote + 1 /\ feed' = feed + 1
        /\ UNCHANGED <<closed, awk, prog, todo, pipe, out>>
    BY <1>3 DEF SmokeWrite, SmokeError, SampleLines
  <2>2. feed' < wrote' <=> feed < wrote
    BY <1>0, <2>1
  <2>3. Lines' = Lines /\ LinesSoFar' = LinesSoFar
    BY <2>1, <2>2 DEF Lines, LinesSoFar
  <2> QED
    BY <1>3, <2>1, <2>3 DEF AwkAccount
<1>4. CASE SmokeClose
  <2>1. /\ pc = "write" /\ pc' = "read" /\ closed' = TRUE /\ wrote = SampleLines
        /\ UNCHANGED <<wrote, feed, awk, prog, todo, pipe, out>>
    BY <1>4 DEF SmokeClose
  <2>2. Lines' = Lines /\ LinesSoFar' = LinesSoFar
    BY <2>1 DEF Lines, LinesSoFar
  <2> QED
    BY <2>1, <2>2 DEF AwkAccount
<1>5. CASE SmokeRead
  <2>1. /\ pc = "read" /\ pipe # <<>> /\ out' = Append(out, Head(pipe)) /\ pipe' = Tail(pipe)
        /\ UNCHANGED <<pc, wrote, closed, feed, awk, prog, todo>>
    BY <1>5 DEF SmokeRead
  <2>2. out \in Seq(PrintedLine)
    BY <2>1 DEF AwkAccount
  <2>3. /\ Head(pipe) \in PrintedLine /\ Tail(pipe) \in Seq(PrintedLine)
        /\ Range(pipe) = {Head(pipe)} \cup Range(Tail(pipe))
    BY <1>0, <2>1, SetOfTail
  <2>4. Range(Append(out, Head(pipe))) = Range(out) \cup {Head(pipe)}
    BY <2>2, <2>3, SetOfAppend
  <2>5. out' \in Seq(PrintedLine)
    BY <2>1, <2>2, <2>3
  <2>6. Lines' = Lines
    BY <2>1, <2>3, <2>4 DEF Lines
  <2>7. LinesSoFar' = LinesSoFar
    BY <2>1 DEF LinesSoFar
  <2> QED
    BY <2>1, <2>5, <2>6, <2>7 DEF AwkAccount
<1>6. CASE AwkPrints
  <2>1. /\ awk = "run" /\ todo # <<>> /\ pipe' = Append(pipe, Head(todo)) /\ todo' = Tail(todo)
        /\ UNCHANGED <<pc, wrote, closed, feed, awk, prog, out>>
    BY <1>6 DEF AwkPrints
  <2>2. /\ Head(todo) \in PrintedLine /\ Tail(todo) \in Seq(PrintedLine)
        /\ Range(todo) = {Head(todo)} \cup Range(Tail(todo))
    BY <1>0, <2>1, SetOfTail
  <2>3. Range(Append(pipe, Head(todo))) = Range(pipe) \cup {Head(todo)}
    BY <1>0, <2>2, SetOfAppend
  <2>4. Lines' = Lines
    BY <2>1, <2>2, <2>3 DEF Lines
  <2>5. LinesSoFar' = LinesSoFar
    BY <2>1 DEF LinesSoFar
  <2> QED
    BY <2>1, <2>4, <2>5 DEF AwkAccount
<1>7. CASE AwkReads
  <2>1. /\ awk = "run" /\ todo = <<>> /\ prog.reads /\ feed > 0 /\ feed' = feed - 1
        /\ todo' = prog.each
        /\ UNCHANGED <<pc, wrote, closed, awk, prog, pipe, out>>
    BY <1>7 DEF AwkReads
  <2>2. pc \in {"write", "read"}
    BY <1>0, <2>1 DEF DTypes, DTypeOK
  <2>3. Range(todo) = {} /\ feed' < wrote'
    BY <1>0, <2>1 DEF Range
  <2>4. Lines' = Lines \cup Range(prog.each)
    BY <2>1, <2>3 DEF Lines
  <2>5. LinesSoFar' = Range(prog.begin) \cup Range(prog.each)
    BY <2>1, <2>3 DEF LinesSoFar
  <2>6. Lines = Range(prog.begin) \/ Lines = Range(prog.begin) \cup Range(prog.each)
    BY <2>2, ZenonT(60) DEF AwkAccount, LinesSoFar
  <2>7. Lines' = LinesSoFar'
    BY <2>4, <2>5, <2>6
  <2> QED
    BY <2>1, <2>2, <2>7 DEF AwkAccount
<1>8. CASE AwkEnds
  <2>1. /\ awk = "run" /\ todo = <<>> /\ prog.status # "never" /\ awk' = prog.status
        /\ prog.reads => feed = 0 /\ closed
        /\ UNCHANGED <<pc, wrote, closed, feed, prog, todo, pipe, out>>
    BY <1>8 DEF AwkEnds
  <2>2. Lines' = Lines /\ LinesSoFar' = LinesSoFar
    BY <2>1 DEF Lines, LinesSoFar
  <2>3. awk' # "off"
    BY <1>0, <2>1 DEF IsProgram
  <2> QED
    BY <2>1, <2>2, <2>3 DEF AwkAccount
<1>9. CASE UNCHANGED <<pc, wrote, closed, feed, awk, prog, todo, pipe, out>>
  BY <1>9 DEF AwkAccount, Lines, LinesSoFar
<1>10. CASE \E pt \in Listed(disk) : RemoveScript(pt)
  BY <1>9, <1>10 DEF RemoveScript, smoke
<1>11. CASE UNCHANGED dvars
  BY <1>9, <1>11 DEF dvars, smoke
<1>12. CASE SmokeWrite /\ pc' # "write"
  BY <1>1, <1>12, ZenonT(60) DEF SmokeWrite, SmokeError
<1>13. CASE \/ StartCommand \/ StartTransform \/ RunDoctor \/ OpenPacks \/ NextPack \/ NextThread
            \/ check_header_and_terminator \/ scan_declared_arg_usage \/ security_scan_awk
            \/ SmokeJudge \/ Report
  <2>1. pc' \notin {"write", "read"}
    BY <1>13, ZenonT(60) DEF StartCommand, StartTransform, RunDoctor, OpenPacks, NextPack, NextThread,
       check_header_and_terminator, scan_declared_arg_usage, security_scan_awk,
       SmokeJudge, SmokeError, Report, Goto, Leave
  <2> QED
    BY <1>1, <2>1
<1> QED
  BY <1>2, <1>3, <1>4, <1>5, <1>6, <1>7, <1>8, <1>10, <1>11, <1>12, <1>13, Zenon
     DEF DNext, Doctor, Awk

(* The lines of a program that prints something for each line of the sample. *)
LEMMA SetOfPrinted ==
    ASSUME NEW U, NEW b \in Seq(U), NEW e \in Seq(U)
    PROVE  Range(b \o (e \o e \o e)) = Range(b) \cup Range(e)
<1>1. \A p, q \in Seq(U) : p \o q \in Seq(U)
  OBVIOUS
<1>2. \A p, q \in Seq(U) : Range(p \o q) = Range(p) \cup Range(q)
  BY SetOfJoin
<1>3. e \o e \in Seq(U) /\ Range(e \o e) = Range(e) \cup Range(e)
  BY <1>1, <1>2, ZenonT(60)
<1>4. e \o e \o e \in Seq(U) /\ Range(e \o e \o e) = Range(e \o e) \cup Range(e)
  BY <1>1, <1>2, <1>3, ZenonT(60)
<1>5. Range(b \o (e \o e \o e)) = Range(b) \cup Range(e \o e \o e)
  BY <1>2, <1>4, ZenonT(60)
<1> QED
  BY <1>3, <1>4, <1>5, ZenonT(60)

(* When awk has ended and its output is read, the verdict on it is that on  *)
(* all its script prints for the sample.                                    *)
LEMMA SmokeJudged ==
    ASSUME LInv, AwkAccount, pc = "read", pipe = <<>>, awk # "run"
    PROVE  SmokeOk <=> ~SmokeFails(prog)
<1>1. /\ prog.begin \in Seq(PrintedLine) /\ prog.each \in Seq(PrintedLine)
      /\ prog.reads \in BOOLEAN /\ prog.status \in {"ok", "failed", "never"}
      /\ awk \in {"ok", "failed"} /\ out \in Seq(PrintedLine) /\ awk = prog.status
  BY DEF LInv, DTypes, DTypeOK, AwkAccount, IsProgram
<1>2. Range(out) = Range(prog.begin) \cup (IF prog.reads THEN Range(prog.each) ELSE {})
  <2>1. todo = <<>> /\ Lines = LinesSoFar /\ wrote = 3 /\ (prog.reads => feed = 0)
    BY DEF AwkAccount, SampleLines
  <2>2. Range(<<>>) = {}
    BY DEF Range
  <2>3. Lines = Range(out)
    BY <2>1, <2>2 DEF Lines
  <2>4. prog.reads => feed < wrote
    BY <2>1
  <2> QED
    BY <2>1, <2>3, <2>4, ZenonT(60) DEF LinesSoFar
<1>3. Range(Printed(prog)) = Range(out)
  <2>1. CASE prog.reads
    <3>1. Printed(prog) = prog.begin \o (prog.each \o prog.each \o prog.each)
      BY ZenonT(60), <2>1 DEF Printed
    <3>2. Range(prog.begin \o (prog.each \o prog.each \o prog.each))
            = Range(prog.begin) \cup Range(prog.each)
      BY <1>1, SetOfPrinted
    <3> QED
      BY <1>2, <2>1, <3>1, <3>2, ZenonT(60)
  <2>2. CASE ~prog.reads
    <3>1. Printed(prog) = prog.begin
      BY <1>1, <2>2 DEF Printed
    <3> QED
      BY <1>2, <2>2, <3>1
  <2> QED
    BY <2>1, <2>2
<1>4. (\A i \in DOMAIN out : ~Refused(TrimLine(out[i])))
        <=> \A x \in Range(out) : ~Refused(TrimLine(x))
  BY Zenon DEF Range
<1>5. (\E i \in DOMAIN Printed(prog) : Refused(TrimLine(Printed(prog)[i])))
        <=> \E x \in Range(Printed(prog)) : Refused(TrimLine(x))
  BY Zenon DEF Range
<1> QED
  BY <1>1, <1>3, <1>4, <1>5, ZenonT(60) DEF SmokeOk, SmokeFails

(* What is due depends on the command, the packs and the scripts there are. *)
LEMMA DueUnchanged ==
    ASSUME UNCHANGED <<cli, disk, gone>>
    PROVE  /\ Examined' = Examined /\ DueErrors' = DueErrors /\ ByChance' = ByChance
           /\ OpenDir' <=> OpenDir
           /\ \A q : ParseDue(q)' <=> ParseDue(q)
           /\ \A b : CollisionDue(b)' <=> CollisionDue(b)
           /\ \A b : SecurityDue(b)' <=> SecurityDue(b)
           /\ \A b : ProgramAt(b)' = ProgramAt(b)
<1>1. Examined' = Examined
  BY Zenon DEF Examined
<1>2. \A b : ProgramAt(b)' = ProgramAt(b) /\ RiskAt(b)' = RiskAt(b)
  BY ZenonT(60) DEF ProgramAt, RiskAt
<1>3. ByChance' = ByChance
  BY <1>1, <1>2 DEF ByChance
<1>4. DueErrors' = DueErrors
  BY ZenonT(60) DEF DueErrors, Examined, ProgramAt, RiskAt
<1> QED
  BY <1>1, <1>2, <1>3, <1>4, ZenonT(60) DEF OpenDir, ParseDue, CollisionDue, SecurityDue

(* The errors that are due, one kind after the other. *)
LEMMA DueByKind ==
    /\ \A q : ParseDue(q) => <<"parse", <<q, 0>>>> \in DueErrors
    /\ \A b \in Examined :
          /\ CollisionDue(b) => <<"collision", b>> \in DueErrors
          /\ SecurityDue(b) => <<"security", b>> \in DueErrors
          /\ SmokeFails(ProgramAt(b)) => <<"smoke", b>> \in DueErrors
          /\ ~ProgramAt(b).reads => <<"smoke", b>> \in ByChance
    /\ disk.dir = "unreadable" => <<"dir unreadable", <<0, 0>>>> \in DueErrors
<1>1. \A q : ParseDue(q) => <<"parse", <<q, 0>>>> \in DueErrors
  BY Zenon DEF ParseDue, OpenDir, DueErrors
<1>2. \A b \in Examined : CollisionDue(b) => <<"collision", b>> \in DueErrors
  BY Zenon DEF CollisionDue, DueErrors
<1>3. \A b \in Examined : SecurityDue(b) => <<"security", b>> \in DueErrors
  BY Zenon DEF SecurityDue, DueErrors
<1>4. \A b \in Examined : SmokeFails(ProgramAt(b)) => <<"smoke", b>> \in DueErrors
  BY Zenon DEF DueErrors
<1>5. \A b \in Examined : ~ProgramAt(b).reads => <<"smoke", b>> \in ByChance
  BY Zenon DEF ByChance
<1>6. disk.dir = "unreadable" => <<"dir unreadable", <<0, 0>>>> \in DueErrors
  BY Zenon DEF DueErrors
<1> QED
  BY ZenonT(60), <1>1, <1>2, <1>3, <1>4, <1>5, <1>6

(* There are no others. *)
LEMMA DueOnly ==
    ASSUME NEW e \in DueErrors
    PROVE  \/ disk.dir = "unreadable" /\ e = <<"dir unreadable", <<0, 0>>>>
           \/ \E q : ParseDue(q) /\ e = <<"parse", <<q, 0>>>>
           \/ \E b \in Examined : CollisionDue(b) /\ e = <<"collision", b>>
           \/ \E b \in Examined : SecurityDue(b) /\ e = <<"security", b>>
           \/ \E b \in Examined : SmokeFails(ProgramAt(b)) /\ e = <<"smoke", b>>
BY ZenonT(60) DEF DueErrors, ParseDue, OpenDir, CollisionDue, SecurityDue

(* Steps within the checks of a thread. *)
LEMMA WalkStay ==
    ASSUME Walk, at \in Nat \X Nat,
           UNCHANGED <<cli, disk, gone, at, seen>>,
           pc \in AtThread, pc' \in AtThread \cup {"thread"},
           errors \subseteq errors', errors' \subseteq DueErrors \cup ByChance,
           pc' \in {"write", "read"} => prog' = ProgramAt(at),
           \/ pc \notin {"style", "schema", "security"}
           \/ pc' \in {"style", "schema", "security"}
           \/ SecurityDue(at) => <<"security", at>> \in errors',
           pc' = "thread" /\ SmokeFails(ProgramAt(at)) => <<"smoke", at>> \in errors'
    PROVE  Walk'
<1>1. /\ Examined' = Examined /\ DueErrors' = DueErrors /\ ByChance' = ByChance
      /\ \A q : ParseDue(q)' <=> ParseDue(q)
      /\ \A b : CollisionDue(b)' <=> CollisionDue(b)
      /\ \A b : SecurityDue(b)' <=> SecurityDue(b)
      /\ \A b : ProgramAt(b)' = ProgramAt(b)
  BY DueUnchanged
<1>2. \A b : Scanned(b)' <=> Scanned(b)
  BY ZenonT(60) DEF Scanned
<1>3. pc' \notin {"pack", "report"} /\ pc \in AtThread \cup {"thread"}
  BY DEF AtThread
<1>4. seen' = {IdAt(disk'.packs, a) : a \in {b \in Examined' : Scanned(b)'}}
  BY <1>1, <1>2 DEF Walk
<1>5. ASSUME NEW b \in Examined,
             Through(b, {"style", "schema", "security"})', SecurityDue(b)
      PROVE  <<"security", b>> \in errors'
  <2>1. CASE b = at
    BY <1>2, <1>5, <2>1, ZenonT(60) DEF Walk, Through
  <2>2. CASE b # at
    BY <1>2, <1>5, <2>2, ZenonT(60) DEF Walk, Through
  <2> QED
    BY <2>1, <2>2
<1>6. ASSUME NEW b \in Examined, Through(b, AtThread)', SmokeFails(ProgramAt(b))
      PROVE  <<"smoke", b>> \in errors'
  <2>1. CASE b = at
    <3>1. pc' = "thread"
      BY <1>6, <2>1, ZenonT(60) DEF Through
    <3> QED
      BY <1>6, <2>1, <3>1, ZenonT(60)
  <2>2. CASE b # at
    BY <1>2, <1>6, <2>2, ZenonT(60) DEF Walk, Through
  <2> QED
    BY <2>1, <2>2
<1>7. \A q \in 1 .. at[1] : ParseDue(q) => <<"parse", <<q, 0>>>> \in errors'
  BY ZenonT(60) DEF Walk
<1>8. \A b \in Examined : Scanned(b) /\ CollisionDue(b) => <<"collision", b>> \in errors'
  BY ZenonT(60) DEF Walk
<1>9. at[1] <= Len(disk.packs) /\ parse_pack_manifest(disk.packs, at[1], gone)
  BY <1>3, ZenonT(60) DEF Walk
<1>10. \A b \in Examined' :
          Through(b, {"style", "schema", "security"})' /\ SecurityDue(b)' => <<"security", b>> \in errors'
  BY <1>1, <1>5, ZenonT(60)
<1>11. \A b \in Examined' :
          Through(b, AtThread)' /\ SmokeFails(ProgramAt(b)') => <<"smoke", b>> \in errors'
  BY <1>1, <1>6, ZenonT(60)
<1>12. \A b \in Examined' : Scanned(b)' /\ CollisionDue(b)' => <<"collision", b>> \in errors'
  BY <1>1, <1>2, <1>8, ZenonT(60)
<1>13. \A q \in 1 .. at'[1] : ParseDue(q)' => <<"parse", <<q, 0>>>> \in errors'
  BY <1>1, <1>7, ZenonT(60)
<1>14. /\ at'[1] <= Len(disk'.packs) /\ parse_pack_manifest(disk'.packs, at'[1], gone')
       /\ errors' \subseteq DueErrors' \cup ByChance'
       /\ pc' \in {"write", "read"} => prog' = ProgramAt(at)'
  <2>1. ProgramAt(at)' = ProgramAt(at)
    BY ZenonT(60) DEF ProgramAt
  <2> QED
    BY <1>1, <1>9, <2>1, ZenonT(60)
<1> QED
  BY <1>3, <1>4, <1>10, <1>11, <1>12, <1>13, <1>14, ZenonT(60) DEF Walk

(* The thread looked at is in a pack that parses, so its script is there. *)
LEMMA AtExamined ==
    ASSUME LInv, Walk, OpenDir, pc \in AtThread
    PROVE  at \in Examined /\ ~Gone
<1>1. at \in Listed(disk) /\ disk \in Disks
  BY DEF LInv, DTypes
<1>2. parse_pack_manifest(disk.packs, at[1], gone)
  BY Zenon DEF Walk
<1>3. at \in Examined
  BY <1>1, <1>2, ZenonT(60) DEF Examined, OpenDir
<1>4. at = <<at[1], at[2]>> /\ at[2] \in DOMAIN disk.packs[at[1]].threads
  <2>1. at \in Places(disk.packs)
    BY <1>1 DEF Listed
  <2>2. PICK p \in DOMAIN disk.packs : at \in {p} \X DOMAIN disk.packs[p].threads
    BY <2>1 DEF Places
  <2> QED
    BY <2>2
<1>5. at \notin gone
  BY <1>2, <1>4, ZenonT(60) DEF parse_pack_manifest, ThreadAccepted
<1> QED
  BY <1>3, <1>5, ZenonT(60) DEF Gone

(* The checks of a thread, its smoke test included, find what is due. *)
LEMMA WalkThread ==
    ASSUME LInv, LInv', AwkAccount, Walk, OpenDir,
           cli.security \in {"strict", "warn", "off"},
           \/ check_header_and_terminator \/ scan_declared_arg_usage \/ security_scan_awk
           \/ SmokeSpawn \/ SmokeWrite \/ SmokeClose \/ SmokeRead \/ SmokeJudge \/ Awk
    PROVE  Walk'
<1>1. /\ UNCHANGED <<cli, disk, gone, at, seen>>
      /\ pc \in AtThread /\ pc' \in AtThread \cup {"thread"}
  <2>1. UNCHANGED <<cli, disk, gone, at, seen>>
    BY DEF check_header_and_terminator, scan_declared_arg_usage, security_scan_awk,
       SmokeSpawn, SmokeWrite, SmokeClose, SmokeRead, SmokeJudge,
       Awk, AwkPrints, AwkReads, AwkEnds, report
  <2>2. CASE Awk
    <3>1. awk = "run" /\ pc' = pc
      BY <2>2, ZenonT(60) DEF Awk, AwkPrints, AwkReads, AwkEnds
    <3> QED
      BY ZenonT(60), <2>1, <3>1 DEF LInv, DTypes, DTypeOK, AtThread
  <2>3. CASE ~Awk
    BY <2>1, <2>3, ZenonT(60) DEF check_header_and_terminator, scan_declared_arg_usage,
       security_scan_awk, SmokeSpawn, SmokeWrite, SmokeError, SmokeClose, SmokeRead, SmokeJudge, AtThread
  <2> QED
    BY <2>2, <2>3
<1>2. at \in Examined /\ ~Gone /\ at \in Nat \X Nat
  BY <1>1, AtExamined DEF LInv, DTypes
<1>3. errors \subseteq DueErrors \cup ByChance
  BY DEF Walk
<1>4. pc \in {"write", "read"} => prog = ProgramAt(at)
  BY DEF Walk
<1>5. /\ SecurityDue(at) => <<"security", at>> \in DueErrors
      /\ SmokeFails(ProgramAt(at)) => <<"smoke", at>> \in DueErrors
      /\ ~ProgramAt(at).reads => <<"smoke", at>> \in ByChance
  BY <1>2, DueByKind, ZenonT(60)
<1>6. CASE check_header_and_terminator \/ scan_declared_arg_usage
  <2>1. /\ errors' = errors /\ pc \in {"style", "schema"} /\ pc' \in {"schema", "security"}
    BY <1>6, ZenonT(60) DEF check_header_and_terminator, scan_declared_arg_usage
  <2> QED
    BY <1>1, <1>2, <1>3, <2>1, WalkStay
<1>7. CASE security_scan_awk
  <2>1. /\ pc = "security" /\ pc' = "spawn"
        /\ errors' = IF FindingSeverity = "error" THEN errors \cup {<<"security", at>>} ELSE errors
    BY <1>7, ZenonT(60) DEF security_scan_awk, Note
  <2>2. FindingSeverity = "error" <=> SecurityDue(at)
    <3>1. RiskAt(at) \in {"none", "getline", "denied"} /\ RiskAt(at) = Script.risk
      <4>1. disk \in Disks /\ at \in Places(disk.packs)
        BY <1>2, ZenonT(60) DEF LInv, DTypes, Examined, Listed
      <4> QED
        BY <4>1, DoctorAssumption, ZenonT(60) DEF IsDisk, RiskAt, Script, Thread
    <3>2. CASE cli.security = "off"
      <4>1. FindingSeverity = "none"
        BY <3>2, ZenonT(60) DEF FindingSeverity
      <4> QED
        BY <3>2, <4>1, ZenonT(60) DEF SecurityDue
    <3>3. CASE cli.security # "off" /\ Script.risk = "none"
      <4>1. FindingSeverity = "none"
        BY <1>2, <3>3, ZenonT(60) DEF FindingSeverity
      <4> QED
        BY <3>1, <3>3, <4>1, ZenonT(60) DEF SecurityDue
    <3>4. CASE cli.security # "off" /\ Script.risk = "denied"
      <4>1. FindingSeverity = "error"
        BY <1>2, <3>4, ZenonT(60) DEF FindingSeverity
      <4> QED
        BY <3>1, <3>4, <4>1, ZenonT(60) DEF SecurityDue
    <3>5. CASE cli.security # "off" /\ Script.risk = "getline"
      <4>1. FindingSeverity = IF cli.security = "strict" THEN "error" ELSE "warning"
        BY <1>2, <3>5, ZenonT(60) DEF FindingSeverity
      <4> QED
        BY <3>1, <3>5, <4>1, ZenonT(60) DEF SecurityDue
    <3> QED
      BY <3>1, <3>2, <3>3, <3>4, <3>5, ZenonT(60)
  <2>3. errors' \subseteq DueErrors \cup ByChance /\ errors \subseteq errors'
        /\ (SecurityDue(at) => <<"security", at>> \in errors')
    BY <1>3, <1>5, <2>1, <2>2
  <2> QED
    BY <1>1, <1>2, <2>1, <2>3, WalkStay
<1>8. CASE SmokeSpawn
  <2>1. /\ pc = "spawn" /\ pc' = "write" /\ errors' = errors
        /\ prog' = IF Gone THEN NoScript ELSE Script.program
    BY <1>8, ZenonT(60) DEF SmokeSpawn, report
  <2>2. prog' = ProgramAt(at)
    BY <1>2, <2>1, ZenonT(60) DEF Script, Thread, ProgramAt
  <2> QED
    BY <1>1, <1>2, <1>3, <2>1, <2>2, WalkStay
<1>9. CASE SmokeWrite
  <2>1. prog' = prog /\ pc = "write"
    BY <1>9, ZenonT(60) DEF SmokeWrite
  <2>2. CASE pc' = "write" /\ errors' = errors
    BY <1>1, <1>2, <1>3, <1>4, <2>1, <2>2, WalkStay
  <2>3. CASE awk # "run" /\ pc' = "thread" /\ errors' = errors \cup {<<"smoke", at>>}
    <3>1. ~prog.reads
      BY <2>1, <2>3, ZenonT(60) DEF AwkAccount
    <3>2. errors' \subseteq DueErrors \cup ByChance /\ errors \subseteq errors'
          /\ <<"smoke", at>> \in errors'
      BY <1>3, <1>4, <1>5, <2>1, <2>3, <3>1
    <3> QED
      BY <1>1, <1>2, <2>1, <2>3, <3>2, WalkStay
  <2> QED
    BY <1>9, <2>2, <2>3, ZenonT(60) DEF SmokeWrite, SmokeError, Note
<1>10. CASE SmokeClose \/ SmokeRead \/ Awk
  <2>1. /\ prog' = prog /\ errors' = errors /\ pc \in {"write", "read"} /\ pc' \in {"write", "read"}
    <3>1. prog' = prog /\ errors' = errors /\ (pc' = pc \/ (pc = "write" /\ pc' = "read"))
      BY <1>10, ZenonT(60) DEF SmokeClose, SmokeRead, Awk, AwkPrints, AwkReads, AwkEnds, report
    <3>2. pc \in {"write", "read"}
      <4>1. awk = "run" \/ pc \in {"write", "read"}
        BY <1>10, ZenonT(60) DEF SmokeClose, SmokeRead, Awk, AwkPrints, AwkReads, AwkEnds
      <4>2. DTypeOK
        BY DEF LInv, DTypes
      <4> QED
        BY <4>1, <4>2 DEF DTypeOK
    <3> QED
      BY <3>1, <3>2
  <2> QED
    BY <1>1, <1>2, <1>3, <1>4, <2>1, WalkStay
<1>11. CASE SmokeJudge
  <2>1. /\ pc = "read" /\ pipe = <<>> /\ awk # "run" /\ pc' = "thread"
        /\ errors' = IF SmokeOk THEN errors ELSE errors \cup {<<"smoke", at>>}
    BY <1>11, ZenonT(60) DEF SmokeJudge, SmokeError, Note
  <2>2. SmokeOk <=> ~SmokeFails(ProgramAt(at))
    BY <1>4, <2>1, SmokeJudged
  <2>3. errors' \subseteq DueErrors \cup ByChance /\ errors \subseteq errors'
        /\ (SmokeFails(ProgramAt(at)) => <<"smoke", at>> \in errors')
    BY <1>3, <1>5, <2>1, <2>2
  <2> QED
    BY <1>1, <1>2, <2>1, <2>3, WalkStay
<1> QED
  BY <1>6, <1>7, <1>8, <1>9, <1>10, <1>11

(* A thread of a pack that parses. *)
LEMMA ExaminedPlaces ==
    ASSUME disk \in Disks, NEW a \in Examined
    PROVE  /\ a \in Listed(disk) /\ a \in Nat \X Nat
           /\ a[1] \in Nat /\ a[2] \in Nat \ {0} /\ a = <<a[1], a[2]>>
           /\ a[1] \in 1 .. Len(disk.packs)
           /\ a[2] \in 1 .. Len(disk.packs[a[1]].threads)
           /\ disk.packs[a[1]].manifest # "missing"
           /\ parse_pack_manifest(disk.packs, a[1], gone)
<1>1. a \in Listed(disk) /\ parse_pack_manifest(disk.packs, a[1], gone)
  BY ZenonT(60) DEF Examined
<1>2. /\ a \in Nat \X Nat /\ a[1] \in 1 .. Len(disk.packs)
      /\ a[2] \in 1 .. Len(disk.packs[a[1]].threads)
      /\ disk.packs[a[1]].manifest # "missing"
  BY <1>1, ListedPlaces
<1> QED
  BY <1>1, <1>2

(* Steps between the checks of two threads. *)
LEMMA WalkOn ==
    ASSUME Walk, UNCHANGED <<cli, disk, gone, seen>>,
           pc \notin AtThread, pc' \in {"pack", "thread", "report"},
           at'[1] <= Len(disk.packs),
           \A a \in Examined : Scanned(a)' <=> Scanned(a),
           pc' = "thread" => parse_pack_manifest(disk.packs, at'[1], gone),
           pc' \in {"pack", "report"} => \A a \in Examined : a[1] = at'[1] => a[2] <= at'[2],
           pc' = "report" => at'[1] = Len(disk.packs),
           errors \subseteq errors', errors' \subseteq DueErrors \cup ByChance,
           \A q \in 1 .. at'[1] : ParseDue(q) => <<"parse", <<q, 0>>>> \in errors'
    PROVE  Walk'
<1>1. /\ Examined' = Examined /\ DueErrors' = DueErrors /\ ByChance' = ByChance
      /\ \A q : ParseDue(q)' <=> ParseDue(q)
      /\ \A b : CollisionDue(b)' <=> CollisionDue(b)
      /\ \A b : SecurityDue(b)' <=> SecurityDue(b)
      /\ \A b : ProgramAt(b)' = ProgramAt(b)
  BY DueUnchanged
<1>2. pc' \notin AtThread /\ pc' \notin {"write", "read"}
      /\ pc \notin {"style", "schema", "security"}
  BY DEF AtThread
<1>3. seen' = {IdAt(disk'.packs, a) : a \in {b \in Examined' : Scanned(b)'}}
  BY <1>1 DEF Walk
<1>4. \A b \in Examined' : Scanned(b)' /\ CollisionDue(b)' => <<"collision", b>> \in errors'
  BY <1>1, ZenonT(60) DEF Walk
<1>5. \A b \in Examined' :
          Through(b, {"style", "schema", "security"})' /\ SecurityDue(b)' => <<"security", b>> \in errors'
  BY <1>1, <1>2, ZenonT(60) DEF Walk, Through
<1>6. \A b \in Examined' :
          Through(b, AtThread)' /\ SmokeFails(ProgramAt(b)') => <<"smoke", b>> \in errors'
  BY <1>1, <1>2, ZenonT(60) DEF Walk, Through
<1>7. \A q \in 1 .. at'[1] : ParseDue(q)' => <<"parse", <<q, 0>>>> \in errors'
  BY <1>1, ZenonT(60)
<1>8. pc' \in {"pack", "report"} => \A a \in Examined' : a[1] = at'[1] => a[2] <= at'[2]
  BY <1>1, ZenonT(60)
<1>9. /\ at'[1] <= Len(disk'.packs)
      /\ pc' \in AtThread \cup {"thread"} => parse_pack_manifest(disk'.packs, at'[1], gone')
      /\ pc' = "report" => at'[1] = Len(disk'.packs)
      /\ errors' \subseteq DueErrors' \cup ByChance'
  BY <1>1, <1>2, ZenonT(60)
<1> QED
  BY <1>2, <1>3, <1>4, <1>5, <1>6, <1>7, <1>8, <1>9, ZenonT(60) DEF Walk

(* The next pack. *)
LEMMA WalkPack == ASSUME LInv, Walk, OpenDir, NextPack PROVE Walk'
<1>1. /\ UNCHANGED <<cli, disk, gone, seen>> /\ pc = "pack" /\ disk \in Disks
      /\ Len(disk.packs) \in Nat /\ at[1] \in Nat /\ at[2] \in Nat
  <2>1. UNCHANGED <<cli, disk, gone, seen>> /\ pc = "pack" /\ disk \in Disks
    BY ZenonT(60) DEF LInv, NextPack, DTypes
  <2> QED
    BY <2>1, DoctorAssumption, SeqDomain, ZenonT(60) DEF IsDisk, LInv, DTypes
<1>2. pc \notin AtThread
  BY <1>1 DEF AtThread
<1>3. \A a \in Examined : a[1] = at[1] => a[2] <= at[2]
  BY <1>1, ZenonT(60) DEF Walk
<1>4. CASE at[1] + 1 > Len(disk.packs)
  <2>1. ~(at[1] + 1 <= Len(disk.packs))
    BY <1>1, <1>4
  <2>2. pc' = "report" /\ at' = at /\ errors' = errors
    BY <2>1, ZenonT(60) DEF NextPack
  <2>3. at[1] = Len(disk.packs)
    BY <1>1, <2>1 DEF Walk
  <2>4. \A a \in Examined : Scanned(a)' <=> Scanned(a)
    BY <2>2, ZenonT(60) DEF Scanned
  <2>5. /\ errors \subseteq errors' /\ errors' \subseteq DueErrors \cup ByChance
        /\ at'[1] <= Len(disk.packs)
        /\ \A q \in 1 .. at'[1] : ParseDue(q) => <<"parse", <<q, 0>>>> \in errors'
    BY <2>2, ZenonT(60) DEF Walk
  <2> QED
    BY <1>1, <1>2, <1>3, <2>2, <2>3, <2>4, <2>5, WalkOn
<1>5. CASE at[1] + 1 <= Len(disk.packs)
  <2> DEFINE p == at[1] + 1
             manifest == disk.packs[p].manifest
             parsed == parse_pack_manifest(disk.packs, p, gone)
  <2>0. ~(p > Len(disk.packs)) /\ p \in 1 .. Len(disk.packs) /\ p \in Nat
    BY <1>1, <1>5
  <2>1. /\ at' = <<p, 0>>
        /\ pc' = IF manifest # "missing" /\ parsed THEN "thread" ELSE "pack"
        /\ errors' = IF manifest # "missing" /\ ~parsed
                     THEN errors \cup {<<"parse", at'>>} ELSE errors
    BY <2>0, ZenonT(60) DEF NextPack
  <2>2. at'[1] = p /\ at'[2] = 0
    BY <2>1
  <2>3. ASSUME NEW a \in Examined PROVE Scanned(a)' <=> Scanned(a)
    <3>1. a[1] \in Nat /\ a[2] \in Nat \ {0}
      BY <1>1, ExaminedPlaces
    <3>2. a[1] = at[1] => a[2] <= at[2]
      BY <1>3
    <3> QED
      BY <1>1, <2>2, <3>1, <3>2 DEF Scanned
  <2>4. ParseDue(p) <=> manifest # "missing" /\ ~parsed
    <3>1. p \in DOMAIN disk.packs
      BY <1>1, <2>0, DoctorAssumption, SeqDomain, ZenonT(60) DEF IsDisk
    <3> QED
      BY <3>1, ZenonT(60) DEF ParseDue
  <2>5. errors \subseteq errors' /\ errors' \subseteq DueErrors \cup ByChance
    <3>1. ParseDue(p) => <<"parse", <<p, 0>>>> \in DueErrors
      BY DueByKind, ZenonT(60)
    <3>2. errors \subseteq DueErrors \cup ByChance
      BY ZenonT(60) DEF Walk
    <3>3. errors' = errors \/ (ParseDue(p) /\ errors' = errors \cup {<<"parse", <<p, 0>>>>})
      BY <2>1, <2>4, ZenonT(60)
    <3> QED
      BY <3>1, <3>2, <3>3, ZenonT(60)
  <2>6. ASSUME NEW q \in 1 .. at'[1], ParseDue(q) PROVE <<"parse", <<q, 0>>>> \in errors'
    <3>1. q \in 1 .. at[1] \/ q = p
      BY <1>1, <2>2
    <3>2. CASE q \in 1 .. at[1]
      BY <2>5, <2>6, <3>2, ZenonT(60) DEF Walk
    <3>3. CASE q = p
      BY <2>1, <2>4, <2>6, <3>3, ZenonT(60)
    <3> QED
      BY <3>1, <3>2, <3>3
  <2>7. ASSUME pc' \in {"pack", "report"}, NEW a \in Examined, a[1] = at'[1] PROVE a[2] <= at'[2]
    <3>1. manifest # "missing" /\ parsed
      BY <1>1, <2>2, <2>7, ExaminedPlaces, ZenonT(60)
    <3>2. pc' = "thread"
      BY <2>1, <3>1, ZenonT(60)
    <3> QED
      BY <2>7, <3>2
  <2>8. pc' \in {"pack", "thread"} /\ (pc' = "thread" => parsed)
    BY <2>1, ZenonT(60)
  <2>9. at'[1] <= Len(disk.packs)
    BY <1>5, <2>2
  <2>10. pc' = "thread" => parse_pack_manifest(disk.packs, at'[1], gone)
    BY <2>2, <2>8, ZenonT(60)
  <2> HIDE DEF p, manifest, parsed
  <2> QED
    BY <1>1, <1>2, <2>3, <2>5, <2>6, <2>7, <2>8, <2>9, <2>10, WalkOn
<1> QED
  BY <1>1, <1>4, <1>5

(* The next thread: its id is a collision if it is one of those seen. *)
LEMMA WalkNext == ASSUME LInv, Walk, OpenDir, NextThread PROVE Walk'
<1> DEFINE pt == <<at[1], at[2] + 1>>
<1>1. /\ UNCHANGED <<cli, disk, gone>> /\ pc = "thread" /\ disk \in Disks
      /\ at[1] \in 1 .. Len(disk.packs) /\ disk.packs[at[1]].manifest # "missing"
      /\ Len(disk.packs) \in Nat /\ at[1] \in Nat /\ at[2] \in Nat
  <2>1. /\ UNCHANGED <<cli, disk, gone>> /\ pc = "thread" /\ disk \in Disks
        /\ at[1] \in 1 .. Len(disk.packs) /\ disk.packs[at[1]].manifest # "missing"
    BY DEF LInv, NextThread, DTypes
  <2> QED
    BY <2>1, DoctorAssumption, SeqDomain, ZenonT(60) DEF IsDisk, LInv, DTypes
<1>2. pc \notin AtThread
  BY <1>1 DEF AtThread
<1>3. pt[1] = at[1] /\ pt[2] = at[2] + 1 /\ at[2] + 1 \in Nat
  BY <1>1
<1>4. /\ pt \in Listed(disk) <=> at[2] + 1 \in 1 .. Len(disk.packs[at[1]].threads)
      /\ Len(disk.packs[at[1]].threads) \in Nat
  BY <1>1, <1>3, ListedWhere, ZenonT(60)
<1>5. parse_pack_manifest(disk.packs, at[1], gone)
  BY <1>1, ZenonT(60) DEF Walk
<1>6. CASE pt \notin Listed(disk)
  <2>1. pc' = "pack" /\ at' = at /\ seen' = seen /\ errors' = errors
    BY <1>6, ZenonT(60) DEF NextThread
  <2>2. ASSUME NEW a \in Examined, a[1] = at[1] PROVE a[2] <= at[2]
    <3>1. a[2] \in 1 .. Len(disk.packs[at[1]].threads)
      BY <1>1, <2>2, ExaminedPlaces, ZenonT(60)
    <3> QED
      BY <1>1, <1>4, <1>6, <3>1
  <2>3. \A a \in Examined : Scanned(a)' <=> Scanned(a)
    BY <2>1, ZenonT(60) DEF Scanned
  <2>4. /\ errors \subseteq errors' /\ errors' \subseteq DueErrors \cup ByChance
        /\ at'[1] <= Len(disk.packs)
        /\ \A q \in 1 .. at'[1] : ParseDue(q) => <<"parse", <<q, 0>>>> \in errors'
    BY <2>1, ZenonT(60) DEF Walk
  <2> QED
    BY <1>1, <1>2, <2>1, <2>2, <2>3, <2>4, WalkOn
<1>7. CASE pt \in Listed(disk)
  <2>1. pt \in Examined
    BY <1>3, <1>5, <1>7, ZenonT(60) DEF Examined, OpenDir
  <2>2. pt \notin gone
    <3>1. at[2] + 1 \in DOMAIN disk.packs[at[1]].threads
      <4>1. at[2] + 1 \in 1 .. Len(disk.packs[at[1]].threads)
        BY <1>4, <1>7
      <4>2. at[1] \in DOMAIN disk.packs
        BY <1>1, DoctorAssumption, SeqDomain, ZenonT(60) DEF IsDisk
      <4>3. disk.packs[at[1]].threads \in Seq(Range(disk.packs[at[1]].threads))
        BY <1>1, <4>2, DoctorAssumption, ZenonT(60) DEF IsDisk
      <4> QED
        BY <4>1, <4>3, SeqDomain, ZenonT(60)
    <3> QED
      BY <1>5, <3>1, ZenonT(60) DEF parse_pack_manifest, ThreadAccepted
  <2>3. /\ at' = pt /\ pc' = "style"
        /\ seen' = seen \cup {IdAt(disk.packs, pt)}
        /\ errors' = errors \cup {<<what, pt>> : what \in
               {w \in {"collision", "missing"} :
                   \/ w = "collision" /\ IdAt(disk.packs, pt) \in seen
                   \/ w = "missing" /\ pt \in gone}}
    BY <1>7, <2>2, ZenonT(60) DEF NextThread
  <2>4. errors' = errors \cup {<<what, pt>> : what \in
               {w \in {"collision"} : IdAt(disk.packs, pt) \in seen}}
    BY <2>2, <2>3
  <2>5. at'[1] = at[1] /\ at'[2] = at[2] + 1
    BY <1>3, <2>3
  <2> HIDE DEF pt
  <2>6. ASSUME NEW a \in Examined
        PROVE  /\ Scanned(a)' <=> Scanned(a) \/ a = pt
               /\ EarlierPlace(a, pt) <=> Scanned(a)
    <3>1. a[1] \in Nat /\ a[2] \in Nat /\ a = <<a[1], a[2]>>
      BY <1>1, ExaminedPlaces
    <3>2. a = pt <=> a[1] = at[1] /\ a[2] = at[2] + 1
      BY <3>1 DEF pt
    <3> QED
      BY <1>1, <1>3, <2>5, <3>1, <3>2 DEF Scanned, EarlierPlace
  <2>7. IdAt(disk.packs, pt) \in seen <=> CollisionDue(pt)
    <3>1. IdAt(disk.packs, pt) \in seen
            <=> \E a \in Examined : Scanned(a) /\ IdAt(disk.packs, pt) = IdAt(disk.packs, a)
      BY ZenonT(60) DEF Walk
    <3> QED
      BY <2>6, <3>1, ZenonT(60) DEF CollisionDue
  <2>8. errors' = IF CollisionDue(pt) THEN errors \cup {<<"collision", pt>>} ELSE errors
    BY <2>4, <2>7
  <2>9. errors \subseteq errors' /\ errors' \subseteq DueErrors \cup ByChance
    <3>1. CollisionDue(pt) => <<"collision", pt>> \in DueErrors
      BY <2>1, DueByKind, ZenonT(60)
    <3>2. errors \subseteq DueErrors \cup ByChance
      BY Zenon DEF Walk
    <3> QED
      BY <2>8, <3>1, <3>2, ZenonT(60)
  <2>10. /\ Examined' = Examined /\ DueErrors' = DueErrors /\ ByChance' = ByChance
         /\ \A q : ParseDue(q)' <=> ParseDue(q)
         /\ \A b : CollisionDue(b)' <=> CollisionDue(b)
         /\ \A b : SecurityDue(b)' <=> SecurityDue(b)
         /\ \A b : ProgramAt(b)' = ProgramAt(b)
    BY <1>1, DueUnchanged
  <2>11. seen' = {IdAt(disk'.packs, a) : a \in {b \in Examined' : Scanned(b)'}}
    <3>1. seen = {IdAt(disk.packs, a) : a \in {b \in Examined : Scanned(b)}}
      BY ZenonT(60) DEF Walk
    <3>2. {b \in Examined : Scanned(b)'} = {b \in Examined : Scanned(b)} \cup {pt}
      BY <2>1, <2>6
    <3>3. {IdAt(disk.packs, a) : a \in {b \in Examined : Scanned(b)} \cup {pt}}
            = {IdAt(disk.packs, a) : a \in {b \in Examined : Scanned(b)}} \cup {IdAt(disk.packs, pt)}
      BY ZenonT(60)
    <3>4. {b \in Examined' : Scanned(b)'} = {b \in Examined : Scanned(b)} \cup {pt}
      BY <2>10, <3>2
    <3> QED
      BY <1>1, <2>3, <3>1, <3>3, <3>4
  <2>12. \A b \in Examined' : Scanned(b)' /\ CollisionDue(b)' => <<"collision", b>> \in errors'
    BY <2>6, <2>8, <2>9, <2>10, ZenonT(60) DEF Walk
  <2>13. \A b \in Examined' :
            Through(b, {"style", "schema", "security"})' /\ SecurityDue(b)' => <<"security", b>> \in errors'
    <3> SUFFICES ASSUME NEW b \in Examined, Through(b, {"style", "schema", "security"})',
                        SecurityDue(b)
                 PROVE  <<"security", b>> \in errors'
      BY <2>10, ZenonT(60)
    <3>1. Scanned(b)' /\ b # pt
      BY <2>3, ZenonT(60) DEF Through
    <3>2. Scanned(b) /\ pc \notin {"style", "schema", "security"}
      BY <1>1, <2>6, <3>1
    <3> QED
      BY <2>9, <3>2, ZenonT(60) DEF Walk, Through
  <2>14. \A b \in Examined' :
            Through(b, AtThread)' /\ SmokeFails(ProgramAt(b)') => <<"smoke", b>> \in errors'
    <3> SUFFICES ASSUME NEW b \in Examined, Through(b, AtThread)', SmokeFails(ProgramAt(b))
                 PROVE  <<"smoke", b>> \in errors'
      BY <2>10, ZenonT(60)
    <3>1. Scanned(b)' /\ b # pt
      BY <2>3, ZenonT(60) DEF Through, AtThread
    <3>2. Scanned(b)
      BY <2>6, <3>1
    <3> QED
      BY <1>2, <2>9, <3>2, ZenonT(60) DEF Walk, Through
  <2>15. \A q \in 1 .. at'[1] : ParseDue(q)' => <<"parse", <<q, 0>>>> \in errors'
    BY <2>5, <2>9, <2>10, ZenonT(60) DEF Walk
  <2>16. /\ at'[1] <= Len(disk'.packs)
         /\ parse_pack_manifest(disk'.packs, at'[1], gone')
         /\ errors' \subseteq DueErrors' \cup ByChance'
    BY <1>1, <1>5, <2>5, <2>9, <2>10, ZenonT(60) DEF Walk
  <2>17. pc' \notin {"pack", "report", "write", "read"}
    BY <2>3
  <2> QED
    BY <2>11, <2>12, <2>13, <2>14, <2>15, <2>16, <2>17, ZenonT(60) DEF Walk
<1> QED
  BY <1>6, <1>7

(* There is no verdict before the report. *)
LEMMA NoVerdictYet == ASSUME exit' \notin {"0", "2"} PROVE DoctorVerdict'
BY ZenonT(60) DEF DoctorVerdict, Reported

(* Without a directory that can be read, that is the only error. *)
LEMMA DueWithoutDir ==
    ASSUME ~OpenDir
    PROVE  DueErrors = {<<"dir unreadable", <<0, 0>>>> : d \in {disk.dir} \cap {"unreadable"}}
<1>1. Examined = {} /\ \A q : ~ParseDue(q)
  BY Zenon DEF Examined, ParseDue, OpenDir
<1>2. ASSUME NEW e \in DueErrors
      PROVE  disk.dir = "unreadable" /\ e = <<"dir unreadable", <<0, 0>>>>
  BY <1>1, DueOnly, ZenonT(60)
<1>3. disk.dir = "unreadable" => <<"dir unreadable", <<0, 0>>>> \in DueErrors
  BY DueByKind, ZenonT(60)
<1> QED
  BY ZenonT(60), <1>2, <1>3

(* The start of a command keeps the account of the verdict. *)
LEMMA VerdictStart ==
    ASSUME DInv, LInv', AwkAccount', StartCommand \/ StartTransform \/ RunDoctor
    PROVE  DInv'
<1>1. /\ UNCHANGED <<cli, seen>> /\ exit = "running"
      /\ pc \in {"start", "transform", "doctor"}
      /\ pc' \in {"transform", "doctor", "open", "end"}
      /\ pc' = "open" => cli.security \in {"strict", "warn", "off"}
  BY ZenonT(60) DEF DInv, LInv, DTypes, DTypeOK, StartCommand, StartTransform, RunDoctor, Goto, Leave,
     report
<1>2. exit' \in {"0", "2"} => cli.cmd \notin {"pack doctor", "pack-doctor"}
  BY <1>1, ZenonT(60) DEF StartCommand, StartTransform, RunDoctor, Goto, Leave
<1>3. DoctorVerdict'
  BY <1>1, <1>2, ZenonT(60) DEF DoctorVerdict, Reported
<1>4. seen = {}
  BY <1>1, ZenonT(60) DEF DInv
<1> QED
  BY <1>1, <1>3, <1>4, ZenonT(60) DEF DInv, AtThread

(* Opening the directory keeps the account of the verdict. *)
LEMMA VerdictOpen ==
    ASSUME DInv, LInv', AwkAccount', OpenPacks
    PROVE  DInv'
<1>1. /\ UNCHANGED <<cli, disk, gone, removals, at, seen, exit>> /\ pc = "open" /\ exit = "running"
      /\ at = <<0, 0>> /\ seen = {} /\ cli.security \in {"strict", "warn", "off"}
      /\ disk \in Disks
  BY ZenonT(60) DEF DInv, LInv, DTypes, DTypeOK, OpenPacks
<1>2. /\ errors' = {<<"dir unreadable", <<0, 0>>>> : d \in {disk.dir} \cap {"unreadable"}}
      /\ pc' = IF OpenDir THEN "pack" ELSE "report"
  <2>1. errors' = IF disk.dir = "unreadable" THEN {<<"dir unreadable", <<0, 0>>>>} ELSE {}
    BY <1>1, ZenonT(60) DEF OpenPacks, Note
  <2>2. pc' = IF OpenDir THEN "pack" ELSE "report"
    BY ZenonT(60) DEF OpenPacks, OpenDir
  <2> QED
    BY ZenonT(60), <2>1, <2>2
<1>3. DoctorVerdict'
  BY <1>1, NoVerdictYet
<1>4. OpenDir' <=> OpenDir
  BY <1>1, ZenonT(60) DEF OpenDir
<1>5. CASE OpenDir
  <2>1. errors' = {} /\ pc' = "pack" /\ pc' \notin AtThread
    BY ZenonT(60), <1>2, <1>5 DEF OpenDir, AtThread
  <2>2. Len(disk.packs) \in Nat
    BY <1>1, DoctorAssumption, SeqDomain, ZenonT(60) DEF IsDisk
  <2>3. at'[1] = 0 /\ at'[2] = 0
    BY <1>1
  <2>4. ASSUME NEW a \in Examined PROVE ~Scanned(a)' /\ a[1] # at'[1]
    <3>1. a[1] \in 1 .. Len(disk.packs)
      BY <1>1, ExaminedPlaces, ZenonT(60)
    <3> QED
      BY <2>2, <2>3, <3>1 DEF Scanned
  <2>5. Examined' = Examined
    BY <1>1, DueUnchanged
  <2>6. seen' = {IdAt(disk'.packs, a) : a \in {b \in Examined' : Scanned(b)'}}
    <3>1. {b \in Examined' : Scanned(b)'} = {}
      BY <2>4, <2>5, ZenonT(60)
    <3> QED
      BY <1>1, <3>1
  <2>7. /\ at'[1] <= Len(disk'.packs) /\ 1 .. at'[1] = {}
    BY <1>1, <2>2, <2>3
  <2>8. \A b \in Examined' : ~Scanned(b)' /\ b[1] # at'[1] /\ \A st : ~Through(b, st)'
    BY <2>4, <2>5, ZenonT(60) DEF Through
  <2>9. pc' \notin AtThread \cup {"thread"} /\ pc' \notin {"write", "read"} /\ pc' # "report"
    BY <2>1
  <2>10. Walk'
    BY <2>1, <2>6, <2>7, <2>8, <2>9, ZenonT(60) DEF Walk
  <2> QED
    BY <1>1, <1>3, <1>4, <1>5, <2>1, <2>10, ZenonT(60) DEF DInv
<1>6. CASE ~OpenDir
  <2>1. pc' = "report" /\ ~OpenDir'
    BY <1>2, <1>4, <1>6, ZenonT(60)
  <2> QED
    BY <1>1, <1>2, <1>3, <2>1, ZenonT(60) DEF DInv
<1> QED
  BY <1>5, <1>6

(* When the doctor is through, it has found all there is. *)
LEMMA VerdictReport ==
    ASSUME DInv, LInv', AwkAccount', Report
    PROVE  DInv'
<1>1. /\ UNCHANGED <<cli, disk, gone, removals, at, errors>> /\ pc = "report" /\ pc' = "end"
      /\ disk \in Disks /\ at \in Nat \X Nat
  BY ZenonT(60) DEF Report, Leave, report, DInv, LInv, DTypes
<1>2. /\ DueErrors' = DueErrors /\ ByChance' = ByChance
  BY <1>1, DueUnchanged
<1>3. ASSUME removals = 0
      PROVE  DueErrors \subseteq errors /\ errors \subseteq DueErrors \cup ByChance
  <2>1. CASE ~OpenDir
    <3>1. errors = {<<"dir unreadable", <<0, 0>>>> : d \in {disk.dir} \cap {"unreadable"}}
      BY <1>1, <2>1, ZenonT(60) DEF DInv
    <3>2. errors = DueErrors
      BY <2>1, <3>1, DueWithoutDir
    <3> QED
      BY <3>2
  <2>2. CASE OpenDir
    <3>1. Walk
      BY <1>1, <1>3, <2>2, ZenonT(60) DEF DInv
    <3>2. at[1] = Len(disk.packs) /\ (\A a \in Examined : a[1] = at[1] => a[2] <= at[2])
      BY <1>1, <3>1, ZenonT(60) DEF Walk
    <3>3. DOMAIN disk.packs = 1 .. at[1] /\ at[1] \in Nat
      BY <1>1, <3>2, DoctorAssumption, SeqDomain, ZenonT(60) DEF IsDisk
    <3>4. ASSUME NEW b \in Examined
          PROVE  /\ Scanned(b) /\ Through(b, AtThread)
                 /\ Through(b, {"style", "schema", "security"})
      <4>1. b[1] \in 1 .. at[1]
        BY <1>1, <3>2, ExaminedPlaces, ZenonT(60)
      <4>2. b[1] < at[1] \/ b[1] = at[1]
        BY <3>3, <4>1
      <4>3. Scanned(b)
        BY <3>2, <4>2, ZenonT(60) DEF Scanned
      <4>4. pc \notin AtThread /\ pc \notin {"style", "schema", "security"}
        BY <1>1 DEF AtThread
      <4> QED
        BY <4>3, <4>4, ZenonT(60) DEF Through
    <3>5. disk.dir # "unreadable" /\ \A q : ParseDue(q) => q \in 1 .. at[1]
      BY <2>2, <3>3, ZenonT(60) DEF OpenDir, ParseDue
    <3>6. ASSUME NEW e \in DueErrors PROVE e \in errors
      <4>1. CASE \E q : ParseDue(q) /\ e = <<"parse", <<q, 0>>>>
        BY <3>1, <3>5, <4>1, ZenonT(60) DEF Walk
      <4>2. CASE \E b \in Examined : CollisionDue(b) /\ e = <<"collision", b>>
        BY <3>1, <3>4, <4>2, ZenonT(60) DEF Walk
      <4>3. CASE \E b \in Examined : SecurityDue(b) /\ e = <<"security", b>>
        BY <3>1, <3>4, <4>3, ZenonT(60) DEF Walk
      <4>4. CASE \E b \in Examined : SmokeFails(ProgramAt(b)) /\ e = <<"smoke", b>>
        BY <3>1, <3>4, <4>4, ZenonT(60) DEF Walk
      <4> QED
        BY <3>5, <4>1, <4>2, <4>3, <4>4, DueOnly, ZenonT(60)
    <3>7. errors \subseteq DueErrors \cup ByChance
      BY <3>1, ZenonT(60) DEF Walk
    <3> QED
      BY <3>6, <3>7, ZenonT(60)
  <2> QED
    BY <2>1, <2>2
<1>4. DoctorVerdict'
  <2> SUFFICES ASSUME removals' = 0
               PROVE  DueErrors' \subseteq errors' /\ errors' \subseteq DueErrors' \cup ByChance'
    BY ZenonT(60) DEF DoctorVerdict, ByChance
  <2> QED
    BY <1>1, <1>2, <1>3, ZenonT(60)
<1> QED
  BY <1>1, <1>4, ZenonT(60) DEF DInv, AtThread

(* Every step keeps the account of the verdict. *)
LEMMA DInvStep == DInv /\ [DNext]_dvars => DInv'
<1> SUFFICES ASSUME DInv, [DNext]_dvars PROVE DInv'
  OBVIOUS
<1>1. LInv /\ LInv' /\ AwkAccount /\ AwkAccount' /\ DTypes
  BY ZenonT(60), LInvStep, AwkAccountStep DEF DInv, LInv
<1>2. CASE StartCommand \/ StartTransform \/ RunDoctor
  BY <1>1, <1>2, VerdictStart
<1>3. CASE OpenPacks
  BY <1>1, <1>3, VerdictOpen
<1>4. CASE Report
  BY <1>1, <1>4, VerdictReport
<1>5. CASE \/ check_header_and_terminator \/ scan_declared_arg_usage \/ security_scan_awk
           \/ SmokeSpawn \/ SmokeWrite \/ SmokeClose \/ SmokeRead \/ SmokeJudge \/ Awk
           \/ NextPack \/ NextThread
  <2>1. UNCHANGED <<cli, disk, removals, exit>>
    BY <1>5, ZenonT(60) DEF check_header_and_terminator, scan_declared_arg_usage, security_scan_awk,
       SmokeSpawn, SmokeWrite, SmokeClose, SmokeRead, SmokeJudge,
       Awk, AwkPrints, AwkReads, AwkEnds, NextPack, NextThread
  <2>2. /\ pc \in AtThread \cup {"pack", "thread"} /\ OpenDir
        /\ pc' \in AtThread \cup {"pack", "thread", "report"}
    <3>1. CASE Awk
      <4>1. awk = "run" /\ pc' = pc
        BY <3>1, ZenonT(60) DEF Awk, AwkPrints, AwkReads, AwkEnds
      <4>2. pc \in {"write", "read"}
        BY <1>1, <4>1 DEF DTypes, DTypeOK
      <4> QED
        BY <1>1, <4>1, <4>2 DEF LInv, AtThread
    <3>2. CASE ~Awk
      <4>1. /\ pc \in AtThread \cup {"pack", "thread"}
            /\ pc' \in AtThread \cup {"pack", "thread", "report"}
        BY <1>5, <3>2, ZenonT(60) DEF check_header_and_terminator, scan_declared_arg_usage,
           security_scan_awk, SmokeSpawn, SmokeWrite, SmokeError, SmokeClose, SmokeRead, SmokeJudge,
           NextPack, NextThread, AtThread
      <4> QED
        BY <1>1, <4>1, ZenonT(60) DEF LInv
    <3> QED
      BY <3>1, <3>2
  <2>3. exit = "running" /\ cli.security \in {"strict", "warn", "off"}
        /\ (removals = 0 => Walk)
    <3>1. pc # "end" /\ pc \in AtThread \cup {"open", "pack", "thread", "report"}
      BY <2>2 DEF AtThread
    <3>2. exit = "running"
      BY <1>1, <3>1, ZenonT(60) DEF DTypes, DTypeOK
    <3> QED
      BY <2>2, <3>1, <3>2, ZenonT(60) DEF DInv
  <2>4. removals = 0 => Walk'
    BY <1>1, <1>5, <2>2, <2>3, WalkThread, WalkPack, WalkNext
  <2>5. DoctorVerdict'
    BY <2>1, <2>3, NoVerdictYet
  <2>6. OpenDir'
    BY <2>1, <2>2, ZenonT(60) DEF OpenDir
  <2>7. pc' \notin {"start", "transform", "doctor", "open"}
    BY <2>2 DEF AtThread
  <2> QED
    BY <1>1, <2>1, <2>3, <2>4, <2>5, <2>6, <2>7, ZenonT(60) DEF DInv
<1>6. CASE \E pt \in Listed(disk) : RemoveScript(pt)
  <2>1. /\ UNCHANGED <<cli, disk, pc, seen, errors, exit>> /\ removals' = removals + 1
        /\ exit = "running"
    BY <1>6, ZenonT(60) DEF RemoveScript, report
  <2>2. removals' # 0
    BY <1>1, <2>1 DEF LInv
  <2>3. DoctorVerdict' /\ (OpenDir' <=> OpenDir)
    BY <2>1, NoVerdictYet, ZenonT(60) DEF OpenDir
  <2> QED
    BY <1>1, <2>1, <2>2, <2>3, ZenonT(60) DEF DInv
<1>7. CASE UNCHANGED dvars
  <2>1. UNCHANGED <<cli, disk, gone, removals, pc, at, seen, errors, exit, prog>>
    BY <1>7, ZenonT(60) DEF dvars, report, smoke
  <2>2. /\ Examined' = Examined /\ DueErrors' = DueErrors /\ ByChance' = ByChance
        /\ OpenDir' <=> OpenDir
        /\ \A q : ParseDue(q)' <=> ParseDue(q)
        /\ \A b : CollisionDue(b)' <=> CollisionDue(b)
        /\ \A b : SecurityDue(b)' <=> SecurityDue(b)
        /\ \A b : ProgramAt(b)' = ProgramAt(b)
    BY <2>1, DueUnchanged
  <2>3. /\ \A b : Scanned(b)' <=> Scanned(b)
        /\ \A b, st : Through(b, st)' <=> Through(b, st)
        /\ ProgramAt(at)' = ProgramAt(at)
    BY <2>1, ZenonT(60) DEF Scanned, Through, ProgramAt
  <2>4. Walk => Walk'
    <3> SUFFICES ASSUME Walk PROVE Walk'
      OBVIOUS
    <3>1. seen' = {IdAt(disk'.packs, a) : a \in {b \in Examined' : Scanned(b)'}}
      BY <2>1, <2>2, <2>3 DEF Walk
    <3> QED
      BY <2>1, <2>2, <2>3, <3>1, ZenonT(60) DEF Walk
  <2>5. DoctorVerdict'
    <3>1. Reported' <=> Reported
      BY <2>1, ZenonT(60) DEF Reported
    <3> QED
      BY <2>1, <2>2, <3>1, ZenonT(60) DEF DInv, DoctorVerdict, ByChance
  <2> QED
    BY <1>1, <2>1, <2>2, <2>4, <2>5, ZenonT(60) DEF DInv
<1> QED
  BY <1>2, <1>3, <1>4, <1>5, <1>6, <1>7, ZenonT(60) DEF DNext, Doctor

(* For any packs directory and any scripts, as long as nobody removes one   *)
(* meanwhile: what the doctor reports are the errors there are, in every    *)
(* pack and thread however early the first is met; only whether a script    *)
(* that does not read its input fails the smoke test is left to chance.     *)
THEOREM DoctorReportsAll == DSpec => []DoctorVerdict
<1>1. DInit => DInv
  <2> SUFFICES ASSUME DInit PROVE DInv
    OBVIOUS
  <2>1. LInv
    BY LInvInit
  <2>2. pc = "start" /\ seen = {} /\ exit = "running"
    BY ZenonT(60) DEF DInit
  <2>3. AwkAccount /\ DoctorVerdict
    BY <2>2, ZenonT(60) DEF AwkAccount, DoctorVerdict, Reported
  <2> QED
    BY <2>1, <2>2, <2>3, ZenonT(60) DEF DInv, AtThread
<1>2. DInv => DoctorVerdict
  BY Zenon DEF DInv
<1> QED
  BY <1>1, <1>2, DInvStep, PTL DEF DSpec
====
