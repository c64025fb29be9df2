------------------------ MODULE OperatorConsole_proofs ------------------------
(***************************************************************************)
(* Proofs about OperatorConsole, for any number of endpoints, any intervals*)
(* and timeouts and any scenes.                                            *)
(*                                                                         *)
(* The invariant CInv has a part for each thing the loop looks after.  All *)
(* rest on Control: which polls can lie before the thread where it waits.  *)
(* What the screen shows (Table) and that notes are not lost (Notes) hold  *)
(* only after the first polling, so these two say what is still Pending.   *)
(***************************************************************************)
EXTENDS OperatorConsole, SequenceTheorems, TLAPS

(* The provers a leaf is tried with, in turn, where it names none. *)
USE SMTT(10), ZenonT(20), SMTT(30), SMTT(40)

(* The polls, and where and for whom the thread can be at work. *)
Polls == {"catalog", "grpc", "streams", "command", "log"}

LogPlaces == {"size", "mtime", "tail", "open", "chat", "create", "notes", "read"}
Places == {"poll", "probe", "key", "prompt", "ctl", "end", "crashed"} \cup LogPlaces
Stages == {"init", "first", "round", "key", "check"}

(* Something is in a sequence, and no two of it are the same. *)
InSeq(p, q) == \E i \in 1 .. Len(q) : q[i] = p
Distinct(q) == \A i, j \in 1 .. Len(q) : i < j => q[i] # q[j]

(* Where the thread can be, with which polls before it. *)
Control ==
    /\ scene \in Scenes
    /\ pc \in Places
    /\ stage \in Stages
    /\ todo \in Seq(Polls)
    /\ Distinct(todo)
    /\ pc \in LogPlaces \cup {"crashed"} => todo # <<>> /\ Head(todo) = "log"
    /\ pc = "probe" => todo # <<>> /\ Head(todo) = "grpc" /\ adapter = "grpcurl"
    /\ pc \in {"key", "prompt", "ctl", "end"} => todo = <<>>
    /\ pc = "key" => stage = "round"
    /\ pc \in {"prompt", "ctl"} => stage = "key"
    /\ stage = "init" => pc = "poll" /\ todo \in {<<>>, <<"catalog">>}

(* Every interval has passed when the loop begins. *)
Timers ==
    /\ \A p \in Timed : age[p] \in 0 .. Every[p]
    /\ since \in Nat
    /\ flashLeft \in -1 .. FlashFor
    /\ stage = "init" => \A p \in Timed : age[p] = Every[p]

(* The selection is a command of the catalog, if there is one. *)
Catalog ==
    /\ command_catalog \in scene.catalogs \cup {<<>>}
    /\ selected_command \in Nat
    /\ selected_command = 0 \/ selected_command < Len(command_catalog)

(* What the log has now and has not been counted was written, too; the log  *)
(* vanishes between a look and a use only if it is removed.                 *)
LogCounted ==
    /\ log \in Int /\ log >= -1
    /\ log_size \in Nat /\ growth \in Nat /\ written \in Nat
    /\ GrowthIsReal
    /\ growth + log - log_size <= written
    /\ removed \subseteq {"log", "notes"}
    /\ pc \in {"size", "mtime", "open"} /\ log < 0 => "log" \in removed

(* The first polling has yet to come to poll p. *)
Pending(p) == stage = "init" \/ (stage \in {"first", "check"} /\ InSeq(p, todo))

(* The table has the endpoints that were listed, or is empty after a        *)
(* failure, and all it shows as serving is in served.                       *)
Table ==
    /\ DOMAIN grpc_rows = IF code = 0 THEN asked ELSE {}
    /\ \A e \in DOMAIN grpc_rows : grpc_rows[e] = "SERVING" => e \in served

(* While it probes, all endpoints are listed, and whatever serves or has    *)
(* been seen to serve is in served.                                         *)
Probing ==
    /\ adapter \in {"fake", "grpcurl", "fallback", "missing"}
    /\ endpoint \in [1 .. Targets -> Statuses]
    /\ listed \subseteq 1 .. Targets
    /\ adapter # "fake" => listed = 1 .. Targets
    /\ probed \in Seq(Statuses)
    /\ spent \in 0 .. Limit
    /\ pc # "probe" => probed = <<>>
    /\ pc = "probe" => /\ asked = 1 .. Targets
                       /\ \A e \in 1 .. Targets : endpoint[e] = "SERVING" => e \in served
                       /\ \A e \in 1 .. Len(probed) : probed[e] = "SERVING" => e \in served
    /\ pc # "probe" /\ ~Pending("grpc") => Table

(* A message that has not been drawn is drawn in this turn. *)
Message ==
    /\ flash \in BOOLEAN /\ expired \in BOOLEAN /\ say \in BOOLEAN /\ unseen \in BOOLEAN
    /\ unseen => stage = "round" /\ pc # "key" /\ flash /\ ~expired
    /\ stage \in {"init", "first"} => ~say

(* While daemon_ctl.sh runs, it has carried out nothing. *)
Units ==
    /\ unit \in [Scopes -> {"absent", "up", "down"}]
    /\ job \in [Scopes -> Changing \cup {"none"}]
    /\ \A s \in Scopes : unit[s] = "absent" => job[s] = "none"
    /\ ctl \in [action : Changing \cup Asking \cup {"none"}, scope : Scopes,
                verdict : {"none", "running", "ok", "failed", "timed out"}]
    /\ pc = "ctl" => /\ ctl.action \in Changing \cup Asking
                     /\ ctl.verdict = "running"
                     /\ effects = {}
    /\ VerdictSound

(* The notes file exists once it has been polled, unless it is removed. *)
Notes ==
    /\ chat \in Int /\ chat >= -1
    /\ ~Pending("log") \/ pc \in {"notes", "read"} => chat >= 0 \/ "notes" \in removed
    /\ pc = "create" => stage \in {"first", "check"} \/ "notes" \in removed

CInv ==
    Control /\ Timers /\ Catalog /\ LogCounted /\ Probing /\ Message /\ Units /\ Notes

-------------------------------------------------------------------------------
(* Two sequences with nothing in common, joined. *)
LEMMA JoinedSeq ==
    ASSUME NEW S, NEW s \in Seq(S), NEW t \in Seq(S), Distinct(s), Distinct(t),
           \A p \in S : ~(InSeq(p, s) /\ InSeq(p, t))
    PROVE  /\ s \o t \in Seq(S)
           /\ Distinct(s \o t)
           /\ \A p \in S : InSeq(p, s \o t) <=> InSeq(p, s) \/ InSeq(p, t)
<1>1. /\ s \o t \in Seq(S) /\ Len(s \o t) = Len(s) + Len(t)
      /\ Len(s) \in Nat /\ Len(t) \in Nat
      /\ \A i \in 1 .. Len(s) : (s \o t)[i] = s[i] /\ s[i] \in S
      /\ \A i \in 1 .. Len(t) : (s \o t)[Len(s) + i] = t[i] /\ t[i] \in S
  OBVIOUS
<1>2. \A i \in 1 .. Len(s) + Len(t) :
         i \in 1 .. Len(s) \/ \E j \in 1 .. Len(t) : i = Len(s) + j
  <2> TAKE i \in 1 .. Len(s) + Len(t)
  <2>1. i \in 1 .. Len(s) \/ (i - Len(s) \in 1 .. Len(t) /\ i = Len(s) + (i - Len(s)))
    BY <1>1
  <2> QED
    BY <2>1
<1> DEFINE u == s \o t
<1>3. /\ Len(u) = Len(s) + Len(t)
      /\ \A i \in 1 .. Len(s) : u[i] = s[i] /\ s[i] \in S
      /\ \A i \in 1 .. Len(t) : u[Len(s) + i] = t[i] /\ t[i] \in S
  BY <1>1
<1> HIDE DEF u
<1>4. ASSUME NEW i \in 1 .. Len(u), NEW j \in 1 .. Len(u), i < j PROVE u[i] # u[j]
  <2>1. CASE j \in 1 .. Len(s)
    <3>1. i \in 1 .. Len(s)
      BY <1>1, <1>3, <1>4, <2>1
    <3> QED
      BY <1>3, <1>4, <2>1, <3>1 DEF Distinct
  <2>2. CASE i \in 1 .. Len(s) /\ j \notin 1 .. Len(s)
    <3>1. PICK l \in 1 .. Len(t) : j = Len(s) + l
      BY <1>2, <1>3, <2>2
    <3>2. s[i] \in S /\ InSeq(s[i], s) /\ InSeq(t[l], t)
      BY <1>3, <2>2 DEF InSeq
    <3>3. s[i] # t[l]
      BY <3>2
    <3> QED
      BY <1>3, <2>2, <3>1, <3>3
  <2>3. CASE i \notin 1 .. Len(s)
    <3>1. PICK k \in 1 .. Len(t) : i = Len(s) + k
      BY <1>2, <1>3, <2>3
    <3>2. PICK l \in 1 .. Len(t) : j = Len(s) + l
      <4>1. j \notin 1 .. Len(s)
        BY <1>1, <1>3, <1>4, <2>3
      <4> QED
        BY <1>2, <1>3, <4>1
    <3>3. k < l
      BY <1>1, <1>4, <3>1, <3>2
    <3> QED
      BY <1>3, <3>1, <3>2, <3>3 DEF Distinct
  <2> QED
    BY <2>1, <2>2, <2>3
<1>5. ASSUME NEW p \in S PROVE InSeq(p, u) <=> InSeq(p, s) \/ InSeq(p, t)
  <2>1. InSeq(p, u) => InSeq(p, s) \/ InSeq(p, t)
    <3> SUFFICES ASSUME NEW i \in 1 .. Len(u), u[i] = p PROVE InSeq(p, s) \/ InSeq(p, t)
      BY DEF InSeq
    <3>1. i \in 1 .. Len(s) \/ \E j \in 1 .. Len(t) : i = Len(s) + j
      BY <1>2, <1>3
    <3> QED
      BY ZenonT(60), <1>3, <3>1 DEF InSeq
  <2>2. InSeq(p, s) => InSeq(p, u)
    BY <1>1, <1>3 DEF InSeq
  <2>3. ASSUME NEW k \in 1 .. Len(t), t[k] = p PROVE InSeq(p, u)
    <3>1. Len(s) + k \in 1 .. Len(u)
      BY <1>1, <1>3
    <3> QED
      BY <1>3, <2>3, <3>1 DEF InSeq
  <2> QED
    BY <2>1, <2>2, <2>3 DEF InSeq
<1> QED
  BY <1>1, <1>4, <1>5 DEF Distinct, u

(* The names behind Order and AllPolls. *)
LEMMA PollNames ==
    /\ Timed = {"grpc", "streams", "command", "log"}
    /\ Range(AllPolls) = Polls
    /\ AllPolls \in Seq(Polls)
    /\ AllPolls = <<"catalog", "grpc", "streams", "command", "log">>
<1>1. AllPolls = <<"catalog", "grpc", "streams", "command", "log">>
  <2> DEFINE a == <<"catalog">>
             b == <<"grpc", "streams", "command", "log">>
             c == <<"catalog", "grpc", "streams", "command", "log">>
  <2>1. /\ a \in Seq(Polls) /\ b \in Seq(Polls) /\ c \in Seq(Polls)
        /\ Len(a) = 1 /\ Len(b) = 4 /\ Len(c) = 5
    BY DEF Polls
  <2>2. /\ a \o b \in Seq(Polls) /\ Len(a \o b) = 5
        /\ \A i \in 1 .. 5 : (a \o b)[i] = c[i]
    BY <2>1
  <2>3. a \o b = c
    BY ZenonT(60), <2>1, <2>2, SeqEqual
  <2> QED
    BY <2>3 DEF AllPolls, Order
<1>2. DOMAIN Order = {1, 2, 3, 4} /\ DOMAIN AllPolls = {1, 2, 3, 4, 5}
  BY <1>1 DEF Order
<1> QED
  BY <1>1, <1>2 DEF Timed, Order, Range, Polls

(* The greatest of two numbers. *)
LEMMA MaxOfTwo ==
    ASSUME NEW a \in Int, NEW b \in Int
    PROVE  Max({a, b}) = IF a >= b THEN a ELSE b
<1>1. \E x \in {a, b} : \A y \in {a, b} : x >= y
  OBVIOUS
<1> QED
  BY <1>1 DEF Max

(* The least of two numbers. *)
LEMMA MinOfTwo ==
    ASSUME NEW a \in Int, NEW b \in Int
    PROVE  Min({a, b}) = IF a <= b THEN a ELSE b
<1>1. \E x \in {a, b} : \A y \in {a, b} : x <= y
  OBVIOUS
<1> QED
  BY <1>1 DEF Min

(* The longest interval. *)
LEMMA LongestInterval == Max(Range(Every)) \in Nat
<1>1. Every \in [Timed -> Nat \ {0}] /\ DOMAIN Every = {"grpc", "streams", "command", "log"}
  BY ConsoleAssumption, PollNames
<1>2. Range(Every) = {Every["grpc"], Every["streams"], Every["command"], Every["log"]}
  BY <1>1 DEF Range
<1>3. Range(Every) \subseteq Nat
  BY <1>1, <1>2, PollNames
<1>4. \E x \in Range(Every) : \A y \in Range(Every) : x >= y
  BY <1>2, <1>3
<1> QED
  BY <1>3, <1>4 DEF Max

(* What periodic_poll finds due: each poll at most once, all of them when  *)
(* every interval has passed.                                              *)
LEMMA DuePolls ==
    /\ Due \in Seq(Polls)
    /\ Distinct(Due)
    /\ \A p \in Timed : InSeq(p, Due) <=> age[p] >= Every[p]
<1>1. ASSUME NEW p \in Polls
      PROVE  /\ IfDue(p) \in Seq(Polls) /\ Distinct(IfDue(p))
             /\ \A q \in Polls : InSeq(q, IfDue(p)) <=> q = p /\ age[p] >= Every[p]
  BY DEF IfDue, Distinct, InSeq
<1> DEFINE two == IfDue("grpc") \o IfDue("streams")
           three == two \o IfDue("command")
<1>2. {"grpc", "streams", "command", "log"} \subseteq Polls
  BY DEF Polls
<1> HIDE DEF Polls
<1>3. /\ two \in Seq(Polls) /\ Distinct(two)
      /\ \A q \in Polls :
            InSeq(q, two) <=>
                \/ q = "grpc" /\ age["grpc"] >= Every["grpc"]
                \/ q = "streams" /\ age["streams"] >= Every["streams"]
  BY <1>1, <1>2, JoinedSeq
<1> HIDE DEF two
<1>4. /\ three \in Seq(Polls) /\ Distinct(three)
      /\ \A q \in Polls :
            InSeq(q, three) <=>
                InSeq(q, two) \/ (q = "command" /\ age["command"] >= Every["command"])
  BY <1>1, <1>2, <1>3, JoinedSeq
<1>5. Due = three \o IfDue("log")
  BY DEF Due, two
<1> HIDE DEF three
<1>6. /\ Due \in Seq(Polls) /\ Distinct(Due)
      /\ \A q \in Polls :
            InSeq(q, Due) <=> InSeq(q, three) \/ (q = "log" /\ age["log"] >= Every["log"])
  BY <1>1, <1>2, <1>3, <1>4, <1>5, JoinedSeq
<1> QED
  BY <1>2, <1>3, <1>4, <1>6, PollNames

(* The selection moves within the catalog. *)
LEMMA Modulo ==
    ASSUME NEW n \in Nat, n > 0, NEW k \in Int
    PROVE  k % n \in 0 .. n - 1
OBVIOUS

(* What is left of the polls when the first is done. *)
LEMMA RestOfPolls ==
    ASSUME NEW S, NEW q \in Seq(S), q # <<>>, Distinct(q)
    PROVE  /\ Tail(q) \in Seq(S) /\ Distinct(Tail(q))
           /\ ~InSeq(Head(q), Tail(q))
           /\ \A p : p # Head(q) => (InSeq(p, q) <=> InSeq(p, Tail(q)))
<1>1. /\ Tail(q) \in Seq(S) /\ Len(q) \in Nat /\ Len(q) > 0 /\ Len(Tail(q)) = Len(q) - 1
      /\ Head(q) = q[1]
      /\ \A i \in 1 .. Len(q) - 1 : Tail(q)[i] = q[i + 1]
  OBVIOUS
<1> DEFINE t == Tail(q)
<1> HIDE DEF t
<1>2. Distinct(t)
  BY <1>1 DEF Distinct, t
<1>3. ~InSeq(Head(q), t)
  BY <1>1 DEF Distinct, InSeq, t
<1>4. ASSUME NEW p, p # Head(q) PROVE InSeq(p, q) <=> InSeq(p, t)
  <2>1. ASSUME NEW i \in 1 .. Len(q), q[i] = p PROVE InSeq(p, t)
    <3>1. i # 1 /\ i - 1 \in 1 .. Len(t) /\ t[i - 1] = q[i]
      BY <1>1, <1>4, <2>1 DEF t
    <3> QED
      BY <2>1, <3>1 DEF InSeq
  <2>2. ASSUME NEW i \in 1 .. Len(t), t[i] = p PROVE InSeq(p, q)
    <3>1. i + 1 \in 1 .. Len(q) /\ t[i] = q[i + 1]
      BY <1>1 DEF t
    <3> QED
      BY <2>2, <3>1 DEF InSeq
  <2> QED
    BY <2>1, <2>2 DEF InSeq
<1> QED
  BY <1>1, <1>2, <1>3, <1>4 DEF t

(* The scenes, for the provers. *)
LEMMA SceneFacts ==
    ASSUME NEW sc \in Scenes
    PROVE  /\ sc.catalogs \subseteq Seq(STRING)
           /\ sc.adapters \subseteq {"fake", "grpcurl", "fallback", "missing"}
           /\ sc.logs \subseteq {-1, 0, 1}
           /\ sc.chats \subseteq {-1, 0, 1}
           /\ sc.units \subseteq [Scopes -> {"absent", "down"}]
BY ConsoleAssumption DEF IsScene

(* The constants, one by one. *)
LEMMA ConstantFacts ==
    /\ \A p \in Timed : Every[p] \in Nat \ {0}
    /\ FlashFor \in Nat
    /\ Targets \in Nat /\ Limit \in Nat \ {0} /\ ProbeTime \in Nat \ {0}
BY ConsoleAssumption

-------------------------------------------------------------------------------
(* Control *)

(* Every catalog is a sequence, the empty one too. *)
LEMMA CatalogType ==
    ASSUME NEW sc \in Scenes, NEW c \in sc.catalogs \cup {<<>>}
    PROVE  c \in Seq(STRING) /\ Len(c) \in Nat /\ DOMAIN c = 1 .. Len(c)
<1>1. <<>> \in Seq(STRING)
  BY EmptySeq
<1>2. c \in Seq(STRING)
  BY ZenonT(60), <1>1, SceneFacts
<1> QED
  BY <1>2, LenProperties

(* The selected command is in the catalog: poll_command finds it. *)
LEMMA SelectedInRange ==
    ASSUME Control, Catalog, command_catalog # <<>>
    PROVE  selected_command + 1 \in DOMAIN command_catalog
<1>1. /\ command_catalog \in Seq(STRING)
      /\ Len(command_catalog) \in Nat
      /\ DOMAIN command_catalog = 1 .. Len(command_catalog)
  BY CatalogType DEF Control, Catalog
<1>2. Len(command_catalog) > 0
  BY <1>1, EmptySeq
<1> QED
  BY <1>1, <1>2 DEF Catalog

(* What others do leaves the console where it is. *)
LEMMA WorldLeaves ==
    ASSUME World
    PROVE  UNCHANGED <<Console, scene, adapter>>
<1>1. ASSUME NEW s, JobFinishes(s) PROVE UNCHANGED <<Console, scene, adapter>>
  BY ZenonT(60), <1>1 DEF JobFinishes, world
<1>2. ASSUME NEW e, NEW status, EndpointChanges(e, status) PROVE UNCHANGED <<Console, scene, adapter>>
  BY ZenonT(60), <1>2 DEF EndpointChanges
<1>3. CASE LogGrows \/ LogRotates \/ NotesRotate \/ OtherNotes
  BY ZenonT(60), <1>3 DEF LogGrows, LogRotates, NotesRotate, OtherNotes, FileEvent
<1>4. CASE OtherLooks \/ OtherCreates \/ FakeFileMade
  BY ZenonT(60), <1>4 DEF OtherLooks, OtherCreates, FakeFileMade, world
<1> QED
  BY ZenonT(60), <1>1, <1>2, <1>3, <1>4 DEF World

(* A poll that is done leaves the others to be run. *)
LEMMA PollDoneControl ==
    ASSUME Control, NEW d, PollDone(d), todo # <<>>, UNCHANGED <<scene, adapter>>
    PROVE  Control'
<1>1. Tail(todo) \in Seq(Polls) /\ Distinct(Tail(todo))
  BY RestOfPolls DEF Control
<1>2. todo = <<"catalog">> => Tail(todo) = <<>>
  OBVIOUS
<1> QED
  BY <1>1, <1>2 DEF Control, PollDone, Places, LogPlaces

(* Every step leaves the thread where it can be. *)
LEMMA ControlStep == CInv /\ [CNext]_cvars => Control'
<1> SUFFICES ASSUME Control, Catalog, Timers, [CNext]_cvars PROVE Control'
  BY DEF CInv
<1> USE DEF Places, LogPlaces
<1>1. CASE UNCHANGED cvars
  BY <1>1 DEF cvars, loopvars, world, Control
<1>2. CASE PollCatalog
  BY <1>2, PollDoneControl DEF PollCatalog, At, PollTooSlow, world
<1>3. CASE PollCommand
  BY <1>3, PollDoneControl, SelectedInRange DEF PollCommand, At, PollTooSlow, world
<1>4. CASE PollStreams
  BY <1>4, PollDoneControl DEF PollStreams, At, PollTooSlow, world
<1>5. ASSUME todo # <<>>, NEW d, NEW exit, NEW rows, GrpcDone(d, exit, rows) PROVE Control'
  BY <1>5, PollDoneControl DEF GrpcDone, world
<1>6. CASE PollGrpc
  <2>1. CASE GrpcDone(0, 0, RowsAtOnce) \/ GrpcDone(0, 1, RowsOfFailure)
    BY <1>5, <1>6, <2>1 DEF PollGrpc, At
  <2>2. CASE adapter = "grpcurl" /\ pc' = "probe" /\ Stay /\ UNCHANGED world
    BY <1>6, <2>2 DEF PollGrpc, At, Stay, world, Control
  <2> QED
    BY ZenonT(60), <1>6, <2>1, <2>2 DEF PollGrpc
<1>7. ASSUME NEW d, GrpcFails \/ ProbesDone \/ ProbesTooSlow(d) PROVE Control'
  <2>1. todo # <<>>
    BY <1>7 DEF GrpcFails, ProbesDone, ProbesTooSlow, At, Control
  <2> QED
    BY ZenonT(60), <1>5, <1>7, <2>1 DEF GrpcFails, ProbesDone, ProbesTooSlow
<1>8. ASSUME NEW d, Probe(d) PROVE Control'
  BY <1>8 DEF Probe, loopvars, world, Control
<1>9. ASSUME NEW here, NEW next \in LogPlaces \cup {"crashed"}, Look(here, next),
             At("log") \/ pc \in LogPlaces
      PROVE  Control'
  BY <1>9 DEF Look, At, Stay, world, Control
<1>10. CASE \/ LookForLog \/ StatSize \/ StatTime \/ LookForTail \/ ReadTail \/ LogVanished
            \/ LookForChat \/ CreateChat \/ NotesVanished
  <2>1. At("log") \/ pc \in LogPlaces
    BY ZenonT(60), <1>10 DEF LookForLog, StatSize, StatTime, LookForTail, ReadTail, LogVanished,
          LookForChat, CreateChat, NotesVanished, Look
  <2> QED
    BY ZenonT(60), <1>9, <1>10, <2>1 DEF LookForLog, StatSize, StatTime, LookForTail, ReadTail,
          LogVanished, LookForChat, CreateChat, NotesVanished
<1>11. CASE LookForNotes \/ ReadNotes
  <2>1. todo # <<>> /\ Head(todo) = "log"
    BY <1>11 DEF LookForNotes, ReadNotes, Control
  <2>2. CASE \E d : PollDone(d)
    BY <1>11, <2>1, <2>2, PollDoneControl DEF LookForNotes, ReadNotes, world
  <2>3. CASE pc = "notes" /\ pc' = "read" /\ Stay
    BY <1>11, <2>1, <2>3 DEF LookForNotes, ReadNotes, Stay, world, Control
  <2> QED
    BY ZenonT(60), <1>11, <2>2, <2>3 DEF LookForNotes, ReadNotes
<1>12. CASE PeriodicPoll
  BY <1>12, DuePolls DEF PeriodicPoll, world, Control, Stages
<1>13. CASE Draw \/ CheckEnds \/ NoKey
  BY <1>13 DEF Draw, CheckEnds, NoKey, world, Control, Stages
<1>14. CASE Daemon
  BY ZenonT(60), <1>14 DEF Daemon, CtlAnswers, CtlWorks, CtlRefused, CtlTimesOut, Success, Verdict, NextScope,
               loopvars, world, Control
<1>15. ASSUME NEW name, NEW place \in {"end", "poll", "prompt", "ctl"}, NEW polls \in Seq(Polls), NEW message,
              Distinct(polls), place # "poll" => polls = <<>>, Key(name, place, polls, message)
       PROVE  Control'
  BY <1>15 DEF Key, Control, Stages
<1>16. /\ <<>> \in Seq(Polls) /\ Distinct(<<>>)
       /\ <<"command">> \in Seq(Polls) /\ Distinct(<<"command">>)
       /\ <<"log">> \in Seq(Polls) /\ Distinct(<<"log">>)
       /\ AllPolls \in Seq(Polls) /\ Distinct(AllPolls)
  BY PollNames DEF Distinct, Polls
<1>17. CASE KeyQuit \/ KeyEnter \/ KeyRefresh \/ KeyNote
  BY ZenonT(60), <1>15, <1>16, <1>17 DEF KeyQuit, KeyEnter, KeyRefresh, KeyNote
<1>18. ASSUME NEW step \in {-1, 1}, KeySelect(step) PROVE Control'
  BY ZenonT(60), <1>15, <1>16, <1>18 DEF KeySelect
<1>19. ASSUME NEW action \in Changing \cup Asking, KeyDaemon(action) PROVE Control'
  BY ZenonT(60), <1>15, <1>16, <1>19 DEF KeyDaemon
<1>20. CASE Prompt
  <2>1. /\ pc = "prompt" /\ pc' = "poll" /\ todo' \in {<<>>, <<"log">>}
        /\ UNCHANGED <<stage, scene, adapter>>
    BY ZenonT(60), <1>20 DEF Prompt, world
  <2> QED
    BY <1>16, <2>1 DEF Control
<1>21. CASE World
  <2>1. UNCHANGED <<loopvars, scene, adapter>>
    BY ZenonT(60), <1>21, WorldLeaves DEF Console
  <2> QED
    BY <2>1 DEF loopvars, Control
<1> QED
  BY <1>1, <1>2, <1>3, <1>4, <1>5, <1>6, <1>7, <1>8, <1>9, <1>10, <1>11, <1>12, <1>13, <1>14,
     <1>17, <1>18, <1>19, <1>20, <1>21 DEF CNext, Loop, Operator, PollLog, GrpcFails

-------------------------------------------------------------------------------
(* Timers *)

(* An age stays within its interval, and at it once it is there. *)
LEMMA Older ==
    ASSUME NEW a \in Nat, NEW d \in Nat, NEW b \in Nat
    PROVE  /\ Min({a + d, b}) \in 0 .. b
           /\ a = b => Min({a + d, b}) = b
<1>1. Min({a + d, b}) = IF a + d <= b THEN a + d ELSE b
  BY MinOfTwo
<1> QED
  BY <1>1

(* The time a message still has. *)
LEMMA LessLeft ==
    ASSUME NEW f \in -1 .. FlashFor, NEW d \in Nat
    PROVE  Max({f - d, -1}) \in -1 .. FlashFor
<1>1. f - d \in Int /\ -1 \in Int /\ f \in Int
  BY ConstantFacts
<1>2. Max({f - d, -1}) = IF f - d >= -1 THEN f - d ELSE -1
  BY <1>1, MaxOfTwo
<1> QED
  BY <1>2, ConstantFacts

(* Time that passes, also when a poll is done, keeps the timers in range. *)
LEMMA ClockRuns ==
    ASSUME Timers, NEW d \in Nat,
           since' = Min({since + d, Max(Range(Every))}),
           flashLeft' = Max({flashLeft - d, -1}),
           \A p \in Timed : age'[p] = Min({age[p] + d, Every[p]})
                               \/ (stage # "init" /\ age'[p] = Min({since + d, Every[p]})),
           stage' = "init" => stage = "init"
    PROVE  Timers'
<1>1. since' \in Nat
  <2> DEFINE longest == Max(Range(Every))
  <2>1. since \in Nat /\ longest \in Nat
    BY LongestInterval DEF Timers
  <2>2. since' = Min({since + d, longest})
    OBVIOUS
  <2> HIDE DEF longest
  <2>3. Min({since + d, longest}) \in 0 .. longest
    BY <2>1, Older
  <2> QED
    BY <2>1, <2>2, <2>3
<1>2. flashLeft' \in -1 .. FlashFor
  BY LessLeft DEF Timers
<1>3. ASSUME NEW p \in Timed
      PROVE  age'[p] \in 0 .. Every[p] /\ (stage' = "init" => age'[p] = Every[p])
  <2>1. Every[p] \in Nat /\ age[p] \in Nat /\ since \in Nat
    BY ConstantFacts DEF Timers
  <2>2. \A a, b \in Nat : /\ Min({a + d, b}) \in 0 .. b
                          /\ a = b => Min({a + d, b}) = b
    BY ZenonT(60), Older
  <2>3. Min({age[p] + d, Every[p]}) \in 0 .. Every[p]
    BY ZenonT(60), <2>1, <2>2
  <2>4. Min({since + d, Every[p]}) \in 0 .. Every[p]
    BY <2>1, <2>2
  <2>5. age[p] = Every[p] => Min({age[p] + d, Every[p]}) = Every[p]
    BY ZenonT(60), <2>1, <2>2
  <2> QED
    BY <2>3, <2>4, <2>5 DEF Timers
<1> QED
  BY <1>1, <1>2, <1>3 DEF Timers

(* The timers when time passes in a wait. *)
LEMMA PassTimers ==
    ASSUME Timers, NEW d \in Nat, Pass(d), stage' = "init" => stage = "init"
    PROVE  Timers'
BY ClockRuns DEF Pass

(* The timers when a poll returns. *)
LEMMA PollDoneTimers ==
    ASSUME Timers, NEW d \in Nat, PollDone(d)
    PROVE  Timers'
BY ZenonT(60), ClockRuns DEF PollDone

(* Every step keeps the timers in range. *)
LEMMA TimersStep == CInv /\ [CNext]_cvars => Timers'
<1> SUFFICES ASSUME Control, Timers, Catalog, Probing, [CNext]_cvars PROVE Timers'
  BY DEF CInv
<1>0. 0 \in Nat /\ 1 \in Nat /\ Limit \in Nat /\ \A d \in {0, ProbeTime} : d \in Nat
  BY ConstantFacts
<1>1. CASE UNCHANGED cvars
  BY <1>1 DEF cvars, loopvars, timevars, Timers
<1>2. CASE PollCatalog \/ PollStreams
  BY <1>0, <1>2, PollDoneTimers DEF PollCatalog, PollStreams, PollTooSlow
<1>3. CASE PollCommand
  BY <1>0, <1>3, PollDoneTimers, SelectedInRange DEF PollCommand, PollTooSlow
<1>4. CASE PollGrpc
  <2>1. CASE GrpcDone(0, 0, RowsAtOnce) \/ GrpcDone(0, 1, RowsOfFailure)
    BY <1>0, <2>1, PollDoneTimers DEF GrpcDone
  <2>2. CASE Stay
    BY <2>2 DEF Stay, timevars, Timers
  <2> QED
    BY ZenonT(60), <1>4, <2>1, <2>2 DEF PollGrpc
<1>5. CASE ProbesDone
  BY <1>0, <1>5, PollDoneTimers DEF ProbesDone, GrpcDone
<1>6. ASSUME NEW d, GrpcFails \/ ProbesTooSlow(d) PROVE Timers'
  <2>1. Limit - spent \in Nat
    BY <1>0 DEF Probing
  <2> QED
    BY <1>0, <1>6, <2>1, PollDoneTimers DEF GrpcFails, ProbesTooSlow, GrpcDone
<1>7. ASSUME NEW d \in {0, ProbeTime}, Probe(d) PROVE Timers'
  BY <1>0, <1>7, PassTimers DEF Probe, loopvars
<1>8. ASSUME NEW here, NEW next, Look(here, next) PROVE Timers'
  BY <1>8 DEF Look, Stay, timevars, Timers
<1>9. CASE \/ LookForLog \/ StatSize \/ StatTime \/ LookForTail \/ ReadTail \/ LogVanished
           \/ LookForChat \/ CreateChat \/ NotesVanished
  BY ZenonT(60), <1>8, <1>9 DEF LookForLog, StatSize, StatTime, LookForTail, ReadTail, LogVanished,
        LookForChat, CreateChat, NotesVanished
<1>10. CASE LookForNotes \/ ReadNotes
  <2>1. CASE Stay
    BY <2>1 DEF Stay, timevars, Timers
  <2> QED
    BY ZenonT(60), <1>0, <1>10, <2>1, PollDoneTimers DEF LookForNotes, ReadNotes
<1>11. CASE PeriodicPoll
  BY <1>0, <1>11, ConstantFacts DEF PeriodicPoll, Timers
<1>12. CASE Draw \/ CheckEnds
  BY ZenonT(60), <1>12 DEF Draw, CheckEnds, timevars, Timers
<1>13. CASE NoKey
  BY <1>0, <1>13, PassTimers DEF NoKey
<1>14. CASE Daemon
  BY ZenonT(60), <1>0, <1>14, PassTimers DEF Daemon, CtlAnswers, CtlWorks, CtlRefused, CtlTimesOut, Success,
        Verdict, NextScope, loopvars, timevars, Timers
<1>15. ASSUME NEW name, NEW place, NEW polls, NEW message, Key(name, place, polls, message)
       PROVE  Timers'
  BY <1>15 DEF Key, timevars, Timers
<1>16. CASE Operator
  <2>1. CASE Prompt
    BY <1>0, <2>1, PassTimers DEF Prompt
  <2> QED
    BY ZenonT(60), <1>15, <1>16, <2>1 DEF Operator, KeyQuit, KeyEnter, KeyRefresh, KeyNote, KeySelect, KeyDaemon
<1>17. CASE World
  <2>1. UNCHANGED <<timevars, stage>>
    BY ZenonT(60), <1>17, WorldLeaves DEF Console, loopvars
  <2> QED
    BY <2>1 DEF timevars, Timers
<1> QED
  BY <1>1, <1>2, <1>3, <1>4, <1>5, <1>6, <1>7, <1>8, <1>9, <1>10, <1>11, <1>12, <1>13, <1>14,
     <1>16, <1>17 DEF CNext, Loop, PollLog

-------------------------------------------------------------------------------
(* The catalog *)

(* Every step keeps the selection in the catalog. *)
LEMMA CatalogStep == CInv /\ [CNext]_cvars => Catalog'
<1> SUFFICES ASSUME Control, Catalog, [CNext]_cvars PROVE Catalog'
  BY DEF CInv
<1>1. command_catalog \in Seq(STRING) /\ Len(command_catalog) \in Nat
  BY CatalogType DEF Control, Catalog
<1>2. CASE PollCatalog
  <2>1. scene' = scene /\ command_catalog' \in scene.catalogs \cup {<<>>}
    BY <1>2 DEF PollCatalog, world
  <2>3. Len(command_catalog') \in Nat
    BY <2>1, CatalogType DEF Control
  <2>4. selected_command' = IF selected_command >= Len(command_catalog') THEN 0 ELSE selected_command
    BY <1>2 DEF PollCatalog, SelectedIn
  <2> QED
    BY <2>1, <2>3, <2>4 DEF Catalog
<1>3. ASSUME NEW step \in {-1, 1}, KeySelect(step) PROVE Catalog'
  <2>1. UNCHANGED <<scene, command_catalog>>
    BY <1>3 DEF KeySelect, Key
  <2>2. CASE command_catalog = <<>>
    BY <1>3, <2>1, <2>2 DEF KeySelect, Catalog
  <2>3. CASE command_catalog # <<>>
    <3>1. Len(command_catalog) > 0
      BY <1>1, <2>3
    <3>2. selected_command' \in 0 .. Len(command_catalog) - 1
      BY <1>1, <1>3, <2>3, <3>1, Modulo DEF KeySelect, Moved, Catalog
    <3> QED
      BY <1>1, <2>1, <3>2 DEF Catalog
  <2> QED
    BY <2>2, <2>3
<1>4. UNCHANGED <<scene, command_catalog, selected_command>> => Catalog'
  BY DEF Catalog
<1>5. CASE PollCommand \/ PollStreams \/ PollGrpc \/ GrpcFails \/ ProbesDone
  BY ZenonT(60), <1>4, <1>5 DEF PollCommand, PollStreams, PollGrpc, GrpcFails, ProbesDone, GrpcDone,
        cmdvars, world
<1>6. ASSUME NEW d, Probe(d) \/ ProbesTooSlow(d) PROVE Catalog'
  BY <1>4, <1>6 DEF Probe, ProbesTooSlow, GrpcDone, cmdvars, world
<1>7. CASE PollLog
  BY ZenonT(60), <1>4, <1>7 DEF PollLog, LookForLog, StatSize, StatTime, LookForTail, ReadTail, LogVanished,
        LookForChat, CreateChat, LookForNotes, ReadNotes, NotesVanished, Look, Others, cmdvars, world
<1>8. CASE PeriodicPoll \/ Draw \/ CheckEnds \/ NoKey
  BY ZenonT(60), <1>4, <1>8 DEF PeriodicPoll, Draw, CheckEnds, NoKey, Others, cmdvars, world
<1>9. CASE Daemon
  BY ZenonT(60), <1>4, <1>9 DEF Daemon, CtlAnswers, CtlWorks, CtlRefused, CtlTimesOut, Success, Verdict, NextScope,
        cmdvars, world
<1>10. CASE KeyQuit \/ KeyEnter \/ KeyRefresh \/ KeyNote \/ Prompt
  BY ZenonT(60), <1>4, <1>10 DEF KeyQuit, KeyEnter, KeyRefresh, KeyNote, Prompt, Key, Others, cmdvars, world
<1>11. ASSUME NEW action, KeyDaemon(action) PROVE Catalog'
  BY ZenonT(60), <1>4, <1>11 DEF KeyDaemon, Key, cmdvars
<1>12. CASE World
  BY ZenonT(60), <1>4, <1>12, WorldLeaves DEF Console, cmdvars
<1>13. CASE UNCHANGED cvars
  BY <1>4, <1>13 DEF cvars, cmdvars, world
<1> QED
  BY <1>2, <1>3, <1>5, <1>6, <1>7, <1>8, <1>9, <1>10, <1>11, <1>12, <1>13
     DEF CNext, Loop, Operator

-------------------------------------------------------------------------------
(* The log *)

(* A log that shrinks has not more to count. *)
LEMMA LogShrinks ==
    ASSUME NEW l \in Int, NEW m \in Int, m <= l, NEW s \in Nat, NEW g \in Nat, NEW w \in Nat,
           g + l - s <= w
    PROVE  g + m - s <= w
OBVIOUS

(* Every step keeps the account of the log. *)
LEMMA LogStep == CInv /\ [CNext]_cvars => LogCounted'
<1> SUFFICES ASSUME Control, Catalog, LogCounted, [CNext]_cvars PROVE LogCounted'
  BY DEF CInv
<1> USE DEF LogCounted, GrowthIsReal
<1>0. ASSUME UNCHANGED logvars, removed' \in {removed, removed \ {"notes"}},
             pc' \notin {"size", "mtime", "open"} \/ pc' = pc
      PROVE  LogCounted'
  BY <1>0 DEF logvars
<1>1. ASSUME UNCHANGED filevars, pc' \notin {"size", "mtime", "open"} \/ pc' = pc
      PROVE  LogCounted'
  BY <1>0, <1>1 DEF filevars
<1>2. CASE LookForLog \/ LookForTail
  <2>1. UNCHANGED logvars /\ removed' \subseteq removed
    BY ZenonT(60), <1>2 DEF LookForLog, LookForTail, Finds
  <2>2. pc' \in {"size", "mtime", "open"} => log >= 0
    BY ZenonT(60), <1>2 DEF LookForLog, LookForTail, Look
  <2> QED
    BY <2>1, <2>2 DEF logvars
<1>3. CASE StatTime \/ ReadTail \/ LogVanished
  BY <1>3 DEF StatTime, ReadTail, LogVanished, Look, logvars
<1>4. CASE StatSize
  <2>1. /\ log \in Nat /\ pc' = "mtime" /\ log' = log /\ log_size' = log
        /\ written' = written /\ removed' = removed
        /\ growth' = growth + Max({0, log - log_size})
    BY <1>4 DEF StatSize, Look, SizeKept
  <2>2. Max({0, log - log_size}) = IF 0 >= log - log_size THEN 0 ELSE log - log_size
    BY <2>1, MaxOfTwo
  <2> QED
    BY <2>1, <2>2
<1>5. CASE LogGrows
  <2>1. Max({log, 0}) = IF log >= 0 THEN log ELSE 0
    BY MaxOfTwo
  <2> QED
    BY <1>5, <2>1 DEF LogGrows, FileEvent, Console, loopvars
<1>6. CASE LogRotates
  <2>1. /\ log \in Nat /\ log' \in {-1, 0}
        /\ UNCHANGED <<log_size, growth, written, pc>>
    BY <1>6 DEF LogRotates, FileEvent, Console, loopvars
  <2>2. removed' \subseteq {"log", "notes"} /\ (log' < 0 => "log" \in removed')
    BY ZenonT(60), <1>6 DEF LogRotates
  <2>3. /\ log' \in Int /\ log' >= -1 /\ log_size' \in Nat /\ growth' \in Nat /\ written' \in Nat
        /\ log_size' <= growth' /\ growth' <= written'
        /\ growth' + log' - log_size' <= written'
    <3>1. /\ log' \in Int /\ log' >= -1 /\ log' <= log /\ log \in Nat
          /\ log_size' = log_size /\ growth' = growth /\ written' = written
      BY <2>1
    <3>2. log_size \in Nat /\ growth \in Nat /\ written \in Nat /\ growth + log - log_size <= written
      OBVIOUS
    <3>3. growth + log' - log_size <= written
      BY ZenonT(60), <3>1, <3>2, LogShrinks
    <3> QED
      BY ZenonT(60), <3>1, <3>3
  <2>4. (pc \in {"size", "mtime", "open"} /\ log < 0 => "log" \in removed)'
    BY <2>1, <2>2, ZenonT(60)
  <2> QED
    BY ZenonT(60), <2>2, <2>3, <2>4
<1>7. CASE PollCatalog \/ PollStreams \/ PollGrpc \/ GrpcFails \/ ProbesDone
  BY ZenonT(60), <1>1, <1>7 DEF PollCatalog, PollStreams, PollGrpc, GrpcFails, ProbesDone, GrpcDone,
        PollTooSlow, PollDone
<1>8. CASE PollCommand
  BY ZenonT(60), <1>1, <1>8, SelectedInRange DEF PollCommand, PollTooSlow, PollDone
<1>9. ASSUME NEW d, Probe(d) \/ ProbesTooSlow(d) PROVE LogCounted'
  BY ZenonT(60), <1>1, <1>9 DEF Probe, ProbesTooSlow, GrpcDone, PollDone, loopvars
<1>10. CASE LookForChat \/ CreateChat \/ LookForNotes \/ ReadNotes \/ NotesVanished
  <2>1. UNCHANGED logvars /\ removed' \in {removed, removed \ {"notes"}}
    BY ZenonT(60), <1>10 DEF LookForChat, CreateChat, LookForNotes, ReadNotes, NotesVanished, Finds, filevars
  <2>2. pc' \in {"create", "notes", "read", "poll", "crashed"}
    BY ZenonT(60), <1>10 DEF LookForChat, CreateChat, LookForNotes, ReadNotes, NotesVanished, Look, PollDone
  <2> QED
    BY <1>0, <2>1, <2>2
<1>11. CASE PeriodicPoll \/ Draw \/ CheckEnds \/ NoKey
  BY ZenonT(60), <1>1, <1>11 DEF PeriodicPoll, Draw, CheckEnds, NoKey
<1>12. CASE Daemon
  BY ZenonT(60), <1>1, <1>12 DEF Daemon, CtlAnswers, CtlWorks, CtlRefused, CtlTimesOut, Success, Verdict, NextScope,
        loopvars
<1>13. CASE Operator
  <2>1. CASE Prompt
    BY ZenonT(60), <1>0, <2>1 DEF Prompt
  <2> QED
    BY ZenonT(60), <1>1, <1>13, <2>1 DEF Operator, KeyQuit, KeyEnter, KeyRefresh, KeyNote, KeySelect, KeyDaemon, Key
<1>14. ASSUME NEW s, JobFinishes(s) PROVE LogCounted'
  BY ZenonT(60), <1>1, <1>14 DEF JobFinishes, Console, loopvars
<1>15. ASSUME NEW e, NEW status, EndpointChanges(e, status) \/ FakeFileMade PROVE LogCounted'
  BY <1>1, <1>15 DEF EndpointChanges, FakeFileMade, Console, loopvars
<1>16. CASE OtherLooks \/ OtherCreates \/ OtherNotes
  BY <1>0, <1>16 DEF OtherLooks, OtherCreates, OtherNotes, FileEvent, Console, loopvars
<1>18. CASE NotesRotate
  <2>1. UNCHANGED <<logvars, pc>>
    BY <1>18 DEF NotesRotate, FileEvent, Console, loopvars
  <2>2. removed' \subseteq {"log", "notes"} /\ ("log" \in removed => "log" \in removed')
    BY ZenonT(60), <1>18 DEF NotesRotate
  <2> QED
    BY <2>1, <2>2 DEF logvars
<1>17. CASE UNCHANGED cvars
  BY <1>1, <1>17 DEF cvars, loopvars
<1> QED
  BY ZenonT(60), <1>2, <1>3, <1>4, <1>5, <1>6, <1>7, <1>8, <1>9, <1>10, <1>11, <1>12, <1>13, <1>14, <1>15,
     <1>16, <1>17, <1>18 DEF CNext, Loop, PollLog, World

-------------------------------------------------------------------------------
(* What is still to be polled for the first time *)

(* A poll that is done is no longer pending, and the others still are. *)
LEMMA PollDonePending ==
    ASSUME Control, NEW d, PollDone(d), todo # <<>>
    PROVE  \A p : /\ p = Head(todo) /\ stage # "init" => ~Pending(p)'
                  /\ p # Head(todo) => (Pending(p)' <=> Pending(p))
<1>1. /\ ~InSeq(Head(todo), Tail(todo))
      /\ \A p : p # Head(todo) => (InSeq(p, todo) <=> InSeq(p, Tail(todo)))
  BY RestOfPolls DEF Control
<1>2. todo' = Tail(todo) /\ stage' = stage
  BY DEF PollDone
<1> QED
  BY <1>1, <1>2 DEF Pending, InSeq

(* Nothing is pending for the first time but before the loop. *)
LEMMA NothingPending ==
    ASSUME NEW p, \/ stage \in {"round", "key"}
                  \/ stage \in {"first", "check"} /\ todo = <<>>
    PROVE  ~Pending(p)
BY DEF Pending, InSeq

(* A poll stays pending until it is the first and is done. *)
LEMMA StillPending ==
    ASSUME Control, Timers, Catalog, [CNext]_cvars, NEW p \in Timed, Pending(p),
           ~(todo # <<>> /\ Head(todo) = p /\ todo' # todo)
    PROVE  Pending(p)'
<1>1. UNCHANGED <<stage, todo>> => Pending(p)'
  BY DEF Pending, InSeq
<1>2. ASSUME NEW d, PollDone(d), todo # <<>> PROVE Pending(p)'
  <2>1. CASE Head(todo) # p
    BY <1>2, <2>1, PollDonePending
  <2>2. CASE Head(todo) = p
    BY <1>1, <1>2, <2>2 DEF PollDone
  <2> QED
    BY <2>1, <2>2
<1>3. stage \notin {"round", "key"} /\ (stage \in {"first", "check"} => todo # <<>>)
  BY NothingPending
<1>4. pc \notin {"key", "prompt", "ctl"}
  BY <1>3 DEF Control
<1>5. CASE PollCatalog \/ PollStreams
  BY <1>2, <1>5 DEF PollCatalog, PollStreams, PollTooSlow, At
<1>6. CASE PollCommand
  BY <1>2, <1>6, SelectedInRange DEF PollCommand, PollTooSlow, At
<1>7. CASE PollGrpc
  BY ZenonT(60), <1>1, <1>2, <1>7 DEF PollGrpc, GrpcDone, Stay, At
<1>8. ASSUME NEW d, GrpcFails \/ ProbesDone \/ ProbesTooSlow(d) PROVE Pending(p)'
  <2>1. todo # <<>>
    BY <1>8 DEF GrpcFails, ProbesDone, ProbesTooSlow, At, Control
  <2> QED
    BY ZenonT(60), <1>2, <1>8, <2>1 DEF GrpcFails, ProbesDone, ProbesTooSlow, GrpcDone
<1>9. ASSUME NEW d, Probe(d) PROVE Pending(p)'
  BY <1>1, <1>9 DEF Probe, loopvars
<1>10. CASE \/ LookForLog \/ StatSize \/ StatTime \/ LookForTail \/ ReadTail \/ LogVanished
            \/ LookForChat \/ CreateChat \/ NotesVanished
  <2>1. ASSUME NEW here, NEW next, Look(here, next) PROVE Pending(p)'
    BY <1>1, <2>1 DEF Look, Stay
  <2> QED
    BY ZenonT(60), <1>10, <2>1 DEF LookForLog, StatSize, StatTime, LookForTail, ReadTail, LogVanished,
          LookForChat, CreateChat, NotesVanished
<1>11. CASE LookForNotes \/ ReadNotes
  <2>1. todo # <<>>
    BY <1>11 DEF LookForNotes, ReadNotes, Control, LogPlaces
  <2> QED
    BY ZenonT(60), <1>1, <1>2, <1>11, <2>1 DEF LookForNotes, ReadNotes, Stay
<1>12. CASE PeriodicPoll
  <2>1. stage = "init" /\ stage' = "first" /\ todo' = Due
    BY <1>3, <1>12 DEF PeriodicPoll
  <2>2. age[p] >= Every[p]
    BY <2>1, ConstantFacts DEF Timers
  <2>3. InSeq(p, Due)
    BY <2>2, DuePolls
  <2> QED
    BY <2>1, <2>3 DEF Pending, InSeq
<1>13. CASE Draw \/ CheckEnds \/ NoKey
  BY <1>1, <1>3, <1>4, <1>13 DEF Draw, CheckEnds, NoKey
<1>14. CASE Daemon
  BY ZenonT(60), <1>4, <1>14 DEF Daemon, CtlAnswers, CtlWorks, CtlRefused, CtlTimesOut
<1>15. CASE Operator
  BY ZenonT(60), <1>4, <1>15 DEF Operator, KeyQuit, KeyEnter, KeyRefresh, KeyNote, KeySelect, KeyDaemon, Key, Prompt
<1>16. CASE World
  BY ZenonT(60), <1>1, <1>16, WorldLeaves DEF Console, loopvars
<1>17. CASE UNCHANGED cvars
  BY <1>1, <1>17 DEF cvars, loopvars
<1> QED
  BY <1>5, <1>6, <1>7, <1>8, <1>9, <1>10, <1>11, <1>12, <1>13, <1>14, <1>15, <1>16, <1>17
     DEF CNext, Loop, PollLog

-------------------------------------------------------------------------------
(* The notes *)

(* Every step keeps what is known of the notes file. *)
LEMMA NotesStep == CInv /\ [CNext]_cvars => Notes'
<1> SUFFICES ASSUME Control, Timers, Catalog, Notes, [CNext]_cvars PROVE Notes'
  BY DEF CInv
<1>1. ASSUME chat' \in Int, chat' >= 0, pc' # "create" PROVE Notes'
  BY <1>1 DEF Notes
<1>2. ASSUME UNCHANGED <<chat, pc, stage, todo>>, removed \subseteq removed' PROVE Notes'
  BY <1>2 DEF Notes, Pending, InSeq
<1>3. ASSUME UNCHANGED chat, "notes" \in removed => "notes" \in removed',
             pc' \notin {"create", "notes", "read"},
             ~(todo # <<>> /\ Head(todo) = "log" /\ todo' # todo)
      PROVE  Notes'
  <2>1. Pending("log") => Pending("log")'
    BY <1>3, StillPending, PollNames
  <2> QED
    BY <1>3, <2>1 DEF Notes
<1>5. \A c \in Int : Max({c, 0}) + 1 \in Int /\ Max({c, 0}) + 1 >= 0
  BY MaxOfTwo
<1>6. CASE LookForLog \/ StatSize \/ StatTime \/ LookForTail \/ ReadTail \/ LogVanished
  <2>1. /\ UNCHANGED <<chat, todo>> /\ pc' \notin {"create", "notes", "read"}
        /\ "notes" \in removed => "notes" \in removed'
    BY ZenonT(60), <1>6 DEF LookForLog, StatSize, StatTime, LookForTail, ReadTail, LogVanished, Look, Stay, Finds
  <2> QED
    BY <1>3, <2>1
<1>7. CASE LookForChat
  <2>1. /\ UNCHANGED <<chat, todo, stage>> /\ pc = "chat"
        /\ pc' = IF chat < 0 THEN "create" ELSE "notes"
        /\ removed' = IF chat >= 0 THEN removed \ {"notes"} ELSE removed
    BY <1>7 DEF LookForChat, Look, Stay, Finds, ChatMissing
  <2>2. CASE chat < 0
    <3>1. Pending("log") \/ "notes" \in removed
      BY <2>2 DEF Notes
    <3>2. stage \in {"first", "check"} \/ "notes" \in removed
      BY <2>1, <3>1 DEF Pending, Control
    <3>3. removed' = removed /\ pc' = "create" /\ ~(chat >= 0)
      BY <2>1, <2>2 DEF Notes
    <3>4. Pending("log")' <=> Pending("log")
      BY <2>1 DEF Pending, InSeq
    <3> QED
      BY <2>1, <3>1, <3>2, <3>3, <3>4 DEF Notes
  <2>3. CASE ~(chat < 0)
    BY <1>1, <2>1, <2>3 DEF Notes
  <2> QED
    BY <2>2, <2>3
<1>8. CASE CreateChat
  BY <1>1, <1>8 DEF CreateChat, Look
<1>9. CASE LookForNotes
  <2>1. /\ UNCHANGED chat /\ pc = "notes" /\ pc' \in {"read", "poll"}
        /\ removed' = IF chat >= 0 THEN removed \ {"notes"} ELSE removed
    BY ZenonT(60), <1>9 DEF LookForNotes, Finds, PollDone
  <2>2. CASE chat >= 0
    BY <1>1, <2>1, <2>2 DEF Notes
  <2>3. CASE ~(chat >= 0)
    BY <2>1, <2>3 DEF Notes
  <2> QED
    BY <2>2, <2>3
<1>10. CASE ReadNotes
  BY <1>1, <1>10 DEF ReadNotes, PollDone, filevars, Notes
<1>11. CASE NotesVanished
  <2>1. UNCHANGED <<chat, todo, removed>> /\ pc' = "crashed"
    BY <1>11 DEF NotesVanished, Look, Stay
  <2> QED
    BY <1>3, <2>1
<1>12. CASE OtherCreates
  <2>1. UNCHANGED <<pc, stage, todo, removed>> /\ chat' = 0
    BY <1>12 DEF OtherCreates, Console, loopvars
  <2> QED
    BY <2>1 DEF Notes
<1>13. CASE OtherNotes
  <2>1. UNCHANGED <<pc, stage, todo, removed>> /\ chat' \in Int /\ chat' >= 0
    BY <1>5, <1>13 DEF OtherNotes, FileEvent, Console, loopvars, Notes
  <2> QED
    BY <2>1 DEF Notes
<1>14. CASE NotesRotate
  <2>1. /\ UNCHANGED <<pc, stage, todo>> /\ chat' \in {-1, 0}
        /\ removed' = IF chat' < 0 THEN removed \cup {"notes"} ELSE removed
    BY <1>14 DEF NotesRotate, FileEvent, Console, loopvars
  <2> QED
    BY <2>1 DEF Notes
<1>15. CASE LogGrows \/ LogRotates \/ OtherLooks \/ FakeFileMade
  <2>1. UNCHANGED <<chat, pc, stage, todo>> /\ removed \subseteq removed'
    BY ZenonT(60), <1>15 DEF LogGrows, LogRotates, OtherLooks, FakeFileMade, FileEvent, Console, loopvars, filevars
  <2> QED
    BY <1>2, <2>1
<1>16. ASSUME NEW s, NEW e, NEW status, JobFinishes(s) \/ EndpointChanges(e, status) PROVE Notes'
  <2>1. UNCHANGED <<chat, pc, stage, todo, removed>>
    BY ZenonT(60), <1>16 DEF JobFinishes, EndpointChanges, Console, loopvars, filevars
  <2> QED
    BY <1>2, <2>1
<1>17. CASE Prompt
  <2>1. todo = <<>> /\ pc' = "poll"
    BY <1>17 DEF Prompt, Control
  <2>2. CASE UNCHANGED <<chat, removed>>
    BY <1>3, <2>1, <2>2
  <2>3. CASE chat' = Max({chat, 0}) + 1
    BY <1>1, <1>5, <2>1, <2>3 DEF Notes
  <2> QED
    BY ZenonT(60), <1>17, <2>2, <2>3 DEF Prompt
<1>18. CASE PollCatalog \/ PollStreams \/ PollGrpc
  <2>1. UNCHANGED <<chat, removed>> /\ pc' \in {"poll", "probe"} /\ Head(todo) # "log"
    BY ZenonT(60), <1>18 DEF PollCatalog, PollStreams, PollGrpc, GrpcDone, PollTooSlow, PollDone, At, filevars
  <2> QED
    BY <1>3, <2>1
<1>19. CASE PollCommand
  <2>1. UNCHANGED <<chat, removed>> /\ pc' \in {"poll", "crashed"} /\ Head(todo) # "log"
    BY ZenonT(60), <1>19 DEF PollCommand, PollTooSlow, PollDone, At, filevars
  <2> QED
    BY <1>3, <2>1
<1>20. ASSUME NEW d, GrpcFails \/ ProbesDone \/ ProbesTooSlow(d) PROVE Notes'
  <2>1. Head(todo) = "grpc"
    BY <1>20 DEF GrpcFails, ProbesDone, ProbesTooSlow, At, Control
  <2>2. UNCHANGED <<chat, removed>> /\ pc' = "poll"
    BY ZenonT(60), <1>20 DEF GrpcFails, ProbesDone, ProbesTooSlow, GrpcDone, PollDone, filevars
  <2> QED
    BY <1>3, <2>1, <2>2
<1>21. ASSUME NEW d, Probe(d) PROVE Notes'
  BY <1>2, <1>21 DEF Probe, loopvars, filevars
<1>22. CASE PeriodicPoll \/ Draw \/ CheckEnds \/ NoKey
  <2>1. UNCHANGED <<chat, removed>> /\ todo = <<>> /\ pc' \in {"poll", "key", "end"}
    BY ZenonT(60), <1>22 DEF PeriodicPoll, Draw, CheckEnds, NoKey, Control, filevars
  <2> QED
    BY <1>3, <2>1
<1>23. CASE Daemon
  <2>1. UNCHANGED <<chat, removed, todo>> /\ pc = "ctl" /\ pc' \in {"ctl", "poll"}
    BY ZenonT(60), <1>23 DEF Daemon, CtlAnswers, CtlWorks, CtlRefused, CtlTimesOut, Success, Verdict,
          NextScope, loopvars, filevars
  <2> QED
    BY <1>3, <2>1
<1>24. ASSUME NEW name, NEW place \in {"end", "poll", "prompt", "ctl"}, NEW polls, NEW message,
              Key(name, place, polls, message)
       PROVE  Notes'
  <2>1. todo = <<>>
    BY <1>24 DEF Key, Control
  <2> QED
    BY <1>3, <1>24, <2>1 DEF Key, filevars
<1>25. CASE Operator
  BY ZenonT(60), <1>17, <1>24, <1>25 DEF Operator, KeyQuit, KeyEnter, KeyRefresh, KeyNote, KeySelect, KeyDaemon
<1>26. CASE UNCHANGED cvars
  BY <1>2, <1>26 DEF cvars, loopvars, filevars
<1> QED
  BY ZenonT(60), <1>6, <1>7, <1>8, <1>9, <1>10, <1>11, <1>12, <1>13, <1>14, <1>15, <1>16, <1>18, <1>19,
     <1>20, <1>21, <1>22, <1>23, <1>25, <1>26 DEF CNext, Loop, PollLog, World

-------------------------------------------------------------------------------
(* The table of endpoints *)

(* What grpc_health.sh prints at once. *)
LEMMA AtOnce ==
    ASSUME Probing, adapter \in {"fake", "fallback"}, grpc_rows' = RowsAtOnce, code' = 0,
           asked' = listed, served' = Serving
    PROVE  Table'
<1>1. CASE adapter = "fake"
  <2>1. RowsAtOnce = [e \in listed |-> endpoint[e]]
    BY <1>1, ZenonT(60) DEF RowsAtOnce
  <2> QED
    BY <2>1 DEF Probing, Table, Serving
<1>2. CASE adapter = "fallback"
  <2>1. RowsAtOnce = [e \in listed |-> "UNKNOWN"]
    BY <1>2, ZenonT(60) DEF RowsAtOnce
  <2> QED
    BY <2>1 DEF Table
<1> QED
  BY <1>1, <1>2

(* A failure leaves no rows. *)
LEMMA NoRows ==
    ASSUME grpc_rows' = RowsOfFailure, code' = 1
    PROVE  Table'
BY DEF RowsOfFailure, Table

(* The poll of the endpoints returns. *)
LEMMA GrpcReturns ==
    ASSUME Probing, NEW d, NEW exit, NEW rows, GrpcDone(d, exit, rows), Table'
    PROVE  Probing'
<1>1. /\ UNCHANGED <<adapter, endpoint, listed>> /\ probed' = <<>> /\ spent' = 0 /\ pc' = "poll"
  BY DEF GrpcDone, PollDone, world
<1>2. probed' \in Seq(Statuses) /\ spent' \in 0 .. Limit
  BY <1>1, ConstantFacts, EmptySeq
<1> QED
  BY <1>1, <1>2 DEF Probing

(* Every step keeps what is known of the probes and the table. *)
LEMMA ProbingStep == CInv /\ [CNext]_cvars => Probing'
<1> SUFFICES ASSUME Control, Timers, Catalog, Probing, [CNext]_cvars PROVE Probing'
  BY DEF CInv
<1>1. ASSUME UNCHANGED <<grpcvars, adapter, endpoint, listed>>, pc # "probe", pc' # "probe",
             ~(todo # <<>> /\ Head(todo) = "grpc" /\ todo' # todo)
      PROVE  Probing'
  <2>1. Pending("grpc") => Pending("grpc")'
    BY <1>1, StillPending, PollNames
  <2> QED
    BY <1>1, <2>1 DEF Probing, Table, grpcvars
<1>2. CASE PollGrpc
  <2>1. CASE /\ adapter = "grpcurl" /\ pc' = "probe"
             /\ UNCHANGED <<code, grpc_rows, probed, spent, world>>
    <3>1. /\ asked' = 1 .. Targets /\ served' = Serving /\ probed = <<>>
          /\ UNCHANGED <<adapter, endpoint, listed>>
      BY <1>2, <2>1 DEF PollGrpc, At, world, Probing
    <3>2. Len(probed') = 0 /\ 1 .. Len(probed') = {}
      BY <2>1, <3>1
    <3> QED
      BY <2>1, <3>1, <3>2 DEF Probing, Serving
  <2>2. CASE adapter \in {"fake", "fallback"} /\ GrpcDone(0, 0, RowsAtOnce)
    <3>1. Table'
      BY <1>2, <2>2, AtOnce DEF PollGrpc, GrpcDone
    <3> QED
      BY <2>2, <3>1, GrpcReturns
  <2>3. CASE GrpcDone(0, 1, RowsOfFailure)
    <3>1. Table'
      BY <2>3, NoRows DEF GrpcDone
    <3> QED
      BY <2>3, <3>1, GrpcReturns
  <2> QED
    BY ZenonT(60), <1>2, <2>1, <2>2, <2>3 DEF PollGrpc
<1>3. ASSUME NEW d \in {0, ProbeTime}, Probe(d) PROVE Probing'
  <2>1. /\ pc = "probe" /\ pc' = "probe" /\ UNCHANGED <<adapter, endpoint, listed, asked, served>>
        /\ probed' = Append(probed, endpoint[Len(probed) + 1])
        /\ Len(probed) < Targets /\ spent + d < Limit /\ spent' = spent + d
    BY <1>3 DEF Probe, loopvars, world
  <2>2. Len(probed) \in Nat /\ Len(probed) + 1 \in 1 .. Targets
    BY <2>1, ConstantFacts DEF Probing
  <2>3. endpoint[Len(probed) + 1] \in Statuses
    BY <2>2 DEF Probing
  <2>4. /\ probed' \in Seq(Statuses) /\ Len(probed') = Len(probed) + 1
        /\ \A e \in 1 .. Len(probed) : probed'[e] = probed[e]
        /\ probed'[Len(probed) + 1] = endpoint[Len(probed) + 1]
    BY <2>1, <2>3 DEF Probing
  <2>5. ASSUME NEW e \in 1 .. Len(probed'), probed'[e] = "SERVING" PROVE e \in served
    <3>1. e \in 1 .. Len(probed) \/ e = Len(probed) + 1
      BY <2>2, <2>4
    <3> QED
      BY <2>1, <2>2, <2>4, <2>5, <3>1 DEF Probing
  <2>6. spent' \in 0 .. Limit
    BY <2>1, ConstantFacts DEF Probing
  <2> QED
    BY <2>1, <2>4, <2>5, <2>6 DEF Probing
<1>4. ASSUME NEW d, GrpcFails \/ ProbesTooSlow(d) PROVE Probing'
  <2>1. PICK t : GrpcDone(t, 1, RowsOfFailure)
    BY ZenonT(60), <1>4 DEF GrpcFails, ProbesTooSlow
  <2>2. Table'
    BY <2>1, NoRows DEF GrpcDone
  <2> QED
    BY <2>1, <2>2, GrpcReturns
<1>5. CASE ProbesDone
  <2>1. /\ Len(probed) = Targets /\ GrpcDone(0, 0, probed) /\ pc = "probe" /\ UNCHANGED <<asked, served>>
    BY <1>5 DEF ProbesDone
  <2>2. grpc_rows' = probed /\ code' = 0 /\ DOMAIN probed = 1 .. Targets
    BY <2>1 DEF GrpcDone, Probing
  <2>3. Table'
    BY <2>1, <2>2 DEF Probing, Table
  <2> QED
    BY <2>1, <2>3, GrpcReturns
<1>6. ASSUME NEW e \in 1 .. Targets, NEW status \in Statuses, EndpointChanges(e, status)
      PROVE  Probing'
  <2>1. /\ UNCHANGED <<probed, spent, grpc_rows, code, asked, adapter, pc, stage, todo>>
        /\ endpoint' = [endpoint EXCEPT ![e] = status]
        /\ listed' = listed \cup {e}
        /\ served \subseteq served'
        /\ pc = "probe" /\ status = "SERVING" => e \in served'
    BY <1>6 DEF EndpointChanges, Console, loopvars
  <2>2. /\ endpoint' \in [1 .. Targets -> Statuses]
        /\ listed' \subseteq 1 .. Targets /\ (adapter # "fake" => listed' = 1 .. Targets)
    BY <2>1 DEF Probing
  <2>3. Pending("grpc")' <=> Pending("grpc")
    BY <2>1 DEF Pending, InSeq
  <2>4. Table => Table'
    BY <2>1 DEF Table
  <2>5. pc = "probe" => \A f \in 1 .. Targets : endpoint'[f] = "SERVING" => f \in served'
    BY <2>1 DEF Probing
  <2> QED
    BY <2>1, <2>2, <2>3, <2>4, <2>5 DEF Probing
<1>7. CASE PollCatalog \/ PollStreams
  BY ZenonT(60), <1>1, <1>7 DEF PollCatalog, PollStreams, PollTooSlow, PollDone, At, world
<1>8. CASE PollCommand
  BY ZenonT(60), <1>1, <1>8, SelectedInRange DEF PollCommand, PollTooSlow, PollDone, At, world
<1>9. CASE LookForLog
  BY <1>1, <1>9 DEF LookForLog, Look, At, Others, world
<1>10. CASE \/ StatSize \/ StatTime \/ LookForTail \/ ReadTail \/ LogVanished \/ LookForChat \/ CreateChat
            \/ LookForNotes \/ ReadNotes \/ NotesVanished
  <2>1. pc \in LogPlaces /\ pc' # "probe" /\ UNCHANGED <<grpcvars, adapter, endpoint, listed>>
    BY ZenonT(60), <1>10 DEF StatSize, StatTime, LookForTail, ReadTail, LogVanished, LookForChat, CreateChat,
          LookForNotes, ReadNotes, NotesVanished, Look, PollDone, Others, world, LogPlaces
  <2>2. Head(todo) = "log" /\ pc # "probe"
    BY <2>1 DEF Control, LogPlaces
  <2> QED
    BY <1>1, <2>1, <2>2
<1>11. CASE PeriodicPoll \/ Draw \/ CheckEnds
  BY <1>1, <1>11 DEF PeriodicPoll, Draw, CheckEnds, Others, world
<1>12. CASE NoKey \/ Daemon
  BY ZenonT(60), <1>1, <1>12 DEF NoKey, Daemon, CtlAnswers, CtlWorks, CtlRefused, CtlTimesOut, Success, Verdict,
        NextScope, Others, loopvars, world
<1>13. ASSUME NEW name, NEW place, NEW polls, NEW message, Key(name, place, polls, message),
              place # "probe"
       PROVE  Probing'
  <2>1. todo = <<>>
    BY <1>13 DEF Key, Control
  <2> QED
    BY <1>1, <1>13, <2>1 DEF Key
<1>14. CASE Prompt
  <2>1. todo = <<>>
    BY <1>14 DEF Prompt, Control
  <2>2. pc = "prompt" /\ pc' = "poll" /\ UNCHANGED <<grpcvars, adapter, endpoint, listed>>
    BY <1>14 DEF Prompt, Others, world
  <2> QED
    BY <1>1, <2>1, <2>2
<1>15. CASE Operator
  BY ZenonT(60), <1>13, <1>14, <1>15 DEF Operator, KeyQuit, KeyEnter, KeyRefresh, KeyNote, KeySelect, KeyDaemon
<1>16. UNCHANGED <<grpcvars, adapter, endpoint, listed, loopvars>> => Probing'
  BY DEF Probing, Table, Pending, InSeq, grpcvars, loopvars
<1>17. ASSUME NEW s, \/ JobFinishes(s) \/ LogGrows \/ LogRotates \/ NotesRotate
                     \/ OtherLooks \/ OtherCreates \/ OtherNotes
       PROVE  Probing'
  BY ZenonT(60), <1>16, <1>17 DEF JobFinishes, LogGrows, LogRotates, NotesRotate, OtherLooks, OtherCreates,
        OtherNotes, FileEvent, Console, world
<1>19. CASE FakeFileMade
  <2>1. /\ UNCHANGED <<grpcvars, adapter, endpoint, loopvars>> /\ adapter = "fake"
        /\ listed' \subseteq 1 .. Targets
    BY <1>19 DEF FakeFileMade, Console
  <2> QED
    BY <2>1 DEF Probing, Table, Pending, InSeq, grpcvars, loopvars
<1>18. CASE UNCHANGED cvars
  BY <1>16, <1>18 DEF cvars, world
<1> QED
  BY <1>2, <1>3, <1>4, <1>5, <1>6, <1>7, <1>8, <1>9, <1>10, <1>11, <1>12, <1>15, <1>17, <1>18, <1>19
     DEF CNext, Loop, PollLog, World

-------------------------------------------------------------------------------
(* Messages and daemon actions *)

(* A message is set where the loop starts over, and drawn at the end of that turn. *)
LEMMA MessageStep == CInv /\ [CNext]_cvars => Message'
<1> SUFFICES ASSUME Control, Timers, Message, [CNext]_cvars PROVE Message'
  BY DEF CInv
<1>1. ASSUME UNCHANGED <<flashvars, stage, say>>, pc # "key" => pc' # "key" PROVE Message'
  BY <1>1 DEF Message, flashvars
<1>2. ASSUME UNCHANGED flashvars, pc = "key" \/ pc = "prompt", stage' = "key", say' \in BOOLEAN
      PROVE  Message'
  BY <1>2 DEF Message, flashvars, Control
<1>3. CASE PollCatalog \/ PollStreams
  BY ZenonT(60), <1>1, <1>3 DEF PollCatalog, PollStreams, PollTooSlow, PollDone, At
<1>4. CASE PollCommand
  BY ZenonT(60), <1>1, <1>4 DEF PollCommand, PollTooSlow, PollDone, At
<1>5. CASE PollGrpc
  BY ZenonT(60), <1>1, <1>5 DEF PollGrpc, GrpcDone, PollDone, Stay, At
<1>6. ASSUME NEW d, GrpcFails \/ ProbesDone \/ Probe(d) \/ ProbesTooSlow(d) PROVE Message'
  BY ZenonT(60), <1>1, <1>6 DEF GrpcFails, ProbesDone, Probe, ProbesTooSlow, GrpcDone, PollDone, At, loopvars
<1>7. CASE PollLog
  BY ZenonT(60), <1>1, <1>7 DEF PollLog, LookForLog, StatSize, StatTime, LookForTail, ReadTail, LogVanished,
        LookForChat, CreateChat, LookForNotes, ReadNotes, NotesVanished, Look, PollDone, Stay, Others, At
<1>8. CASE PeriodicPoll
  <2>1. ~unseen /\ say \in BOOLEAN /\ flash \in BOOLEAN
    BY <1>8 DEF PeriodicPoll, Message
  <2>2. flashLeft' \in Int /\ (say => flashLeft' >= 0)
    BY <1>8, ConsoleAssumption DEF PeriodicPoll, Timers
  <2>3. expired' \in BOOLEAN /\ (say => ~expired')
    <3>1. expired' = (flashLeft' < 0)
      BY <1>8 DEF PeriodicPoll
    <3>2. say => ~(flashLeft' < 0)
      BY <2>2
    <3>3. (flashLeft' < 0) \in BOOLEAN
      BY <2>2, SMT
    <3> QED
      BY <3>1, <3>2, <3>3, ZenonT(60)
  <2>4. /\ flash' = (flash \/ say) /\ unseen' = (unseen \/ say) /\ say' = FALSE /\ pc' = "poll"
        /\ say => stage' = "round"
    BY <1>8 DEF PeriodicPoll, Message
  <2> QED
    BY <2>1, <2>3, <2>4, ZenonT(60) DEF Message
<1>9. CASE Draw
  <2>1. /\ flash' = (flash /\ ~expired) /\ unseen' = (unseen /\ ~flash') /\ stage = "round"
        /\ UNCHANGED <<stage, say, expired>>
    BY <1>9 DEF Draw, MessageOver
  <2>2. unseen' = FALSE /\ flash' \in BOOLEAN
    BY <2>1, ZenonT(60) DEF Message
  <2> QED
    BY <2>1, <2>2 DEF Message
<1>10. CASE CheckEnds
  BY <1>1, <1>10 DEF CheckEnds, Others
<1>11. CASE NoKey
  BY <1>2, <1>11 DEF NoKey, Others, Message
<1>12. CASE Daemon
  BY ZenonT(60), <1>1, <1>12 DEF Daemon, CtlAnswers, CtlWorks, CtlRefused, CtlTimesOut, Success, Verdict,
        NextScope, loopvars
<1>13. ASSUME NEW name, NEW place, NEW polls, NEW message \in BOOLEAN,
              Key(name, place, polls, message)
       PROVE  Message'
  BY <1>2, <1>13 DEF Key
<1>14. CASE Prompt
  BY <1>2, <1>14 DEF Prompt, Others, Control
<1>15. CASE Operator
  <2>1. (command_catalog # <<>>) \in BOOLEAN /\ TRUE \in BOOLEAN /\ FALSE \in BOOLEAN
    OBVIOUS
  <2> QED
    BY ZenonT(60), <1>13, <1>14, <1>15, <2>1 DEF Operator, KeyQuit, KeyEnter, KeyRefresh, KeyNote, KeySelect, KeyDaemon
<1>16. CASE World
  BY ZenonT(60), <1>1, <1>16, WorldLeaves DEF Console, loopvars
<1>17. CASE UNCHANGED cvars
  BY <1>1, <1>17 DEF cvars, loopvars
<1> QED
  BY <1>3, <1>4, <1>5, <1>6, <1>7, <1>8, <1>9, <1>10, <1>11, <1>12, <1>15, <1>16, <1>17 DEF CNext, Loop

(* daemon_ctl.sh carries out an action in at most one scope, and its last step. *)
LEMMA UnitsStep == CInv /\ [CNext]_cvars => Units'
<1> SUFFICES ASSUME Control, Units, [CNext]_cvars PROVE Units'
  BY DEF CInv
<1>1. ASSUME UNCHANGED ctlvars, pc # "ctl" => pc' # "ctl" PROVE Units'
  BY ZenonT(60), <1>1 DEF Units, ctlvars, VerdictSound
<1>2. CASE PollCatalog \/ PollStreams
  BY ZenonT(60), <1>1, <1>2 DEF PollCatalog, PollStreams, PollTooSlow, PollDone, At
<1>3. CASE PollCommand
  BY ZenonT(60), <1>1, <1>3 DEF PollCommand, PollTooSlow, PollDone, At
<1>4. CASE PollGrpc
  BY ZenonT(60), <1>1, <1>4 DEF PollGrpc, GrpcDone, PollDone, Stay, At
<1>5. ASSUME NEW d, GrpcFails \/ ProbesDone \/ Probe(d) \/ ProbesTooSlow(d) PROVE Units'
  BY ZenonT(60), <1>1, <1>5 DEF GrpcFails, ProbesDone, Probe, ProbesTooSlow, GrpcDone, PollDone, At, loopvars
<1>6. CASE PollLog
  BY ZenonT(60), <1>1, <1>6 DEF PollLog, LookForLog, StatSize, StatTime, LookForTail, ReadTail, LogVanished,
        LookForChat, CreateChat, LookForNotes, ReadNotes, NotesVanished, Look, PollDone, Stay, Others, At
<1>7. CASE PeriodicPoll \/ Draw \/ CheckEnds \/ NoKey
  BY <1>1, <1>7 DEF PeriodicPoll, Draw, CheckEnds, NoKey, Others
<1>8. ASSUME NEW v \in {"ok", "timed out", "failed"}, pc' # "ctl", ctl' = [ctl EXCEPT !.verdict = v],
             UNCHANGED <<unit, job>>,
             effects' = effects, effects = {},
             ~(v = "ok" /\ ctl.action \in Changing)
      PROVE  Units'
  BY ZenonT(60), <1>8 DEF Units, VerdictSound
<1>9. CASE CtlAnswers
  <2>1. effects = {} /\ ctl.action \notin Changing
    BY ZenonT(60), <1>9 DEF CtlAnswers, Units, Changing, Asking
  <2>2. PICK v \in {"ok", "timed out"} : pc' = "poll" /\ ctl' = [ctl EXCEPT !.verdict = v]
    BY ZenonT(60), <1>9 DEF CtlAnswers, Verdict
  <2> QED
    BY ZenonT(60), <1>8, <1>9, <2>1, <2>2 DEF CtlAnswers
<1>10. CASE CtlWorks
  <2>1. /\ ctl.action \in Changing /\ ctl.scope \in Scopes /\ effects = {}
        /\ unit' = [unit EXCEPT ![ctl.scope] = After(ctl.action)]
        /\ job' = [job EXCEPT ![ctl.scope] = "none"]
        /\ effects' = {ctl.scope}
        /\ ctl' = [ctl EXCEPT !.verdict = "ok"]
        /\ pc' = "poll"
    BY ZenonT(60), <1>10 DEF CtlWorks, Success, Verdict, Units
  <2>2. After(ctl.action) \in {"up", "down"}
    BY DEF After
  <2>3. /\ ctl'.action = ctl.action /\ ctl'.scope = ctl.scope /\ ctl'.verdict = "ok"
        /\ ctl' \in [action : Changing \cup Asking \cup {"none"}, scope : Scopes,
                     verdict : {"none", "running", "ok", "failed", "timed out"}]
    BY ZenonT(60), <2>1 DEF Units
  <2>4. VerdictSound'
    BY ZenonT(60), <2>1, <2>3 DEF VerdictSound, Changing, Asking
  <2> QED
    BY ZenonT(60), <2>1, <2>2, <2>3, <2>4 DEF Units
<1>11. CASE CtlRefused
  <2>1. ctl.action \in Changing /\ effects = {} /\ ctl.verdict = "running" /\ pc = "ctl"
    BY ZenonT(60), <1>11 DEF CtlRefused, Units
  <2>2. /\ unit' \in [Scopes -> {"absent", "up", "down"}]
        /\ \A s \in Scopes : unit'[s] = "absent" => unit[s] = "absent"
    <3>1. CASE unit' = [unit EXCEPT ![ctl.scope] = "down"]
      BY ZenonT(60), <3>1 DEF Units
    <3>2. CASE unit' = unit
      BY ZenonT(60), <3>2 DEF Units
    <3> QED
      BY ZenonT(60), <1>11, <3>1, <3>2 DEF CtlRefused
  <2>3. UNCHANGED <<effects, job>> /\ (NextScope \/ Verdict("failed", 0))
    BY ZenonT(60), <1>11 DEF CtlRefused
  <2>4. CASE NextScope
    BY ZenonT(60), <2>1, <2>2, <2>3, <2>4 DEF NextScope, Units, VerdictSound, loopvars, Scopes
  <2>5. CASE Verdict("failed", 0)
    BY ZenonT(60), <2>1, <2>2, <2>3, <2>5 DEF Verdict, Units, VerdictSound
  <2> QED
    BY ZenonT(60), <2>3, <2>4, <2>5
<1>12. CASE CtlTimesOut
  <2>1. /\ ctl.action \in Changing /\ ctl.scope \in Scopes /\ effects = {} /\ effects' = effects
        /\ unit' = unit /\ unit[ctl.scope] # "absent"
        /\ job' = [job EXCEPT ![ctl.scope] = ctl.action]
        /\ ctl' = [ctl EXCEPT !.verdict = "timed out"]
        /\ pc' = "poll"
    BY ZenonT(60), <1>12 DEF CtlTimesOut, Verdict, Units
  <2> QED
    BY ZenonT(60), <2>1 DEF Units, VerdictSound
<1>13. ASSUME NEW name, NEW place, NEW polls, NEW message, Key(name, place, polls, message),
              place # "ctl", UNCHANGED ctlvars
       PROVE  Units'
  BY <1>1, <1>13 DEF Key
<1>14. ASSUME NEW action \in Changing \cup Asking, KeyDaemon(action) PROVE Units'
  BY ZenonT(60), <1>14 DEF KeyDaemon, Key, Units, VerdictSound, Scopes
<1>15. CASE Operator
  BY ZenonT(60), <1>1, <1>13, <1>14, <1>15 DEF Operator, KeyQuit, KeyEnter, KeyRefresh, KeyNote, KeySelect, Prompt,
        Others
<1>16. ASSUME NEW s \in Scopes, JobFinishes(s) PROVE Units'
  <2>1. /\ unit' = [unit EXCEPT ![s] = After(job[s])] /\ job' = [job EXCEPT ![s] = "none"]
        /\ UNCHANGED <<pc, ctl>>
    BY ZenonT(60), <1>16 DEF JobFinishes, Console, loopvars
  <2>2. After(job[s]) \in {"up", "down"}
    BY DEF After
  <2>3. /\ unit' \in [Scopes -> {"absent", "up", "down"}]
        /\ job' \in [Scopes -> Changing \cup {"none"}]
        /\ \A t \in Scopes : unit'[t] = "absent" => job'[t] = "none"
    BY ZenonT(60), <2>1, <2>2 DEF Units
  <2>4. CASE effects' = effects
    BY ZenonT(60), <2>1, <2>3, <2>4 DEF Units, VerdictSound
  <2>5. CASE /\ effects' = effects \cup {s}
             /\ ctl.verdict = "timed out" /\ ctl.action \in Changing /\ ctl.scope = s
    BY ZenonT(60), <2>1, <2>3, <2>5 DEF Units, VerdictSound, Changing, Asking
  <2> QED
    BY ZenonT(60), <1>16, <2>4, <2>5 DEF JobFinishes
<1>17. CASE \/ LogGrows \/ LogRotates \/ NotesRotate \/ OtherLooks \/ OtherCreates \/ OtherNotes
            \/ FakeFileMade \/ \E e, status : EndpointChanges(e, status)
  BY ZenonT(60), <1>1, <1>17 DEF LogGrows, LogRotates, NotesRotate, EndpointChanges, FakeFileMade, OtherLooks,
        OtherCreates, OtherNotes, FileEvent, Console, loopvars
<1>18. CASE UNCHANGED cvars
  BY <1>1, <1>18 DEF cvars, loopvars
<1> QED
  BY <1>2, <1>3, <1>4, <1>5, <1>6, <1>7, <1>9, <1>10, <1>11, <1>12, <1>15, <1>16, <1>17, <1>18
     DEF CNext, Loop, Daemon, World

-------------------------------------------------------------------------------
(* The invariant *)

(* At the start nothing has been polled. *)
LEMMA CInvInit == CInit => CInv
<1> SUFFICES ASSUME CInit PROVE CInv
  OBVIOUS
<1> USE DEF CInit
<1>1. scene \in Scenes
  OBVIOUS
<1>2. Control
  <2>1. <<"catalog">> \in Seq(Polls) /\ Distinct(<<"catalog">>)
    BY DEF Polls, Distinct
  <2>2. AllPolls \in Seq(Polls) /\ Distinct(AllPolls)
    BY PollNames DEF Distinct
  <2> QED
    BY ZenonT(60), <2>1, <2>2 DEF Control, Places, Stages, LogPlaces
<1>3. Timers
  BY ConstantFacts DEF Timers
<1>4. Catalog
  BY DEF Catalog
<1>5. LogCounted
  <2>1. log \in {-1, 0, 1}
    BY <1>1, SceneFacts
  <2>2. written = IF log >= 0 THEN log ELSE 0
    BY <2>1, MaxOfTwo
  <2>3. /\ log \in Int /\ log >= -1 /\ written \in Nat /\ log <= written /\ 0 <= written
        /\ 0 + log - 0 <= written /\ 0 <= 0 /\ 0 \in Nat
    BY <2>1, <2>2
  <2>4. removed \subseteq {"log", "notes"} /\ pc \notin {"size", "mtime", "open"}
    BY ZenonT(60)
  <2>5. growth = 0 /\ log_size = 0
    OBVIOUS
  <2> QED
    BY <2>3, <2>4, <2>5 DEF LogCounted, GrowthIsReal
<1>6. ASSUME NEW p \in Timed PROVE Pending(p)
  <2>1. stage = "init" \/ (stage = "check" /\ todo = <<"catalog", "grpc", "streams", "command", "log">>)
    BY PollNames
  <2>2. p \in {"grpc", "streams", "command", "log"}
    BY PollNames
  <2>3. stage = "check" => /\ Len(todo) = 5
                           /\ todo[2] = "grpc" /\ todo[3] = "streams"
                           /\ todo[4] = "command" /\ todo[5] = "log"
    BY <2>1
  <2>4. 2 \in 1 .. 5 /\ 3 \in 1 .. 5 /\ 4 \in 1 .. 5 /\ 5 \in 1 .. 5
    OBVIOUS
  <2> QED
    BY ZenonT(60), <2>1, <2>2, <2>3, <2>4 DEF Pending, InSeq
<1>7. Probing
  <2>1. Pending("grpc")
    BY <1>6, PollNames
  <2>2. adapter \in {"fake", "grpcurl", "fallback", "missing"}
    BY ZenonT(60), <1>1, SceneFacts
  <2>3. /\ endpoint \in [1 .. Targets -> Statuses] /\ listed \subseteq 1 .. Targets
        /\ adapter # "fake" => listed = 1 .. Targets
    BY DEF Statuses
  <2>4. probed \in Seq(Statuses) /\ spent \in 0 .. Limit /\ pc # "probe" /\ probed = <<>>
    BY ConstantFacts, EmptySeq
  <2> QED
    BY <2>1, <2>2, <2>3, <2>4, ZenonT(60) DEF Probing
<1>8. Message
  BY ZenonT(60) DEF Message
<1>9. Units
  BY <1>1, SceneFacts DEF Units, VerdictSound, Scopes, Changing, Asking
<1>10. Notes
  <2>1. Pending("log")
    BY ZenonT(60), <1>6, PollNames
  <2>2. chat \in {-1, 0, 1}
    BY <1>1, SceneFacts
  <2> QED
    BY <2>1, <2>2 DEF Notes
<1> QED
  BY ZenonT(60), <1>2, <1>3, <1>4, <1>5, <1>7, <1>8, <1>9, <1>10 DEF CInv

(* The invariant of the console holds in every behaviour. *)
THEOREM ConsoleInvariant == CSpec => []CInv
<1>1. CInv /\ [CNext]_cvars => CInv'
  BY ControlStep, TimersStep, CatalogStep, LogStep, ProbingStep, MessageStep, UnitsStep, NotesStep
     DEF CInv
<1> QED
  BY <1>1, CInvInit, PTL DEF CSpec

(* Type correctness of the console: the selection is one of the catalog,    *)
(* the timers are within their intervals, and it probes only in a poll      *)
(* (run_ui, periodic_poll, poll_grpc).                                      *)
THEOREM ConsoleTypes == CSpec => []CTypeOK
<1>1. CInv => CTypeOK
  <2> SUFFICES ASSUME CInv PROVE CTypeOK
    OBVIOUS
  <2>1. selected_command \in 0 .. Max({0, Len(command_catalog) - 1})
    <3>1. Len(command_catalog) \in Nat /\ selected_command \in Nat
      BY CatalogType DEF CInv, Control, Catalog
    <3>2. Max({0, Len(command_catalog) - 1})
             = IF 0 >= Len(command_catalog) - 1 THEN 0 ELSE Len(command_catalog) - 1
      BY <3>1, MaxOfTwo
    <3> QED
      BY <3>1, <3>2 DEF CInv, Catalog
  <2>2. {flash, expired, say, unseen} \subseteq BOOLEAN
    BY ZenonT(60) DEF CInv, Message
  <2>3. todo \in Seq(Range(AllPolls))
    BY PollNames DEF CInv, Control
  <2>4. pc \in {"poll", "probe", "size", "mtime", "tail", "open", "chat", "create", "notes",
                "read", "key", "prompt", "ctl", "end", "crashed"}
    BY DEF CInv, Control, Places, LogPlaces
  <2> QED
    BY ZenonT(60), <2>1, <2>2, <2>3, <2>4
       DEF CInv, CTypeOK, Control, Stages, Timers, Catalog, LogCounted, Probing, Units, Notes
<1> QED
  BY <1>1, ConsoleInvariant, PTL

(* No index is ever out of range, whatever becomes of the catalog: the      *)
(* console crashes only when the log, or the notes, are removed between a   *)
(* look that finds them and their use (poll_selected_command,               *)
(* poll_logs_and_chat, tail_lines).                                         *)
THEOREM ConsoleCrashes == CSpec => CrashOnlyByRemoval
<1>1. ASSUME CInv, [CNext]_cvars, pc' = "crashed", pc # "crashed"
      PROVE  \/ pc \in {"size", "mtime", "open"} /\ "log" \in removed
             \/ pc = "read" /\ "notes" \in removed
  <2>1. CASE LogVanished
    BY <1>1, <2>1 DEF CInv, LogCounted, LogVanished, Look
  <2>2. CASE NotesVanished
    BY <1>1, <2>2 DEF CInv, Notes, NotesVanished, Look
  <2>3. CASE PollLog /\ ~LogVanished /\ ~NotesVanished
    BY ZenonT(60), <1>1, <2>3 DEF PollLog, LookForLog, StatSize, StatTime, LookForTail, ReadTail, LookForChat,
          CreateChat, LookForNotes, ReadNotes, Look, PollDone
  <2>4. CASE PollCommand
    BY ZenonT(60), <1>1, <2>4, SelectedInRange DEF CInv, PollCommand, PollTooSlow, PollDone
  <2>5. CASE \/ PollCatalog \/ PollStreams \/ PollGrpc \/ GrpcFails \/ ProbesDone
             \/ \E d : Probe(d) \/ ProbesTooSlow(d)
    BY ZenonT(60), <1>1, <2>5 DEF PollCatalog, PollStreams, PollGrpc, GrpcFails, ProbesDone, Probe, ProbesTooSlow,
          GrpcDone, PollTooSlow, PollDone, loopvars
  <2>6. CASE PeriodicPoll \/ Draw \/ CheckEnds \/ NoKey \/ Daemon
    BY ZenonT(60), <1>1, <2>6 DEF PeriodicPoll, Draw, CheckEnds, NoKey, Daemon, CtlAnswers, CtlWorks, CtlRefused,
          CtlTimesOut, Success, Verdict, NextScope, loopvars
  <2>7. CASE Operator
    BY ZenonT(60), <1>1, <2>7 DEF Operator, KeyQuit, KeyEnter, KeyRefresh, KeyNote, KeySelect, KeyDaemon, Key,
          Prompt
  <2>8. CASE World \/ UNCHANGED cvars
    BY ZenonT(60), <1>1, <2>8, WorldLeaves DEF Console, loopvars, cvars
  <2> QED
    BY ZenonT(60), <1>1, <2>1, <2>2, <2>3, <2>4, <2>5, <2>6, <2>7, <2>8 DEF CNext, Loop
<1>2. CInv /\ [CNext]_cvars =>
         [pc' = "crashed" /\ pc # "crashed" =>
             \/ pc \in {"size", "mtime", "open"} /\ "log" \in removed
             \/ pc = "read" /\ "notes" \in removed]_cvars
  BY <1>1
<1> QED
  BY <1>2, ConsoleInvariant, PTL DEF CSpec, CrashOnlyByRemoval

(* What the console calls the growth of the log adds up to no more than was *)
(* written and to no less than the size it shows (poll_logs_and_chat).      *)
THEOREM ConsoleGrowth == CSpec => []GrowthIsReal
<1>1. CInv => GrowthIsReal
  BY DEF CInv, LogCounted
<1> QED
  BY <1>1, ConsoleInvariant, PTL

(* The table on the screen has exactly the endpoints that were listed when  *)
(* it was last polled, or is empty as that poll failed, and shows no        *)
(* endpoint as serving that did not serve during it, for any number of      *)
(* endpoints and any timeouts (poll_grpc).                                  *)
THEOREM ConsoleTable == CSpec => []TableHonest
<1>1. CInv => TableHonest
  <2> SUFFICES ASSUME CInv, OnScreen PROVE Table
    BY ZenonT(60) DEF TableHonest, Table
  <2>1. stage \in {"round", "key", "check"} /\ (stage = "check" => todo = <<>>) /\ pc # "probe"
    BY DEF CInv, Control, OnScreen
  <2>2. ~Pending("grpc")
    BY <2>1 DEF Pending, InSeq
  <2> QED
    BY <2>1, <2>2 DEF CInv, Probing
<1> QED
  BY <1>1, ConsoleInvariant, PTL

(* A message is drawn before the next key is read, however long the polls   *)
(* before the drawing take (flash_until in run_ui).                         *)
THEOREM ConsoleMessages == CSpec => []MessageSeen
<1>1. CInv => MessageSeen
  BY DEF CInv, Message, MessageSeen
<1> QED
  BY <1>1, ConsoleInvariant, PTL

(* An action reported as ok was carried out in one scope, one reported as   *)
(* failed in none (daemon_action, daemon_ctl.sh).                           *)
THEOREM ConsoleVerdicts == CSpec => []VerdictSound
<1>1. CInv => VerdictSound
  BY ZenonT(60) DEF CInv, Units
<1> QED
  BY <1>1, ConsoleInvariant, PTL

(* Apart from somebody else who empties or removes the file, notes are lost *)
(* only to a console that makes the file because it found none, and to one  *)
(* that runs only when it has just started or when the file has been        *)
(* removed since (write_text in poll_logs_and_chat).                        *)
THEOREM ConsoleNotes == CSpec => NotesOutliveStart
<1>1. ASSUME CInv, [CNext]_cvars, chat' < chat
      PROVE  \/ UNCHANGED <<pc, other>>
             \/ other = "missing" /\ other' = "up"
             \/ pc = "create" /\ (stage \in {"first", "check"} \/ "notes" \in removed)
  <2>1. chat \in Int /\ ~(chat < chat)
    BY <1>1 DEF CInv, Notes
  <2>2. ASSUME chat' = Max({chat, 0}) + 1 PROVE FALSE
    BY <1>1, <2>1, <2>2, MaxOfTwo
  <2>3. UNCHANGED chat => FALSE
    BY <1>1, <2>1
  <2>4. CASE CreateChat
    BY <1>1, <2>4 DEF CInv, Notes, CreateChat, Look
  <2>5. CASE OtherCreates
    BY <2>5 DEF OtherCreates
  <2>6. CASE NotesRotate
    BY <2>6 DEF NotesRotate, FileEvent, Console, loopvars
  <2>7. CASE PollLog /\ ~CreateChat
    BY ZenonT(60), <2>3, <2>7 DEF PollLog, LookForLog, StatSize, StatTime, LookForTail, ReadTail, LogVanished,
          LookForChat, LookForNotes, ReadNotes, NotesVanished, filevars
  <2>8. CASE Loop /\ ~PollLog
    BY ZenonT(60), <2>3, <2>8 DEF Loop, PollCatalog, PollCommand, PollStreams, PollGrpc, GrpcFails, ProbesDone,
          Probe, ProbesTooSlow, GrpcDone, PeriodicPoll, Draw, CheckEnds, NoKey, Daemon, CtlAnswers, CtlWorks,
          CtlRefused, CtlTimesOut, Success, Verdict, NextScope, filevars
  <2>9. CASE Operator
    BY ZenonT(60), <2>2, <2>3, <2>9 DEF Operator, KeyQuit, KeyEnter, KeyRefresh, KeyNote, KeySelect, KeyDaemon, Key,
          Prompt, filevars
  <2>10. CASE World /\ ~OtherCreates /\ ~NotesRotate
    BY ZenonT(60), <2>2, <2>3, <2>10 DEF World, JobFinishes, LogGrows, LogRotates, EndpointChanges, FakeFileMade,
          OtherLooks, OtherNotes, filevars
  <2>11. CASE UNCHANGED cvars
    BY <2>3, <2>11 DEF cvars, filevars
  <2> QED
    BY ZenonT(60), <1>1, <2>4, <2>5, <2>6, <2>7, <2>8, <2>9, <2>10, <2>11 DEF CNext
<1>2. CInv /\ [CNext]_cvars =>
         [chat' < chat =>
             \/ UNCHANGED <<pc, other>>
             \/ other = "missing" /\ other' = "up"
             \/ pc = "create" /\ (stage \in {"first", "check"} \/ "notes" \in removed)]_cvars
  BY <1>1
<1> QED
  BY <1>2, ConsoleInvariant, PTL DEF CSpec, NotesOutliveStart
===============================================================================
