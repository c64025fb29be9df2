----------------------------- MODULE HawkdSources -----------------------------
(***************************************************************************)
(* The line-reading producers of hawkd: the stdin source of                *)
(* crates/hawkd/src/main.rs and the handlers of the ingest socket of       *)
(* crates/hawkd/src/unix_ingest.rs.  Each is a thread that reads a line,   *)
(* parses it with HawkFrame::parse_tsv_line and sends at most one line to  *)
(* the spine.  Another thread may send between the parse and the send.     *)
(*                                                                         *)
(* An input line is what the handlers tell apart.  "frame" parses,         *)
(* "skip" is blank or a comment, "bad" does not parse, "garbled" is not    *)
(* UTF-8, so that read_line fails.  Of a bad line, cut says whether byte   *)
(* 240 exists and is inside a character.                                   *)
(***************************************************************************)
EXTENDS Integers, Sequences, Spine

CONSTANTS
    Stdin,      \* the stdin source: a singleton, or empty with --source none
    Ingest,     \* connections to the ingest socket
    Inputs,     \* the input lines considered: a subset of InputLine
    MaxRead     \* bound: lines a source reads

Sources == Stdin \cup Ingest

InputLine == [kind : {"frame", "skip", "bad", "garbled"},
              cut  : {"whole", "clean", "split"}]

ASSUME SourcesAssumption ==
    /\ Stdin \cap Ingest = {}
    /\ \A x \in Inputs : x \in InputLine
    /\ MaxRead \in Nat

VARIABLES
    strict, \* cli.strict: an option, chosen when hawkd starts
    pc,     \* "off" (not connected), "read", "send", "done", "panicked"
    pend,   \* pend[s]: the line s is about to send
    read,   \* history: read[s] is what s has read so far
    sent    \* sent[s]: number of lines s has sent

svars == <<strict, pc, pend, read, sent>>

SInit ==
    /\ spine = <<>>
    /\ strict \in BOOLEAN
    /\ pc = [s \in Sources |-> IF s \in Stdin THEN "read" ELSE "off"]
    /\ pend = [s \in Sources |-> <<>>]
    /\ read = [s \in Sources |-> <<>>]
    /\ sent = [s \in Sources |-> 0]

-------------------------------------------------------------------------------
(* What is put on the spine: the source, its ordinal among the source's     *)
(* lines, the ordinal of the input it answers, and whether it is a frame,   *)
(* an error frame or a comment.                                             *)
SpineLine == [src : Sources, n : 1 .. MaxRead, input : 1 .. MaxRead,
              kind : {"frame", "error", "notice"}]

Emitted(s, kind) ==
    [src |-> s, n |-> sent[s] + 1, input |-> Len(read[s]) + 1, kind |-> kind]

FrameLine(s) == Emitted(s, "frame")

ParseErrorFrame(s) == Emitted(s, "error")

StrictNotice(s) == Emitted(s, "notice")

Forward(s, l) ==
    /\ pend' = [pend EXCEPT ![s] = <<l>>]
    /\ pc' = [pc EXCEPT ![s] = "send"]

Skip == UNCHANGED <<pc, pend>>

Stop(s, how) ==
    /\ pc' = [pc EXCEPT ![s] = how]
    /\ UNCHANGED pend

(* spawn_stdin_source: a bad line is dropped without a word unless strict. *)
StdinLine(s, x) ==
    /\ s \in Stdin
    /\ \/ x.kind = "frame" /\ Forward(s, FrameLine(s))
       \/ x.kind = "skip" /\ Skip
       \/ x.kind = "bad" /\ strict /\ Forward(s, StrictNotice(s))
       \/ x.kind = "bad" /\ ~strict /\ Skip
       \/ x.kind = "garbled" /\ Stop(s, "done")

(* Mutant: a bad line is passed over, as by the stdin source. *)
IngestLineUnreported(s, x) ==
    /\ s \in Ingest
    /\ \/ x.kind = "frame" /\ Forward(s, FrameLine(s))
       \/ x.kind \in {"skip", "bad"} /\ Skip
       \/ x.kind = "garbled" /\ Stop(s, "done")

(* handle_ingest_client: a bad line becomes an error frame.  Building it    *)
(* panics when String::truncate(240) falls inside a character, and the      *)
(* panic ends the thread.                                                   *)
IngestLine(s, x) ==
    /\ s \in Ingest
    /\ \/ x.kind = "frame" /\ Forward(s, FrameLine(s))
       \/ x.kind = "skip" /\ Skip
       \/ x.kind = "bad" /\ x.cut # "split" /\ Forward(s, ParseErrorFrame(s))
       \/ x.kind = "bad" /\ x.cut = "split" /\ Stop(s, "panicked")
       \/ x.kind = "garbled" /\ Stop(s, "done")

ReadLine(s, x) ==
    /\ pc[s] = "read"
    /\ Len(read[s]) < MaxRead
    /\ StdinLine(s, x) \/ IngestLine(s, x)
    /\ read' = [read EXCEPT ![s] = Append(@, x)]
    /\ UNCHANGED <<spine, strict, sent>>

ReadEof(s) ==
    /\ pc[s] = "read"
    /\ Stop(s, "done")
    /\ UNCHANGED <<spine, strict, read, sent>>

(* The ingest accept thread starts a handler per connection. *)
IngestConnect(s) ==
    /\ s \in Ingest
    /\ pc[s] = "off"
    /\ pc' = [pc EXCEPT ![s] = "read"]
    /\ UNCHANGED <<spine, strict, pend, read, sent>>

(* Mutant: the break of a strict run is forgotten. *)
AfterSendForgiving(l) == "read"

(* Where the loop goes after a send: out of it, in a strict run, if the     *)
(* line answers a bad one.                                                  *)
AfterSend(l) == IF strict /\ l.kind # "frame" THEN "done" ELSE "read"

(* Mutant: two threads send through one slot and a line is lost. *)
SendLineLossy(s) ==
    /\ pc[s] = "send"
    /\ spine' = IF spine = <<>> THEN <<pend[s][1]>> ELSE [spine EXCEPT ![Len(spine)] = pend[s][1]]
    /\ sent' = [sent EXCEPT ![s] = @ + 1]
    /\ pend' = [pend EXCEPT ![s] = <<>>]
    /\ pc' = [pc EXCEPT ![s] = AfterSend(pend[s][1])]
    /\ UNCHANGED <<strict, read>>

SendLine(s) ==
    /\ pc[s] = "send"
    /\ spine' = Append(spine, pend[s][1])
    /\ sent' = [sent EXCEPT ![s] = @ + 1]
    /\ pend' = [pend EXCEPT ![s] = <<>>]
    /\ pc' = [pc EXCEPT ![s] = AfterSend(pend[s][1])]
    /\ UNCHANGED <<strict, read>>

SNext ==
    \E s \in Sources :
        \/ \E x \in Inputs : ReadLine(s, x)
        \/ ReadEof(s)
        \/ IngestConnect(s)
        \/ SendLine(s)

SSpec == SInit /\ [][SNext]_<<spine, svars>>

-------------------------------------------------------------------------------
(* Properties.  In this module nothing takes lines off the spine. *)

(* Type invariant of the source threads: one has a line in hand exactly      *)
(* between parsing and tx.send, and sends at most one line per line read.    *)
STypeOK ==
    /\ strict \in BOOLEAN
    /\ pc \in [Sources -> {"off", "read", "send", "done", "panicked"}]
    /\ pend \in [Sources -> Seq(SpineLine)]
    /\ read \in [Sources -> Seq(Inputs)]
    /\ sent \in [Sources -> Nat]
    /\ \A s \in Sources :
          /\ Len(pend[s]) = IF pc[s] = "send" THEN 1 ELSE 0
          /\ Len(read[s]) <= MaxRead
          /\ sent[s] + Len(pend[s]) <= Len(read[s])

(* Whether an input line of s is answered by a line on the spine. *)
Answered(s, x) ==
    \/ x.kind = "frame"
    \/ x.kind = "bad" /\ s \in Stdin /\ strict
    \/ x.kind = "bad" /\ s \in Ingest /\ x.cut # "split"

OnSpine(s, k) == \E i \in 1 .. Len(spine) : spine[i].src = s /\ spine[i].input = k

InHand(s, k) == pend[s] # <<>> /\ pend[s][1].input = k

OnceIfOwed(s, k) ==
    /\ OnSpine(s, k) \/ InHand(s, k) <=> k <= Len(read[s]) /\ Answered(s, read[s][k])
    /\ ~(OnSpine(s, k) /\ InHand(s, k))

(* Whatever the other threads send in between, the lines of one source are  *)
(* on the spine in the order it read them, no input is answered twice, and  *)
(* the frames and reportable bad lines it has read, and only those, are     *)
(* there, save the one it is about to send.                                 *)
ForwardsInOrder ==
    /\ \A i, j \in 1 .. Len(spine) :
          i < j /\ spine[i].src = spine[j].src => spine[i].input < spine[j].input
    /\ \A s \in Sources : \A k \in 1 .. MaxRead : OnceIfOwed(s, k)

(* In a strict run a source puts nothing on the spine after its first bad   *)
(* line: that line, or the report of it, is the last it handles.            *)
StrictStopsAtBadLine ==
    strict =>
        \A s \in Sources : \A k \in 1 .. Len(read[s]) - 1 : read[s][k].kind # "bad"

(* Without --strict a line that does not parse ends no source (main.rs:44,  *)
(* "If true, parse errors terminate stdin and ingest sources.").            *)
BadLineEndsNoSource ==
    [][\A s \in Sources :
          ~strict /\ read'[s] # read[s] /\ read'[s][Len(read'[s])].kind = "bad"
            => pc'[s] \notin {"done", "panicked"}]_<<spine, svars>>
===============================================================================
