----------------------------- MODULE HawkPipeline -----------------------------
(***************************************************************************)
(* From hawk's source to its user interface: the reader thread of          *)
(* crates/hawk/src/io.rs, the threads main.rs starts between the channels, *)
(* and, when a transform is selected, the awk process with the writer,     *)
(* reader and waiter threads of crates/hawk/src/awk.rs.                    *)
(*                                                                         *)
(*   reader -> rx_source -> (no transform) ------------------> rx_ui       *)
(*                       -> splitter -> errors --------------> rx_ui       *)
(*                                   -> raw -> awk -> frames -> rx_ui      *)
(*                                                 -> errs --> rx_ui       *)
(*                                                                         *)
(* A message is its kind and the ordinal of the input line it stems from.  *)
(* awk itself is external: it answers a line with at most one line, of its *)
(* own choosing, keeps its output in a buffer of its own, and may exit.    *)
(***************************************************************************)
EXTENDS Integers, Sequences, Functions

CONSTANTS
    Inputs,     \* kinds of input lines: "frame", "skip", "bad", "garbled"
    Outputs,    \* what awk may answer: the same, or "none"
    MaxRead,    \* bound: lines read
    PipeCap,    \* bound: lines an awk pipe holds
    BufCap      \* bound: lines awk buffers before it must write

ASSUME PipelineAssumption ==
    /\ Inputs \subseteq {"frame", "skip", "bad", "garbled"}
    /\ Outputs \subseteq {"frame", "skip", "bad", "garbled", "none"}
    /\ MaxRead \in Nat
    /\ {PipeCap, BufCap} \subseteq Nat \ {0}

VARIABLES
    cli,        \* options hawk is started with: strict, and whether a transform is set
    rpc,        \* the reader: "connect", "read", "done"
    read,       \* history: the kinds of the lines read
    source,     \* rx_source
    ui,         \* everything sent to rx_ui, in order
    raw,        \* rx_frames_raw
    wrpc,       \* the bridge's writer: "write", "done"
    feed,       \* awk's stdin pipe
    awk,        \* "run", "end" (its input is over), "ok", "failed"
    buf,        \* awk's own output buffer
    drain,      \* awk's stdout pipe
    opc,        \* the bridge's reader: "read", "done"
    frames,     \* rx_frames_out
    errs,       \* rx_err
    reaped,     \* the waiter has seen awk's status
    made,       \* history: the frames awk has answered with
    lost        \* history: a frame was thrown away for want of a writer

bridge == <<raw, wrpc, feed, awk, buf, drain, opc, frames, errs, reaped, made, lost>>
pvars == <<cli, rpc, read, source, ui, bridge>>

Msg(kind, n) == [kind |-> kind, n |-> n]
AwkError == Msg("awk", 0)
AwkGone == awk \in {"ok", "failed"}

(* AwkRunner::spawn: the process, with both pipes empty. main ends before   *)
(* there is an interface if the script is missing or awk cannot be started. *)
AwkSpawned ==
    /\ awk = "run"
    /\ feed = <<>>
    /\ buf = <<>>
    /\ drain = <<>>

PInit ==
    /\ cli \in [strict : BOOLEAN, transform : BOOLEAN]
    /\ rpc \in {"connect", "read"}
    /\ read = <<>>
    /\ source = <<>>
    /\ ui = <<>>
    /\ raw = <<>>
    /\ wrpc = "write"
    /\ AwkSpawned
    /\ opc = "read"
    /\ frames = <<>>
    /\ errs = <<>>
    /\ reaped = FALSE
    /\ made = <<>>
    /\ lost = FALSE

-------------------------------------------------------------------------------
(* The reader of stdin or of hawkd's socket. *)

Connected ==
    /\ rpc = "connect"
    /\ rpc' = "read"
    /\ UNCHANGED <<cli, read, source, ui, bridge>>

(* One IoError and no second try. *)
ConnectFails ==
    /\ rpc = "connect"
    /\ rpc' = "done"
    /\ source' = Append(source, Msg("io", 0))
    /\ UNCHANGED <<cli, read, ui, bridge>>

(* What the reader sends for the n-th line, if it is of kind x. *)
Answer(x, n) ==
    CASE x = "frame"   -> <<Msg("frame", n)>>
      [] x = "skip"    -> <<>>
      [] x = "bad"     -> <<Msg("parse", n)>>
      [] x = "garbled" -> <<Msg("io", n)>>

ReadLine(x) ==
    /\ rpc = "read"
    /\ Len(read) < MaxRead
    /\ read' = Append(read, x)
    /\ source' = source \o Answer(x, Len(read'))
    /\ rpc' = IF x = "garbled" \/ (x = "bad" /\ cli.strict) THEN "done" ELSE "read"
    /\ UNCHANGED <<cli, ui, bridge>>

ReadEof ==
    /\ rpc = "read"
    /\ rpc' = "done"
    /\ UNCHANGED <<cli, read, source, ui, bridge>>

Reader == Connected \/ ConnectFails \/ (\E x \in Inputs : ReadLine(x)) \/ ReadEof

-------------------------------------------------------------------------------
(* Threads of main *)

Forward ==
    /\ ~cli.transform
    /\ source # <<>>
    /\ ui' = Append(ui, Head(source))
    /\ source' = Tail(source)
    /\ UNCHANGED <<cli, rpc, read, bridge>>

(* The splitter: frames go to the bridge, errors straight to the interface. *)
(* The send to a writer that has given up fails, and the frame is gone.     *)
Split ==
    /\ cli.transform
    /\ source # <<>>
    /\ source' = Tail(source)
    /\ \/ /\ Head(source).kind = "frame"
          /\ raw' = IF wrpc = "write" THEN Append(raw, Head(source)) ELSE raw
          /\ lost' = (lost \/ wrpc # "write")
          /\ UNCHANGED ui
       \/ /\ Head(source).kind # "frame"
          /\ ui' = Append(ui, Head(source))
          /\ UNCHANGED <<raw, lost>>
    /\ UNCHANGED <<cli, rpc, read, wrpc, feed, awk, buf, drain, opc, frames, errs, reaped, made>>

ForwardFrame ==
    /\ frames # <<>>
    /\ ui' = Append(ui, Head(frames))
    /\ frames' = Tail(frames)
    /\ UNCHANGED <<cli, rpc, read, source, raw, wrpc, feed, awk, buf, drain, opc, errs, reaped, made, lost>>

ForwardError ==
    /\ errs # <<>>
    /\ ui' = Append(ui, Head(errs))
    /\ errs' = Tail(errs)
    /\ UNCHANGED <<cli, rpc, read, source, raw, wrpc, feed, awk, buf, drain, opc, frames, reaped, made, lost>>

-------------------------------------------------------------------------------
(* The bridge's writer *)

(* Mutant: the line is written again after a short write. *)
WriteLineAgain ==
    /\ wrpc = "write"
    /\ raw # <<>>
    /\ ~AwkGone
    /\ Len(feed) < PipeCap
    /\ feed' = Append(feed, Head(raw))
    /\ UNCHANGED <<cli, rpc, read, source, ui, raw, wrpc, awk, buf, drain, opc, frames, errs, reaped, made, lost>>

WriteLine ==
    /\ wrpc = "write"
    /\ raw # <<>>
    /\ ~AwkGone
    /\ Len(feed) < PipeCap
    /\ feed' = Append(feed, Head(raw))
    /\ raw' = Tail(raw)
    /\ UNCHANGED <<cli, rpc, read, source, ui, wrpc, awk, buf, drain, opc, frames, errs, reaped, made, lost>>

(* The pipe is broken: one error, and the frames still queued are dropped. *)
WriteFails ==
    /\ wrpc = "write"
    /\ raw # <<>>
    /\ AwkGone
    /\ errs' = Append(errs, AwkError)
    /\ wrpc' = "done"
    /\ raw' = <<>>
    /\ lost' = TRUE
    /\ UNCHANGED <<cli, rpc, read, source, ui, feed, awk, buf, drain, opc, frames, reaped, made>>

(* Mutant: awk's stdin is never closed. *)
WriterEndsKeepingPipe ==
    /\ wrpc = "write"
    /\ rpc = "done" /\ source = <<>> /\ raw = <<>>
    /\ AwkGone
    /\ wrpc' = "done"
    /\ UNCHANGED <<cli, rpc, read, source, ui, raw, feed, awk, buf, drain, opc, frames, errs, reaped, made, lost>>

(* The splitter is gone and so is the last frame: the writer closes stdin. *)
WriterEnds ==
    /\ wrpc = "write"
    /\ rpc = "done" /\ source = <<>> /\ raw = <<>>
    /\ wrpc' = "done"
    /\ UNCHANGED <<cli, rpc, read, source, ui, raw, feed, awk, buf, drain, opc, frames, errs, reaped, made, lost>>

-------------------------------------------------------------------------------
(* The bridge's reader and waiter *)

ReadOutput ==
    /\ opc = "read"
    /\ drain # <<>>
    /\ frames' = IF Head(drain).kind = "frame" THEN Append(frames, Head(drain)) ELSE frames
    /\ errs' = IF Head(drain).kind \in {"bad", "garbled"} THEN Append(errs, AwkError) ELSE errs
    /\ IF Head(drain).kind = "garbled"
       THEN opc' = "done" /\ drain' = <<>>
       ELSE drain' = Tail(drain) /\ UNCHANGED opc
    /\ UNCHANGED <<cli, rpc, read, source, ui, raw, wrpc, feed, awk, buf, reaped, made, lost>>

OutputEnds ==
    /\ opc = "read"
    /\ drain = <<>>
    /\ AwkGone
    /\ opc' = "done"
    /\ UNCHANGED <<cli, rpc, read, source, ui, raw, wrpc, feed, awk, buf, drain, frames, errs, reaped, made, lost>>

(* Mutant: the waiter does not look at the status. *)
ReapUnread ==
    /\ AwkGone
    /\ ~reaped
    /\ reaped' = TRUE
    /\ UNCHANGED <<cli, rpc, read, source, ui, raw, wrpc, feed, awk, buf, drain, opc, frames, errs, made, lost>>

Reap ==
    /\ AwkGone
    /\ ~reaped
    /\ reaped' = TRUE
    /\ errs' = IF awk = "failed" THEN Append(errs, AwkError) ELSE errs
    /\ UNCHANGED <<cli, rpc, read, source, ui, raw, wrpc, feed, awk, buf, drain, opc, frames, made, lost>>

-------------------------------------------------------------------------------
(* awk *)

(* Output o for the line of ordinal n goes to awk's buffer. *)
Emit(o, n) ==
    /\ buf' = IF o = "none" THEN buf ELSE Append(buf, Msg(o, n))
    /\ made' = IF o = "frame" THEN Append(made, Msg(o, n)) ELSE made

AwkLine(o) ==
    /\ cli.transform /\ awk = "run"
    /\ feed # <<>>
    /\ Len(buf) < BufCap
    /\ feed' = Tail(feed)
    /\ Emit(o, Head(feed).n)
    /\ UNCHANGED <<cli, rpc, read, source, ui, raw, wrpc, awk, drain, opc, frames, errs, reaped, lost>>

(* End of input: the END block may print too. *)
AwkInputEnds(o) ==
    /\ cli.transform /\ awk = "run"
    /\ feed = <<>> /\ wrpc = "done"
    /\ awk' = "end"
    /\ Emit(o, MaxRead + 1)
    /\ UNCHANGED <<cli, rpc, read, source, ui, raw, wrpc, feed, drain, opc, frames, errs, reaped, lost>>

(* awk writes a line out, at a moment of its own choosing; with its reader  *)
(* gone, the signal kills it.                                               *)
AwkFlush ==
    /\ ~AwkGone
    /\ buf # <<>>
    /\ \/ /\ opc = "read"
          /\ Len(drain) < PipeCap
          /\ drain' = Append(drain, Head(buf))
          /\ buf' = Tail(buf)
          /\ UNCHANGED <<awk, feed>>
       \/ /\ opc = "done"
          /\ awk' = "failed"
          /\ buf' = <<>>
          /\ feed' = <<>>
          /\ UNCHANGED drain
    /\ UNCHANGED <<cli, rpc, read, source, ui, raw, wrpc, opc, frames, errs, reaped, made, lost>>

AwkExit ==
    /\ awk = "end"
    /\ buf = <<>>
    /\ awk' \in {"ok", "failed"}
    /\ UNCHANGED <<cli, rpc, read, source, ui, raw, wrpc, feed, buf, drain, opc, frames, errs, reaped, made, lost>>

(* An exit statement, which flushes first, or a kill, which does not. *)
AwkDies ==
    /\ cli.transform
    /\ awk = "run"
    /\ \/ awk' = "ok" /\ buf = <<>>
       \/ awk' = "failed"
    /\ buf' = <<>>
    /\ feed' = <<>>
    /\ UNCHANGED <<cli, rpc, read, source, ui, raw, wrpc, drain, opc, frames, errs, reaped, made, lost>>

-------------------------------------------------------------------------------
Writer == WriteLine \/ WriteFails \/ (cli.transform /\ WriterEnds)
Output == ReadOutput \/ OutputEnds

(* awk works off its input and exits; it writes out only when it must. *)
AwkRuns ==
    \/ \E o \in Outputs : AwkLine(o) \/ AwkInputEnds(o)
    \/ (awk = "end" \/ Len(buf) = BufCap) /\ AwkFlush
    \/ AwkExit

PNext ==
    \/ Reader \/ Forward \/ Split \/ ForwardFrame \/ ForwardError
    \/ Writer \/ Output \/ Reap \/ AwkRuns \/ AwkFlush \/ AwkDies

PSpec == PInit /\ [][PNext]_pvars

(* Every thread runs, and so does awk; the source may fall silent.          *)
PFairSpec ==
    /\ PSpec
    /\ WF_pvars(Forward) /\ WF_pvars(Split)
    /\ WF_pvars(ForwardFrame) /\ WF_pvars(ForwardError)
    /\ WF_pvars(Writer) /\ WF_pvars(Output) /\ WF_pvars(Reap)
    /\ WF_pvars(AwkRuns)

-------------------------------------------------------------------------------
(* Properties *)

IsFrame(m) == m.kind = "frame"
IsOfLine(m) == m.n > 0      \* not the IoError of a failed connect
IsSourceError(m) == m.kind \in {"parse", "io"} /\ IsOfLine(m)
IsAwkError(m) == m.kind = "awk"

(* The messages the reader owes for what it has read. *)
Owed == UNION {Range(Answer(read[n], n)) : n \in DOMAIN read}

(* Those messages of a sequence that pass a test, and that they are in the  *)
(* order of the lines they stem from, no two from the same.                 *)
Sent(q, Test(_)) == {q[i] : i \in {j \in DOMAIN q : Test(q[j])}}
InOrder(q, Test(_)) ==
    \A i, j \in DOMAIN q : i < j /\ Test(q[i]) /\ Test(q[j]) => q[i].n < q[j].n

(* Type invariant of the reader, the splitter and the awk bridge: no channel *)
(* outlives the thread that serves it, no pipe exceeds its capacity.         *)
PTypeOK ==
    /\ cli \in [strict : BOOLEAN, transform : BOOLEAN]
    /\ rpc \in {"connect", "read", "done"}
    /\ read \in Seq(Inputs)
    /\ \A q \in {source, ui, raw, feed, frames, errs} :
          \A i \in DOMAIN q : q[i].kind \in {"frame", "parse", "io", "awk"}
    /\ Len(feed) <= PipeCap /\ Len(drain) <= PipeCap /\ Len(buf) <= BufCap + 1
    /\ wrpc \in {"write", "done"} /\ opc \in {"read", "done"}
    /\ awk \in {"run", "end", "ok", "failed"}
    /\ AwkGone => feed = <<>> /\ buf = <<>>
    /\ wrpc = "done" => raw = <<>>
    /\ {reaped, lost} \subseteq BOOLEAN

(* Without a transform the interface gets one message per line that is not  *)
(* blank or a comment, in the order of the lines, and nothing else.  With   *)
(* one, the reader's errors still arrive complete and in order whatever     *)
(* becomes of awk, as they by-pass the bridge, and the frames are those awk *)
(* made, in the order of the lines they answer, none twice and none made    *)
(* up, up to where an unreadable line or awk's death cut them off.          *)
ArrivesInOrder ==
    /\ ~cli.transform => /\ Sent(ui \o source, IsOfLine) = Owed
                         /\ InOrder(ui \o source, IsOfLine)
    /\ Sent(ui \o source, IsSourceError) = {m \in Owed : IsSourceError(m)}
    /\ InOrder(ui \o source, IsSourceError)
    /\ cli.transform =>
          LET shown == Sent(ui \o frames, IsFrame)
          IN  /\ InOrder(ui \o frames, IsFrame) /\ InOrder(made, IsFrame)
              /\ shown \subseteq Range(made)
              /\ \A m \in Range(made), f \in shown : m.n < f.n => m \in shown

(* A frame thrown away because the bridge no longer writes, and an awk that *)
(* fails, are eventually followed by an awk error in the interface.         *)
BridgeFailureShown ==
    (lost \/ awk = "failed") ~> (SelectSeq(ui, IsAwkError) # <<>>)

(* When the source has ended, the bridge winds up: writer, awk and reader   *)
(* never wait for each other in a circle, however small the pipes.  What    *)
(* awk made of the source is then in the interface in full, unless the      *)
(* interface also has an awk error.                                         *)
WindsUp ==
    (cli.transform /\ rpc = "done") ~>
        /\ reaped /\ opc = "done" /\ wrpc = "done"
        /\ SelectSeq(ui, IsFrame) = made \/ SelectSeq(ui, IsAwkError) # <<>>
===============================================================================
