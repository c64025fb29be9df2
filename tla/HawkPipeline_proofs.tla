------------------------- MODULE HawkPipeline_proofs --------------------------
(***************************************************************************)
(* Proofs about hawk's channels and pipes, for any inputs, awk outputs,    *)
(* number of lines and capacities: they keep to their types and bounds,    *)
(* and what was read arrives complete and in order.                        *)
(*                                                                         *)
(* For the order, the invariant follows each kind of message from thread   *)
(* to thread: what the interface has and what is still on its way are, put *)
(* together, what was read.                                                *)
(***************************************************************************)
EXTENDS HawkPipeline, SequenceTheorems, TLAPS

(* The provers a leaf is tried with, in turn, where it names none. *)
USE SMTT(10), ZenonT(20), SMTT(30), SMTT(40)

Message == [kind : {"frame", "parse", "io", "awk"}, n : Nat]
AwkOutput == [kind : {"frame", "skip", "bad", "garbled", "none"}, n : Nat]

(* Threads, awk and their options. *)
Threads ==
    /\ cli \in [strict : BOOLEAN, transform : BOOLEAN]
    /\ rpc \in {"connect", "read", "done"}
    /\ read \in Seq(Inputs)
    /\ wrpc \in {"write", "done"} /\ opc \in {"read", "done"}
    /\ awk \in {"run", "end", "ok", "failed"}
    /\ reaped \in BOOLEAN /\ lost \in BOOLEAN

(* What the channels and pipes hold. *)
Contents ==
    /\ source \in Seq(Message) /\ ui \in Seq(Message)
    /\ raw \in Seq(Message) /\ feed \in Seq(Message)
    /\ frames \in Seq(Message) /\ errs \in Seq(Message)
    /\ drain \in Seq(AwkOutput) /\ buf \in Seq(AwkOutput)

(* awk buffers BufCap lines while it runs; its END block may add one more.  *)
Bounds ==
    /\ Len(feed) <= PipeCap /\ Len(drain) <= PipeCap /\ Len(buf) <= BufCap + 1
    /\ awk = "run" => Len(buf) <= BufCap

(* Nothing waits for a thread, or for an awk, that has ended. *)
Orphans ==
    /\ AwkGone => feed = <<>> /\ buf = <<>>
    /\ awk = "end" => feed = <<>> /\ wrpc = "done"
    /\ wrpc = "done" => raw = <<>>

PInv == Threads /\ Contents /\ Bounds /\ Orphans

(* What the reader sends for a line is messages. *)
LEMMA AnswerType ==
    ASSUME NEW x \in Inputs, NEW n \in Nat
    PROVE  Answer(x, n) \in Seq(Message)
<1>1. x \in {"frame", "skip", "bad", "garbled"}
  BY PipelineAssumption
<1>2. Msg("frame", n) \in Message /\ Msg("parse", n) \in Message /\ Msg("io", n) \in Message
  BY DEF Msg, Message
<1> HIDE DEF Msg, Message
<1>3. CASE x = "frame"
  BY <1>2, <1>3 DEF Answer
<1>4. CASE x = "skip"
  BY <1>4 DEF Answer
<1>5. CASE x = "bad"
  BY <1>2, <1>5 DEF Answer
<1>6. CASE x = "garbled"
  BY <1>2, <1>6 DEF Answer
<1> QED
  BY <1>1, <1>3, <1>4, <1>5, <1>6

(* The error the bridge reports is a message. *)
LEMMA AwkErrorType == AwkError \in Message
BY DEF AwkError, Msg, Message

(* The kinds of the messages in a channel. *)
LEMMA KindsOfMessages ==
    ASSUME NEW q \in Seq(Message), NEW i \in DOMAIN q
    PROVE  q[i].kind \in {"frame", "parse", "io", "awk"}
<1>1. q[i] \in Message
  BY ElementOfSeq
<1> QED
  BY <1>1 DEF Message

(* The invariant contains the type invariant. *)
LEMMA PInvGivesTypes == PInv => PTypeOK
<1> SUFFICES ASSUME PInv PROVE PTypeOK
  OBVIOUS
<1>1. \A q \in {source, ui, raw, feed, frames, errs} :
         \A i \in DOMAIN q : q[i].kind \in {"frame", "parse", "io", "awk"}
  BY KindsOfMessages DEF PInv, Contents
<1> QED
  BY <1>1 DEF PTypeOK, PInv, Threads, Bounds, Orphans

(* The pipeline starts with the invariant. *)
LEMMA PInvInit == PInit => PInv
<1> SUFFICES ASSUME PInit PROVE PInv
  OBVIOUS
<1>1. Contents /\ Orphans
  BY DEF PInit, AwkSpawned, Contents, Orphans, AwkGone
<1>3. Threads
  <2>1. read \in Seq(Inputs)
    BY DEF PInit
  <2>2. reaped \in BOOLEAN /\ lost \in BOOLEAN /\ cli \in [strict : BOOLEAN, transform : BOOLEAN]
    BY Zenon DEF PInit
  <2>3. /\ rpc \in {"connect", "read", "done"} /\ wrpc = "write" /\ opc = "read" /\ awk = "run"
    BY DEF PInit, AwkSpawned
  <2> QED
    BY <2>1, <2>2, <2>3, Zenon DEF Threads
<1>2. Bounds
  BY PipelineAssumption DEF PInit, AwkSpawned, Bounds
<1> QED
  BY <1>1, <1>2, <1>3 DEF PInv

(* A step that touches neither awk nor what is in its pipes and buffer. *)
LEMMA BoundsStay ==
    ASSUME PInv, UNCHANGED <<awk, feed, drain, buf>>
    PROVE  Bounds'
BY DEF PInv, Bounds

(* The reader and the threads of main. *)
LEMMA MainKeepsInv ==
    ASSUME PInv, Reader \/ Forward \/ Split \/ ForwardFrame \/ ForwardError
    PROVE  PInv'
<1> USE DEF PInv
<1>1. CASE Connected \/ ReadEof
  BY <1>1, BoundsStay DEF Connected, ReadEof, bridge, Threads, Contents, Orphans, AwkGone
<1>2. CASE ConnectFails
  <2>1. Msg("io", 0) \in Message
    BY DEF Msg, Message
  <2> QED
    BY <1>2, <2>1, BoundsStay DEF ConnectFails, bridge, Threads, Contents, Orphans, AwkGone
<1>3. ASSUME NEW x \in Inputs, ReadLine(x)
      PROVE  PInv'
  <2>1. read' \in Seq(Inputs) /\ Len(read') \in Nat
    BY <1>3 DEF ReadLine, Threads
  <2>2. source' \in Seq(Message)
    BY <1>3, <2>1, AnswerType DEF ReadLine, Contents
  <2> QED
    BY <1>3, <2>1, <2>2, BoundsStay
       DEF ReadLine, bridge, Threads, Contents, Orphans, AwkGone
<1>4. CASE Forward
  BY <1>4, BoundsStay DEF Forward, bridge, Threads, Contents, Orphans, AwkGone
<1>5. CASE Split
  <2>1. raw' \in Seq(Message) /\ ui' \in Seq(Message) /\ source' \in Seq(Message)
    <3>1. /\ source # <<>> /\ source' = Tail(source)
          /\ raw' = raw \/ raw' = Append(raw, Head(source))
          /\ ui' = ui \/ ui' = Append(ui, Head(source))
      BY <1>5, Zenon DEF Split
    <3>2. source \in Seq(Message) /\ raw \in Seq(Message) /\ ui \in Seq(Message)
      BY DEF Contents
    <3>3. Head(source) \in Message /\ source' \in Seq(Message)
      BY <3>1, <3>2
    <3>4. Append(raw, Head(source)) \in Seq(Message) /\ Append(ui, Head(source)) \in Seq(Message)
      BY <3>2, <3>3
    <3> QED
      BY <3>1, <3>2, <3>3, <3>4, ZenonT(60)
  <2>2. lost' \in BOOLEAN
    <3>1. lost' = lost \/ lost' = (lost \/ wrpc # "write")
      BY <1>5, Zenon DEF Split
    <3>2. lost \in BOOLEAN
      BY DEF Threads
    <3>3. CASE lost' = lost
      BY <3>2, <3>3
    <3>4. CASE lost' = (lost \/ wrpc # "write")
      BY <3>4
    <3> QED
      BY <3>1, <3>3, <3>4
  <2>3. wrpc' = "done" => raw' = <<>>
    BY <1>5 DEF Split, Orphans
  <2> QED
    BY <1>5, <2>1, <2>2, <2>3, BoundsStay DEF Split, Threads, Contents, Orphans, AwkGone
<1>6. CASE ForwardFrame
  BY <1>6, BoundsStay DEF ForwardFrame, Threads, Contents, Orphans, AwkGone
<1>7. CASE ForwardError
  BY <1>7, BoundsStay DEF ForwardError, Threads, Contents, Orphans, AwkGone
<1> QED
  BY <1>1, <1>2, <1>3, <1>4, <1>5, <1>6, <1>7 DEF Reader

(* Writer, reader and waiter of the bridge. *)
LEMMA BridgeKeepsInv ==
    ASSUME PInv, Writer \/ Output \/ Reap
    PROVE  PInv'
<1> USE DEF PInv
<1>1. CASE WriteLine
  <2>1. /\ feed' \in Seq(Message) /\ Len(feed') = Len(feed) + 1
        /\ raw' \in Seq(Message) /\ ~AwkGone
    BY <1>1 DEF WriteLine, Contents
  <2>2. Bounds'
    <3>1. Len(feed) \in Nat /\ PipeCap \in Nat /\ Len(feed) < PipeCap
      BY <1>1, PipelineAssumption DEF WriteLine, Contents
    <3> QED
      BY <1>1, <2>1, <3>1 DEF WriteLine, Bounds
  <2> QED
    BY <1>1, <2>1, <2>2 DEF WriteLine, Threads, Contents, Orphans, AwkGone
<1>2. CASE WriteFails
  BY <1>2, BoundsStay, AwkErrorType DEF WriteFails, Threads, Contents, Orphans, AwkGone
<1>3. CASE WriterEnds
  BY <1>3, BoundsStay DEF WriterEnds, Threads, Contents, Orphans, AwkGone
<1>4. CASE ReadOutput
  <2>1. drain # <<>> /\ drain \in Seq(AwkOutput) /\ Head(drain) \in AwkOutput
    BY <1>4 DEF ReadOutput, Contents
  <2>2. /\ drain' \in Seq(AwkOutput)
        /\ Len(drain') <= Len(drain) /\ Len(drain) \in Nat /\ Len(drain') \in Nat
    <3>1. drain' = <<>> \/ drain' = Tail(drain)
      BY <1>4 DEF ReadOutput
    <3> HIDE DEF AwkOutput
    <3>2. CASE drain' = <<>>
      BY <2>1, <3>2
    <3>3. CASE drain' = Tail(drain)
      BY <2>1, <3>3
    <3> QED
      BY <3>1, <3>2, <3>3
  <2>3. Bounds'
    <3>1. Len(drain') <= PipeCap
      BY <2>2, PipelineAssumption DEF Bounds
    <3> QED
      BY <1>4, <3>1 DEF ReadOutput, Bounds
  <2>4. Head(drain).kind = "frame" => Head(drain) \in Message
    BY <2>1 DEF AwkOutput, Message
  <2>5. frames' \in Seq(Message)
    BY <1>4, <2>4 DEF ReadOutput, Contents
  <2>6. errs' \in Seq(Message)
    BY <1>4, AwkErrorType DEF ReadOutput, Contents
  <2>7. opc' \in {"read", "done"}
    BY <1>4 DEF ReadOutput, Threads
  <2> QED
    BY <1>4, <2>2, <2>3, <2>5, <2>6, <2>7 DEF ReadOutput, Threads, Contents, Orphans, AwkGone
<1>5. CASE OutputEnds
  BY <1>5, BoundsStay DEF OutputEnds, Threads, Contents, Orphans, AwkGone
<1>6. CASE Reap
  BY <1>6, BoundsStay, AwkErrorType DEF Reap, Threads, Contents, Orphans, AwkGone
<1> QED
  BY <1>1, <1>2, <1>3, <1>4, <1>5, <1>6 DEF Writer, Output

(* Output for a line goes to the buffer, or nothing does. *)
LEMMA EmitTypes ==
    ASSUME PInv, NEW o \in Outputs, NEW n \in Nat, Emit(o, n)
    PROVE  /\ buf' \in Seq(AwkOutput) /\ Len(buf) \in Nat /\ Len(buf') \in Nat
           /\ Len(buf') <= Len(buf) + 1
<1>1. o \in {"frame", "skip", "bad", "garbled", "none"}
  BY PipelineAssumption
<1>2. Msg(o, n) \in AwkOutput
  BY <1>1 DEF Msg, AwkOutput
<1>3. buf' = buf \/ buf' = Append(buf, Msg(o, n))
  BY DEF Emit
<1>4. buf \in Seq(AwkOutput)
  BY DEF PInv, Contents
<1> HIDE DEF Msg, AwkOutput
<1> QED
  BY <1>2, <1>3, <1>4

(* The steps of awk keep the invariant. *)
LEMMA AwkKeepsInv ==
    ASSUME PInv, AwkRuns \/ AwkFlush \/ AwkDies
    PROVE  PInv'
<1> USE DEF PInv
<1>0. PipeCap \in Nat /\ BufCap \in Nat /\ MaxRead \in Nat
  BY PipelineAssumption
<1>1. ASSUME NEW o \in Outputs, AwkLine(o)
      PROVE  PInv'
  <2>1. /\ feed \in Seq(Message) /\ feed # <<>> /\ Head(feed).n \in Nat
        /\ feed' \in Seq(Message) /\ Len(feed') = Len(feed) - 1 /\ Len(feed) \in Nat
    <3>1. feed \in Seq(Message) /\ feed # <<>> /\ feed' = Tail(feed)
      BY <1>1 DEF AwkLine, Contents
    <3>2. Head(feed) \in Message
      BY <3>1
    <3>3. Head(feed).n \in Nat
      BY <3>2 DEF Message
    <3> QED
      BY <3>1, <3>3
  <2>2. /\ buf' \in Seq(AwkOutput) /\ Len(buf) \in Nat /\ Len(buf') \in Nat
        /\ Len(buf') <= Len(buf) + 1
    BY <1>1, <2>1, EmitTypes DEF AwkLine
  <2>3. Len(buf) < BufCap /\ awk = "run" /\ awk' = awk /\ drain' = drain
    BY <1>1 DEF AwkLine
  <2>4. Len(feed') <= PipeCap
    BY <1>0, <2>1 DEF Bounds
  <2>5. Len(buf') <= BufCap /\ Len(buf') <= BufCap + 1
    BY <1>0, <2>2, <2>3
  <2>6. Bounds'
    BY <2>3, <2>4, <2>5 DEF Bounds
  <2> QED
    BY <1>1, <2>1, <2>2, <2>3, <2>6 DEF AwkLine, Threads, Contents, Orphans, AwkGone
<1>2. ASSUME NEW o \in Outputs, AwkInputEnds(o)
      PROVE  PInv'
  <2>1. MaxRead + 1 \in Nat
    BY <1>0
  <2>2. /\ buf' \in Seq(AwkOutput) /\ Len(buf) \in Nat /\ Len(buf') \in Nat
        /\ Len(buf') <= Len(buf) + 1
    BY <1>2, <2>1, EmitTypes DEF AwkInputEnds
  <2>3. Len(buf) <= BufCap /\ awk' = "end" /\ drain' = drain /\ feed' = feed
    BY <1>2 DEF AwkInputEnds, Bounds
  <2>4. Len(buf') <= BufCap + 1
    BY <1>0, <2>2, <2>3
  <2>5. Bounds'
    BY <2>3, <2>4 DEF Bounds
  <2> QED
    BY <1>2, <2>2, <2>3, <2>5 DEF AwkInputEnds, Threads, Contents, Orphans, AwkGone
<1>3. CASE AwkFlush
  <2>1. CASE opc = "read" /\ Len(drain) < PipeCap /\ drain' = Append(drain, Head(buf))
             /\ buf' = Tail(buf) /\ UNCHANGED <<awk, feed>>
    <3>1. buf # <<>> /\ buf \in Seq(AwkOutput) /\ drain \in Seq(AwkOutput) /\ ~AwkGone
      BY <1>3 DEF AwkFlush, Contents
    <3>2. /\ buf' \in Seq(AwkOutput) /\ drain' \in Seq(AwkOutput)
          /\ Len(buf) \in Nat /\ Len(drain) \in Nat
          /\ Len(buf') = Len(buf) - 1 /\ Len(drain') = Len(drain) + 1
      BY <2>1, <3>1
    <3>3. Len(drain') <= PipeCap
      BY <1>0, <2>1, <3>2
    <3>4. Len(buf') <= BufCap + 1 /\ (Len(buf) <= BufCap => Len(buf') <= BufCap)
      BY <1>0, <3>2 DEF Bounds
    <3>5. Bounds'
      BY <2>1, <3>3, <3>4 DEF Bounds
    <3> QED
      BY <1>3, <2>1, <3>1, <3>2, <3>5 DEF AwkFlush, Threads, Contents, Orphans, AwkGone
  <2>2. CASE awk' = "failed" /\ buf' = <<>> /\ feed' = <<>> /\ UNCHANGED drain
    <3>1. Bounds'
      BY <1>0, <2>2 DEF Bounds
    <3> QED
      BY <1>3, <2>2, <3>1 DEF AwkFlush, Threads, Contents, Orphans, AwkGone
  <2> QED
    BY <1>3, <2>1, <2>2 DEF AwkFlush
<1>4. CASE AwkExit
  <2>1. /\ buf' = <<>> /\ feed' = feed /\ drain' = drain /\ awk' \in {"ok", "failed"}
    BY <1>4 DEF AwkExit
  <2>2. Bounds'
    BY <1>0, <2>1 DEF Bounds
  <2>3. feed = <<>>
    BY <1>4 DEF AwkExit, Orphans
  <2> QED
    BY <1>4, <2>1, <2>2, <2>3 DEF AwkExit, Threads, Contents, Orphans, AwkGone
<1>5. CASE AwkDies
  <2>1. /\ buf' = <<>> /\ feed' = <<>> /\ drain' = drain /\ awk' \in {"ok", "failed"}
    BY <1>5 DEF AwkDies
  <2>2. Bounds'
    BY <1>0, <2>1 DEF Bounds
  <2> QED
    BY <1>5, <2>1, <2>2 DEF AwkDies, Threads, Contents, Orphans, AwkGone
<1> QED
  BY <1>1, <1>2, <1>3, <1>4, <1>5 DEF AwkRuns

(* Every step of the pipeline keeps the invariant. *)
LEMMA PInvStep == PInv /\ [PNext]_pvars => PInv'
<1> SUFFICES ASSUME PInv, [PNext]_pvars PROVE PInv'
  OBVIOUS
<1>1. CASE Reader \/ Forward \/ Split \/ ForwardFrame \/ ForwardError
  BY <1>1, MainKeepsInv
<1>2. CASE Writer \/ Output \/ Reap
  BY <1>2, BridgeKeepsInv
<1>3. CASE AwkRuns \/ AwkFlush \/ AwkDies
  BY <1>3, AwkKeepsInv
<1>4. CASE UNCHANGED pvars
  BY <1>4, BoundsStay DEF pvars, bridge, PInv, Threads, Contents, Orphans, AwkGone
<1> QED
  BY <1>1, <1>2, <1>3, <1>4 DEF PNext

(* For any lines, outputs and capacities: no channel of main.rs and awk.rs    *)
(* outlives the thread that serves it, and awk's pipes and its buffer keep    *)
(* to their size, whenever awk or a thread ends.                              *)
THEOREM PipelineTypes == PSpec => []PTypeOK
BY PInvInit, PInvStep, PInvGivesTypes, PTL DEF PSpec

-------------------------------------------------------------------------------
(* The order of arrival *)

FrameMsgs == {m \in Message : m.kind = "frame"}
LineMsgs == {m \in Message : m.n > 0}
ErrorMsgs == {m \in Message : m.kind \in {"parse", "io"} /\ m.n > 0}

(* The messages of a sequence that are in S are in the order of their       *)
(* lines, and all of S are of lines before those of T.                      *)
OrderedOn(q, S) ==
    \A i, j \in DOMAIN q : i < j /\ q[i] \in S /\ q[j] \in S => q[i].n < q[j].n
Below(S, T) == \A a \in S, b \in T : a.n < b.n

(* What the bridge hands back, and that there is nothing without it. *)
Sorts ==
    /\ frames \in Seq(FrameMsgs) /\ made \in Seq(FrameMsgs)
    /\ errs \in Seq({AwkError})
    /\ ~cli.transform => frames = <<>> /\ drain = <<>> /\ buf = <<>>

(* The reader sends what it owes, in order. *)
Reading ==
    /\ Len(read) <= MaxRead
    /\ OrderedOn(source, LineMsgs)
    /\ Range(source) \subseteq Owed \cup {Msg("io", 0)}

(* What is owed of S is in the interface or on its way, in order. *)
Passed(S) ==
    /\ OrderedOn(ui, S)
    /\ Below(Range(ui) \cap S, Range(source) \cap S)
    /\ (Range(ui) \cup Range(source)) \cap S = Owed \cap S

(* The frames on their way to awk. *)
Ahead == Range(feed) \cup Range(raw) \cup (Range(source) \cap FrameMsgs)

Supply ==
    /\ OrderedOn(raw, Message) /\ OrderedOn(feed, Message)
    /\ Below(Range(feed), Range(raw))
    /\ Below(Range(feed) \cup Range(raw), Range(source) \cap FrameMsgs)
    /\ Range(feed) \cup Range(raw) \subseteq Owed

(* What awk has printed is of lines before those it has yet to read. *)
Produced == Range(drain) \cup Range(buf) \cup Range(made)

AwkSide ==
    /\ OrderedOn(made, FrameMsgs)
    /\ OrderedOn(drain, AwkOutput) /\ OrderedOn(buf, AwkOutput)
    /\ Below(Range(drain), Range(buf))
    /\ (Range(drain) \cup Range(buf)) \cap FrameMsgs \subseteq Range(made)
    /\ awk = "run" => Below(Produced, Ahead) /\ \A m \in Produced : m.n <= Len(read)

(* The frames the bridge has brought back; what awk made and is not among   *)
(* them is still coming, or was cut off behind all that comes.              *)
Shown == (Range(ui) \cup Range(frames)) \cap FrameMsgs

UiSide ==
    cli.transform =>
        /\ OrderedOn(frames, FrameMsgs) /\ OrderedOn(ui, FrameMsgs)
        /\ Below(Range(ui) \cap FrameMsgs, Range(frames))
        /\ Below(Shown, Range(drain) \cup Range(buf))
        /\ Shown \subseteq Range(made)
        /\ \A m \in Range(made) : m \in Shown \cup Range(drain) \/ Below(Shown \cup Range(drain), {m})
        /\ opc = "read" /\ ~AwkGone => Range(made) \subseteq Shown \cup Range(drain) \cup Range(buf)

OInv ==
    /\ Sorts /\ Reading
    /\ Passed(ErrorMsgs)
    /\ ~cli.transform => Passed(LineMsgs)
    /\ Supply /\ AwkSide /\ UiSide

(* What is in a sequence after an append, before its head is taken, and in  *)
(* two sequences joined.                                                    *)
LEMMA SetOfAppend ==
    ASSUME NEW U, NEW q \in Seq(U), NEW x \in U
    PROVE  Range(Append(q, x)) = Range(q) \cup {x}
<1>1. /\ DOMAIN Append(q, x) = 1 .. Len(q) + 1 /\ DOMAIN q = 1 .. Len(q) /\ Len(q) \in Nat
      /\ \A i \in 1 .. Len(q) : Append(q, x)[i] = q[i]
      /\ Append(q, x)[Len(q) + 1] = x
  OBVIOUS
<1>2. \A i \in 1 .. Len(q) + 1 : i \in 1 .. Len(q) \/ i = Len(q) + 1
  BY <1>1
<1>3. 1 .. Len(q) \subseteq 1 .. Len(q) + 1 /\ Len(q) + 1 \in 1 .. Len(q) + 1
  BY <1>1
<1> QED
  BY <1>1, <1>2, <1>3 DEF Range

(* A sequence is its head and the rest. *)
LEMMA SetOfTail ==
    ASSUME NEW U, NEW q \in Seq(U), q # <<>>
    PROVE  /\ Head(q) \in U /\ Tail(q) \in Seq(U)
           /\ Range(q) = {Head(q)} \cup Range(Tail(q))
<1>1. /\ Head(q) \in U /\ Tail(q) \in Seq(U) /\ Head(q) = q[1]
      /\ Len(q) \in Nat /\ Len(q) > 0 /\ DOMAIN q = 1 .. Len(q)
      /\ DOMAIN Tail(q) = 1 .. Len(q) - 1
      /\ \A i \in 1 .. Len(q) - 1 : Tail(q)[i] = q[i + 1]
  OBVIOUS
<1>2. \A i \in 1 .. Len(q) : i = 1 \/ \E j \in 1 .. Len(q) - 1 : i = j + 1
  <2> TAKE i \in 1 .. Len(q)
  <2>1. i = 1 \/ (i - 1 \in 1 .. Len(q) - 1 /\ i = (i - 1) + 1)
    BY <1>1
  <2> QED
    BY <2>1
<1>3. 1 \in 1 .. Len(q) /\ \A j \in 1 .. Len(q) - 1 : j + 1 \in 1 .. Len(q)
  BY <1>1
<1>4. \A x \in Range(q) : x \in {Head(q)} \cup Range(Tail(q))
  <2> SUFFICES ASSUME NEW i \in 1 .. Len(q), q[i] # Head(q) PROVE q[i] \in Range(Tail(q))
    BY <1>1 DEF Range
  <2>1. PICK j \in 1 .. Len(q) - 1 : i = j + 1
    BY <1>1, <1>2
  <2>2. q[i] = Tail(q)[j]
    BY <1>1, <2>1
  <2> QED
    BY ZenonT(60), <1>1, <2>2 DEF Range
<1>5. Head(q) \in Range(q) /\ \A x \in Range(Tail(q)) : x \in Range(q)
  BY <1>1, <1>3 DEF Range
<1> QED
  BY <1>1, <1>4, <1>5

(* What is in two sequences joined. *)
LEMMA SetOfJoin ==
    ASSUME NEW U, NEW p \in Seq(U), NEW q \in Seq(U)
    PROVE  Range(p \o q) = Range(p) \cup Range(q)
<1>1. /\ DOMAIN (p \o q) = 1 .. Len(p) + Len(q) /\ DOMAIN p = 1 .. Len(p) /\ DOMAIN q = 1 .. Len(q)
      /\ Len(p) \in Nat /\ Len(q) \in Nat
      /\ \A i \in 1 .. Len(p) : (p \o q)[i] = p[i]
      /\ \A i \in 1 .. Len(q) : (p \o q)[Len(p) + i] = q[i]
  OBVIOUS
<1>2. \A i \in 1 .. Len(p) + Len(q) :
         i \in 1 .. Len(p) \/ \E j \in 1 .. Len(q) : i = Len(p) + j
  <2> TAKE i \in 1 .. Len(p) + Len(q)
  <2>1. i \in 1 .. Len(p) \/ (i - Len(p) \in 1 .. Len(q) /\ i = Len(p) + (i - Len(p)))
    BY <1>1
  <2> QED
    BY <2>1
<1>3. /\ \A i \in 1 .. Len(p) : i \in 1 .. Len(p) + Len(q)
      /\ \A i \in 1 .. Len(q) : Len(p) + i \in 1 .. Len(p) + Len(q)
  BY <1>1
<1>4. \A x \in Range(p \o q) : x \in Range(p) \cup Range(q)
  BY <1>1, <1>2 DEF Range
<1>5. \A x \in Range(p) : x \in Range(p \o q)
  BY <1>1, <1>3 DEF Range
<1>6. \A x \in Range(q) : x \in Range(p \o q)
  BY ZenonT(60), <1>1, <1>3 DEF Range
<1> QED
  BY <1>4, <1>5, <1>6

(* A sequence stays in order when something of a later line is appended. *)
LEMMA OrderOfAppend ==
    ASSUME NEW U, NEW q \in Seq(U), NEW x \in U, NEW S, OrderedOn(q, S),
           x \in S => Below(Range(q) \cap S, {x})
    PROVE  OrderedOn(Append(q, x), S)
<1>1. /\ DOMAIN Append(q, x) = 1 .. Len(q) + 1 /\ DOMAIN q = 1 .. Len(q) /\ Len(q) \in Nat
      /\ \A i \in 1 .. Len(q) : Append(q, x)[i] = q[i]
      /\ Append(q, x)[Len(q) + 1] = x
  OBVIOUS
<1> DEFINE r == Append(q, x)
<1> SUFFICES ASSUME NEW i \in 1 .. Len(q) + 1, NEW j \in 1 .. Len(q) + 1, i < j,
                    r[i] \in S, r[j] \in S
             PROVE  r[i].n < r[j].n
  BY <1>1 DEF OrderedOn
<1>2. i \in 1 .. Len(q) /\ r[i] = q[i]
  BY <1>1
<1>3. CASE j \in 1 .. Len(q)
  BY <1>1, <1>2, <1>3 DEF OrderedOn
<1>4. CASE j = Len(q) + 1
  <2>1. r[j] = x /\ q[i] \in Range(q) \cap S
    BY <1>1, <1>2, <1>4 DEF Range
  <2> QED
    BY <1>2, <2>1 DEF Below
<1> QED
  BY <1>1, <1>3, <1>4

(* The head of a sequence in order is of a line before all others. *)
LEMMA OrderOfTail ==
    ASSUME NEW U, NEW q \in Seq(U), q # <<>>, NEW S, OrderedOn(q, S)
    PROVE  /\ OrderedOn(Tail(q), S)
           /\ Head(q) \in S => Below({Head(q)}, Range(Tail(q)) \cap S)
<1>1. /\ Tail(q) \in Seq(U) /\ Head(q) = q[1]
      /\ Len(q) \in Nat /\ Len(q) > 0 /\ DOMAIN q = 1 .. Len(q)
      /\ DOMAIN Tail(q) = 1 .. Len(q) - 1
      /\ \A i \in 1 .. Len(q) - 1 : Tail(q)[i] = q[i + 1]
  OBVIOUS
<1>2. 1 \in 1 .. Len(q) /\ \A j \in 1 .. Len(q) - 1 : j + 1 \in 1 .. Len(q) /\ 1 < j + 1
  BY <1>1
<1>3. \A i, j \in 1 .. Len(q) - 1 : i < j => i + 1 < j + 1
  BY <1>1
<1>4. OrderedOn(Tail(q), S)
  BY <1>1, <1>2, <1>3 DEF OrderedOn
<1>5. ASSUME Head(q) \in S, NEW b \in Range(Tail(q)) \cap S PROVE Head(q).n < b.n
  <2>1. PICK j \in 1 .. Len(q) - 1 : b = q[j + 1]
    BY <1>1 DEF Range
  <2> QED
    BY <1>1, <1>2, <1>5, <2>1 DEF OrderedOn
<1> QED
  BY <1>4, <1>5 DEF Below

(* Two sequences in order, the second of later lines than the first. *)
LEMMA OrderOfJoin ==
    ASSUME NEW U, NEW p \in Seq(U), NEW q \in Seq(U), NEW S,
           OrderedOn(p, S), OrderedOn(q, S), Below(Range(p) \cap S, Range(q) \cap S)
    PROVE  OrderedOn(p \o q, S)
<1>1. /\ DOMAIN (p \o q) = 1 .. Len(p) + Len(q) /\ DOMAIN p = 1 .. Len(p) /\ DOMAIN q = 1 .. Len(q)
      /\ Len(p) \in Nat /\ Len(q) \in Nat
      /\ \A i \in 1 .. Len(p) : (p \o q)[i] = p[i]
      /\ \A i \in 1 .. Len(q) : (p \o q)[Len(p) + i] = q[i]
  OBVIOUS
<1> DEFINE r == p \o q
<1>6. \A i \in 1 .. Len(p) : r[i] = p[i]
  BY <1>1
<1>2. \A i \in 1 .. Len(p) + Len(q) :
         i \notin 1 .. Len(p) => i - Len(p) \in 1 .. Len(q) /\ r[i] = q[i - Len(p)]
  <2> TAKE i \in 1 .. Len(p) + Len(q)
  <2> HAVE i \notin 1 .. Len(p)
  <2>1. i - Len(p) \in 1 .. Len(q) /\ Len(p) + (i - Len(p)) = i
    BY <1>1
  <2> QED
    BY <1>1, <2>1
<1> HIDE DEF r
<1> SUFFICES ASSUME NEW i \in 1 .. Len(p) + Len(q), NEW j \in 1 .. Len(p) + Len(q), i < j,
                    r[i] \in S, r[j] \in S
             PROVE  r[i].n < r[j].n
  BY <1>1 DEF OrderedOn, r
<1>3. CASE j \in 1 .. Len(p)
  <2>1. i \in 1 .. Len(p)
    BY <1>1, <1>3
  <2> QED
    BY ZenonT(60), <1>1, <1>3, <1>6, <2>1 DEF OrderedOn
<1>4. CASE i \in 1 .. Len(p) /\ j \notin 1 .. Len(p)
  BY ZenonT(60), <1>1, <1>2, <1>4, <1>6 DEF Below, Range
<1>5. CASE i \notin 1 .. Len(p)
  <2>1. j \notin 1 .. Len(p) /\ i - Len(p) < j - Len(p)
    BY <1>1, <1>5
  <2>2. /\ i - Len(p) \in DOMAIN q /\ r[i] = q[i - Len(p)]
        /\ j - Len(p) \in DOMAIN q /\ r[j] = q[j - Len(p)]
    BY <1>1, <1>2, <1>5, <2>1
  <2>3. q[i - Len(p)] \in S /\ q[j - Len(p)] \in S
    BY <2>2
  <2>4. q[i - Len(p)].n < q[j - Len(p)].n
    BY <2>1, <2>2, <2>3, ZenonT(60) DEF OrderedOn
  <2> QED
    BY <2>2, <2>4, Zenon
<1> QED
  BY <1>3, <1>4, <1>5

-------------------------------------------------------------------------------
(* What is owed *)

(* What is sent for a line carries its number. *)
LEMMA AnswerFacts ==
    ASSUME NEW x \in Inputs, NEW n \in Nat \ {0}
    PROVE  /\ Answer(x, n) \in Seq(Message)
           /\ \A m \in Range(Answer(x, n)) : m \in LineMsgs /\ m.n = n
           /\ \A S : OrderedOn(Answer(x, n), S)
<1>1. x \in {"frame", "skip", "bad", "garbled"}
  BY PipelineAssumption
<1>2. ASSUME NEW k \in {"frame", "parse", "io"}, Answer(x, n) = <<Msg(k, n)>>
      PROVE  /\ \A m \in Range(Answer(x, n)) : m \in LineMsgs /\ m.n = n
             /\ \A S : OrderedOn(Answer(x, n), S)
  <2>1. Msg(k, n) \in LineMsgs /\ Msg(k, n).n = n
    BY DEF Msg, LineMsgs, Message
  <2>2. DOMAIN Answer(x, n) = {1} /\ Answer(x, n)[1] = Msg(k, n)
    BY <1>2
  <2> QED
    BY <2>1, <2>2 DEF Range, OrderedOn
<1>3. CASE x = "skip"
  <2>1. Answer(x, n) = <<>>
    BY <1>3 DEF Answer
  <2> QED
    BY <1>3, <2>1, AnswerType DEF Range, OrderedOn
<1>4. CASE x = "frame"
  BY <1>2, <1>4, AnswerType DEF Answer
<1>5. CASE x = "bad"
  BY <1>2, <1>5, AnswerType DEF Answer
<1>6. CASE x = "garbled"
  BY <1>2, <1>6, AnswerType DEF Answer
<1> QED
  BY <1>1, <1>3, <1>4, <1>5, <1>6

(* All that is owed is of a line that was read. *)
LEMMA OwedFacts ==
    ASSUME PInv, NEW m \in Owed
    PROVE  m \in LineMsgs /\ m.n \in 1 .. Len(read)
<1>1. read \in Seq(Inputs) /\ DOMAIN read = 1 .. Len(read) /\ Len(read) \in Nat
  BY DEF PInv, Threads
<1>2. PICK n \in 1 .. Len(read) : m \in Range(Answer(read[n], n))
  BY <1>1 DEF Owed
<1>3. n \in Nat \ {0} /\ read[n] \in Inputs
  BY <1>1
<1> QED
  BY <1>2, <1>3, AnswerFacts

(* A line adds what is owed for it. *)
LEMMA OwedGrows ==
    ASSUME PInv, NEW x \in Inputs, ReadLine(x)
    PROVE  /\ Owed' = Owed \cup Range(Answer(x, Len(read) + 1))
           /\ Len(read') = Len(read) + 1 /\ Len(read) \in Nat
           /\ source' = source \o Answer(x, Len(read) + 1)
<1>1. /\ read \in Seq(Inputs) /\ DOMAIN read = 1 .. Len(read) /\ Len(read) \in Nat
      /\ read' = Append(read, x)
  BY DEF PInv, Threads, ReadLine
<1>2. /\ DOMAIN read' = 1 .. Len(read) + 1 /\ Len(read') = Len(read) + 1
      /\ \A n \in 1 .. Len(read) : read'[n] = read[n]
      /\ read'[Len(read) + 1] = x
  BY <1>1
<1>3. \A n \in 1 .. Len(read) + 1 : n \in 1 .. Len(read) \/ n = Len(read) + 1
  BY <1>1
<1>4. Len(read) + 1 \in 1 .. Len(read) + 1 /\ \A n \in 1 .. Len(read) : n \in 1 .. Len(read) + 1
  BY <1>1
<1>5. \A m \in Owed' : m \in Owed \cup Range(Answer(x, Len(read) + 1))
  BY <1>1, <1>2, <1>3, ZenonT(60) DEF Owed
<1>6. \A m \in Owed : m \in Owed'
  <2> SUFFICES ASSUME NEW n \in 1 .. Len(read), NEW m \in Range(Answer(read[n], n)) PROVE m \in Owed'
    BY <1>1, Zenon DEF Owed
  <2>1. n \in DOMAIN read' /\ m \in Range(Answer(read'[n], n))
    BY <1>2, <1>4
  <2> QED
    BY <2>1, Zenon DEF Owed
<1>7. \A m \in Range(Answer(x, Len(read) + 1)) : m \in Owed'
  <2> TAKE m \in Range(Answer(x, Len(read) + 1))
  <2>1. Len(read) + 1 \in DOMAIN read' /\ m \in Range(Answer(read'[Len(read) + 1], Len(read) + 1))
    BY <1>2, <1>4
  <2> QED
    BY <2>1, Zenon DEF Owed
<1> QED
  BY <1>1, <1>2, <1>5, <1>6, <1>7 DEF ReadLine

(* What awk answers a line with, and what it does when its input ends. *)
LEMMA EmitSorts ==
    ASSUME Sorts, NEW o, NEW n \in Nat, Emit(o, n)
    PROVE  made' \in Seq(FrameMsgs)
<1>1. o = "frame" => Msg(o, n) \in FrameMsgs
  BY DEF Msg, FrameMsgs, Message
<1>2. made \in Seq(FrameMsgs) /\ (made' = made \/ (o = "frame" /\ made' = Append(made, Msg(o, n))))
  BY DEF Sorts, Emit
<1> HIDE DEF FrameMsgs, Msg
<1> QED
  BY <1>1, <1>2

(* Every step keeps the sorts of the bridge's messages. *)
LEMMA SortsStep == PInv /\ Sorts /\ [PNext]_pvars => Sorts'
<1> SUFFICES ASSUME PInv, Sorts, [PNext]_pvars PROVE Sorts'
  OBVIOUS
<1>1. ASSUME UNCHANGED <<frames, made, errs, drain, buf, cli>> PROVE Sorts'
  BY <1>1 DEF Sorts
<1>2. AwkError \in {AwkError}
  OBVIOUS
<1>3. CASE Reader \/ Forward \/ Split
  BY <1>1, <1>3 DEF Reader, Connected, ConnectFails, ReadLine, ReadEof, Forward, Split, bridge
<1>4. CASE ForwardFrame
  BY <1>4 DEF ForwardFrame, Sorts
<1>5. CASE ForwardError
  BY <1>5 DEF ForwardError, Sorts
<1>6. CASE WriteLine \/ WriterEnds
  BY <1>1, <1>6 DEF WriteLine, WriterEnds
<1>7. CASE WriteFails
  BY <1>2, <1>7 DEF WriteFails, Sorts
<1>8. CASE ReadOutput
  <2>1. drain \in Seq(AwkOutput) /\ drain # <<>> /\ Head(drain) \in AwkOutput
    BY <1>8 DEF ReadOutput, PInv, Contents
  <2>2. Head(drain).kind = "frame" => Head(drain) \in FrameMsgs
    BY <2>1 DEF AwkOutput, FrameMsgs, Message
  <2>3. frames' \in Seq(FrameMsgs)
    BY <1>8, <2>2 DEF ReadOutput, Sorts
  <2>4. errs' \in Seq({AwkError})
    BY <1>2, <1>8 DEF ReadOutput, Sorts
  <2> QED
    BY <1>8, <2>1, <2>3, <2>4 DEF ReadOutput, Sorts
<1>9. CASE OutputEnds
  BY <1>1, <1>9 DEF OutputEnds
<1>10. CASE Reap
  BY <1>2, <1>10 DEF Reap, Sorts
<1>11. ASSUME NEW o, AwkLine(o) PROVE Sorts'
  <2>1. Head(feed).n \in Nat
    <3>1. Head(feed) \in Message
      BY <1>11 DEF AwkLine, PInv, Contents
    <3> QED
      BY <3>1 DEF Message
  <2> QED
    BY <1>11, <2>1, EmitSorts DEF AwkLine, Sorts
<1>12. ASSUME NEW o, AwkInputEnds(o) PROVE Sorts'
  <2>1. MaxRead + 1 \in Nat
    BY PipelineAssumption
  <2> QED
    BY <1>12, <2>1, EmitSorts DEF AwkInputEnds, Sorts
<1>13. CASE AwkFlush \/ AwkExit \/ AwkDies
  BY <1>13 DEF AwkFlush, AwkExit, AwkDies, Sorts
<1>14. CASE UNCHANGED pvars
  BY <1>1, <1>14 DEF pvars, bridge
<1> QED
  BY <1>3, <1>4, <1>5, <1>6, <1>7, <1>8, <1>9, <1>10, <1>11, <1>12, <1>13, <1>14
     DEF PNext, Writer, Output, AwkRuns

(* Every step keeps the order of what the reader sends. *)
LEMMA ReadingStep == PInv /\ Reading /\ [PNext]_pvars => Reading'
<1> SUFFICES ASSUME PInv, Reading, [PNext]_pvars PROVE Reading'
  OBVIOUS
<1> USE DEF PInv
<1>1. source \in Seq(Message)
  BY DEF Contents
<1>2. ASSUME UNCHANGED <<source, read>> PROVE Reading'
  BY <1>2 DEF Reading, Owed
<1>3. ASSUME source # <<>>, source' = Tail(source), UNCHANGED read PROVE Reading'
  <2>1. OrderedOn(source', LineMsgs)
    BY ZenonT(60), <1>1, <1>3, OrderOfTail DEF Reading
  <2>2. Range(source') \subseteq Range(source)
    BY <1>1, <1>3, SetOfTail
  <2> QED
    BY <1>3, <2>1, <2>2 DEF Reading, Owed
<1>4. CASE ConnectFails
  <2>1. Msg("io", 0) \in Message /\ Msg("io", 0) \notin LineMsgs
    BY DEF Msg, Message, LineMsgs
  <2>2. source' = Append(source, Msg("io", 0)) /\ read' = read
    BY <1>4 DEF ConnectFails
  <2>3. OrderedOn(source', LineMsgs)
    BY ZenonT(60), <1>1, <2>1, <2>2, OrderOfAppend DEF Reading
  <2>4. Range(source') = Range(source) \cup {Msg("io", 0)}
    BY <1>1, <2>1, <2>2, SetOfAppend
  <2> QED
    BY <2>2, <2>3, <2>4 DEF Reading, Owed
<1>5. ASSUME NEW x \in Inputs, ReadLine(x) PROVE Reading'
  <2> DEFINE n == Len(read) + 1
             a == Answer(x, n)
  <2>1. Owed' = Owed \cup Range(a) /\ Len(read') = n /\ Len(read) \in Nat /\ source' = source \o a
    BY <1>5, OwedGrows
  <2>2. n \in Nat \ {0}
    BY <2>1
  <2>3. /\ a \in Seq(Message) /\ (\A m \in Range(a) : m \in LineMsgs /\ m.n = n)
        /\ OrderedOn(a, LineMsgs)
    BY <2>2, AnswerFacts
  <2>4. Below(Range(source) \cap LineMsgs, Range(a) \cap LineMsgs)
    <3> SUFFICES ASSUME NEW u \in Range(source) \cap LineMsgs, NEW v \in Range(a)
                 PROVE  u.n < v.n
      BY DEF Below
    <3>1. u # Msg("io", 0)
      BY DEF Msg, LineMsgs
    <3>2. u.n \in 1 .. Len(read)
      BY <3>1, OwedFacts DEF Reading
    <3>3. v.n = n
      BY <2>3
    <3> QED
      BY <2>1, <3>2, <3>3
  <2>5. OrderedOn(source', LineMsgs)
    BY <1>1, <2>1, <2>3, <2>4, OrderOfJoin DEF Reading
  <2>6. Range(source') = Range(source) \cup Range(a)
    BY <1>1, <2>1, <2>3, SetOfJoin
  <2>7. Len(read') <= MaxRead
    <3>1. Len(read) < MaxRead /\ MaxRead \in Nat
      BY <1>5, PipelineAssumption DEF ReadLine
    <3> QED
      BY <2>1, <3>1
  <2> QED
    BY <2>1, <2>5, <2>6, <2>7 DEF Reading
<1>6. CASE Connected \/ ReadEof \/ ForwardFrame \/ ForwardError
  BY <1>2, <1>6 DEF Connected, ReadEof, ForwardFrame, ForwardError
<1>7. CASE Forward \/ Split
  BY <1>3, <1>7 DEF Forward, Split
<1>8. CASE Writer \/ Output \/ Reap
  BY <1>2, <1>8 DEF Writer, WriteLine, WriteFails, WriterEnds, Output, ReadOutput, OutputEnds, Reap
<1>9. CASE AwkRuns \/ AwkFlush \/ AwkDies
  BY <1>2, <1>9 DEF AwkRuns, AwkLine, AwkInputEnds, AwkExit, AwkFlush, AwkDies
<1>10. CASE UNCHANGED pvars
  BY <1>2, <1>10 DEF pvars
<1> QED
  BY <1>4, <1>5, <1>6, <1>7, <1>8, <1>9, <1>10 DEF PNext, Reader

(* A message handed from the source to the interface keeps the order. *)
LEMMA PassOn ==
    ASSUME PInv, Reading, NEW S, S \subseteq LineMsgs, Passed(S), source # <<>>,
           source' = Tail(source), ui' = Append(ui, Head(source)), UNCHANGED read
    PROVE  Passed(S)'
<1>1. source \in Seq(Message) /\ ui \in Seq(Message)
  BY DEF PInv, Contents
<1> DEFINE x == Head(source)
<1>2. x \in Message /\ Range(source) = {x} \cup Range(source') /\ Range(ui') = Range(ui) \cup {x}
  BY <1>1, SetOfTail, SetOfAppend
<1>3. OrderedOn(source, S)
  BY DEF Reading, OrderedOn
<1>4. x \in S => Below({x}, Range(source') \cap S)
  BY ZenonT(60), <1>1, <1>3, OrderOfTail
<1>5. OrderedOn(ui', S)
  <2>1. x \in S => Below(Range(ui) \cap S, {x})
    BY <1>2 DEF Passed, Below
  <2> QED
    BY ZenonT(60), <1>1, <1>2, <2>1, OrderOfAppend DEF Passed
<1>6. Below(Range(ui') \cap S, Range(source') \cap S)
  BY <1>2, <1>4 DEF Passed, Below
<1> QED
  BY <1>2, <1>5, <1>6 DEF Passed, Owed

(* A message from elsewhere that is not in S, and one of the source that is *)
(* not and goes elsewhere.                                                  *)
LEMMA PassBy ==
    ASSUME PInv, NEW S, Passed(S), UNCHANGED read,
           \/ UNCHANGED ui
           \/ \E x \in Message \ S : ui' = Append(ui, x),
           \/ UNCHANGED source
           \/ \E x \in Message \ S : source' = Append(source, x)
           \/ source # <<>> /\ source' = Tail(source) /\ Head(source) \notin S
    PROVE  Passed(S)'
<1>1. source \in Seq(Message) /\ ui \in Seq(Message)
  BY DEF PInv, Contents
<1>2. OrderedOn(ui', S) /\ Range(ui') \cap S = Range(ui) \cap S
  <2>1. CASE UNCHANGED ui
    BY <2>1 DEF Passed
  <2>2. ASSUME NEW x \in Message \ S, ui' = Append(ui, x)
        PROVE  OrderedOn(ui', S) /\ Range(ui') \cap S = Range(ui) \cap S
    <3>1. OrderedOn(ui', S)
      BY ZenonT(60), <1>1, <2>2, OrderOfAppend DEF Passed
    <3>2. Range(ui') = Range(ui) \cup {x}
      BY <1>1, <2>2, SetOfAppend
    <3> QED
      BY <3>1, <3>2
  <2> QED
    BY <2>1, <2>2
<1>3. Range(source') \cap S = Range(source) \cap S
  <2>1. ASSUME NEW x \in Message \ S, source' = Append(source, x)
        PROVE  Range(source') = Range(source) \cup {x}
    BY <1>1, <2>1, SetOfAppend
  <2>2. CASE source # <<>> /\ source' = Tail(source) /\ Head(source) \notin S
    <3>1. Range(source) = {Head(source)} \cup Range(source')
      BY <1>1, <2>2, SetOfTail
    <3> QED
      BY <2>2, <3>1
  <2> QED
    BY <2>1, <2>2
<1> QED
  BY <1>2, <1>3 DEF Passed, Owed

(* Every step keeps what is owed on its way, in order. *)
LEMMA PassedStep ==
    ASSUME PInv, Sorts, Reading, NEW S, S = ErrorMsgs \/ (~cli.transform /\ S = LineMsgs), Passed(S),
           [PNext]_pvars
    PROVE  Passed(S)'
<1>1. source \in Seq(Message) /\ ui \in Seq(Message) /\ errs \in Seq(Message)
  BY DEF PInv, Contents
<1>2. S \subseteq LineMsgs
  BY DEF ErrorMsgs, LineMsgs
<1>3. ASSUME UNCHANGED <<ui, source, read>> PROVE Passed(S)'
  BY <1>3, PassBy
<1>4. CASE ConnectFails
  <2>1. Msg("io", 0) \in Message \ S
    BY <1>2 DEF Msg, Message, LineMsgs
  <2> QED
    BY <1>4, <2>1, PassBy DEF ConnectFails
<1>5. ASSUME NEW x \in Inputs, ReadLine(x) PROVE Passed(S)'
  <2> DEFINE n == Len(read) + 1
             a == Answer(x, n)
  <2>1. Owed' = Owed \cup Range(a) /\ Len(read) \in Nat /\ source' = source \o a /\ ui' = ui
    BY ZenonT(60), <1>5, OwedGrows DEF ReadLine
  <2>2. n \in Nat \ {0}
    BY <2>1
  <2>3. a \in Seq(Message) /\ \A m \in Range(a) : m.n = n
    BY <2>2, AnswerFacts
  <2>4. Range(source') = Range(source) \cup Range(a)
    BY <1>1, <2>1, <2>3, SetOfJoin
  <2>5. \A u \in Range(ui) \cap S : u.n \in 1 .. Len(read)
    BY OwedFacts DEF Passed
  <2>6. Below(Range(ui) \cap S, Range(a))
    <3> SUFFICES ASSUME NEW u \in Range(ui) \cap S, NEW v \in Range(a) PROVE u.n < v.n
      BY DEF Below
    <3>1. u.n \in 1 .. Len(read) /\ v.n = n
      BY <2>3, <2>5
    <3> QED
      BY <2>1, <3>1
  <2>7. Below(Range(ui') \cap S, Range(source') \cap S)
    BY <2>1, <2>4, <2>6 DEF Passed, Below
  <2> QED
    BY <2>1, <2>4, <2>7 DEF Passed
<1>6. CASE Forward
  BY <1>2, <1>6, PassOn DEF Forward
<1>7. CASE Split
  <2>1. CASE Head(source).kind = "frame" /\ UNCHANGED ui
    <3>1. S = ErrorMsgs
      BY <1>7 DEF Split
    <3>2. Head(source) \notin S
      BY <2>1, <3>1 DEF ErrorMsgs
    <3> QED
      BY <1>7, <2>1, <3>2, PassBy DEF Split
  <2>2. CASE ui' = Append(ui, Head(source))
    BY <1>2, <1>7, <2>2, PassOn DEF Split
  <2> QED
    BY <1>7, <2>1, <2>2 DEF Split
<1>8. CASE ForwardFrame
  <2>1. frames # <<>> /\ frames \in Seq(FrameMsgs) /\ ui' = Append(ui, Head(frames)) /\ UNCHANGED <<source, read>>
    BY <1>8 DEF ForwardFrame, Sorts
  <2>2. Head(frames) \in FrameMsgs /\ S = ErrorMsgs
    BY <2>1, SetOfTail DEF Sorts
  <2>3. Head(frames) \in Message \ S
    BY <2>2 DEF FrameMsgs, ErrorMsgs
  <2> QED
    BY <2>1, <2>3, PassBy
<1>9. CASE ForwardError
  <2>1. errs # <<>> /\ ui' = Append(ui, Head(errs)) /\ UNCHANGED <<source, read>>
    BY <1>9 DEF ForwardError
  <2>2. Head(errs) = AwkError
    <3>1. errs \in Seq({AwkError})
      BY DEF Sorts
    <3>2. Head(errs) \in {AwkError}
      BY <2>1, <3>1, SetOfTail
    <3> QED
      BY <3>2
  <2>3. AwkError \in Message \ S
    BY <1>2, AwkErrorType DEF AwkError, Msg, LineMsgs
  <2> QED
    BY <2>1, <2>2, <2>3, PassBy
<1>10. CASE Connected \/ ReadEof \/ Writer \/ Output \/ Reap
  BY <1>3, <1>10 DEF Connected, ReadEof, Writer, WriteLine, WriteFails, WriterEnds, Output, ReadOutput,
        OutputEnds, Reap
<1>11. CASE AwkRuns \/ AwkFlush \/ AwkDies
  BY <1>3, <1>11 DEF AwkRuns, AwkLine, AwkInputEnds, AwkExit, AwkFlush, AwkDies
<1>12. CASE UNCHANGED pvars
  BY <1>3, <1>12 DEF pvars
<1> QED
  BY <1>4, <1>5, <1>6, <1>7, <1>8, <1>9, <1>10, <1>11, <1>12 DEF PNext, Reader

-------------------------------------------------------------------------------
(* The bridge *)

(* Less before awk is still in order. *)
LEMMA SupplyShrinks ==
    ASSUME Supply, OrderedOn(raw', Message), OrderedOn(feed', Message), Owed \subseteq Owed',
           Range(raw') \subseteq Range(raw), Range(feed') \subseteq Range(feed),
           Range(source') \cap FrameMsgs \subseteq Range(source) \cap FrameMsgs
    PROVE  Supply'
BY DEF Supply, Below

(* Every step keeps the frames before awk in order. *)
LEMMA SupplyStep == PInv /\ Reading /\ Supply /\ [PNext]_pvars => Supply'
<1> SUFFICES ASSUME PInv, Reading, Supply, [PNext]_pvars PROVE Supply'
  OBVIOUS
<1>1. source \in Seq(Message) /\ raw \in Seq(Message) /\ feed \in Seq(Message)
  BY DEF PInv, Contents
<1>2. ASSUME UNCHANGED <<raw, feed, source, read>> PROVE Supply'
  BY <1>2 DEF Supply, Owed
<1>3. OrderedOn(<<>>, Message) /\ Range(<<>>) = {}
  BY DEF OrderedOn, Range
<1>4. ASSUME UNCHANGED <<source, read>>, raw' = raw \/ raw' = <<>>, feed' = feed \/ feed' = <<>>
      PROVE  Supply'
  <2>1. OrderedOn(raw', Message) /\ Range(raw') \subseteq Range(raw)
    BY <1>3, <1>4 DEF Supply
  <2>2. OrderedOn(feed', Message) /\ Range(feed') \subseteq Range(feed)
    BY <1>3, <1>4 DEF Supply
  <2>3. Owed' = Owed
    BY <1>4 DEF Owed
  <2> QED
    BY <1>4, <2>1, <2>2, <2>3, SupplyShrinks
<1>5. CASE ConnectFails
  <2>1. Msg("io", 0) \in Message /\ Msg("io", 0) \notin FrameMsgs
    BY DEF Msg, Message, FrameMsgs
  <2>2. Range(source') = Range(source) \cup {Msg("io", 0)} /\ Owed' = Owed /\ UNCHANGED <<raw, feed>>
    BY <1>1, <1>5, <2>1, SetOfAppend DEF ConnectFails, Owed, bridge
  <2> QED
    BY <2>1, <2>2, SupplyShrinks DEF Supply
<1>6. ASSUME NEW x \in Inputs, ReadLine(x) PROVE Supply'
  <2> DEFINE n == Len(read) + 1
             a == Answer(x, n)
  <2>1. /\ Owed' = Owed \cup Range(a) /\ Len(read) \in Nat /\ source' = source \o a
        /\ UNCHANGED <<raw, feed>>
    BY ZenonT(60), <1>6, OwedGrows DEF ReadLine, bridge
  <2>2. n \in Nat \ {0}
    BY <2>1
  <2>3. a \in Seq(Message) /\ \A m \in Range(a) : m.n = n
    BY <2>2, AnswerFacts
  <2>4. Range(source') = Range(source) \cup Range(a)
    BY <1>1, <2>1, <2>3, SetOfJoin
  <2>5. Below(Range(feed) \cup Range(raw), Range(a))
    <3> SUFFICES ASSUME NEW u \in Range(feed) \cup Range(raw), NEW v \in Range(a) PROVE u.n < v.n
      BY DEF Below
    <3>1. u.n \in 1 .. Len(read) /\ v.n = n
      BY <2>3, OwedFacts DEF Supply
    <3> QED
      BY <2>1, <3>1
  <2>6. Below(Range(feed') \cup Range(raw'), Range(source') \cap FrameMsgs)
    BY <2>1, <2>4, <2>5 DEF Supply, Below
  <2> QED
    BY <2>1, <2>6 DEF Supply
<1>7. ASSUME source # <<>>, source' = Tail(source), UNCHANGED <<raw, feed, read>> PROVE Supply'
  <2>1. Range(source') \subseteq Range(source) /\ Owed' = Owed
    BY <1>1, <1>7, SetOfTail DEF Owed
  <2> QED
    BY <1>7, <2>1, SupplyShrinks DEF Supply
<1>8. CASE Split /\ raw' # raw
  <2> DEFINE x == Head(source)
  <2>1. /\ source # <<>> /\ source' = Tail(source) /\ x.kind = "frame" /\ raw' = Append(raw, x)
        /\ UNCHANGED <<feed, read>>
    BY <1>8 DEF Split
  <2>2. /\ x \in Message /\ Range(source) = {x} \cup Range(source')
        /\ Range(raw') = Range(raw) \cup {x}
    BY <1>1, <2>1, SetOfTail, SetOfAppend
  <2>3. x \in FrameMsgs /\ x # Msg("io", 0)
    BY <2>1, <2>2 DEF FrameMsgs, Msg
  <2>4. x \in Owed
    BY <2>2, <2>3 DEF Reading
  <2>5. OrderedOn(raw', Message)
    <3>1. Below(Range(raw) \cap Message, {x})
      BY <2>2, <2>3 DEF Supply, Below
    <3> QED
      BY <1>1, <2>1, <2>2, <3>1, OrderOfAppend DEF Supply
  <2>6. Below({x}, Range(source') \cap FrameMsgs)
    <3>1. x \in LineMsgs
      BY <2>4, OwedFacts
    <3>2. Below({x}, Range(source') \cap LineMsgs)
      BY ZenonT(60), <1>1, <2>1, <3>1, OrderOfTail DEF Reading
    <3>3. Range(source') \cap FrameMsgs \subseteq LineMsgs
      <4> SUFFICES ASSUME NEW m \in Range(source'), m \in FrameMsgs PROVE m \in LineMsgs
        OBVIOUS
      <4>1. m # Msg("io", 0) /\ m \in Range(source)
        BY <2>2 DEF FrameMsgs, Msg
      <4> QED
        BY <4>1, OwedFacts DEF Reading
    <3> QED
      BY <3>2, <3>3 DEF Below
  <2>7. Below(Range(feed), {x})
    BY <2>2, <2>3 DEF Supply, Below
  <2> QED
    BY <2>1, <2>2, <2>4, <2>5, <2>6, <2>7 DEF Supply, Below, Owed
<1>9. CASE Split /\ raw' = raw
  BY <1>7, <1>9 DEF Split
<1>10. CASE WriteLine
  <2> DEFINE x == Head(raw)
  <2>1. /\ raw # <<>> /\ raw' = Tail(raw) /\ feed' = Append(feed, x) /\ UNCHANGED <<source, read>>
    BY <1>10 DEF WriteLine
  <2>2. /\ x \in Message /\ Range(raw) = {x} \cup Range(raw') /\ Range(feed') = Range(feed) \cup {x}
        /\ raw' \in Seq(Message)
    BY <1>1, <2>1, SetOfTail, SetOfAppend
  <2>3. OrderedOn(raw', Message) /\ Below({x}, Range(raw') \cap Message)
    BY ZenonT(60), <1>1, <2>1, <2>2, OrderOfTail DEF Supply
  <2>4. Range(raw') \subseteq Message
    BY <2>2 DEF Range
  <2>5. OrderedOn(feed', Message)
    <3>1. Below(Range(feed) \cap Message, {x})
      BY <2>2 DEF Supply, Below
    <3> QED
      BY ZenonT(60), <1>1, <2>1, <2>2, <3>1, OrderOfAppend DEF Supply
  <2>6. Below(Range(feed'), Range(raw'))
    BY <2>2, <2>3, <2>4 DEF Supply, Below
  <2>7. Range(feed') \cup Range(raw') = Range(feed) \cup Range(raw)
    BY <2>2
  <2> QED
    BY ZenonT(60), <2>1, <2>3, <2>5, <2>6, <2>7 DEF Supply, Owed
<1>11. ASSUME NEW o, AwkLine(o) PROVE Supply'
  <2>1. feed # <<>> /\ feed' = Tail(feed) /\ UNCHANGED <<raw, source, read>>
    BY <1>11 DEF AwkLine
  <2>2. OrderedOn(feed', Message) /\ Range(feed') \subseteq Range(feed) /\ Owed' = Owed
    BY ZenonT(60), <1>1, <2>1, OrderOfTail, SetOfTail DEF Supply, Owed
  <2> QED
    BY ZenonT(60), <2>1, <2>2, SupplyShrinks DEF Supply
<1>12. CASE WriteFails \/ AwkFlush \/ AwkDies
  BY <1>4, <1>12 DEF WriteFails, AwkFlush, AwkDies
<1>13. CASE Forward
  BY <1>7, <1>13 DEF Forward, bridge
<1>14. CASE Connected \/ ReadEof \/ ForwardFrame \/ ForwardError \/ WriterEnds \/ Output \/ Reap
  BY ZenonT(60), <1>2, <1>14 DEF Connected, ReadEof, ForwardFrame, ForwardError, WriterEnds, Output, ReadOutput, OutputEnds,
        Reap, bridge
<1>15. ASSUME NEW o, AwkInputEnds(o) \/ AwkExit PROVE Supply'
  BY <1>2, <1>15 DEF AwkInputEnds, AwkExit
<1>16. CASE UNCHANGED pvars
  BY <1>2, <1>16 DEF pvars, bridge
<1> QED
  BY <1>5, <1>6, <1>8, <1>9, <1>10, <1>11, <1>12, <1>13, <1>14, <1>15, <1>16
     DEF PNext, Reader, Writer, AwkRuns

(* What awk prints for a line after all it has printed for. *)
LEMMA EmitOrder ==
    ASSUME PInv, Sorts, AwkSide, NEW o \in Outputs, NEW n \in Nat,
           \A m \in Produced : m.n < n, Emit(o, n), UNCHANGED drain
    PROVE  /\ OrderedOn(made', FrameMsgs) /\ OrderedOn(buf', AwkOutput)
           /\ Below(Range(drain'), Range(buf'))
           /\ (Range(drain') \cup Range(buf')) \cap FrameMsgs \subseteq Range(made')
           /\ Range(made) \subseteq Range(made') /\ Range(buf) \subseteq Range(buf')
           /\ Range(made') \subseteq Range(made) \cup {Msg(o, n)}
           /\ Range(buf') \subseteq Range(buf) \cup {Msg(o, n)}
           /\ Range(made') \subseteq Range(made) \cup Range(buf')
           /\ Msg(o, n).n = n
<1> DEFINE x == Msg(o, n)
<1>1. /\ x \in AwkOutput /\ x.n = n /\ (o = "frame" => x \in FrameMsgs)
      /\ (o # "frame" => x \notin FrameMsgs)
  BY PipelineAssumption DEF Msg, AwkOutput, FrameMsgs, Message
<1>2. buf \in Seq(AwkOutput) /\ made \in Seq(FrameMsgs)
  BY DEF PInv, Contents, Sorts
<1>3. /\ o = "none" => buf' = buf
      /\ o # "none" => buf' = Append(buf, x)
      /\ o = "frame" => made' = Append(made, x)
      /\ o # "frame" => made' = made
  BY DEF Emit
<1> HIDE DEF x
<1>4. Below(Range(buf), {x}) /\ Below(Range(made), {x}) /\ Below(Range(drain), {x})
  BY <1>1 DEF Below, Produced
<1>5. /\ o # "none" => Range(buf') = Range(buf) \cup {x}
      /\ o = "frame" => Range(made') = Range(made) \cup {x}
  <2>1. Range(Append(buf, x)) = Range(buf) \cup {x}
    BY <1>1, <1>2, SetOfAppend
  <2>2. o = "frame" => Range(Append(made, x)) = Range(made) \cup {x}
    BY <1>1, <1>2, SetOfAppend
  <2> QED
    BY ZenonT(60), <1>3, <2>1, <2>2
<1>6. OrderedOn(buf', AwkOutput)
  <2>1. Below(Range(buf) \cap AwkOutput, {x})
    BY <1>4 DEF Below
  <2>2. CASE o = "none"
    BY <1>3, <2>2 DEF AwkSide
  <2>3. CASE o # "none"
    BY ZenonT(60), <1>1, <1>2, <1>3, <2>1, <2>3, OrderOfAppend DEF AwkSide
  <2> QED
    BY <2>2, <2>3
<1>7. OrderedOn(made', FrameMsgs)
  <2>1. Below(Range(made) \cap FrameMsgs, {x})
    BY <1>4 DEF Below
  <2>2. CASE o # "frame"
    BY <1>3, <2>2 DEF AwkSide
  <2>3. CASE o = "frame"
    BY <1>1, <1>2, <1>3, <2>1, <2>3, OrderOfAppend DEF AwkSide
  <2> QED
    BY <2>2, <2>3
<1>8. CASE o = "none"
  BY <1>1, <1>3, <1>6, <1>7, <1>8 DEF AwkSide, x
<1>9. CASE o # "none"
  <2>1. Below(Range(drain'), Range(buf'))
    BY <1>4, <1>5, <1>9 DEF AwkSide, Below
  <2>2. CASE o = "frame"
    BY <1>1, <1>5, <1>6, <1>7, <1>9, <2>1, <2>2 DEF AwkSide, x
  <2>3. CASE o # "frame"
    BY <1>1, <1>3, <1>5, <1>6, <1>7, <1>9, <2>1, <2>3 DEF AwkSide, x
  <2> QED
    BY <2>2, <2>3
<1> QED
  BY ZenonT(60), <1>8, <1>9

(* The line awk reads comes after all it has printed for. *)
LEMMA NextLine ==
    ASSUME PInv, AwkSide, awk = "run", feed # <<>>
    PROVE  Head(feed).n \in Nat /\ \A m \in Produced : m.n < Head(feed).n
<1>1. feed \in Seq(Message)
  BY DEF PInv, Contents
<1>2. Head(feed) \in Message /\ Head(feed) \in Ahead
  BY <1>1, SetOfTail DEF Ahead
<1> QED
  BY <1>2 DEF AwkSide, Below, Message

(* The end of the input comes after all lines. *)
LEMMA LastLine ==
    ASSUME PInv, Sorts, Reading, AwkSide, awk = "run"
    PROVE  MaxRead + 1 \in Nat /\ \A m \in Produced : m.n < MaxRead + 1
<1>1. MaxRead \in Nat /\ Len(read) \in Nat /\ Len(read) <= MaxRead
  BY PipelineAssumption DEF PInv, Threads, Reading
<1>2. \A m \in Produced : m.n \in Nat
  <2>1. drain \in Seq(AwkOutput) /\ buf \in Seq(AwkOutput) /\ made \in Seq(FrameMsgs)
    BY DEF PInv, Contents, Sorts
  <2>2. Range(drain) \subseteq AwkOutput /\ Range(buf) \subseteq AwkOutput /\ Range(made) \subseteq FrameMsgs
    BY <2>1 DEF Range
  <2> QED
    BY <2>2 DEF Produced, AwkOutput, FrameMsgs, Message
<1>3. ASSUME NEW m \in Produced PROVE m.n < MaxRead + 1
  <2>1. m.n <= Len(read) /\ m.n \in Nat
    BY <1>2 DEF AwkSide
  <2> QED
    BY <1>1, <2>1
<1> QED
  BY <1>1, <1>3

(* Nothing new from awk, and nothing new before it but of later lines. *)
LEMMA AwkAside ==
    ASSUME Sorts, AwkSide, UNCHANGED made, awk' = "run" => awk = "run",
           awk' = "run" => /\ \A m \in Produced : m.n <= Len(read')
                           /\ Below(Produced, Ahead'),
           OrderedOn(drain', AwkOutput), OrderedOn(buf', AwkOutput),
           Range(drain') \subseteq Range(drain), Range(buf') \subseteq Range(buf)
    PROVE  AwkSide'
<1>1. Produced' \subseteq Produced
  BY DEF Produced
<1> QED
  BY <1>1 DEF AwkSide, Below

(* Every step keeps what awk has printed in order. *)
LEMMA AwkSideStep == PInv /\ Sorts /\ Reading /\ Supply /\ AwkSide /\ [PNext]_pvars => AwkSide'
<1> SUFFICES ASSUME PInv, Sorts, Reading, Supply, AwkSide, [PNext]_pvars PROVE AwkSide'
  OBVIOUS
<1>1. /\ source \in Seq(Message) /\ raw \in Seq(Message) /\ feed \in Seq(Message)
      /\ drain \in Seq(AwkOutput) /\ buf \in Seq(AwkOutput)
  BY DEF PInv, Contents
<1>2. ASSUME UNCHANGED <<made, drain, buf, read>>, awk' = "run" => awk = "run" /\ Ahead' \subseteq Ahead
      PROVE  AwkSide'
  BY <1>2, AwkAside DEF AwkSide, Below
<1>3. CASE ConnectFails
  <2>1. Msg("io", 0) \in Message /\ Msg("io", 0) \notin FrameMsgs
    BY DEF Msg, Message, FrameMsgs
  <2>2. Range(source') = Range(source) \cup {Msg("io", 0)} /\ UNCHANGED <<raw, feed>>
    BY <1>1, <1>3, <2>1, SetOfAppend DEF ConnectFails, bridge
  <2>3. Ahead' = Ahead
    BY <2>1, <2>2 DEF Ahead
  <2> QED
    BY <1>2, <1>3, <2>3 DEF ConnectFails, bridge
<1>4. ASSUME NEW x \in Inputs, ReadLine(x) PROVE AwkSide'
  <2> DEFINE n == Len(read) + 1
             a == Answer(x, n)
  <2>1. /\ Len(read) \in Nat /\ source' = source \o a /\ Len(read') = n
        /\ UNCHANGED bridge
    BY <1>4, OwedGrows DEF ReadLine
  <2>2. n \in Nat \ {0}
    BY <2>1
  <2>3. a \in Seq(Message) /\ \A m \in Range(a) : m.n = n
    BY <2>2, AnswerFacts
  <2>4. Range(source') = Range(source) \cup Range(a)
    BY <1>1, <2>1, <2>3, SetOfJoin
  <2>5. Ahead' \subseteq Ahead \cup Range(a)
    BY <2>1, <2>4 DEF Ahead, bridge
  <2>6. ASSUME awk = "run", NEW m \in Produced PROVE m.n <= n /\ m.n < n
    <3>1. m.n \in Nat
      <4>1. Range(drain) \subseteq AwkOutput /\ Range(buf) \subseteq AwkOutput /\ Range(made) \subseteq FrameMsgs
        BY <1>1 DEF Range, Sorts
      <4> QED
        BY <4>1 DEF Produced, AwkOutput, FrameMsgs, Message
    <3>2. m.n <= Len(read)
      BY <2>6 DEF AwkSide
    <3> QED
      BY <2>1, <3>1, <3>2
  <2>7. awk = "run" => Below(Produced, Ahead')
    BY <2>3, <2>5, <2>6 DEF AwkSide, Below
  <2> QED
    BY <2>1, <2>6, <2>7, AwkAside DEF AwkSide, bridge
<1>5. ASSUME source # <<>>, source' = Tail(source), UNCHANGED <<feed, awk, made, drain, buf, read>>,
             \/ raw' = raw
             \/ raw' = Append(raw, Head(source)) /\ Head(source).kind = "frame"
      PROVE  AwkSide'
  <2>1. Range(source) = {Head(source)} \cup Range(source') /\ Head(source) \in Message
    BY <1>1, <1>5, SetOfTail
  <2>2. CASE raw' = raw
    BY <1>2, <1>5, <2>1, <2>2 DEF Ahead
  <2>3. CASE raw' = Append(raw, Head(source)) /\ Head(source).kind = "frame"
    <3>1. Range(raw') = Range(raw) \cup {Head(source)} /\ Head(source) \in FrameMsgs
      BY <1>1, <2>1, <2>3, SetOfAppend DEF FrameMsgs
    <3> QED
      BY <1>2, <1>5, <2>1, <3>1 DEF Ahead
  <2> QED
    BY <1>5, <2>2, <2>3
<1>6. CASE WriteLine
  <2>1. Range(raw) = {Head(raw)} \cup Range(raw') /\ Range(feed') = Range(feed) \cup {Head(raw)}
    BY <1>1, <1>6, SetOfTail, SetOfAppend DEF WriteLine
  <2>2. Ahead' = Ahead
    BY <1>6, <2>1 DEF WriteLine, Ahead
  <2> QED
    BY <1>2, <1>6, <2>2 DEF WriteLine
<1>7. CASE WriteFails
  <2>1. Range(<<>>) = {}
    BY DEF Range
  <2>2. Ahead' \subseteq Ahead
    BY <1>7, <2>1 DEF WriteFails, Ahead
  <2> QED
    BY <1>2, <1>7, <2>2 DEF WriteFails
<1>8. Range(<<>>) = {} /\ OrderedOn(<<>>, AwkOutput)
  BY DEF Range, OrderedOn
<1>9. CASE ReadOutput
  <2>1. drain # <<>> /\ (drain' = <<>> \/ drain' = Tail(drain)) /\ UNCHANGED <<made, buf, read, awk, raw, feed, source>>
    BY <1>9 DEF ReadOutput
  <2>2. OrderedOn(drain', AwkOutput) /\ Range(drain') \subseteq Range(drain)
    <3>1. OrderedOn(Tail(drain), AwkOutput) /\ Range(Tail(drain)) \subseteq Range(drain)
      BY <1>1, <2>1, OrderOfTail, SetOfTail DEF AwkSide
    <3> QED
      BY <1>8, <2>1, <3>1
  <2>3. Ahead' = Ahead
    BY <2>1 DEF Ahead
  <2> QED
    BY <2>1, <2>2, <2>3, AwkAside DEF AwkSide
<1>10. ASSUME NEW o \in Outputs, AwkLine(o) PROVE AwkSide'
  <2> DEFINE h == Head(feed)
             x == Msg(o, h.n)
  <2>1. /\ feed # <<>> /\ feed' = Tail(feed) /\ awk = "run" /\ Emit(o, h.n)
        /\ UNCHANGED <<drain, awk, raw, source, read>>
    BY <1>10 DEF AwkLine
  <2>2. h.n \in Nat /\ \A m \in Produced : m.n < h.n
    BY <2>1, NextLine
  <2>3. /\ OrderedOn(made', FrameMsgs) /\ OrderedOn(buf', AwkOutput) /\ Below(Range(drain'), Range(buf'))
        /\ (Range(drain') \cup Range(buf')) \cap FrameMsgs \subseteq Range(made')
        /\ Range(made') \subseteq Range(made) \cup {x}
        /\ Range(buf') \subseteq Range(buf) \cup {x}
        /\ x.n = h.n
    BY <2>1, <2>2, EmitOrder
  <2>4. Range(feed) = {h} \cup Range(feed') /\ h \in Message /\ feed' \in Seq(Message)
    BY <1>1, <2>1, SetOfTail
  <2>5. Below({h}, Range(feed'))
    <3>1. Below({h}, Range(feed') \cap Message)
      BY <1>1, <2>1, <2>4, OrderOfTail DEF Supply
    <3>2. Range(feed') \subseteq Message
      BY <2>4 DEF Range
    <3> QED
      BY <3>1, <3>2 DEF Below
  <2>6. Below({h}, Ahead') /\ Ahead' \subseteq Ahead
    BY <2>1, <2>4, <2>5 DEF Supply, Below, Ahead
  <2>7. Produced' \subseteq Produced \cup {x}
    BY <2>1, <2>3 DEF Produced
  <2>8. Below(Produced', Ahead')
    <3>1. Below({x}, Ahead')
      BY <2>3, <2>6 DEF Below
    <3> QED
      BY <2>1, <2>6, <2>7, <3>1 DEF AwkSide, Below
  <2>9. \A m \in Produced' : m.n <= Len(read')
    <3>1. h.n \in 1 .. Len(read) /\ Len(read) \in Nat
      BY <2>4, OwedFacts DEF Supply, PInv, Threads
    <3>2. x.n <= Len(read)
      BY <2>3, <3>1
    <3> QED
      BY <2>1, <2>7, <3>2 DEF AwkSide
  <2> QED
    BY <2>1, <2>3, <2>8, <2>9 DEF AwkSide
<1>11. ASSUME NEW o \in Outputs, AwkInputEnds(o) PROVE AwkSide'
  <2>1. awk = "run" /\ awk' = "end" /\ Emit(o, MaxRead + 1) /\ UNCHANGED drain
    BY <1>11 DEF AwkInputEnds
  <2>2. MaxRead + 1 \in Nat /\ \A m \in Produced : m.n < MaxRead + 1
    BY <2>1, LastLine
  <2> QED
    BY <2>1, <2>2, EmitOrder DEF AwkSide
<1>12. CASE AwkFlush
  <2>1. CASE opc = "read" /\ drain' = Append(drain, Head(buf)) /\ buf' = Tail(buf) /\ UNCHANGED <<awk, feed>>
    <3> DEFINE x == Head(buf)
    <3>1. buf # <<>> /\ UNCHANGED <<made, read, raw, source>>
      BY <1>12 DEF AwkFlush
    <3>2. /\ x \in AwkOutput /\ Range(buf) = {x} \cup Range(buf') /\ Range(drain') = Range(drain) \cup {x}
          /\ buf' \in Seq(AwkOutput)
      BY <1>1, <2>1, <3>1, SetOfTail, SetOfAppend
    <3>3. OrderedOn(buf', AwkOutput) /\ Below({x}, Range(buf'))
      <4>1. OrderedOn(buf', AwkOutput) /\ Below({x}, Range(buf') \cap AwkOutput)
        BY <1>1, <2>1, <3>1, <3>2, OrderOfTail DEF AwkSide
      <4>2. Range(buf') \subseteq AwkOutput
        BY <3>2 DEF Range
      <4> QED
        BY <4>1, <4>2 DEF Below
    <3>4. OrderedOn(drain', AwkOutput)
      <4>1. Below(Range(drain) \cap AwkOutput, {x})
        BY <3>2 DEF AwkSide, Below
      <4> QED
        BY <1>1, <2>1, <3>2, <4>1, OrderOfAppend DEF AwkSide
    <3>5. Below(Range(drain'), Range(buf'))
      BY <3>2, <3>3 DEF AwkSide, Below
    <3>6. Range(drain') \cup Range(buf') = Range(drain) \cup Range(buf)
      BY <3>2
    <3>7. Produced' = Produced /\ Ahead' = Ahead
      BY <2>1, <3>1, <3>6 DEF Produced, Ahead
    <3> QED
      BY <2>1, <3>1, <3>3, <3>4, <3>5, <3>6, <3>7 DEF AwkSide
  <2>2. CASE awk' = "failed" /\ buf' = <<>> /\ UNCHANGED drain
    BY <1>8, <1>12, <2>2, AwkAside DEF AwkFlush, AwkSide
  <2> QED
    BY <1>12, <2>1, <2>2 DEF AwkFlush
<1>13. CASE AwkDies
  <2>1. awk' # "run" /\ buf' = <<>> /\ UNCHANGED <<drain, made>>
    BY <1>13 DEF AwkDies
  <2> QED
    BY <1>8, <2>1, AwkAside DEF AwkSide
<1>14. CASE AwkExit
  BY <1>2, <1>14 DEF AwkExit
<1>15. ASSUME UNCHANGED <<made, drain, buf, read, awk, raw, feed, source>> PROVE AwkSide'
  BY <1>2, <1>15 DEF Ahead
<1>16. CASE Connected \/ ReadEof \/ ForwardFrame \/ ForwardError \/ WriterEnds \/ OutputEnds \/ Reap
  <2>1. CASE Connected \/ ReadEof
    BY <1>15, <2>1 DEF Connected, ReadEof, bridge
  <2>2. CASE ForwardFrame \/ ForwardError \/ WriterEnds \/ OutputEnds \/ Reap
    BY <1>15, <2>2 DEF ForwardFrame, ForwardError, WriterEnds, OutputEnds, Reap
  <2> QED
    BY <1>16, <2>1, <2>2
<1>17. CASE Forward \/ Split
  BY <1>5, <1>17 DEF Forward, Split, bridge
<1>18. CASE UNCHANGED pvars
  BY <1>15, <1>18 DEF pvars, bridge
<1> QED
  BY <1>3, <1>4, <1>6, <1>7, <1>9, <1>10, <1>11, <1>12, <1>13, <1>14, <1>16, <1>17, <1>18
     DEF PNext, Reader, Writer, Output, AwkRuns

(* Nothing new in the interface but messages that are not frames, and       *)
(* nothing new from awk.                                                    *)
LEMMA UiAside ==
    ASSUME PInv, UiSide, UNCHANGED <<cli, frames, drain, made>>,
           ui' = ui \/ \E x \in Message \ FrameMsgs : ui' = Append(ui, x),
           Range(buf') \subseteq Range(buf),
           opc' = "read" /\ ~AwkGone' => opc = "read" /\ ~AwkGone /\ Range(buf') = Range(buf)
    PROVE  UiSide'
<1> SUFFICES ASSUME cli.transform PROVE UiSide'
  BY DEF UiSide
<1>1. ui \in Seq(Message)
  BY DEF PInv, Contents
<1>2. OrderedOn(ui', FrameMsgs) /\ Range(ui') \cap FrameMsgs = Range(ui) \cap FrameMsgs
  <2>1. CASE ui' = ui
    BY <2>1 DEF UiSide
  <2>2. ASSUME NEW x \in Message \ FrameMsgs, ui' = Append(ui, x)
        PROVE  OrderedOn(ui', FrameMsgs) /\ Range(ui') \cap FrameMsgs = Range(ui) \cap FrameMsgs
    <3>1. OrderedOn(ui', FrameMsgs)
      BY <1>1, <2>2, OrderOfAppend DEF UiSide
    <3>2. Range(ui') = Range(ui) \cup {x}
      BY <1>1, <2>2, SetOfAppend
    <3> QED
      BY <3>1, <3>2
  <2> QED
    BY <2>1, <2>2
<1>3. Shown' = Shown
  BY <1>2 DEF Shown
<1> QED
  BY <1>2, <1>3 DEF UiSide, Below

(* Every step keeps the frames of the interface those awk made, in order. *)
LEMMA UiSideStep == PInv /\ Sorts /\ Reading /\ AwkSide /\ UiSide /\ [PNext]_pvars => UiSide'
<1> SUFFICES ASSUME PInv, Sorts, Reading, AwkSide, UiSide, cli.transform, [PNext]_pvars PROVE UiSide'
  <2>1. Reader \/ Forward \/ Split \/ ForwardFrame \/ ForwardError => cli' = cli
    BY DEF Reader, Connected, ConnectFails, ReadLine, ReadEof, Forward, Split, ForwardFrame, ForwardError
  <2>2. Writer \/ Output \/ Reap => cli' = cli
    BY DEF Writer, WriteLine, WriteFails, WriterEnds, Output, ReadOutput, OutputEnds, Reap
  <2>3. AwkRuns \/ AwkFlush \/ AwkDies => cli' = cli
    BY DEF AwkRuns, AwkLine, AwkInputEnds, AwkExit, AwkFlush, AwkDies
  <2>4. [PNext]_pvars => cli' = cli
    BY <2>1, <2>2, <2>3 DEF PNext, pvars
  <2> QED
    BY <2>4 DEF UiSide
<1>1. /\ source \in Seq(Message) /\ ui \in Seq(Message) /\ frames \in Seq(FrameMsgs)
      /\ drain \in Seq(AwkOutput) /\ buf \in Seq(AwkOutput) /\ made \in Seq(FrameMsgs)
      /\ errs \in Seq({AwkError})
  BY DEF PInv, Contents, Sorts
<1>2. ASSUME UNCHANGED <<cli, ui, frames, drain, made, buf>>,
             opc' = "read" /\ ~AwkGone' => opc = "read" /\ ~AwkGone
      PROVE  UiSide'
  BY <1>2, UiAside
<1>3. CASE Reader \/ Writer \/ Reap
  <2>1. CASE Reader
    BY <1>2, <2>1 DEF Reader, Connected, ConnectFails, ReadLine, ReadEof, bridge, AwkGone
  <2>2. CASE Writer \/ Reap
    BY <1>2, <2>2 DEF Writer, WriteLine, WriteFails, WriterEnds, Reap, AwkGone
  <2> QED
    BY <1>3, <2>1, <2>2
<1>4. CASE OutputEnds \/ AwkExit
  BY <1>2, <1>4 DEF OutputEnds, AwkExit, AwkGone
<1>5. CASE AwkDies
  <2>1. Range(<<>>) = {}
    BY DEF Range
  <2> QED
    BY <1>5, <2>1, UiAside DEF AwkDies, AwkGone
<1>6. CASE Split
  <2>1. source # <<>> /\ UNCHANGED <<cli, frames, drain, made, buf, opc, awk>>
    BY <1>6 DEF Split
  <2>2. Head(source) \in Message
    BY <1>1, <2>1, SetOfTail
  <2>3. ui' = ui \/ (ui' = Append(ui, Head(source)) /\ Head(source).kind # "frame")
    BY <1>6 DEF Split
  <2>4. Head(source).kind # "frame" => Head(source) \in Message \ FrameMsgs
    BY <2>2 DEF FrameMsgs
  <2>5. ui' = ui \/ \E x \in Message \ FrameMsgs : ui' = Append(ui, x)
    BY <2>3, <2>4
  <2> QED
    BY <2>1, <2>5, UiAside DEF AwkGone
<1>7. CASE ForwardError
  <2>1. errs # <<>> /\ ui' = Append(ui, Head(errs)) /\ UNCHANGED <<cli, frames, drain, made, buf, opc, awk>>
    BY <1>7 DEF ForwardError
  <2>2. Head(errs) = AwkError
    <3>1. Head(errs) \in {AwkError}
      BY <1>1, <2>1, SetOfTail
    <3> QED
      BY <3>1
  <2>3. AwkError \in Message \ FrameMsgs
    BY AwkErrorType DEF AwkError, Msg, FrameMsgs
  <2> QED
    BY <2>1, <2>2, <2>3, UiAside DEF AwkGone
<1>8. CASE ForwardFrame
  <2> DEFINE x == Head(frames)
  <2>1. /\ frames # <<>> /\ ui' = Append(ui, x) /\ frames' = Tail(frames)
        /\ UNCHANGED <<cli, drain, made, buf, opc, awk>>
    BY <1>8 DEF ForwardFrame
  <2>2. x \in FrameMsgs /\ frames' \in Seq(FrameMsgs) /\ Range(frames) = {x} \cup Range(frames')
    BY <1>1, <2>1, SetOfTail
  <2>3. x \in Message
    BY <2>2 DEF FrameMsgs
  <2>4. Range(ui') = Range(ui) \cup {x}
    BY <1>1, <2>1, <2>3, SetOfAppend
  <2>5. OrderedOn(frames', FrameMsgs) /\ Below({x}, Range(frames') \cap FrameMsgs)
    BY <1>1, <2>1, <2>2, OrderOfTail DEF UiSide
  <2>6. Range(frames') \subseteq FrameMsgs
    BY <2>2 DEF Range
  <2>7. OrderedOn(ui', FrameMsgs)
    <3>1. Below(Range(ui) \cap FrameMsgs, {x})
      BY <2>2 DEF UiSide, Below
    <3> QED
      BY <1>1, <2>1, <2>3, <3>1, OrderOfAppend DEF UiSide
  <2>8. Below(Range(ui') \cap FrameMsgs, Range(frames'))
    BY <2>2, <2>4, <2>5, <2>6 DEF UiSide, Below
  <2>9. Shown' = Shown
    BY <2>2, <2>4 DEF Shown
  <2> QED
    BY <2>1, <2>5, <2>7, <2>8, <2>9 DEF UiSide, AwkGone
<1>9. CASE ReadOutput
  <2> DEFINE x == Head(drain)
  <2>1. /\ drain # <<>> /\ opc = "read" /\ UNCHANGED <<cli, ui, made, buf, awk>>
        /\ x.kind = "frame" => frames' = Append(frames, x)
        /\ x.kind # "frame" => frames' = frames
        /\ x.kind = "garbled" => opc' = "done" /\ drain' = <<>>
        /\ x.kind # "garbled" => drain' = Tail(drain) /\ opc' = opc
    BY <1>9 DEF ReadOutput
  <2>2. x \in AwkOutput /\ Range(drain) = {x} \cup Range(Tail(drain)) /\ Tail(drain) \in Seq(AwkOutput)
    BY <1>1, <2>1, SetOfTail
  <2>3. Below({x}, Range(Tail(drain)))
    <3>1. Below({x}, Range(Tail(drain)) \cap AwkOutput)
      BY <1>1, <2>1, <2>2, OrderOfTail DEF AwkSide
    <3>2. Range(Tail(drain)) \subseteq AwkOutput
      BY <2>2 DEF Range
    <3> QED
      BY <3>1, <3>2 DEF Below
  <2>4. Below({x}, Range(buf))
    BY <2>2 DEF AwkSide, Below
  <2>5. x \in FrameMsgs <=> x.kind = "frame"
    BY <2>2 DEF FrameMsgs, Message, AwkOutput
  <2>6. CASE x.kind = "frame"
    <3>1. Range(frames') = Range(frames) \cup {x} /\ drain' = Tail(drain) /\ opc' = opc
      <4>1. frames' = Append(frames, x) /\ drain' = Tail(drain) /\ opc' = opc /\ x \in FrameMsgs
        BY <2>1, <2>5, <2>6
      <4>2. Range(Append(frames, x)) = Range(frames) \cup {x}
        BY <1>1, <4>1, SetOfAppend
      <4> QED
        BY <4>1, <4>2
    <3>2. Shown' = Shown \cup {x}
      BY <2>1, <2>5, <2>6, <3>1 DEF Shown
    <3>3. Below(Shown, {x})
      BY <2>2 DEF UiSide, Below
    <3>4. OrderedOn(frames', FrameMsgs)
      <4>1. Below(Range(frames) \cap FrameMsgs, {x})
        BY <3>3 DEF Below, Shown
      <4> QED
        BY <1>1, <2>1, <2>5, <2>6, <4>1, OrderOfAppend DEF UiSide
    <3>5. Below(Range(ui') \cap FrameMsgs, Range(frames'))
      BY <2>1, <3>1, <3>3 DEF UiSide, Below, Shown
    <3>6. Below(Shown', Range(drain') \cup Range(buf'))
      BY <2>1, <2>2, <2>3, <2>4, <3>1, <3>2 DEF UiSide, Below
    <3>7. Shown' \subseteq Range(made')
      BY <2>1, <2>2, <2>5, <2>6, <3>2 DEF UiSide, AwkSide
    <3>8. Shown' \cup Range(drain') = Shown \cup Range(drain)
      BY <2>2, <3>1, <3>2
    <3> QED
      BY <2>1, <3>1, <3>4, <3>5, <3>6, <3>7, <3>8 DEF UiSide, AwkGone
  <2>7. CASE x.kind # "frame" /\ x.kind # "garbled"
    <3>1. frames' = frames /\ drain' = Tail(drain) /\ opc' = opc /\ x \notin Range(made)
      <4>1. Range(made) \subseteq FrameMsgs
        BY <1>1 DEF Range
      <4> QED
        BY <2>1, <2>5, <2>7, <4>1
    <3>2. Shown' = Shown
      BY <2>1, <3>1 DEF Shown
    <3>3. Range(drain') \subseteq Range(drain)
      BY <2>2, <3>1
    <3>4. \A m \in Range(made) : m \in Range(drain) => m \in Range(drain')
      BY <2>2, <3>1
    <3> QED
      BY <2>1, <3>1, <3>2, <3>3, <3>4 DEF UiSide, AwkGone, Below
  <2>8. CASE x.kind = "garbled"
    <3>1. frames' = frames /\ drain' = <<>> /\ opc' = "done"
      BY <2>1, <2>8
    <3>2. Shown' = Shown /\ Range(drain') = {}
      BY <2>1, <3>1 DEF Shown, Range
    <3>3. \A m \in Range(made) : m \in Shown \/ Below(Shown, {m})
      BY DEF UiSide, Below
    <3> QED
      BY <2>1, <3>1, <3>2, <3>3 DEF UiSide, Below
  <2> QED
    BY <2>6, <2>7, <2>8
<1>10. ASSUME NEW o \in Outputs, NEW n \in Nat, \A m \in Produced : m.n < n, Emit(o, n),
              UNCHANGED <<cli, ui, frames, drain, opc>>, awk = "run"
       PROVE  UiSide'
  <2> DEFINE x == Msg(o, n)
  <2>1. /\ Range(made) \subseteq Range(made') /\ Range(buf) \subseteq Range(buf')
        /\ Range(made') \subseteq Range(made) \cup {x}
        /\ Range(buf') \subseteq Range(buf) \cup {x}
        /\ Range(made') \subseteq Range(made) \cup Range(buf')
        /\ x.n = n
    BY <1>10, EmitOrder
  <2>2. Shown' = Shown /\ ~AwkGone
    BY <1>10 DEF Shown, AwkGone
  <2>3. Below(Shown \cup Range(drain), {x})
    BY <1>10, <2>1 DEF UiSide, Below, Produced
  <2>4. Below(Shown', Range(drain') \cup Range(buf'))
    BY <1>10, <2>1, <2>2, <2>3 DEF UiSide, Below
  <2>5. \A m \in Range(made') :
           m \in Shown' \cup Range(drain') \/ Below(Shown' \cup Range(drain'), {m})
    BY <1>10, <2>1, <2>2, <2>3 DEF UiSide
  <2>6. opc' = "read" => Range(made') \subseteq Shown' \cup Range(drain') \cup Range(buf')
    BY <1>10, <2>1, <2>2 DEF UiSide
  <2> QED
    BY <1>10, <2>1, <2>2, <2>4, <2>5, <2>6 DEF UiSide
<1>11. ASSUME NEW o \in Outputs, AwkLine(o) PROVE UiSide'
  BY <1>10, <1>11, NextLine DEF AwkLine
<1>12. ASSUME NEW o \in Outputs, AwkInputEnds(o) PROVE UiSide'
  BY <1>10, <1>12, LastLine DEF AwkInputEnds
<1>13. CASE AwkFlush
  <2>1. CASE opc = "read" /\ drain' = Append(drain, Head(buf)) /\ buf' = Tail(buf) /\ UNCHANGED <<awk, feed>>
    <3> DEFINE x == Head(buf)
    <3>1. buf # <<>> /\ UNCHANGED <<cli, ui, frames, made, opc>> /\ ~AwkGone
      BY <1>13 DEF AwkFlush
    <3>2. /\ x \in AwkOutput /\ Range(buf) = {x} \cup Range(buf') /\ Range(drain') = Range(drain) \cup {x}
          /\ buf' \in Seq(AwkOutput)
      BY <1>1, <2>1, <3>1, SetOfTail, SetOfAppend
    <3>3. Below({x}, Range(buf'))
      <4>1. Below({x}, Range(buf') \cap AwkOutput)
        BY <1>1, <2>1, <3>1, <3>2, OrderOfTail DEF AwkSide
      <4>2. Range(buf') \subseteq AwkOutput
        BY <3>2 DEF Range
      <4> QED
        BY <4>1, <4>2 DEF Below
    <3>4. Range(drain') \cup Range(buf') = Range(drain) \cup Range(buf) /\ Shown' = Shown
      BY <3>1, <3>2 DEF Shown
    <3>5. Range(made) \subseteq Shown \cup Range(drain) \cup Range(buf)
      BY <2>1, <3>1 DEF UiSide
    <3>6. Below(Shown \cup Range(drain) \cup {x}, Range(buf'))
      BY <3>2, <3>3 DEF UiSide, AwkSide, Below
    <3>7. \A m \in Range(made) :
             m \in Shown \cup Range(drain') \/ Below(Shown \cup Range(drain'), {m})
      BY <3>2, <3>5, <3>6 DEF Below
    <3>8. Below(Shown', Range(drain') \cup Range(buf'))
      BY <3>4 DEF UiSide
    <3>9. Range(made') \subseteq Shown' \cup Range(drain') \cup Range(buf')
      BY <3>1, <3>4, <3>5
    <3> QED
      BY <3>1, <3>4, <3>7, <3>8, <3>9 DEF UiSide
  <2>2. CASE awk' = "failed" /\ buf' = <<>> /\ UNCHANGED drain
    <3>1. Range(<<>>) = {}
      BY DEF Range
    <3> QED
      BY <1>13, <2>2, <3>1, UiAside DEF AwkFlush, AwkGone
  <2> QED
    BY <1>13, <2>1, <2>2 DEF AwkFlush
<1>14. CASE Forward
  BY <1>14 DEF Forward
<1>15. CASE UNCHANGED pvars
  BY <1>2, <1>15 DEF pvars, bridge, AwkGone
<1> QED
  BY <1>3, <1>4, <1>5, <1>6, <1>7, <1>8, <1>9, <1>11, <1>12, <1>13, <1>14, <1>15
     DEF PNext, Output, AwkRuns

-------------------------------------------------------------------------------
(* At the start nothing has been read and nothing sent. *)
LEMMA OInvInit == PInit => OInv
<1> SUFFICES ASSUME PInit PROVE OInv
  OBVIOUS
<1>1. Range(<<>>) = {} /\ \A S : OrderedOn(<<>>, S)
  BY DEF Range, OrderedOn
<1>2. /\ read = <<>> /\ source = <<>> /\ ui = <<>> /\ raw = <<>> /\ feed = <<>> /\ buf = <<>>
      /\ drain = <<>> /\ frames = <<>> /\ errs = <<>> /\ made = <<>> /\ awk = "run"
  BY DEF PInit, AwkSpawned
<1>3. Owed = {}
  BY <1>2 DEF Owed
<1>4. Sorts /\ Reading
  BY <1>1, <1>2, PipelineAssumption DEF Sorts, Reading
<1>5. Passed(ErrorMsgs) /\ Passed(LineMsgs)
  BY <1>1, <1>2, <1>3 DEF Passed, Below
<1>6. Ahead = {} /\ Produced = {} /\ Shown = {}
  BY <1>1, <1>2 DEF Ahead, Produced, Shown
<1>7. Supply /\ AwkSide /\ UiSide
  BY <1>1, <1>2, <1>6 DEF Supply, AwkSide, UiSide, Below
<1> QED
  BY <1>4, <1>5, <1>7 DEF OInv

(* Every step keeps the order of arrival. *)
LEMMA OInvStep == PInv /\ OInv /\ [PNext]_pvars => OInv'
<1> SUFFICES ASSUME PInv, OInv, [PNext]_pvars PROVE OInv'
  OBVIOUS
<1>1. Sorts' /\ Reading' /\ Supply' /\ AwkSide' /\ UiSide'
  BY SortsStep, ReadingStep, SupplyStep, AwkSideStep, UiSideStep DEF OInv
<1>2. Passed(ErrorMsgs)'
  BY PassedStep DEF OInv
<1>3. ~cli.transform => Passed(LineMsgs)'
  BY PassedStep DEF OInv
<1>4. cli' = cli
  <2>1. Reader \/ Forward \/ Split \/ ForwardFrame \/ ForwardError => cli' = cli
    BY DEF Reader, Connected, ConnectFails, ReadLine, ReadEof, Forward, Split, ForwardFrame, ForwardError
  <2>2. Writer \/ Output \/ Reap => cli' = cli
    BY DEF Writer, WriteLine, WriteFails, WriterEnds, Output, ReadOutput, OutputEnds, Reap
  <2>3. AwkRuns \/ AwkFlush \/ AwkDies => cli' = cli
    BY DEF AwkRuns, AwkLine, AwkInputEnds, AwkExit, AwkFlush, AwkDies
  <2> QED
    BY <2>1, <2>2, <2>3 DEF PNext, pvars
<1> QED
  BY <1>1, <1>2, <1>3, <1>4 DEF OInv

(* The tests of the property, and the sets of the invariant. *)
LEMMA Tests ==
    ASSUME NEW q \in Seq(Message)
    PROVE  /\ Sent(q, IsOfLine) = Range(q) \cap LineMsgs
           /\ Sent(q, IsSourceError) = Range(q) \cap ErrorMsgs
           /\ Sent(q, IsFrame) = Range(q) \cap FrameMsgs
           /\ InOrder(q, IsOfLine) <=> OrderedOn(q, LineMsgs)
           /\ InOrder(q, IsSourceError) <=> OrderedOn(q, ErrorMsgs)
           /\ InOrder(q, IsFrame) <=> OrderedOn(q, FrameMsgs)
<1>1. \A i \in DOMAIN q : q[i] \in Message
  OBVIOUS
<1>2. \A m \in Message : /\ IsOfLine(m) <=> m \in LineMsgs
                         /\ IsSourceError(m) <=> m \in ErrorMsgs
                         /\ IsFrame(m) <=> m \in FrameMsgs
  BY DEF IsOfLine, IsSourceError, IsFrame, LineMsgs, ErrorMsgs, FrameMsgs
<1> HIDE DEF IsOfLine, IsSourceError, IsFrame, LineMsgs, ErrorMsgs, FrameMsgs, Message
<1>3. Sent(q, IsOfLine) = Range(q) \cap LineMsgs
  BY <1>1, <1>2 DEF Sent, Range
<1>4. Sent(q, IsSourceError) = Range(q) \cap ErrorMsgs
  BY <1>1, <1>2 DEF Sent, Range
<1>5. Sent(q, IsFrame) = Range(q) \cap FrameMsgs
  BY <1>1, <1>2 DEF Sent, Range
<1>6. InOrder(q, IsOfLine) <=> OrderedOn(q, LineMsgs)
  BY <1>1, <1>2 DEF InOrder, OrderedOn
<1>7. InOrder(q, IsSourceError) <=> OrderedOn(q, ErrorMsgs)
  BY <1>1, <1>2 DEF InOrder, OrderedOn
<1>8. InOrder(q, IsFrame) <=> OrderedOn(q, FrameMsgs)
  BY <1>1, <1>2 DEF InOrder, OrderedOn
<1> QED
  BY <1>3, <1>4, <1>5, <1>6, <1>7, <1>8

(* The order of arrival follows from the invariant. *)
LEMMA OInvGivesOrder == PInv /\ OInv => ArrivesInOrder
<1> SUFFICES ASSUME PInv, OInv PROVE ArrivesInOrder
  OBVIOUS
<1>1. /\ ui \in Seq(Message) /\ source \in Seq(Message) /\ frames \in Seq(Message)
      /\ made \in Seq(FrameMsgs)
  BY DEF PInv, Contents, OInv, Sorts
<1>2. /\ ui \o source \in Seq(Message) /\ ui \o frames \in Seq(Message) /\ made \in Seq(Message)
      /\ Range(ui \o source) = Range(ui) \cup Range(source)
      /\ Range(ui \o frames) = Range(ui) \cup Range(frames)
  <2>1. made \in Seq(Message)
    <3>1. FrameMsgs \subseteq Message
      BY DEF FrameMsgs
    <3> HIDE DEF FrameMsgs, Message
    <3> QED
      BY <1>1, <3>1
  <2> QED
    BY <1>1, <2>1, SetOfJoin
<1>3. OrderedOn(source, LineMsgs) /\ OrderedOn(source, ErrorMsgs) /\ ErrorMsgs \subseteq LineMsgs
  <2>1. ErrorMsgs \subseteq LineMsgs
    BY DEF ErrorMsgs, LineMsgs
  <2> QED
    BY <2>1 DEF OInv, Reading, OrderedOn
<1>4. Owed \subseteq LineMsgs
  BY OwedFacts
<1>5. ~cli.transform => Sent(ui \o source, IsOfLine) = Owed /\ InOrder(ui \o source, IsOfLine)
  <2> SUFFICES ASSUME Passed(LineMsgs)
               PROVE  Sent(ui \o source, IsOfLine) = Owed /\ InOrder(ui \o source, IsOfLine)
    BY DEF OInv
  <2>1. OrderedOn(ui \o source, LineMsgs)
    BY <1>1, <1>3, OrderOfJoin DEF Passed
  <2>2. Range(ui \o source) \cap LineMsgs = Owed
    BY <1>2, <1>4 DEF Passed
  <2> QED
    BY <1>2, <2>1, <2>2, Tests
<1>6. /\ Sent(ui \o source, IsSourceError) = {m \in Owed : IsSourceError(m)}
      /\ InOrder(ui \o source, IsSourceError)
  <2>1. OrderedOn(ui \o source, ErrorMsgs)
    BY <1>1, <1>3, OrderOfJoin DEF OInv, Passed
  <2>2. Range(ui \o source) \cap ErrorMsgs = Owed \cap ErrorMsgs
    BY <1>2 DEF OInv, Passed
  <2>3. Owed \cap ErrorMsgs = {m \in Owed : IsSourceError(m)}
    <3>1. \A m \in Owed : m \in ErrorMsgs <=> IsSourceError(m)
      BY <1>4 DEF LineMsgs, ErrorMsgs, IsSourceError, IsOfLine
    <3> QED
      BY <3>1
  <2> QED
    BY <1>2, <2>1, <2>2, <2>3, Tests
<1>7. ASSUME cli.transform
      PROVE  /\ InOrder(ui \o frames, IsFrame) /\ InOrder(made, IsFrame)
             /\ Sent(ui \o frames, IsFrame) = Shown
             /\ Shown \subseteq Range(made)
             /\ \A m \in Range(made), f \in Shown : m.n < f.n => m \in Shown
  <2>1. UiSide /\ AwkSide
    BY DEF OInv
  <2>2. OrderedOn(ui \o frames, FrameMsgs)
    <3>1. Below(Range(ui) \cap FrameMsgs, Range(frames) \cap FrameMsgs)
      BY <1>7, <2>1 DEF UiSide, Below
    <3> QED
      BY <1>1, <1>7, <2>1, <3>1, OrderOfJoin DEF UiSide
  <2>3. InOrder(ui \o frames, IsFrame) /\ InOrder(made, IsFrame)
    BY <1>2, <2>1, <2>2, Tests DEF AwkSide
  <2>4. Sent(ui \o frames, IsFrame) = Shown
    BY <1>2, Tests DEF Shown
  <2>5. ASSUME NEW m \in Range(made), NEW f \in Shown, m.n < f.n PROVE m \in Shown
    <3>1. m.n \in Nat /\ f.n \in Nat
      <4>1. Range(made) \subseteq FrameMsgs
        BY <1>1 DEF Range
      <4> QED
        BY <4>1 DEF Shown, FrameMsgs, Message
    <3>2. ~Below(Shown \cup Range(drain), {m})
      BY <2>5, <3>1 DEF Below
    <3>3. m \in Range(drain) => f.n < m.n
      BY <1>7, <2>1 DEF UiSide, Below
    <3> QED
      BY <1>7, <2>1, <2>5, <3>1, <3>2, <3>3 DEF UiSide
  <2> QED
    BY <1>7, <2>1, <2>3, <2>4, <2>5 DEF UiSide
<1> QED
  BY <1>5, <1>6, <1>7 DEF ArrivesInOrder

(* For any lines, outputs, capacities and whenever awk or a thread ends:    *)
(* without a transform the interface gets what the reader owes, in order;   *)
(* with one, all the reader's errors in order, and of the frames awk made   *)
(* an unbroken beginning, in the order of the lines (io.rs, main.rs, awk.rs).*)
THEOREM PipelineOrder == PSpec => []ArrivesInOrder
BY PInvInit, PInvStep, OInvInit, OInvStep, OInvGivesOrder, PTL DEF PSpec
===============================================================================
