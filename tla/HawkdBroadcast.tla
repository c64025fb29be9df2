---------------------------- MODULE HawkdBroadcast ----------------------------
(***************************************************************************)
(* The broadcast half of hawkd (crates/hawkd/src/main.rs): the spine       *)
(* channel, the broadcast loop of the main thread, the accept loop of its  *)
(* own thread, and the UI clients at the far end of the socket.            *)
(*                                                                         *)
(* The two threads share the client list under a mutex.  accept_loop holds *)
(* it only to push one stream, so that critical section is one action;     *)
(* broadcast holds it while it writes to every client, that is exactly     *)
(* while bpc = "write".  A socket is the sequence of lines ever written to *)
(* it and the number of them the client has read; the difference is what   *)
(* sits in the kernel's buffer.                                            *)
(***************************************************************************)
EXTENDS Integers, Sequences, Spine

CONSTANTS
    Clients,        \* connections; a client that reconnects is another one
    Lines,          \* what producers send (whole lines, '\n' included)
    Banner,         \* "# hawkd connected\n"
    ClientBanner,   \* BOOLEAN: cli.client_banner
    SockCap,        \* lines a socket buffers before write_all blocks
    MaxLines,       \* bound: lines sent in a behaviour
    NoLine, NoClient

NotJoined == -1

ASSUME BroadcastAssumption ==
    /\ Banner \notin Lines
    /\ NoClient \notin Clients
    /\ ClientBanner \in BOOLEAN
    /\ SockCap \in Nat \ {0}
    /\ MaxLines \in Nat

VARIABLES
    bpc,        \* main thread: "recv", "lock" (has a line), "write" (holds the mutex)
    line,       \* the line in hand while bpc # "recv"
    cursor,     \* i of broadcast(), counted from 1
    clients,    \* Arc<Mutex<Vec<UnixStream>>>
    accepting,  \* the stream accept_loop holds between accept() and push()
    backlog,    \* connections the kernel has completed and hawkd not accepted
    conn,       \* client end: "none", "open", "closed"
    out,        \* out[c]: every line written to c's socket
    rd,         \* rd[c]: how many of them c has read
    cast,       \* history: lines whose broadcast has begun, in order
    joined,     \* history: Len(cast) when c was pushed, NotJoined before
    closedAt    \* history: Len(cast) when c closed its end

bvars == <<spine, bpc, line, cursor, clients, accepting, backlog, conn, out,
           rd, cast, joined, closedAt>>

Init ==
    /\ spine = <<>>
    /\ bpc = "recv"
    /\ line = NoLine
    /\ cursor = 1
    /\ clients = <<>>
    /\ accepting = NoClient
    /\ backlog = {}
    /\ conn = [c \in Clients |-> "none"]
    /\ out = [c \in Clients |-> <<>>]
    /\ rd = [c \in Clients |-> 0]
    /\ cast = <<>>
    /\ joined = [c \in Clients |-> NotJoined]
    /\ closedAt = [c \in Clients |-> 0]

-------------------------------------------------------------------------------
(* Producers.  Any thread with a clone of spine_tx appends a line; the      *)
(* channel is unbounded, so send never blocks.                              *)
Send(l) ==
    /\ Len(spine) + Len(cast) + (IF bpc = "lock" THEN 1 ELSE 0) < MaxLines
    /\ spine' = Append(spine, l)
    /\ UNCHANGED <<bpc, line, cursor, clients, accepting, backlog, conn, out,
                   rd, cast, joined, closedAt>>

-------------------------------------------------------------------------------
(* The UI client's end of the socket (external to hawkd). *)
Connect(c) ==
    /\ conn[c] = "none"
    /\ conn' = [conn EXCEPT ![c] = "open"]
    /\ backlog' = backlog \cup {c}
    /\ UNCHANGED <<spine, bpc, line, cursor, clients, accepting, out, rd, cast,
                   joined, closedAt>>

Read(c) ==
    /\ conn[c] = "open"
    /\ rd[c] < Len(out[c])
    /\ rd' = [rd EXCEPT ![c] = @ + 1]
    /\ UNCHANGED <<spine, bpc, line, cursor, clients, accepting, backlog, conn,
                   out, cast, joined, closedAt>>

Close(c) ==
    /\ conn[c] = "open"
    /\ conn' = [conn EXCEPT ![c] = "closed"]
    /\ closedAt' = [closedAt EXCEPT ![c] = Len(cast)]
    /\ UNCHANGED <<spine, bpc, line, cursor, clients, accepting, backlog, out,
                   rd, cast, joined>>

-------------------------------------------------------------------------------
(* accept_loop: accept a stream, write the banner (a failure is ignored)    *)
(* and flush, with no lock held ...                                         *)
AcceptClient(c) ==
    /\ accepting = NoClient
    /\ c \in backlog
    /\ backlog' = backlog \ {c}
    /\ accepting' = c
    /\ out' = [out EXCEPT ![c] = IF ClientBanner /\ conn[c] = "open"
                                 THEN <<Banner>> ELSE @]
    /\ UNCHANGED <<spine, bpc, line, cursor, clients, conn, rd, cast, joined,
                   closedAt>>

(* ... then wait for the mutex and push the stream. *)
PushClient ==
    /\ accepting # NoClient
    /\ bpc # "write"
    /\ clients' = Append(clients, accepting)
    /\ joined' = [joined EXCEPT ![accepting] = Len(cast)]
    /\ accepting' = NoClient
    /\ UNCHANGED <<spine, bpc, line, cursor, backlog, conn, out, rd, cast,
                   closedAt>>

-------------------------------------------------------------------------------
(* Mutant: the queue is read from its end, newest line first. *)
TakeLineNewest ==
    /\ bpc = "recv"
    /\ spine # <<>>
    /\ line' = spine[Len(spine)]
    /\ spine' = SubSeq(spine, 1, Len(spine) - 1)
    /\ bpc' = "lock"
    /\ UNCHANGED <<cursor, clients, accepting, backlog, conn, out, rd, cast,
                   joined, closedAt>>

(* The main thread: for bytes in spine_rx { broadcast(&clients, &bytes) }.  *)
(* hawkd keeps its own spine_tx, so an empty channel blocks and never ends. *)
TakeLine ==
    /\ bpc = "recv"
    /\ spine # <<>>
    /\ line' = Head(spine)
    /\ spine' = Tail(spine)
    /\ bpc' = "lock"
    /\ UNCHANGED <<cursor, clients, accepting, backlog, conn, out, rd, cast,
                   joined, closedAt>>

LockClients ==
    /\ bpc = "lock"
    /\ bpc' = "write"
    /\ cursor' = 1
    /\ cast' = Append(cast, line)
    /\ UNCHANGED <<spine, line, clients, accepting, backlog, conn, out, rd,
                   joined, closedAt>>

(* Mutant: a closed peer is not noticed, the cursor walks past it. *)
WriteClientUnchecked ==
    /\ bpc = "write"
    /\ cursor <= Len(clients)
    /\ LET c == clients[cursor]
       IN  /\ conn[c] = "closed" \/ Len(out[c]) - rd[c] < SockCap
           /\ out' = [out EXCEPT ![c] = Append(@, line)]
    /\ cursor' = cursor + 1
    /\ UNCHANGED <<spine, bpc, line, clients, accepting, backlog, conn, rd,
                   cast, joined, closedAt>>

(* write_all to the stream under the cursor: with the peer open and room in *)
(* the socket it succeeds; with the socket full it blocks, mutex held.      *)
WriteClient ==
    /\ bpc = "write"
    /\ cursor <= Len(clients)
    /\ LET c == clients[cursor]
       IN  /\ conn[c] = "open"
           /\ Len(out[c]) - rd[c] < SockCap
           /\ out' = [out EXCEPT ![c] = Append(@, line)]
    /\ cursor' = cursor + 1
    /\ UNCHANGED <<spine, bpc, line, clients, accepting, backlog, conn, rd,
                   cast, joined, closedAt>>

(* Vec::remove: the streams after the i-th move down by one. *)
VecRemove(s, i) == SubSeq(s, 1, i - 1) \o SubSeq(s, i + 1, Len(s))

(* Mutant: the stream under the cursor is also dropped when its buffer is   *)
(* full (a non-blocking write taken for a dead peer).                       *)
DropClientOnFull ==
    /\ bpc = "write"
    /\ cursor <= Len(clients)
    /\ LET c == clients[cursor]
       IN  conn[c] = "closed" \/ Len(out[c]) - rd[c] >= SockCap
    /\ clients' = VecRemove(clients, cursor)
    /\ UNCHANGED <<spine, bpc, line, cursor, accepting, backlog, conn, out, rd,
                   cast, joined, closedAt>>

(* Mutant: the cursor moves on after a removal, as if it were a plain for. *)
DropClientAndSkip ==
    /\ bpc = "write"
    /\ cursor <= Len(clients)
    /\ conn[clients[cursor]] = "closed"
    /\ clients' = VecRemove(clients, cursor)
    /\ cursor' = cursor + 1
    /\ UNCHANGED <<spine, bpc, line, accepting, backlog, conn, out, rd, cast,
                   joined, closedAt>>

(* write_all to a closed peer fails: the stream is removed and the cursor   *)
(* stays, since the next stream has moved under it.                         *)
DropClient ==
    /\ bpc = "write"
    /\ cursor <= Len(clients)
    /\ conn[clients[cursor]] = "closed"
    /\ clients' = VecRemove(clients, cursor)
    /\ UNCHANGED <<spine, bpc, line, cursor, accepting, backlog, conn, out, rd,
                   cast, joined, closedAt>>

EndBroadcast ==
    /\ bpc = "write"
    /\ cursor > Len(clients)
    /\ bpc' = "recv"
    /\ line' = NoLine
    /\ UNCHANGED <<spine, cursor, clients, accepting, backlog, conn, out, rd,
                   cast, joined, closedAt>>

-------------------------------------------------------------------------------
BroadcastLoop == TakeLine \/ LockClients \/ WriteClient \/ DropClient \/ EndBroadcast

AcceptLoop == PushClient \/ \E c \in Clients : AcceptClient(c)

Client(c) == Connect(c) \/ Read(c) \/ Close(c)

Next ==
    \/ \E l \in Lines : Send(l)
    \/ \E c \in Clients : Client(c)
    \/ AcceptLoop
    \/ BroadcastLoop

Spec == Init /\ [][Next]_bvars

(* Both hawkd threads are loops the scheduler runs whenever they are not     *)
(* blocked.  A hawk client reads its socket without condition: the reader    *)
(* thread of crates/hawk/src/io.rs feeds an unbounded channel.  Nothing      *)
(* forces a producer to send or a client to connect or to close.             *)
Fairness ==
    /\ WF_bvars(BroadcastLoop)
    /\ WF_bvars(PushClient)
    /\ WF_bvars(\E c \in Clients : AcceptClient(c))
    /\ \A c \in Clients : WF_bvars(Read(c))

FairSpec == Spec /\ Fairness

-------------------------------------------------------------------------------
(* Properties *)

(* Type invariant of the state shared by accept_loop, broadcast and the     *)
(* clients; in particular the main thread has a line in hand from recv to   *)
(* the end of broadcast().                                                  *)
TypeOK ==
    /\ spine \in Seq(Lines)
    /\ cast \in Seq(Lines)
    /\ clients \in Seq(Clients)
    /\ bpc \in {"recv", "lock", "write"}
    /\ line \in Lines \cup {NoLine}
    /\ bpc # "recv" => line \in Lines
    /\ cursor \in Nat \ {0}
    /\ accepting \in Clients \cup {NoClient}
    /\ backlog \in SUBSET Clients
    /\ conn \in [Clients -> {"none", "open", "closed"}]
    /\ out \in [Clients -> Seq(Lines \cup {Banner})]
    /\ rd \in [Clients -> Nat]
    /\ joined \in [Clients -> Nat \cup {NotJoined}]
    /\ closedAt \in [Clients -> Nat]

Registered(c) == \E i \in 1 .. Len(clients) : clients[i] = c

(* The number of lines at the head of a stream that are hawkd's greeting. *)
GreetLen(s) == IF s # <<>> /\ s[1] = Banner THEN 1 ELSE 0

Greeted(c) == GreetLen(out[c])

(* How much of cast c has been handed since it was pushed. *)
Handed(c) == joined[c] + Len(out[c]) - Greeted(c)

(* What a UI client finds on its socket is hawkd's greeting, if it got one, *)
(* followed by consecutive lines of the broadcast from the one after its    *)
(* registration: broadcast() skips, repeats and reorders nothing for anyone,*)
(* whoever else leaves in the middle of it.                                 *)
GapFree ==
    \A c \in Clients :
        \A k \in Greeted(c) + 1 .. Len(out[c]) :
            /\ joined[c] # NotJoined
            /\ joined[c] + k - Greeted(c) <= Len(cast)
            /\ out[c][k] = cast[joined[c] + k - Greeted(c)]

(* Between two broadcasts every registered client has been handed every     *)
(* line since its registration: a removal at index i of broadcast() makes   *)
(* no other client miss the line.                                           *)
NoneLeftBehind ==
    bpc # "write" => \A c \in Clients : Registered(c) => Handed(c) = Len(cast)

(* A peer that closed its end is out of the list after the next line: a     *)
(* closed stream that is still registered between broadcasts closed, or was *)
(* pushed, after the last broadcast began.  (While no line is sent nothing  *)
(* removes it.)                                                             *)
ReapedByNextLine ==
    bpc # "write" =>
        \A c \in Clients :
            Registered(c) /\ conn[c] = "closed" =>
                Len(cast) \in {closedAt[c], joined[c]}

(* hawkd never gives up a client whose end is open, however slowly it reads.*)
OpenClientKept ==
    [][\A c \in Clients :
          Registered(c) /\ conn[c] = "open" => Registered(c)']_bvars

(* A client that connects is eventually in the list of accept_loop, also    *)
(* when a broadcast was under way, and every line broadcast from then on is *)
(* eventually read by it, unless it closes.  Needs every open client to     *)
(* keep reading: write_all blocks with the mutex held, so one that stops    *)
(* reading stops them all, and those that are still to be registered.       *)
EveryClientServed ==
    \A c \in Clients :
        /\ conn[c] = "open" ~> (Registered(c) \/ conn[c] = "closed")
        /\ \A n \in 1 .. MaxLines :
              (joined[c] # NotJoined /\ joined[c] < n /\ n <= Len(cast) /\ conn[c] = "open")
                ~> (conn[c] = "closed" \/ rd[c] >= Greeted(c) + n - joined[c])

(* hawkd's broadcast socket implements the log-and-cursor promise of FanOut.*)
Promise == INSTANCE FanOut WITH
    log <- cast,
    view <- out,
    next <- [c \in Clients |-> IF joined[c] = NotJoined THEN NotJoined ELSE Handed(c)]

ImplementsFanOut == Promise!Spec
===============================================================================
