------------------------------ MODULE Hawkd_proofs ------------------------------
(***************************************************************************)
(* Proofs about hawkd: its broadcast half (HawkdBroadcast), for any number *)
(* of clients, any lines and any socket capacity; its sources              *)
(* (HawkdSources), for every set of connections, every set of input lines  *)
(* and every number of them; and hawkd as a whole.                         *)
(*                                                                         *)
(* The sources: the invariant adds what a source has in hand between       *)
(* parsing and sending: the answer to the line it read last.               *)
(*                                                                         *)
(* The whole: every step of the joined system is a step of the broadcast   *)
(* half or leaves it alone, so that what is proved of that half carries    *)
(* over.  For the order at the clients, follow the log: the lines          *)
(* broadcast, the one in the main thread's hand and those on the spine.    *)
(* Only a source's send changes it, by appending.                          *)
(***************************************************************************)
EXTENDS Hawkd, SequenceTheorems, TLAPS

(* The provers a leaf is tried with, in turn, where it names none. *)
USE SMTT(10), ZenonT(20), SMTT(30), SMTT(40)

-------------------------------------------------------------------------------
(* The broadcast half *)

(* Removing the element at position i of a list (Vec::remove) shifts the    *)
(* elements after it down by one and leaves the others alone.               *)
LEMMA VecRemoveFacts ==
    ASSUME NEW S, NEW s \in Seq(S), NEW i \in 1 .. Len(s)
    PROVE  /\ VecRemove(s, i) \in Seq(S)
           /\ Len(VecRemove(s, i)) = Len(s) - 1
           /\ \A j \in 1 .. Len(s) - 1 :
                  VecRemove(s, i)[j] = IF j < i THEN s[j] ELSE s[j + 1]
<1> DEFINE a == SubSeq(s, 1, i - 1)
           b == SubSeq(s, i + 1, Len(s))
<1>0. Len(s) \in Nat /\ \A j \in 1 .. Len(s) : s[j] \in S
  BY ElementOfSeq, LenProperties
<1>1. /\ a \in Seq(S)
      /\ Len(a) = i - 1
      /\ \A j \in 1 .. i - 1 : a[j] = s[j]
  <2>1. \A j \in 1 .. i - 1 : s[j] \in S
    BY <1>0
  <2>2. /\ a \in Seq(S)
        /\ Len(a) = IF 1 <= i - 1 THEN (i - 1) - 1 + 1 ELSE 0
        /\ \A j \in 1 .. (i - 1) - 1 + 1 : a[j] = s[1 + j - 1]
    BY <2>1, <1>0, SubSeqProperties
  <2> HIDE DEF a
  <2> QED BY <2>2, <1>0
<1>2. /\ b \in Seq(S)
      /\ Len(b) = Len(s) - i
      /\ \A j \in 1 .. Len(s) - i : b[j] = s[i + j]
  <2>1. \A j \in i + 1 .. Len(s) : s[j] \in S
    BY <1>0
  <2>2. /\ b \in Seq(S)
        /\ Len(b) = IF i + 1 <= Len(s) THEN Len(s) - (i + 1) + 1 ELSE 0
        /\ \A j \in 1 .. Len(s) - (i + 1) + 1 : b[j] = s[(i + 1) + j - 1]
    BY <2>1, <1>0, SubSeqProperties
  <2> HIDE DEF b
  <2> QED BY <2>2, <1>0
<1>3. VecRemove(s, i) = a \o b
  BY DEF VecRemove
<1> HIDE DEF a, b
<1>4. /\ a \o b \in Seq(S)
      /\ Len(a \o b) = Len(a) + Len(b)
      /\ \A j \in 1 .. Len(a) + Len(b) :
             (a \o b)[j] = IF j <= Len(a) THEN a[j] ELSE b[j - Len(a)]
  BY <1>1, <1>2, ConcatProperties
<1> QED BY <1>0, <1>1, <1>2, <1>3, <1>4

(* Writing a spine line to a stream never looks like a greeting. *)
LEMMA GreetLenAppend ==
    ASSUME NEW s \in Seq(Lines \cup {Banner}), NEW l \in Lines
    PROVE  GreetLen(Append(s, l)) = GreetLen(s)
<1>1. Banner \notin Lines
  BY BroadcastAssumption
<1>2. /\ Append(s, l) # <<>>
      /\ Len(Append(s, l)) = Len(s) + 1
      /\ \A i \in 1 .. Len(s) : Append(s, l)[i] = s[i]
      /\ Append(s, l)[Len(s) + 1] = l
  BY AppendProperties, l \in Lines \cup {Banner}
<1>3. CASE s = <<>>
  BY <1>1, <1>2, <1>3 DEF GreetLen
<1>4. CASE s # <<>>
  <2>1. Len(s) \in Nat \ {0}
    BY <1>4, EmptySeq
  <2>2. Append(s, l)[1] = s[1]
    BY <1>2, <2>1
  <2> QED BY <1>2, <1>4, <2>2 DEF GreetLen
<1> QED BY <1>3, <1>4

-------------------------------------------------------------------------------
(* Type correctness of the threads' shared state. *)

(* The broadcast starts well typed. *)
LEMMA TypeInit == Init => TypeOK
BY BroadcastAssumption, EmptySeq DEF Init, TypeOK, NotJoined

(* Every step keeps the types. *)
LEMMA TypeStep == TypeOK /\ [Next]_bvars => TypeOK'
<1> SUFFICES ASSUME TypeOK, [Next]_bvars PROVE TypeOK'
  OBVIOUS
<1> USE BroadcastAssumption DEF TypeOK
<1>1. ASSUME NEW l \in Lines, Send(l) PROVE TypeOK'
  BY ZenonT(60), <1>1, AppendProperties DEF Send
<1>2. ASSUME NEW c \in Clients, Connect(c) PROVE TypeOK'
  BY <1>2 DEF Connect
<1>3. ASSUME NEW c \in Clients, Read(c) PROVE TypeOK'
  BY <1>3 DEF Read
<1>4. ASSUME NEW c \in Clients, Close(c) PROVE TypeOK'
  <2>1. Len(cast) \in Nat
    BY LenProperties
  <2> QED BY <1>4, <2>1 DEF Close
<1>5. ASSUME NEW c \in Clients, AcceptClient(c) PROVE TypeOK'
  <2>1. <<Banner>> \in Seq(Lines \cup {Banner})
    OBVIOUS
  <2>2. out' \in [Clients -> Seq(Lines \cup {Banner})]
    BY ZenonT(60), <1>5, <2>1 DEF AcceptClient
  <2> QED BY <1>5, <2>2 DEF AcceptClient
<1>6. ASSUME PushClient PROVE TypeOK'
  <2>1. Len(cast) \in Nat /\ accepting \in Clients
    BY <1>6, LenProperties DEF PushClient
  <2> QED BY <1>6, <2>1, AppendProperties DEF PushClient
<1>7. ASSUME TakeLine PROVE TypeOK'
  <2>1. Head(spine) \in Lines /\ Tail(spine) \in Seq(Lines)
    BY <1>7, HeadTailProperties DEF TakeLine
  <2> QED BY <1>7, <2>1 DEF TakeLine
<1>8. ASSUME LockClients PROVE TypeOK'
  BY <1>8, AppendProperties DEF LockClients
<1>9. ASSUME WriteClient PROVE TypeOK'
  <2>1. clients[cursor] \in Clients /\ line \in Lines
    BY <1>9, LenProperties, ElementOfSeq DEF WriteClient
  <2>2. PICK c \in Clients : c = clients[cursor]
    BY <2>1
  <2>3. /\ out' = [out EXCEPT ![c] = Append(@, line)]
        /\ cursor' = cursor + 1
        /\ UNCHANGED <<spine, bpc, line, clients, accepting, backlog, conn, rd,
                       cast, joined, closedAt>>
    BY <1>9, <2>2 DEF WriteClient
  <2>4. out[c] \in Seq(Lines \cup {Banner}) /\ line \in Lines \cup {Banner}
    BY <2>1
  <2>5. Append(out[c], line) \in Seq(Lines \cup {Banner})
    BY <2>4, AppendProperties
  <2>6. out' \in [Clients -> Seq(Lines \cup {Banner})]
    BY <2>3, <2>5
  <2> QED BY <2>3, <2>6
<1>10. ASSUME DropClient PROVE TypeOK'
  <2>1. VecRemove(clients, cursor) \in Seq(Clients)
    BY <1>10, VecRemoveFacts, LenProperties DEF DropClient
  <2> QED BY ZenonT(60), <1>10, <2>1 DEF DropClient
<1>11. ASSUME EndBroadcast PROVE TypeOK'
  BY <1>11 DEF EndBroadcast
<1>12. ASSUME UNCHANGED bvars PROVE TypeOK'
  BY <1>12 DEF bvars
<1> QED
  BY ZenonT(60), <1>1, <1>2, <1>3, <1>4, <1>5, <1>6, <1>7, <1>8, <1>9, <1>10, <1>11, <1>12
     DEF Next, Client, AcceptLoop, BroadcastLoop

(* hawkd's broadcast state keeps its types whatever the clients and the     *)
(* producers do, and broadcast() never runs without a line in hand.         *)
THEOREM TypeCorrect == Spec => []TypeOK
BY TypeInit, TypeStep, PTL DEF Spec

-------------------------------------------------------------------------------
(***************************************************************************)
(* The inductive invariant.  GapFree says nothing of the positions that    *)
(* make it inductive: while broadcast() holds the mutex, the clients before*)
(* the cursor have the line in hand and those from the cursor on do not;   *)
(* otherwise everyone in the list has every line since it was pushed.  For *)
(* that the list must hold no stream twice, which rests on a stream being  *)
(* in exactly one of backlog, accept_loop's hands and the list.            *)
(***************************************************************************)

NoDuplicate ==
    \A i, j \in 1 .. Len(clients) : clients[i] = clients[j] => i = j

Lifecycle ==
    /\ \A i \in 1 .. Len(clients) : joined[clients[i]] # NotJoined
    /\ accepting # NoClient => joined[accepting] = NotJoined /\ accepting \notin backlog
    /\ \A c \in backlog : joined[c] = NotJoined /\ out[c] = <<>>
    /\ \A c \in Clients : conn[c] = "none" =>
           /\ joined[c] = NotJoined
           /\ c \notin backlog
           /\ c # accepting
           /\ out[c] = <<>>

Positions ==
    /\ \A c \in Clients : joined[c] <= Len(cast)
    /\ \A c \in Clients : joined[c] = NotJoined => Len(out[c]) = Greeted(c)
    /\ bpc = "write" => /\ Len(cast) > 0
                       /\ cast[Len(cast)] = line
                       /\ cursor <= Len(clients) + 1
    /\ \A i \in 1 .. Len(clients) :
           Handed(clients[i]) =
               IF bpc = "write" /\ i >= cursor THEN Len(cast) - 1 ELSE Len(cast)

Reaping ==
    \A i \in 1 .. Len(clients) :
        /\ conn[clients[i]] = "closed"
        /\ ~ (bpc = "write" /\ i >= cursor)
        => Len(cast) \in {closedAt[clients[i]], joined[clients[i]]}

IInv == TypeOK /\ NoDuplicate /\ Lifecycle /\ Positions /\ GapFree /\ Reaping

(* Arithmetic facts about the state the steps below rely on. *)
LEMMA Facts ==
    ASSUME TypeOK
    PROVE  /\ Len(clients) \in Nat
           /\ \A i \in 1 .. Len(clients) : clients[i] \in Clients
           /\ Len(cast) \in Nat
           /\ \A c \in Clients : /\ Len(out[c]) \in Nat
                                 /\ joined[c] \in Int
                                 /\ Greeted(c) \in {0, 1}
                                 /\ Greeted(c) <= Len(out[c])
<1>1. \A c \in Clients : out[c] # <<>> => Len(out[c]) \in Nat \ {0}
  BY EmptySeq DEF TypeOK
<1>2. \A c \in Clients : Len(out[c]) \in Nat
  BY LenProperties DEF TypeOK
<1>3. Len(clients) \in Nat /\ Len(cast) \in Nat
  BY LenProperties DEF TypeOK
<1>4. \A i \in 1 .. Len(clients) : clients[i] \in Clients
  BY ElementOfSeq DEF TypeOK
<1>5. \A c \in Clients : joined[c] \in Int
  BY DEF TypeOK, NotJoined
<1> QED BY <1>1, <1>2, <1>3, <1>4, <1>5 DEF Greeted, GreetLen

(* A step that leaves the list, the sockets, the history and the mutex as   *)
(* they are keeps every position.                                           *)
LEMMA FramePositions ==
    ASSUME IInv,
           UNCHANGED <<clients, out, cast, joined, cursor>>,
           bpc' = "write" <=> bpc = "write",
           bpc = "write" => line' = line
    PROVE  NoDuplicate' /\ Positions' /\ GapFree'
BY ZenonT(60) DEF IInv, NoDuplicate, Positions, GapFree, Handed, Greeted, GreetLen

(* The broadcast starts with the invariant. *)
LEMMA InvInit == Init => IInv
<1> SUFFICES ASSUME Init PROVE IInv
  OBVIOUS
<1>1. TypeOK
  BY TypeInit
<1>2. Len(clients) = 0 /\ Len(cast) = 0 /\ \A c \in Clients : Len(out[c]) = 0 /\ out[c] = <<>>
  BY EmptySeq DEF Init
<1>3. \A c \in Clients : Greeted(c) = 0 /\ joined[c] = NotJoined
  BY <1>2 DEF Greeted, GreetLen, Init
<1>4. NoDuplicate /\ Reaping
  BY <1>2 DEF NoDuplicate, Reaping
<1>5. Lifecycle
  BY <1>2, <1>3, BroadcastAssumption DEF Lifecycle, Init
<1>6. Positions
  BY <1>2, <1>3 DEF Positions, Init, NotJoined
<1>7. GapFree
  BY <1>2, <1>3 DEF GapFree
<1> QED BY <1>1, <1>4, <1>5, <1>6, <1>7 DEF IInv

(* Producers and clients: their steps leave the list alone. *)
LEMMA EnvironmentKeepsInv ==
    ASSUME IInv, TypeOK',
           \/ \E l \in Lines : Send(l)
           \/ \E c \in Clients : Client(c)
    PROVE  IInv'
<1> USE Facts DEF IInv
<1>1. ASSUME NEW l \in Lines, Send(l) PROVE IInv'
  <2>1. NoDuplicate' /\ Positions' /\ GapFree'
    BY <1>1, FramePositions DEF Send
  <2>2. Lifecycle' /\ Reaping'
    BY <1>1 DEF Send, Lifecycle, Reaping
  <2> QED BY <2>1, <2>2
<1>2. ASSUME NEW c \in Clients, Connect(c) PROVE IInv'
  <2>1. NoDuplicate' /\ Positions' /\ GapFree'
    BY <1>2, FramePositions DEF Connect
  <2>2. Lifecycle'
    BY <1>2 DEF Connect, Lifecycle, TypeOK
  <2>3. Reaping'
    BY ZenonT(60), <1>2 DEF Connect, Reaping, TypeOK
  <2> QED BY <2>1, <2>2, <2>3
<1>3. ASSUME NEW c \in Clients, Read(c) PROVE IInv'
  <2>1. NoDuplicate' /\ Positions' /\ GapFree'
    BY <1>3, FramePositions DEF Read
  <2>2. Lifecycle' /\ Reaping'
    BY <1>3 DEF Read, Lifecycle, Reaping
  <2> QED BY <2>1, <2>2
<1>4. ASSUME NEW c \in Clients, Close(c) PROVE IInv'
  <2>1. NoDuplicate' /\ Positions' /\ GapFree'
    BY <1>4, FramePositions DEF Close
  <2>2. Lifecycle'
    BY <1>4 DEF Close, Lifecycle, TypeOK
  <2>3. Reaping'
    BY ZenonT(60), <1>4 DEF Close, Reaping, TypeOK
  <2> QED BY <2>1, <2>2, <2>3
<1> QED BY <1>1, <1>2, <1>3, <1>4 DEF Client

(* accept_loop: a stream enters the list at the end, owed nothing yet. *)
LEMMA AcceptLoopKeepsInv ==
    ASSUME IInv, TypeOK', AcceptLoop
    PROVE  IInv'
<1> USE Facts DEF IInv
<1>1. ASSUME NEW c \in Clients, AcceptClient(c) PROVE IInv'
  <2>1. joined[c] = NotJoined /\ out[c] = <<>> /\ conn[c] # "none"
    BY <1>1 DEF AcceptClient, Lifecycle
  <2>2. \A d \in Clients : d # c => out'[d] = out[d]
    BY <1>1 DEF AcceptClient, TypeOK
  <2>3. out'[c] \in {<<>>, <<Banner>>}
    BY <1>1, <2>1 DEF AcceptClient, TypeOK
  <2>4. Len(out'[c]) = GreetLen(out'[c])
    <3>1. Len(<<Banner>>) = 1 /\ GreetLen(<<Banner>>) = 1
      BY DEF GreetLen
    <3>2. Len(<<>>) = 0 /\ GreetLen(<<>>) = 0
      BY EmptySeq DEF GreetLen
    <3> QED BY ZenonT(60), <2>3, <3>1, <3>2
  <2>5. \A i \in 1 .. Len(clients) : clients[i] # c
    BY <2>1 DEF Lifecycle
  <2>6. NoDuplicate'
    BY <1>1 DEF AcceptClient, NoDuplicate
  <2>7. Lifecycle'
    BY <1>1, <2>1, <2>2 DEF AcceptClient, Lifecycle, TypeOK
  <2>8. Positions'
    BY <1>1, <2>1, <2>2, <2>4, <2>5 DEF AcceptClient, Positions, Handed, Greeted
  <2>9. GapFree'
    BY <1>1, <2>2, <2>4 DEF AcceptClient, GapFree, Greeted
  <2>10. Reaping'
    BY <1>1 DEF AcceptClient, Reaping
  <2> QED BY <2>6, <2>7, <2>8, <2>9, <2>10
<1>2. ASSUME PushClient PROVE IInv'
  <2>1. PICK c \in Clients : c = accepting
    BY <1>2 DEF PushClient, TypeOK
  <2>2. joined[c] = NotJoined /\ Len(out[c]) = Greeted(c)
    BY <1>2, <2>1 DEF PushClient, Lifecycle, Positions
  <2>3. /\ Len(clients') = Len(clients) + 1
        /\ \A i \in 1 .. Len(clients) : clients'[i] = clients[i]
        /\ clients'[Len(clients) + 1] = c
    BY <1>2, <2>1, AppendProperties DEF PushClient, TypeOK
  <2>4. \A i \in 1 .. Len(clients) : clients[i] # c
    BY <2>2 DEF Lifecycle
  <2>5. /\ joined'[c] = Len(cast)
        /\ \A d \in Clients : d # c => joined'[d] = joined[d]
    BY <1>2, <2>1 DEF PushClient, TypeOK
  <2>6. /\ bpc # "write" /\ accepting' = NoClient
        /\ UNCHANGED <<bpc, line, cursor, backlog, conn, out, cast, closedAt>>
    BY <1>2 DEF PushClient
  <2>7. NoDuplicate'
    BY <2>3, <2>4 DEF NoDuplicate
  <2>8. Lifecycle'
    <3>1. \A i \in 1 .. Len(clients') : joined'[clients'[i]] # NotJoined
      <4> TAKE i \in 1 .. Len(clients')
      <4>1. CASE i = Len(clients) + 1
        BY <2>3, <2>5, <4>1 DEF NotJoined
      <4>2. CASE i \in 1 .. Len(clients)
        BY <2>3, <2>4, <2>5, <4>2 DEF Lifecycle
      <4> QED BY <2>3, <4>1, <4>2
    <3>2. c \notin backlog /\ conn[c] # "none"
      BY <1>2, <2>1 DEF PushClient, Lifecycle
    <3>3. \A d \in backlog' : joined'[d] = NotJoined /\ out'[d] = <<>>
      BY <2>5, <2>6, <3>2 DEF Lifecycle, TypeOK
    <3>4. \A d \in Clients : d # accepting'
      BY <2>6, BroadcastAssumption
    <3> QED BY <2>5, <2>6, <3>1, <3>2, <3>3, <3>4 DEF Lifecycle
  <2>9. Positions'
    <3>1. \A d \in Clients : joined'[d] <= Len(cast') /\ Greeted(d)' = Greeted(d)
      BY <2>5, <2>6 DEF Positions, Greeted
    <3>2. \A d \in Clients : joined'[d] = NotJoined => Len(out'[d]) = Greeted(d)'
      BY <2>5, <2>6, <3>1 DEF Positions, NotJoined
    <3>3. \A i \in 1 .. Len(clients') : Handed(clients[i])' = Len(cast')
      <4> TAKE i \in 1 .. Len(clients')
      <4>1. CASE i = Len(clients) + 1
        <5>1. Handed(c)' = Len(cast)
          BY <2>2, <2>5, <2>6, <3>1 DEF Handed
        <5> QED BY <2>3, <2>6, <4>1, <5>1 DEF Handed, Greeted
      <4>2. CASE i \in 1 .. Len(clients)
        <5>1. clients[i] \in Clients /\ clients[i] # c /\ clients'[i] = clients[i]
          BY <2>3, <2>4, <4>2
        <5>2. Handed(clients[i]) = Len(cast)
          BY <2>6, <4>2 DEF Positions
        <5>3. joined'[clients[i]] = joined[clients[i]]
          BY <2>5, <5>1
        <5> QED BY <2>6, <5>1, <5>2, <5>3 DEF Handed, Greeted
      <4> QED BY <2>3, <4>1, <4>2
    <3> QED BY <2>6, <3>1, <3>2, <3>3 DEF Positions
  <2>10. GapFree'
    BY <2>2, <2>5, <2>6 DEF GapFree, Greeted, NotJoined
  <2>11. Reaping'
    BY <2>3, <2>4, <2>5, <2>6 DEF Reaping
  <2> QED BY <2>7, <2>8, <2>9, <2>10, <2>11
<1> QED BY <1>1, <1>2 DEF AcceptLoop

(* recv and the end of broadcast() leave the list and the sockets alone. *)
LEMMA RecvKeepsInv ==
    ASSUME IInv, TypeOK', TakeLine \/ EndBroadcast
    PROVE  IInv'
<1> USE Facts DEF IInv
<1>1. ASSUME TakeLine PROVE IInv'
  <2>1. NoDuplicate' /\ Positions' /\ GapFree'
    BY <1>1, FramePositions DEF TakeLine
  <2>2. Lifecycle' /\ Reaping'
    BY <1>1 DEF TakeLine, Lifecycle, Reaping
  <2> QED BY <2>1, <2>2
<1>2. ASSUME EndBroadcast PROVE IInv'
  <2>1. /\ bpc = "write" /\ bpc' = "recv" /\ cursor > Len(clients)
        /\ UNCHANGED <<cursor, clients, accepting, backlog, conn, out, cast, joined, closedAt>>
    BY <1>2 DEF EndBroadcast
  <2>2. \A i \in 1 .. Len(clients) : ~ (i >= cursor)
    BY <2>1 DEF TypeOK
  <2>3. NoDuplicate' /\ Lifecycle' /\ GapFree'
    BY <2>1 DEF NoDuplicate, Lifecycle, GapFree, Greeted
  <2>4. Positions'
    BY <2>1, <2>2 DEF Positions, Handed, Greeted
  <2>5. Reaping'
    BY <2>1, <2>2 DEF Reaping
  <2> QED BY <2>3, <2>4, <2>5
<1> QED BY <1>1, <1>2

(* Taking the mutex: the line in hand becomes the last of the broadcast, and *)
(* everyone in the list is now one line short.                               *)
LEMMA LockKeepsInv ==
    ASSUME IInv, TypeOK', LockClients
    PROVE  IInv'
<1> USE Facts DEF IInv
<1>1. /\ bpc = "lock" /\ bpc' = "write" /\ cursor' = 1
      /\ cast' = Append(cast, line)
      /\ UNCHANGED <<line, clients, accepting, backlog, conn, out, joined, closedAt>>
  BY DEF LockClients
<1>2. line \in Lines
  BY <1>1 DEF TypeOK
<1>3. /\ Len(cast') = Len(cast) + 1
      /\ \A k \in 1 .. Len(cast) : cast'[k] = cast[k]
      /\ cast'[Len(cast) + 1] = line
  BY <1>1, <1>2, AppendProperties DEF TypeOK
<1>4. NoDuplicate' /\ Lifecycle'
  BY <1>1 DEF NoDuplicate, Lifecycle
<1>5. Positions'
  <2>1. \A c \in Clients : Greeted(c)' = Greeted(c) /\ Handed(c)' = Handed(c)
    BY <1>1 DEF Greeted, Handed
  <2>2. \A i \in 1 .. Len(clients') : Handed(clients[i])' = Len(cast') - 1
    <3> TAKE i \in 1 .. Len(clients')
    <3>1. i \in 1 .. Len(clients) /\ clients[i] \in Clients /\ clients'[i] = clients[i]
      BY <1>1
    <3>2. Handed(clients[i]) = Len(cast)
      BY <1>1, <3>1 DEF Positions
    <3> QED BY <1>1, <1>3, <3>1, <3>2 DEF Handed, Greeted
  <2>3. \A i \in 1 .. Len(clients') : bpc' = "write" /\ i >= cursor'
    BY <1>1
  <2>4. \A c \in Clients : joined'[c] <= Len(cast')
    BY <1>1, <1>3 DEF Positions
  <2>5. \A c \in Clients : joined'[c] = NotJoined => Len(out'[c]) = Greeted(c)'
    BY <1>1, <2>1 DEF Positions
  <2>6. Len(cast') > 0 /\ cast'[Len(cast')] = line' /\ cursor' <= Len(clients') + 1
    BY <1>1, <1>3
  <2> QED BY <2>2, <2>3, <2>4, <2>5, <2>6 DEF Positions
<1>6. GapFree'
  <2> SUFFICES ASSUME NEW c \in Clients, NEW k \in Greeted(c) + 1 .. Len(out[c])
               PROVE  /\ joined[c] # NotJoined
                      /\ joined[c] + k - Greeted(c) <= Len(cast')
                      /\ out[c][k] = cast'[joined[c] + k - Greeted(c)]
    BY ZenonT(60), <1>1 DEF GapFree, Greeted
  <2>1. /\ joined[c] # NotJoined
        /\ joined[c] + k - Greeted(c) <= Len(cast)
        /\ out[c][k] = cast[joined[c] + k - Greeted(c)]
    BY DEF GapFree
  <2>2. joined[c] \in Nat
    BY <2>1 DEF TypeOK
  <2>3. joined[c] + k - Greeted(c) \in 1 .. Len(cast)
    BY <2>1, <2>2
  <2> QED BY <1>3, <2>1, <2>3
<1>7. Reaping'
  BY <1>1 DEF Reaping
<1> QED BY <1>4, <1>5, <1>6, <1>7

(* A successful write hands the line in hand to the client under the cursor *)
(* and to nobody else.                                                      *)
LEMMA WriteKeepsInv ==
    ASSUME IInv, TypeOK', WriteClient
    PROVE  IInv'
<1> USE Facts DEF IInv
<1>1. cursor \in 1 .. Len(clients) /\ bpc = "write" /\ line \in Lines
  BY DEF WriteClient, TypeOK
<1>2. PICK c \in Clients : c = clients[cursor]
  BY <1>1
<1>3. /\ conn[c] = "open"
      /\ out' = [out EXCEPT ![c] = Append(@, line)]
      /\ cursor' = cursor + 1
      /\ UNCHANGED <<bpc, line, clients, accepting, backlog, conn, cast, joined, closedAt>>
  BY <1>2 DEF WriteClient
<1>4. \A d \in Clients : d # c => out'[d] = out[d]
  BY <1>3 DEF TypeOK
<1>5. out[c] \in Seq(Lines \cup {Banner}) /\ line \in Lines \cup {Banner}
  BY <1>1 DEF TypeOK
<1>6. /\ out'[c] = Append(out[c], line)
      /\ Len(out'[c]) = Len(out[c]) + 1
      /\ \A k \in 1 .. Len(out[c]) : out'[c][k] = out[c][k]
      /\ out'[c][Len(out[c]) + 1] = line
  <2>1. out'[c] = Append(out[c], line)
    BY <1>3 DEF TypeOK
  <2> QED BY <1>5, <2>1, AppendProperties
<1>7. \A d \in Clients : Greeted(d)' = Greeted(d)
  <2>1. GreetLen(out'[c]) = GreetLen(out[c])
    BY <1>1, <1>5, <1>6, GreetLenAppend
  <2> QED BY <1>4, <2>1 DEF Greeted
<1>8. joined[c] # NotJoined /\ Handed(c) = Len(cast) - 1
  BY <1>1, <1>2 DEF Lifecycle, Positions
<1>9. \A i \in 1 .. Len(clients) : i # cursor => clients[i] # c
  BY <1>1, <1>2 DEF NoDuplicate
<1>10. NoDuplicate'
  BY <1>3 DEF NoDuplicate
<1>11. Lifecycle'
  BY <1>3, <1>4, <1>8 DEF Lifecycle, TypeOK
<1>12. Positions'
  <2>1. Handed(c)' = Len(cast)
    BY <1>3, <1>6, <1>7, <1>8 DEF Handed
  <2>2. \A d \in Clients : d # c => Handed(d)' = Handed(d)
    BY <1>3, <1>4, <1>7 DEF Handed
  <2>3. \A i \in 1 .. Len(clients) :
            Handed(clients[i])' = IF i >= cursor + 1 THEN Len(cast) - 1 ELSE Len(cast)
    <3> TAKE i \in 1 .. Len(clients)
    <3>1. CASE i = cursor
      BY <1>1, <1>2, <1>3, <2>1, <3>1 DEF Handed, Greeted
    <3>2. CASE i # cursor
      <4>1. clients[i] \in Clients /\ clients[i] # c /\ clients'[i] = clients[i]
        BY <1>3, <1>9, <3>2
      <4>2. Handed(clients[i]) = IF i >= cursor THEN Len(cast) - 1 ELSE Len(cast)
        BY <1>1 DEF Positions
      <4>3. Handed(clients[i])' = Handed(clients[i])
        BY <1>3, <1>4, <1>7, <4>1 DEF Handed, Greeted
      <4> QED BY <1>1, <3>2, <4>2, <4>3
    <3> QED BY <3>1, <3>2
  <2>4. \A d \in Clients : joined'[d] = NotJoined => Len(out'[d]) = Greeted(d)'
    BY <1>3, <1>4, <1>7, <1>8 DEF Positions
  <2> QED BY <1>1, <1>3, <2>3, <2>4 DEF Positions
<1>13. GapFree'
  <2> SUFFICES ASSUME NEW d \in Clients, NEW k \in Greeted(d) + 1 .. Len(out'[d])
               PROVE  /\ joined[d] # NotJoined
                      /\ joined[d] + k - Greeted(d) <= Len(cast)
                      /\ out'[d][k] = cast[joined[d] + k - Greeted(d)]
    BY <1>3, <1>7 DEF GapFree
  <2>1. CASE d = c /\ k = Len(out[c]) + 1
    <3>1. joined[c] \in Int /\ Greeted(c) \in Nat /\ Len(out[c]) \in Nat /\ Len(cast) \in Nat
      OBVIOUS
    <3>2. joined[c] + Len(out[c]) - Greeted(c) = Len(cast) - 1
      BY <1>8 DEF Handed
    <3>3. joined[c] + k - Greeted(c) = Len(cast)
      <4> HIDE Facts DEF IInv
      <4> QED BY <2>1, <3>1, <3>2
    <3> QED BY <1>1, <1>6, <1>8, <2>1, <3>3 DEF Positions
  <2>2. CASE ~ (d = c /\ k = Len(out[c]) + 1)
    <3>1. k \in Greeted(d) + 1 .. Len(out[d]) /\ out'[d][k] = out[d][k]
      BY <1>4, <1>6, <2>2
    <3> QED BY <3>1 DEF GapFree
  <2> QED BY <2>1, <2>2
<1>14. Reaping'
  <2> SUFFICES ASSUME NEW i \in 1 .. Len(clients),
                      conn[clients[i]] = "closed", ~ (i >= cursor + 1)
               PROVE  Len(cast) \in {closedAt[clients[i]], joined[clients[i]]}
    BY <1>1, <1>3 DEF Reaping
  <2>1. ~ (i >= cursor)
    BY <1>1, <1>2, <1>3
  <2> QED BY <2>1 DEF Reaping
<1> QED BY <1>10, <1>11, <1>12, <1>13, <1>14

(* Removing the dead stream under the cursor brings the next one, which is  *)
(* also one line short, under the cursor that stays.                        *)
LEMMA DropKeepsInv ==
    ASSUME IInv, TypeOK', DropClient
    PROVE  IInv'
<1> USE Facts DEF IInv
<1>1. cursor \in 1 .. Len(clients) /\ bpc = "write"
  BY DEF DropClient, TypeOK
<1>2. UNCHANGED <<bpc, line, cursor, accepting, backlog, conn, out, cast, joined, closedAt>>
  BY DEF DropClient
<1>3. /\ Len(clients') = Len(clients) - 1
      /\ \A j \in 1 .. Len(clients') :
             clients'[j] = IF j < cursor THEN clients[j] ELSE clients[j + 1]
  <2>1. clients \in Seq(Clients) /\ clients' = VecRemove(clients, cursor)
    BY DEF DropClient, TypeOK
  <2> QED BY ZenonT(60), <1>1, <2>1, VecRemoveFacts
<1>4. ASSUME NEW j \in 1 .. Len(clients')
      PROVE  \E i \in 1 .. Len(clients) :
                 /\ clients'[j] = clients[i]
                 /\ i = IF j < cursor THEN j ELSE j + 1
                 /\ i >= cursor <=> j >= cursor
  BY <1>1, <1>3
<1>5. NoDuplicate'
  BY <1>1, <1>3 DEF NoDuplicate
<1>6. Lifecycle'
  BY <1>2, <1>4 DEF Lifecycle
<1>7. Positions'
  <2>1. \A d \in Clients : Greeted(d)' = Greeted(d) /\ Handed(d)' = Handed(d)
    BY <1>2 DEF Greeted, Handed
  <2>2. \A j \in 1 .. Len(clients') :
            Handed(clients[j])' = IF j >= cursor THEN Len(cast) - 1 ELSE Len(cast)
    <3> TAKE j \in 1 .. Len(clients')
    <3>1. PICK i \in 1 .. Len(clients) :
              clients'[j] = clients[i] /\ (i >= cursor <=> j >= cursor)
      BY <1>4
    <3>2. Handed(clients[i]) = IF i >= cursor THEN Len(cast) - 1 ELSE Len(cast)
      BY <1>1 DEF Positions
    <3>3. Handed(clients[j])' = Handed(clients[i])
      BY <1>2, <3>1 DEF Handed, Greeted
    <3> QED BY <3>1, <3>2, <3>3
  <2>3. cursor' <= Len(clients') + 1
    BY <1>1, <1>2, <1>3
  <2> QED BY <1>1, <1>2, <2>1, <2>2, <2>3 DEF Positions
<1>8. GapFree'
  BY <1>2 DEF GapFree, Greeted
<1>9. Reaping'
  <2> SUFFICES ASSUME NEW j \in 1 .. Len(clients'),
                      conn[clients'[j]] = "closed", ~ (j >= cursor)
               PROVE  Len(cast) \in {closedAt[clients'[j]], joined[clients'[j]]}
    BY <1>1, <1>2 DEF Reaping
  <2>1. j \in 1 .. Len(clients) /\ clients'[j] = clients[j]
    BY <1>1, <1>3
  <2> QED BY <2>1 DEF Reaping
<1> QED BY <1>5, <1>6, <1>7, <1>8, <1>9

(* Every step of the broadcast keeps the invariant. *)
LEMMA InvStep == IInv /\ [Next]_bvars => IInv'
<1> SUFFICES ASSUME IInv, [Next]_bvars PROVE IInv'
  OBVIOUS
<1>1. TypeOK'
  BY TypeStep DEF IInv
<1>2. CASE UNCHANGED bvars
  <2>1. NoDuplicate' /\ Positions' /\ GapFree'
    BY <1>2, FramePositions DEF bvars
  <2>2. Lifecycle' /\ Reaping'
    BY <1>2 DEF bvars, IInv, Lifecycle, Reaping
  <2> QED BY <1>1, <2>1, <2>2 DEF IInv
<1>3. CASE Next
  BY <1>1, <1>3, EnvironmentKeepsInv, AcceptLoopKeepsInv, RecvKeepsInv,
     LockKeepsInv, WriteKeepsInv, DropKeepsInv DEF Next, BroadcastLoop
<1> QED BY <1>2, <1>3

(* The invariant holds in every behaviour. *)
LEMMA InvHolds == Spec => []IInv
BY InvInit, InvStep, PTL DEF Spec

(* Every client's stream is hawkd's greeting and then consecutive lines of   *)
(* the broadcast, whatever the interleaving of accept_loop, broadcast() and  *)
(* clients that come, stall and go.                                          *)
THEOREM StreamsAreGapFree == Spec => []GapFree
BY InvHolds, PTL DEF IInv

(* Between two broadcasts no registered client is short of a line. *)
THEOREM NobodyLeftBehind == Spec => []NoneLeftBehind
<1>1. IInv => NoneLeftBehind
  BY Facts DEF IInv, Positions, NoneLeftBehind, Registered
<1> QED BY <1>1, InvHolds, PTL

(* broadcast() removes a closed stream at the first line after it closed. *)
THEOREM ClosedAreReaped == Spec => []ReapedByNextLine
<1>1. IInv => ReapedByNextLine
  BY DEF IInv, Reaping, ReapedByNextLine, Registered
<1> QED BY <1>1, InvHolds, PTL

(* No step takes an open client off the list: only a failed write_all does. *)
THEOREM OpenClientsAreKept == Spec => OpenClientKept
<1> DEFINE Kept == \A c \in Clients : Registered(c) /\ conn[c] = "open" => Registered(c)'
<1>1. IInv /\ [Next]_bvars => [Kept]_bvars
  <2> SUFFICES ASSUME IInv, Next, NEW c \in Clients, Registered(c), conn[c] = "open"
               PROVE  Registered(c)'
    BY DEF bvars
  <2> USE Facts DEF IInv
  <2>1. PICK i \in 1 .. Len(clients) : clients[i] = c
    BY DEF Registered
  <2>2. CASE clients' = clients
    BY <2>1, <2>2 DEF Registered
  <2>3. CASE PushClient
    <3>1. /\ clients \in Seq(Clients) /\ accepting \in Clients
          /\ clients' = Append(clients, accepting)
      BY <2>3 DEF PushClient, TypeOK
    <3>2. Len(clients') = Len(clients) + 1 /\ clients'[i] = c
      BY <2>1, <3>1, AppendProperties
    <3> QED BY <3>2 DEF Registered
  <2>4. CASE DropClient
    <3>1. /\ clients \in Seq(Clients) /\ cursor \in 1 .. Len(clients)
          /\ clients' = VecRemove(clients, cursor)
          /\ conn[clients[cursor]] = "closed"
      BY <2>4 DEF DropClient, TypeOK
    <3>2. /\ Len(clients') = Len(clients) - 1
          /\ \A j \in 1 .. Len(clients') :
                 clients'[j] = IF j < cursor THEN clients[j] ELSE clients[j + 1]
      BY ZenonT(60), <3>1, VecRemoveFacts
    <3>3. i # cursor
      BY <2>1, <3>1
    <3>4. CASE i < cursor
      <4>1. i \in 1 .. Len(clients') /\ clients'[i] = c
        BY <2>1, <3>1, <3>2, <3>4
      <4> QED BY <4>1 DEF Registered
    <3>5. CASE i > cursor
      <4>1. i - 1 \in 1 .. Len(clients') /\ clients'[i - 1] = c
        BY <2>1, <3>1, <3>2, <3>5
      <4> QED BY <4>1 DEF Registered
    <3> QED BY <3>1, <3>3, <3>4, <3>5
  <2> QED BY ZenonT(60), <2>2, <2>3, <2>4
        DEF Next, Send, Client, Connect, Read, Close, AcceptLoop, AcceptClient,
            BroadcastLoop, TakeLine, LockClients, WriteClient, EndBroadcast
<1>2. Spec => [][Kept]_bvars
  BY <1>1, InvHolds, PTL DEF Spec
<1> QED BY <1>2 DEF OpenClientKept

-------------------------------------------------------------------------------
(* Refinement: accept_loop and broadcast() implement FanOut. *)

(* How far the promise's reader has come, as HawkdBroadcast maps it. *)
Mapped == [c \in Clients |-> IF joined[c] = NotJoined THEN NotJoined ELSE Handed(c)]

(* The initial states are those of the abstract specification. *)
LEMMA RefineInit == Init => Promise!Init
BY DEF Init, Promise!Init

(* Every step is one of the abstract specification, or a stutter. *)
LEMMA RefineStep == IInv /\ [Next]_bvars => [Promise!Next]_(Promise!vars)
<1> SUFFICES ASSUME IInv, [Next]_bvars PROVE Promise!Next \/ UNCHANGED Promise!vars
  OBVIOUS
<1> USE Facts DEF IInv
<1>1. ASSUME UNCHANGED <<cast, out, joined>> PROVE UNCHANGED Promise!vars
  BY <1>1 DEF Promise!vars, Handed, Greeted
<1>2. ASSUME LockClients PROVE Promise!Next
  <2>1. cast' = Append(cast, line) /\ UNCHANGED <<out, joined>> /\ line \in Lines
    BY <1>2 DEF LockClients, TypeOK
  <2>2. Promise!Publish(line)
    BY <2>1 DEF Promise!Publish, Handed, Greeted
  <2> QED BY <2>1, <2>2 DEF Promise!Next
<1>3. ASSUME NEW c \in Clients, AcceptClient(c)
      PROVE  Promise!Next \/ UNCHANGED Promise!vars
  <2>1. joined[c] = NotJoined /\ out[c] = <<>> /\ UNCHANGED <<cast, joined>>
    BY ZenonT(60), <1>3 DEF AcceptClient, Lifecycle
  <2>2. CASE ClientBanner /\ conn[c] = "open"
    <3>1. out' = [out EXCEPT ![c] = <<Banner>>]
      BY <1>3, <2>2 DEF AcceptClient
    <3>2. ASSUME NEW d \in Clients
          PROVE  (IF joined'[d] = NotJoined THEN NotJoined ELSE Handed(d)') = Mapped[d]
      BY <2>1, <3>1 DEF Mapped, Handed, Greeted, TypeOK
    <3>3. Mapped' = Mapped
      BY <3>2 DEF Mapped
    <3>4. Promise!Greet(c)
      BY <2>1, <3>1, <3>3 DEF Promise!Greet, Mapped
    <3> QED BY ZenonT(60), <3>4 DEF Promise!Next
  <2>3. CASE ~ (ClientBanner /\ conn[c] = "open")
    <3>1. out' = out
      BY <1>3, <2>3 DEF AcceptClient, TypeOK
    <3> QED BY <1>1, <2>1, <3>1
  <2> QED BY <2>2, <2>3
<1>4. ASSUME PushClient PROVE Promise!Next
  <2>1. PICK c \in Clients : c = accepting
    BY <1>4 DEF PushClient, TypeOK
  <2>2. /\ joined[c] = NotJoined /\ Len(out[c]) = Greeted(c)
        /\ joined' = [joined EXCEPT ![c] = Len(cast)]
        /\ UNCHANGED <<cast, out>>
    BY <1>4, <2>1 DEF PushClient, Lifecycle, Positions
  <2>3. ASSUME NEW d \in Clients
        PROVE  (IF joined'[d] = NotJoined THEN NotJoined ELSE Handed(d)')
                 = [Mapped EXCEPT ![c] = Len(cast)][d]
    <3>1. CASE d = c
      BY <2>2, <3>1 DEF Mapped, Handed, Greeted, TypeOK, NotJoined
    <3>2. CASE d # c
      BY <2>2, <3>2 DEF Mapped, Handed, Greeted, TypeOK
    <3> QED BY <3>1, <3>2
  <2>4. Mapped' = [Mapped EXCEPT ![c] = Len(cast)]
    BY ZenonT(60), <2>3 DEF Mapped
  <2>5. Promise!Join(c)
    BY <2>2, <2>4 DEF Promise!Join, Mapped
  <2> QED BY <2>5 DEF Promise!Next
<1>5. ASSUME WriteClient PROVE Promise!Next
  <2>1. cursor \in 1 .. Len(clients) /\ bpc = "write" /\ line \in Lines
    BY <1>5 DEF WriteClient, TypeOK
  <2>2. PICK c \in Clients : c = clients[cursor]
    BY <2>1
  <2>3. out' = [out EXCEPT ![c] = Append(@, line)] /\ UNCHANGED <<cast, joined>>
    BY ZenonT(60), <1>5, <2>2 DEF WriteClient
  <2>4. joined[c] # NotJoined /\ Handed(c) = Len(cast) - 1 /\ cast[Len(cast)] = line
    BY <2>1, <2>2 DEF Lifecycle, Positions
  <2>5. out[c] \in Seq(Lines \cup {Banner}) /\ line \in Lines \cup {Banner}
    BY <2>1 DEF TypeOK
  <2>6. /\ out'[c] = Append(out[c], line)
        /\ \A d \in Clients : d # c => out'[d] = out[d]
    BY <2>3 DEF TypeOK
  <2>7. Len(out'[c]) = Len(out[c]) + 1 /\ GreetLen(out'[c]) = GreetLen(out[c])
    BY <2>1, <2>5, <2>6, AppendProperties, GreetLenAppend
  <2>8. Handed(c)' = Handed(c) + 1 /\ Handed(c) \in Int
    BY <2>3, <2>7 DEF Handed, Greeted
  <2>9. \A d \in Clients : d # c => Handed(d)' = Handed(d)
    BY <2>3, <2>6 DEF Handed, Greeted
  <2>10. ASSUME NEW d \in Clients
         PROVE  (IF joined'[d] = NotJoined THEN NotJoined ELSE Handed(d)')
                  = [Mapped EXCEPT ![c] = Mapped[c] + 1][d]
    BY <2>3, <2>4, <2>8, <2>9 DEF Mapped
  <2>11. Mapped' = [Mapped EXCEPT ![c] = Mapped[c] + 1]
    BY ZenonT(60), <2>10 DEF Mapped
  <2>12. /\ Mapped[c] = Len(cast) - 1 /\ Mapped[c] # NotJoined
         /\ cast[Mapped[c] + 1] = line /\ Mapped[c] < Len(cast)
    BY <2>1, <2>4 DEF Mapped, Positions, NotJoined
  <2>13. Promise!Deliver(c)
    BY <2>3, <2>11, <2>12 DEF Promise!Deliver, Mapped
  <2> QED BY <2>13 DEF Promise!Next
<1>6. CASE UNCHANGED bvars
  BY <1>1, <1>6 DEF bvars
<1>7. CASE (\E l \in Lines : Send(l)) \/ \E c \in Clients : Client(c)
  BY <1>1, <1>7 DEF Send, Client, Connect, Read, Close
<1>8. CASE TakeLine \/ DropClient \/ EndBroadcast
  BY <1>1, <1>8 DEF TakeLine, DropClient, EndBroadcast
<1> QED BY <1>2, <1>3, <1>4, <1>5, <1>6, <1>7, <1>8 DEF Next, AcceptLoop, BroadcastLoop

(* hawkd's broadcast socket keeps the promise of FanOut: one log, and every *)
(* client handed consecutive lines of it from the point where it joined.    *)
THEOREM BroadcastImplementsFanOut == Spec => ImplementsFanOut
<1>1. Spec => Promise!Init /\ [][Promise!Next]_(Promise!vars)
  BY RefineInit, RefineStep, InvHolds, PTL DEF Spec
<1> QED BY <1>1 DEF ImplementsFanOut, Promise!Spec

-------------------------------------------------------------------------------
(* The sources *)

PcValues == {"off", "read", "send", "done", "panicked"}

(* The answer in hand is to the last line read. *)
Hands ==
    \A s \in Sources :
        pc[s] = "send" =>
            /\ pend[s][1].src = s
            /\ pend[s][1].n = sent[s] + 1
            /\ pend[s][1].input = Len(read[s])
            /\ pend[s][1].kind = "frame" <=> read[s][Len(read[s])].kind = "frame"

(* In a strict run a source that still reads has met no bad line. *)
NoBadYet ==
    strict => \A s \in Sources :
        pc[s] \in {"off", "read"} => \A k \in 1 .. Len(read[s]) : read[s][k].kind # "bad"

SIInv ==
    /\ STypeOK
    /\ spine \in Seq(SpineLine)
    /\ Hands
    /\ ForwardsInOrder
    /\ NoBadYet
    /\ StrictStopsAtBadLine

-------------------------------------------------------------------------------
(* What the handler of a line does, in the two cases that matter: it has an *)
(* answer in hand, or it has none and, in a strict run, does not read on    *)
(* after a bad line.                                                        *)
LEMMA ReadOutcome ==
    ASSUME STypeOK, NEW s \in Sources, NEW x \in Inputs, ReadLine(s, x)
    PROVE  \/ /\ Answered(s, x)
              /\ pc' = [pc EXCEPT ![s] = "send"]
              /\ \E kind \in {"frame", "error", "notice"} :
                    /\ kind = "frame" <=> x.kind = "frame"
                    /\ pend' = [pend EXCEPT ![s] = <<Emitted(s, kind)>>]
           \/ /\ ~Answered(s, x)
              /\ pend' = pend
              /\ \E to \in {"read", "done", "panicked"} :
                    /\ pc' = [pc EXCEPT ![s] = to]
                    /\ strict /\ x.kind = "bad" => to # "read"
<1> USE DEF STypeOK, Answered
<1>1. x.kind \in {"frame", "skip", "bad", "garbled"} /\ ~(s \in Stdin /\ s \in Ingest)
  BY SourcesAssumption DEF InputLine
<1>2. ASSUME Skip PROVE pend' = pend /\ pc' = [pc EXCEPT ![s] = "read"]
  BY <1>2 DEF Skip, ReadLine
<1>3. CASE StdinLine(s, x)
  BY <1>1, <1>2, <1>3 DEF StdinLine, Forward, Stop, FrameLine, StrictNotice
<1>4. CASE IngestLine(s, x)
  BY <1>1, <1>2, <1>4 DEF IngestLine, Forward, Stop, FrameLine, ParseErrorFrame
<1> QED
  BY <1>3, <1>4 DEF ReadLine

(* A line a source makes up is one the spine may carry. *)
LEMMA EmittedType ==
    ASSUME STypeOK, NEW s \in Sources, pc[s] = "read", Len(read[s]) < MaxRead,
           NEW kind \in {"frame", "error", "notice"}
    PROVE  Emitted(s, kind) \in SpineLine
<1>1. sent[s] \in Nat /\ Len(read[s]) \in Nat /\ sent[s] <= Len(read[s])
  BY DEF STypeOK
<1>2. sent[s] + 1 \in 1 .. MaxRead /\ Len(read[s]) + 1 \in 1 .. MaxRead
  BY <1>1, SourcesAssumption
<1> QED
  BY <1>2 DEF Emitted, SpineLine

(* Reading appends to what was read. *)
LEMMA ReadGrows ==
    ASSUME STypeOK, NEW s \in Sources, NEW x \in Inputs, ReadLine(s, x)
    PROVE  /\ pc[s] = "read" /\ pend[s] = <<>>
           /\ read' \in [Sources -> Seq(Inputs)]
           /\ Len(read'[s]) = Len(read[s]) + 1
           /\ Len(read'[s]) <= MaxRead
           /\ read'[s][Len(read[s]) + 1] = x
           /\ \A k \in 1 .. Len(read[s]) : read'[s][k] = read[s][k]
           /\ \A t \in Sources \ {s} : read'[t] = read[t]
BY SourcesAssumption DEF STypeOK, ReadLine

(* The same, seen from the source that reads ... *)
LEMMA ReadHere ==
    ASSUME STypeOK, NEW s \in Sources, NEW x \in Inputs, ReadLine(s, x)
    PROVE  \/ /\ Answered(s, x)
              /\ pc'[s] = "send"
              /\ \E kind \in {"frame", "error", "notice"} :
                    /\ kind = "frame" <=> x.kind = "frame"
                    /\ pend'[s] = <<Emitted(s, kind)>>
           \/ /\ ~Answered(s, x)
              /\ pend'[s] = <<>>
              /\ pc'[s] \in {"read", "done", "panicked"}
              /\ strict /\ x.kind = "bad" => pc'[s] # "read"
<1>1. s \in DOMAIN pc /\ s \in DOMAIN pend /\ pend[s] = <<>>
  BY ReadGrows DEF STypeOK
<1> QED
  BY <1>1, ReadOutcome, ZenonT(60)

(* ... and from any other. *)
LEMMA ReadElsewhere ==
    ASSUME STypeOK, NEW s \in Sources, NEW x \in Inputs, ReadLine(s, x),
           NEW t \in Sources, t # s
    PROVE  pc'[t] = pc[t] /\ pend'[t] = pend[t] /\ read'[t] = read[t]
<1>1. t \in DOMAIN pc /\ t \in DOMAIN pend
  BY DEF STypeOK
<1>2. pc'[t] = pc[t] /\ pend'[t] = pend[t]
  BY <1>1, ReadOutcome
<1> QED
  BY <1>2, ReadGrows

(* The initial states satisfy the invariant. *)
LEMMA SInvInit == SInit => SIInv
<1> SUFFICES ASSUME SInit PROVE SIInv
  OBVIOUS
<1> USE SourcesAssumption DEF SInit
<1>1. STypeOK
  BY DEF STypeOK
<1>2. spine \in Seq(SpineLine) /\ Hands /\ NoBadYet /\ StrictStopsAtBadLine
  BY DEF Hands, NoBadYet, StrictStopsAtBadLine
<1>3. ForwardsInOrder
  BY DEF ForwardsInOrder, OnceIfOwed, OnSpine, InHand
<1> QED
  BY <1>1, <1>2, <1>3 DEF SIInv

(* Every step keeps the types. *)
LEMMA STypeStep == ASSUME STypeOK, SNext PROVE STypeOK'
<1> USE SourcesAssumption DEF STypeOK
<1>1. ASSUME NEW s \in Sources, NEW x \in Inputs, ReadLine(s, x)
      PROVE  STypeOK'
  <2>1. \A kind \in {"frame", "error", "notice"} : Emitted(s, kind) \in SpineLine
    BY <1>1, EmittedType DEF ReadLine
  <2>2. UNCHANGED <<strict, sent>>
    BY <1>1 DEF ReadLine
  <2>3. CASE /\ pc' = [pc EXCEPT ![s] = "send"]
             /\ \E kind \in {"frame", "error", "notice"} :
                   pend' = [pend EXCEPT ![s] = <<Emitted(s, kind)>>]
    <3>1. PICK l \in SpineLine : pend' = [pend EXCEPT ![s] = <<l>>]
      BY ZenonT(60), <2>1, <2>3
    <3>2. <<l>> \in Seq(SpineLine) /\ Len(<<l>>) = 1
      OBVIOUS
    <3>3. pend' \in [Sources -> Seq(SpineLine)] /\ pc' \in [Sources -> PcValues]
      BY <2>3, <3>1, <3>2 DEF PcValues
    <3>4. ASSUME NEW t \in Sources
          PROVE  /\ Len(pend'[t]) = IF pc'[t] = "send" THEN 1 ELSE 0
                 /\ Len(read'[t]) <= MaxRead
                 /\ sent'[t] + Len(pend'[t]) <= Len(read'[t])
      <4>1. CASE t = s
        BY <1>1, <2>2, <2>3, <3>1, <3>2, <4>1, ReadGrows
      <4>2. CASE t # s
        BY <1>1, <2>2, <2>3, <3>1, <4>2, ReadGrows
      <4> QED
        BY <4>1, <4>2
    <3> QED
      BY <1>1, <2>2, <3>3, <3>4, ReadGrows DEF PcValues
  <2>4. CASE /\ pend' = pend
             /\ \E to \in {"read", "done", "panicked"} : pc' = [pc EXCEPT ![s] = to]
    BY <1>1, <2>2, <2>4, ReadGrows
  <2> QED
    BY ZenonT(60), <1>1, <2>3, <2>4, ReadOutcome
<1>2. ASSUME NEW s \in Sources, ReadEof(s) PROVE STypeOK'
  BY <1>2 DEF ReadEof, Stop
<1>3. ASSUME NEW s \in Sources, IngestConnect(s) PROVE STypeOK'
  BY <1>3 DEF IngestConnect
<1>4. ASSUME NEW s \in Sources, SendLine(s) PROVE STypeOK'
  <2>2. AfterSend(pend[s][1]) \in {"read", "done"}
    BY DEF AfterSend
  <2>3. strict' \in BOOLEAN
    BY <1>4 DEF SendLine
  <2>4. /\ pc' \in [Sources -> PcValues] /\ pend' \in [Sources -> Seq(SpineLine)]
        /\ read' \in [Sources -> Seq(Inputs)] /\ sent' \in [Sources -> Nat]
    BY <1>4, <2>2 DEF SendLine, PcValues
  <2>5. pend'[s] = <<>> /\ pc'[s] # "send" /\ sent'[s] = sent[s] + 1 /\ read' = read
    BY <1>4, <2>2 DEF SendLine
  <2>6. ASSUME NEW t \in Sources
        PROVE  /\ Len(pend'[t]) = IF pc'[t] = "send" THEN 1 ELSE 0
               /\ Len(read'[t]) <= MaxRead
               /\ sent'[t] + Len(pend'[t]) <= Len(read'[t])
    <3>1. CASE t = s
      <4>1. Len(pend[s]) = 1 /\ sent[s] + Len(pend[s]) <= Len(read[s]) /\ Len(read[s]) <= MaxRead
        BY <1>4 DEF SendLine
      <4>2. Len(pend'[s]) = 0 /\ sent[s] \in Nat
        BY <2>5
      <4> QED
        BY <2>5, <3>1, <4>1, <4>2
    <3>2. CASE t # s
      BY <1>4, <3>2 DEF SendLine
    <3> QED
      BY <3>1, <3>2
  <2> QED
    BY <2>3, <2>4, <2>6 DEF PcValues
<1> QED
  BY <1>1, <1>2, <1>3, <1>4 DEF SNext

(* Every step keeps what is known of the answer in hand. *)
LEMMA HandsStep == ASSUME STypeOK, Hands, SNext PROVE Hands'
<1> USE DEF Hands
<1>1. ASSUME NEW s \in Sources, NEW x \in Inputs, ReadLine(s, x) PROVE Hands'
  <2> SUFFICES ASSUME NEW t \in Sources, pc'[t] = "send"
               PROVE  /\ pend'[t][1].src = t
                      /\ pend'[t][1].n = sent'[t] + 1
                      /\ pend'[t][1].input = Len(read'[t])
                      /\ pend'[t][1].kind = "frame" <=> read'[t][Len(read'[t])].kind = "frame"
    OBVIOUS
  <2>1. CASE t # s
    <3>1. pc[t] = "send" /\ pend'[t] = pend[t] /\ read'[t] = read[t] /\ sent'[t] = sent[t]
      BY ZenonT(60), <1>1, <2>1, ReadElsewhere DEF ReadLine
    <3> QED
      BY <3>1
  <2>2. CASE t = s
    <3>1. PICK kind \in {"frame", "error", "notice"} :
              /\ kind = "frame" <=> x.kind = "frame"
              /\ pend'[s] = <<Emitted(s, kind)>>
      BY <1>1, <2>2, ReadHere
    <3>2. pend'[s][1] = Emitted(s, kind)
      BY <3>1
    <3>3. Len(read'[s]) = Len(read[s]) + 1 /\ read'[s][Len(read'[s])] = x
      BY <1>1, ReadGrows
    <3>4. sent' = sent
      BY <1>1 DEF ReadLine
    <3> QED
      BY <2>2, <3>1, <3>2, <3>3, <3>4 DEF Emitted
  <2> QED
    BY <2>1, <2>2
<1> USE DEF STypeOK
<1>2. ASSUME NEW s \in Sources, ReadEof(s) PROVE Hands'
  BY <1>2 DEF ReadEof, Stop
<1>3. ASSUME NEW s \in Sources, IngestConnect(s) PROVE Hands'
  BY <1>3 DEF IngestConnect
<1>4. ASSUME NEW s \in Sources, SendLine(s) PROVE Hands'
  <2>1. pc'[s] # "send"
    BY <1>4 DEF SendLine, AfterSend
  <2> QED
    BY <1>4, <2>1 DEF SendLine
<1> QED
  BY <1>1, <1>2, <1>3, <1>4 DEF SNext

(* The spine only carries what sources make up. *)
LEMMA SpineStep ==
    ASSUME STypeOK, spine \in Seq(SpineLine), SNext
    PROVE  (spine \in Seq(SpineLine))'
<1>1. ASSUME NEW s \in Sources, SendLine(s) PROVE (spine \in Seq(SpineLine))'
  <2>1. pend[s] \in Seq(SpineLine) /\ Len(pend[s]) = 1
    BY <1>1 DEF STypeOK, SendLine
  <2>2. pend[s][1] \in SpineLine
    BY <2>1
  <2> QED
    BY <1>1, <2>2 DEF SendLine
<1> QED
  BY <1>1 DEF SNext, ReadLine, ReadEof, IngestConnect

(* Every step keeps a strict source from reading past a bad line. *)
LEMMA StrictStep == ASSUME SIInv, SNext PROVE NoBadYet' /\ StrictStopsAtBadLine'
<1> USE DEF SIInv, NoBadYet, StrictStopsAtBadLine
<1>1. ASSUME NEW s \in Sources, NEW x \in Inputs, ReadLine(s, x)
      PROVE  NoBadYet' /\ StrictStopsAtBadLine'
  <2> SUFFICES ASSUME strict, NEW t \in Sources
               PROVE  /\ pc'[t] \in {"off", "read"} =>
                             \A k \in 1 .. Len(read'[t]) : read'[t][k].kind # "bad"
                      /\ \A k \in 1 .. Len(read'[t]) - 1 : read'[t][k].kind # "bad"
    BY <1>1 DEF ReadLine
  <2>1. CASE t # s
    <3>1. pc'[t] = pc[t] /\ read'[t] = read[t]
      BY <1>1, <2>1, ReadElsewhere
    <3> QED
      BY <3>1
  <2>2. CASE t = s
    <3>0. pc[s] = "read" /\ \A k \in 1 .. Len(read[s]) : read'[s][k] = read[s][k]
      BY <1>1, ReadGrows
    <3>1. \A k \in 1 .. Len(read[s]) : read'[s][k].kind # "bad"
      BY <3>0
    <3>2. pc'[s] \in {"off", "read"} => x.kind # "bad"
      BY <1>1, ReadHere
    <3>3. /\ Len(read[s]) \in Nat /\ Len(read'[s]) = Len(read[s]) + 1
          /\ read'[s][Len(read[s]) + 1] = x
      BY <1>1, ReadGrows DEF STypeOK
    <3> QED
      BY <2>2, <3>1, <3>2, <3>3
  <2> QED
    BY <2>1, <2>2
<1> USE DEF STypeOK
<1>2. ASSUME NEW s \in Sources, ReadEof(s) PROVE NoBadYet' /\ StrictStopsAtBadLine'
  BY ZenonT(60), <1>2 DEF ReadEof, Stop
<1>3. ASSUME NEW s \in Sources, IngestConnect(s) PROVE NoBadYet' /\ StrictStopsAtBadLine'
  BY Zenon, <1>3 DEF IngestConnect
<1>4. ASSUME NEW s \in Sources, SendLine(s) PROVE NoBadYet' /\ StrictStopsAtBadLine'
  <2>1. UNCHANGED <<strict, read>> /\ \A t \in Sources \ {s} : pc'[t] = pc[t]
    BY <1>4 DEF SendLine
  <2>2. ASSUME strict, pc'[s] \in {"off", "read"}, NEW k \in 1 .. Len(read[s])
        PROVE  read[s][k].kind # "bad"
    <3>1. read[s][Len(read[s])].kind = "frame"
      BY <1>4, <2>2 DEF SendLine, AfterSend, Hands
    <3>2. CASE k = Len(read[s])
      BY <3>1, <3>2
    <3>3. CASE k # Len(read[s])
      BY <2>2, <3>3
    <3> QED
      BY <3>2, <3>3
  <2> QED
    BY ZenonT(60), <2>1, <2>2
<1> QED
  BY <1>1, <1>2, <1>3, <1>4 DEF SNext
(* Reading a line keeps the order on the spine: the line is in hand exactly *)
(* if it is to be answered.                                                 *)
LEMMA ReadKeepsOrder ==
    ASSUME SIInv, NEW s \in Sources, NEW x \in Inputs, ReadLine(s, x)
    PROVE  ForwardsInOrder'
<1>1. UNCHANGED <<spine, strict>>
  BY DEF ReadLine
<1>2. ASSUME NEW t \in Sources, NEW k \in 1 .. MaxRead, t # s
      PROVE  /\ (OnSpine(t, k) <=> OnSpine(t, k)') /\ (InHand(t, k) <=> InHand(t, k)')
             /\ read'[t] = read[t]
  BY <1>1, <1>2, ReadElsewhere DEF SIInv, OnSpine, InHand
<1>3. ASSUME NEW k \in 1 .. MaxRead
      PROVE  /\ OnSpine(s, k) \/ InHand(s, k) <=> k <= Len(read[s]) /\ Answered(s, read[s][k])
             /\ ~InHand(s, k)
             /\ OnSpine(s, k) <=> OnSpine(s, k)'
  BY <1>1, ReadGrows DEF SIInv, ForwardsInOrder, OnceIfOwed, OnSpine, InHand
<1>4. /\ Len(read[s]) \in Nat /\ Len(read'[s]) = Len(read[s]) + 1
      /\ read'[s][Len(read[s]) + 1] = x
      /\ \A k \in 1 .. Len(read[s]) : read'[s][k] = read[s][k]
  BY ReadGrows DEF SIInv, STypeOK
<1>5. ASSUME NEW k \in 1 .. MaxRead
      PROVE  InHand(s, k)' <=> k = Len(read[s]) + 1 /\ Answered(s, x)
  <2>1. CASE Answered(s, x)
    <3>1. PICK kind : pend'[s] = <<Emitted(s, kind)>>
      BY <2>1, ReadHere DEF SIInv
    <3>2. pend'[s] # <<>> /\ pend'[s][1].input = Len(read[s]) + 1
      BY <3>1 DEF Emitted
    <3> QED
      BY <2>1, <3>2 DEF InHand
  <2>2. CASE ~Answered(s, x)
    BY <2>2, ReadHere DEF SIInv, InHand
  <2> QED
    BY <2>1, <2>2
<1>6. ASSUME NEW k \in 1 .. MaxRead
      PROVE  /\ OnSpine(s, k)' \/ InHand(s, k)' <=>
                    k <= Len(read'[s]) /\ Answered(s, read'[s][k])
             /\ ~(OnSpine(s, k)' /\ InHand(s, k)')
  <2>1. CASE k <= Len(read[s])
    <3>1. read'[s][k] = read[s][k] /\ k # Len(read[s]) + 1 /\ k <= Len(read'[s])
      BY <1>4, <2>1
    <3> QED
      BY <1>3, <1>5, <2>1, <3>1
  <2>2. CASE k = Len(read[s]) + 1
    <3>1. ~(k <= Len(read[s])) /\ k <= Len(read'[s]) /\ read'[s][k] = x
      BY <1>4, <2>2
    <3> QED
      BY <1>3, <1>5, <2>2, <3>1
  <2>3. CASE ~(k <= Len(read[s])) /\ k # Len(read[s]) + 1
    <3>1. ~(k <= Len(read'[s]))
      BY <1>4, <2>3
    <3> QED
      BY <1>3, <1>5, <2>3, <3>1
  <2> QED
    BY <2>1, <2>2, <2>3
<1>7. \A t \in Sources : \A y : Answered(t, y)' <=> Answered(t, y)
  BY <1>1 DEF Answered
<1>8. \A i, j \in 1 .. Len(spine') :
         i < j /\ spine'[i].src = spine'[j].src => spine'[i].input < spine'[j].input
  BY <1>1 DEF SIInv, ForwardsInOrder
<1>9. ASSUME NEW t \in Sources, NEW k \in 1 .. MaxRead
      PROVE  OnceIfOwed(t, k)'
  <2>1. CASE t = s
    BY <1>6, <1>7, <2>1 DEF OnceIfOwed
  <2>2. CASE t # s
    <3>1. OnceIfOwed(t, k)
      BY DEF SIInv, ForwardsInOrder
    <3> QED
      BY <1>2, <1>7, <2>2, <3>1 DEF OnceIfOwed
  <2> QED
    BY <2>1, <2>2
<1> QED
  BY <1>8, <1>9 DEF ForwardsInOrder

(* Sending the answer in hand keeps the order: its input is later than any  *)
(* the source has on the spine.                                             *)
LEMMA SendKeepsOrder ==
    ASSUME SIInv, NEW s \in Sources, SendLine(s)
    PROVE  ForwardsInOrder'
<1> DEFINE l == pend[s][1]
<1>1. /\ l \in SpineLine /\ l.src = s /\ l.input = Len(read[s])
      /\ pend[s] # <<>> /\ l.input \in 1 .. MaxRead
  <2>1. pend[s] \in Seq(SpineLine) /\ Len(pend[s]) = 1 /\ pc[s] = "send"
    BY DEF SIInv, STypeOK, SendLine
  <2>2. l \in SpineLine
    BY <2>1
  <2>3. pend[s] # <<>>
    <3>1. Len(pend[s]) # Len(<<>>)
      BY <2>1
    <3> QED
      BY <3>1, ZenonT(60)
  <2> QED
    BY <2>1, <2>2, <2>3 DEF SIInv, Hands, SpineLine
<1>2. /\ spine \in Seq(SpineLine) /\ spine' = Append(spine, l)
      /\ UNCHANGED <<strict, read>> /\ pend' = [pend EXCEPT ![s] = <<>>]
  BY DEF SIInv, SendLine
<1>3. /\ Len(spine) \in Nat /\ Len(spine') = Len(spine) + 1 /\ spine'[Len(spine) + 1] = l
      /\ \A i \in 1 .. Len(spine) : spine'[i] = spine[i] /\ spine[i] \in SpineLine
  BY <1>1, <1>2
<1> HIDE DEF l
<1>4. ASSUME NEW k \in 1 .. MaxRead PROVE InHand(s, k) <=> k = l.input
  BY <1>1 DEF InHand, l
<1>5. ASSUME NEW i \in 1 .. Len(spine), spine[i].src = s PROVE spine[i].input < l.input
  <2>1. spine[i].input \in 1 .. MaxRead /\ OnSpine(s, spine[i].input)
    BY <1>3, <1>5 DEF OnSpine, SpineLine
  <2>2. spine[i].input <= Len(read[s]) /\ ~InHand(s, spine[i].input)
    BY <2>1 DEF SIInv, ForwardsInOrder, OnceIfOwed
  <2> QED
    BY <1>1, <1>4, <2>1, <2>2
<1>6. \A i, j \in 1 .. Len(spine') :
         i < j /\ spine'[i].src = spine'[j].src => spine'[i].input < spine'[j].input
  <2> SUFFICES ASSUME NEW i \in 1 .. Len(spine'), NEW j \in 1 .. Len(spine'),
                      i < j, spine'[i].src = spine'[j].src
               PROVE  spine'[i].input < spine'[j].input
    OBVIOUS
  <2>1. i \in 1 .. Len(spine) /\ spine'[i] = spine[i]
    BY <1>3
  <2>2. CASE j = Len(spine) + 1
    BY <1>1, <1>3, <1>5, <2>1, <2>2
  <2>3. CASE j # Len(spine) + 1
    <3>1. j \in 1 .. Len(spine) /\ spine'[j] = spine[j]
      BY <1>3, <2>3
    <3> QED
      BY <2>1, <3>1 DEF SIInv, ForwardsInOrder
  <2> QED
    BY <2>2, <2>3
<1>7. ASSUME NEW t \in Sources, NEW k \in 1 .. MaxRead
      PROVE  OnSpine(t, k)' <=> OnSpine(t, k) \/ (t = s /\ k = l.input)
  <2>1. ASSUME OnSpine(t, k)' PROVE OnSpine(t, k) \/ (t = s /\ k = l.input)
    <3>1. PICK i \in 1 .. Len(spine') : spine'[i].src = t /\ spine'[i].input = k
      BY <2>1 DEF OnSpine
    <3>2. CASE i = Len(spine) + 1
      BY <1>1, <1>3, <3>1, <3>2
    <3>3. CASE i # Len(spine) + 1
      <4>1. i \in 1 .. Len(spine) /\ spine'[i] = spine[i]
        BY <1>3, <3>3
      <4> QED
        BY <3>1, <4>1 DEF OnSpine
    <3> QED
      BY <3>2, <3>3
  <2>2. ASSUME OnSpine(t, k) PROVE OnSpine(t, k)'
    <3>1. PICK i \in 1 .. Len(spine) : spine[i].src = t /\ spine[i].input = k
      BY <2>2 DEF OnSpine
    <3>2. i \in 1 .. Len(spine') /\ spine'[i] = spine[i]
      BY <1>3
    <3> QED
      BY <3>1, <3>2 DEF OnSpine
  <2>3. ASSUME t = s, k = l.input PROVE OnSpine(t, k)'
    <3>1. Len(spine) + 1 \in 1 .. Len(spine')
      BY <1>3
    <3> QED
      BY <1>1, <1>3, <2>3, <3>1 DEF OnSpine
  <2> QED
    BY <2>1, <2>2, <2>3
<1>8. ASSUME NEW t \in Sources, NEW k \in 1 .. MaxRead
      PROVE  InHand(t, k)' <=> InHand(t, k) /\ t # s
  BY <1>2 DEF InHand, SIInv, STypeOK
<1>9. \A t \in Sources : \A y : Answered(t, y)' <=> Answered(t, y)
  BY <1>2 DEF Answered
<1>10. ASSUME NEW t \in Sources, NEW k \in 1 .. MaxRead
       PROVE  OnceIfOwed(t, k)'
  <2>1. /\ OnSpine(t, k) \/ InHand(t, k) <=> k <= Len(read[t]) /\ Answered(t, read[t][k])
        /\ ~(OnSpine(t, k) /\ InHand(t, k))
    BY DEF SIInv, ForwardsInOrder, OnceIfOwed
  <2>2. CASE t = s
    BY <1>2, <1>4, <1>7, <1>8, <1>9, <2>1, <2>2 DEF OnceIfOwed
  <2>3. CASE t # s
    BY <1>2, <1>7, <1>8, <1>9, <2>1, <2>3 DEF OnceIfOwed
  <2> QED
    BY <2>2, <2>3
<1> QED
  BY <1>6, <1>10 DEF ForwardsInOrder

(* A step that leaves the spine, the inputs read and the answers in hand    *)
(* alone keeps the order.                                                   *)
LEMMA OrderUnchanged ==
    ASSUME ForwardsInOrder, UNCHANGED <<spine, strict, pend, read>>
    PROVE  ForwardsInOrder'
<1>1. spine' = spine /\ strict' = strict /\ pend' = pend /\ read' = read
  OBVIOUS
<1>2. \A i, j \in 1 .. Len(spine') :
         i < j /\ spine'[i].src = spine'[j].src => spine'[i].input < spine'[j].input
  BY Zenon, <1>1 DEF ForwardsInOrder
<1>3. ASSUME NEW t \in Sources, NEW k \in 1 .. MaxRead
      PROVE  OnceIfOwed(t, k)'
  <2>1. OnceIfOwed(t, k)
    BY Zenon DEF ForwardsInOrder
  <2>2. OnSpine(t, k)' <=> OnSpine(t, k)
    BY Zenon, <1>1 DEF OnSpine
  <2>3. InHand(t, k)' <=> InHand(t, k)
    BY Zenon, <1>1 DEF InHand
  <2>4. Answered(t, read[t][k])' <=> Answered(t, read[t][k])
    BY <1>1 DEF Answered
  <2> QED
    BY Zenon, <1>1, <2>1, <2>2, <2>3, <2>4 DEF OnceIfOwed
<1> QED
  BY Zenon, <1>2, <1>3 DEF ForwardsInOrder

(* Every step keeps the invariant. *)
LEMMA SInvStep == SIInv /\ [SNext]_<<spine, svars>> => SIInv'
<1>1. ASSUME SIInv, SNext PROVE SIInv'
  <2>1. STypeOK' /\ (spine \in Seq(SpineLine))' /\ Hands' /\ NoBadYet' /\ StrictStopsAtBadLine'
    BY <1>1, STypeStep, SpineStep, HandsStep, StrictStep DEF SIInv
  <2>2. ASSUME NEW s \in Sources, ReadEof(s) \/ IngestConnect(s) PROVE ForwardsInOrder'
    <3>1. UNCHANGED <<spine, strict, pend, read>>
      BY <2>2 DEF ReadEof, IngestConnect, Stop
    <3> QED
      BY <1>1, <3>1, OrderUnchanged DEF SIInv
  <2>3. ForwardsInOrder'
    BY <1>1, <2>2, ReadKeepsOrder, SendKeepsOrder DEF SNext
  <2> QED
    BY <2>1, <2>3 DEF SIInv
<1>2. ASSUME SIInv, UNCHANGED <<spine, svars>> PROVE SIInv'
  <2>1. spine' = spine /\ strict' = strict /\ pc' = pc /\ pend' = pend /\ read' = read /\ sent' = sent
    BY <1>2 DEF svars
  <2>2. STypeOK' /\ (spine \in Seq(SpineLine))'
    BY <1>2, <2>1 DEF SIInv, STypeOK
  <2>3. Hands'
    BY <1>2, <2>1 DEF SIInv, Hands
  <2>4. ForwardsInOrder'
    BY <1>2, <2>1, OrderUnchanged DEF SIInv
  <2>5. NoBadYet'
    BY <1>2, <2>1 DEF SIInv, NoBadYet
  <2>6. StrictStopsAtBadLine'
    BY <1>2, <2>1 DEF SIInv, StrictStopsAtBadLine
  <2> QED
    BY <2>2, <2>3, <2>4, <2>5, <2>6 DEF SIInv
<1> QED
  BY <1>1, <1>2

(* The invariant holds throughout. *)
LEMMA SInvHolds == SSpec => []SIInv
BY SInvInit, SInvStep, PTL DEF SSpec

(* A source has a line in hand exactly between parsing and tx.send, and     *)
(* sends at most one line per line read.                                    *)
THEOREM SourcesTypes == SSpec => []STypeOK
<1>1. SIInv => STypeOK
  BY DEF SIInv
<1> QED
  BY <1>1, SInvHolds, PTL

(* However the source threads interleave between parse and send, the spine  *)
(* has each source's answers complete, once and in the order of its input.  *)
THEOREM SourcesForwardInOrder == SSpec => []ForwardsInOrder
<1>1. SIInv => ForwardsInOrder
  BY DEF SIInv
<1> QED
  BY <1>1, SInvHolds, PTL

(* With --strict a source handles nothing after its first bad line.         *)
THEOREM StrictSourcesStop == SSpec => []StrictStopsAtBadLine
<1>1. SIInv => StrictStopsAtBadLine
  BY DEF SIInv
<1> QED
  BY <1>1, SInvHolds, PTL

-------------------------------------------------------------------------------
(* hawkd as a whole *)

Held == IF bpc = "lock" THEN 1 ELSE 0

LogLen == Len(cast) + Held + Len(spine)

LogAt(i) ==
    IF i <= Len(cast) THEN cast[i]
    ELSE IF i <= Len(cast) + Held THEN line
    ELSE spine[i - Len(cast) - Held]

(* The log's lines are of what the sources have sent so far ... *)
LogSent ==
    \A i \in 1 .. LogLen :
        /\ LogAt(i) \in SpineLine
        /\ LogAt(i).n <= sent[LogAt(i).src]
        /\ LogAt(i).input + Len(pend[LogAt(i).src]) <= Len(read[LogAt(i).src])

(* ... each source's in order ... *)
LogOrdered ==
    \A i, j \in 1 .. LogLen :
        i < j /\ LogAt(i).src = LogAt(j).src =>
            LogAt(i).n < LogAt(j).n /\ LogAt(i).input < LogAt(j).input

(* ... and complete. *)
InLog(s, n) == \E i \in 1 .. LogLen : LogAt(i).src = s /\ LogAt(i).n = n

LogComplete == \A s \in Sources : \A n \in 1 .. sent[s] : InLog(s, n)

LogInv == LogSent /\ LogOrdered /\ LogComplete

HInv == IInv /\ STypeOK /\ Hands /\ LogInv

-------------------------------------------------------------------------------
(* The answer in hand is a line of its source. *)
LEMMA InHandType ==
    ASSUME STypeOK, NEW s \in Sources, SendLine(s)
    PROVE  pend[s][1] \in SpineLine /\ Len(pend[s]) = 1
<1>1. pend[s] \in Seq(SpineLine) /\ Len(pend[s]) = 1
  BY DEF STypeOK, SendLine
<1> QED
  BY <1>1

(* A step of the joined system is a step of the broadcast half. *)
LEMMA HawkdStepBroadcasts ==
    ASSUME TypeOK, STypeOK, [HawkdNext]_<<bvars, svars>>
    PROVE  [Next]_bvars
<1>1. CASE UNCHANGED <<bvars, svars>>
  BY <1>1
<1>2. CASE (AcceptLoop \/ BroadcastLoop \/ \E c \in Clients : Client(c)) /\ UNCHANGED svars
  BY <1>2 DEF Next
<1>3. ASSUME SNext, UNCHANGED castvars, WithinBound' PROVE [Next]_bvars
  <2>1. ASSUME NEW s \in Sources, SendLine(s) PROVE Next
    <3>1. pend[s][1] \in Lines
      BY <2>1, InHandType, HawkdAssumption
    <3>2. spine' = Append(spine, pend[s][1])
      BY <2>1 DEF SendLine
    <3>3. UNCHANGED <<bpc, line, cursor, clients, accepting, backlog, conn, out,
                      rd, cast, joined, closedAt>>
      BY <1>3 DEF castvars
    <3>4. Len(spine) \in Nat /\ Len(cast) \in Nat /\ Len(spine') = Len(spine) + 1
      BY <3>1, <3>2 DEF TypeOK
    <3>5. Len(spine) + Len(cast) + (IF bpc = "lock" THEN 1 ELSE 0) < MaxLines
      BY <1>3, <3>3, <3>4, BroadcastAssumption DEF WithinBound
    <3>6. Send(pend[s][1])
      BY <3>2, <3>3, <3>5 DEF Send
    <3> QED
      BY <3>1, <3>6 DEF Next
  <2>2. ASSUME NEW s \in Sources, \/ \E x \in Inputs : ReadLine(s, x)
                                  \/ ReadEof(s)
                                  \/ IngestConnect(s)
        PROVE  UNCHANGED bvars
    BY <1>3, <2>2 DEF ReadLine, ReadEof, IngestConnect, castvars, bvars
  <2> QED
    BY <1>3, <2>1, <2>2 DEF SNext
<1> QED
  BY <1>1, <1>2, <1>3 DEF HawkdNext

(* The main thread moves the log's lines along and changes none; the other  *)
(* steps of the broadcast half do not touch them.                           *)
LEMMA LogStable ==
    ASSUME TypeOK, TypeOK',
           \/ BroadcastLoop \/ AcceptLoop \/ \E c \in Clients : Client(c)
           \/ UNCHANGED <<spine, castvars>>
    PROVE  LogLen' = LogLen /\ \A i \in 1 .. LogLen : LogAt(i)' = LogAt(i)
<1>1. Len(cast) \in Nat /\ Len(spine) \in Nat /\ cast \in Seq(Lines) /\ spine \in Seq(Lines)
  BY LenProperties DEF TypeOK
<1>2. CASE TakeLine
  <2>0. spine # <<>> /\ line' = Head(spine) /\ spine' = Tail(spine)
    BY <1>2 DEF TakeLine
  <2>1. bpc = "recv" /\ bpc' = "lock" /\ cast' = cast
    BY <1>2 DEF TakeLine
  <2>2. /\ Len(spine') = Len(spine) - 1 /\ line' = spine[1]
        /\ \A i \in 1 .. Len(spine) - 1 : spine'[i] = spine[i + 1]
    BY <1>1, <2>0, HeadTailProperties
  <2>3. Held = 0 /\ Held' = 1
    BY <2>1 DEF Held
  <2>4. LogLen' = LogLen /\ LogLen = Len(cast) + Len(spine)
    BY <1>1, <2>1, <2>2, <2>3 DEF LogLen
  <2>5. ASSUME NEW i \in 1 .. LogLen PROVE LogAt(i)' = LogAt(i)
    <3>1. CASE i <= Len(cast)
      BY <2>1, <3>1 DEF LogAt
    <3>2. CASE i = Len(cast) + 1
      <4>1. LogAt(i)' = line'
        BY <1>1, <2>1, <2>3, <3>2 DEF LogAt
      <4>2. LogAt(i) = spine[1]
        BY <1>1, <2>3, <3>2 DEF LogAt
      <4> QED
        BY <2>2, <4>1, <4>2
    <3>3. CASE i > Len(cast) + 1
      <4>1. i - Len(cast) - 1 \in 1 .. Len(spine) - 1
        BY <1>1, <2>4, <3>3
      <4>2. LogAt(i)' = spine'[i - Len(cast) - 1]
        BY <1>1, <2>1, <2>3, <3>3 DEF LogAt
      <4>3. LogAt(i) = spine[i - Len(cast)]
        BY <1>1, <2>3, <3>3 DEF LogAt
      <4> QED
        BY <1>1, <2>2, <4>1, <4>2, <4>3
    <3> QED
      BY <1>1, <3>1, <3>2, <3>3
  <2> QED
    BY <2>4, <2>5
<1>3. CASE LockClients
  <2>1. bpc = "lock" /\ bpc' = "write" /\ cast' = Append(cast, line) /\ spine' = spine
    BY <1>3 DEF LockClients
  <2>2. /\ Len(cast') = Len(cast) + 1 /\ cast'[Len(cast) + 1] = line
        /\ \A i \in 1 .. Len(cast) : cast'[i] = cast[i]
    <3>1. line \in Lines
      BY <2>1 DEF TypeOK
    <3> QED
      BY <1>1, <2>1, <3>1, AppendProperties
  <2>3. Held = 1 /\ Held' = 0
    BY <2>1 DEF Held
  <2> QED
    BY <1>1, <2>1, <2>2, <2>3 DEF LogLen, LogAt
<1>4. ASSUME cast' = cast, spine' = spine, Held' = Held, bpc = "lock" => line' = line
      PROVE  LogLen' = LogLen /\ \A i \in 1 .. LogLen : LogAt(i)' = LogAt(i)
  <2>1. LogLen' = LogLen
    BY <1>4 DEF LogLen
  <2>2. ASSUME NEW i \in 1 .. LogLen PROVE LogAt(i)' = LogAt(i)
    <3>1. CASE bpc = "lock"
      BY <1>4, <3>1 DEF LogAt
    <3>2. CASE bpc # "lock"
      <4>1. Held = 0
        BY <3>2 DEF Held
      <4> QED
        BY <1>1, <1>4, <4>1 DEF LogAt
    <3> QED
      BY <3>1, <3>2
  <2> QED
    BY <2>1, <2>2
<1>5. CASE WriteClient \/ DropClient \/ EndBroadcast
  <2>1. cast' = cast /\ spine' = spine /\ bpc # "lock" /\ bpc' # "lock"
    BY <1>5 DEF WriteClient, DropClient, EndBroadcast
  <2> QED
    BY <1>4, <2>1 DEF Held
<1>6. CASE AcceptLoop \/ (\E c \in Clients : Client(c)) \/ UNCHANGED <<spine, castvars>>
  <2>1. UNCHANGED <<cast, spine, bpc, line>>
    BY <1>6 DEF AcceptLoop, PushClient, AcceptClient, Client, Connect, Read, Close, castvars
  <2> QED
    BY <1>4, <2>1 DEF Held
<1> QED
  BY <1>2, <1>3, <1>5, <1>6 DEF BroadcastLoop

(* A send appends to the log. *)
LEMMA LogGrows ==
    ASSUME TypeOK, NEW l \in Lines, spine' = Append(spine, l), UNCHANGED castvars
    PROVE  /\ LogLen \in Nat /\ LogLen' = LogLen + 1
           /\ \A m \in Nat : m = LogLen + 1 => LogAt(m)' = l
           /\ \A i \in 1 .. LogLen : LogAt(i)' = LogAt(i)
<1>1. Len(cast) \in Nat /\ Len(spine) \in Nat /\ spine \in Seq(Lines) /\ Held \in {0, 1}
  BY DEF TypeOK, Held
<1>2. UNCHANGED <<cast, line, bpc>> /\ Held' = Held
  BY DEF castvars, Held
<1>3. /\ Len(spine') = Len(spine) + 1 /\ spine'[Len(spine) + 1] = l
      /\ \A i \in 1 .. Len(spine) : spine'[i] = spine[i]
  BY <1>1
<1>4. LogLen \in Nat /\ LogLen' = LogLen + 1
  BY <1>1, <1>2, <1>3 DEF LogLen
<1>5. ASSUME NEW m \in Nat, m = LogLen + 1 PROVE LogAt(m)' = l
  <2>1. m - Len(cast) - Held = Len(spine) + 1 /\ m > Len(cast) + Held
    BY <1>1, <1>5 DEF LogLen
  <2> QED
    BY <1>1, <1>2, <1>3, <2>1 DEF LogAt
<1>6. ASSUME NEW i \in 1 .. LogLen PROVE LogAt(i)' = LogAt(i)
  <2>1. CASE i <= Len(cast) + Held
    BY <1>1, <1>2, <2>1 DEF LogAt
  <2>2. CASE i > Len(cast) + Held
    <3>1. i - Len(cast) - Held \in 1 .. Len(spine)
      BY <1>1, <2>2 DEF LogLen
    <3> QED
      BY <1>1, <1>2, <1>3, <2>2, <3>1 DEF LogAt
  <2> QED
    BY <1>1, <2>1, <2>2
<1> QED
  BY <1>4, <1>5, <1>6
(* A step that leaves the log and what was sent alone keeps its properties, *)
(* if the sources that take a line in hand have read it.                    *)
LEMMA LogKept ==
    ASSUME STypeOK, STypeOK', LogInv, sent' = sent,
           LogLen' = LogLen, \A i \in 1 .. LogLen : LogAt(i)' = LogAt(i),
           \A s \in Sources : Len(read[s]) + Len(pend'[s]) <= Len(read'[s]) + Len(pend[s])
    PROVE  LogInv'
<1>1. \A s \in Sources : /\ Len(read[s]) \in Nat /\ Len(read'[s]) \in Nat
                         /\ Len(pend[s]) \in Nat /\ Len(pend'[s]) \in Nat
  BY DEF STypeOK
<1>2. LogSent'
  <2> SUFFICES ASSUME NEW i \in 1 .. LogLen
               PROVE  /\ LogAt(i) \in SpineLine
                      /\ LogAt(i).n <= sent[LogAt(i).src]
                      /\ LogAt(i).input + Len(pend'[LogAt(i).src]) <= Len(read'[LogAt(i).src])
    BY DEF LogSent
  <2>1. /\ LogAt(i) \in SpineLine
        /\ LogAt(i).n <= sent[LogAt(i).src]
        /\ LogAt(i).input + Len(pend[LogAt(i).src]) <= Len(read[LogAt(i).src])
    BY DEF LogInv, LogSent
  <2>2. LogAt(i).src \in Sources /\ LogAt(i).input \in Int
    BY <2>1, SourcesAssumption DEF SpineLine
  <2>3. PICK t \in Sources, k \in Int : LogAt(i).src = t /\ LogAt(i).input = k
    BY <2>2
  <2>4. k + Len(pend[t]) <= Len(read[t])
    BY <2>1, <2>3
  <2>5. k + Len(pend'[t]) <= Len(read'[t])
    <3>1. PICK a \in Nat, b \in Nat, c \in Nat, d \in Nat :
              /\ Len(read[t]) = a /\ Len(pend'[t]) = b
              /\ Len(read'[t]) = c /\ Len(pend[t]) = d
      BY <1>1
    <3>2. a + b <= c + d /\ k + d <= a
      BY ZenonT(60), <2>4, <3>1
    <3>3. k + b <= c
      BY <3>2
    <3> QED
      BY <3>1, <3>3
  <2> QED
    BY <2>1, <2>3, <2>5
<1>3. LogOrdered'
  BY DEF LogInv, LogOrdered
<1>4. LogComplete'
  BY DEF LogInv, LogComplete, InLog
<1> QED
  BY <1>2, <1>3, <1>4 DEF LogInv

(* Sending the answer in hand keeps them too: it is the next of its source. *)
LEMMA LogAppended ==
    ASSUME TypeOK, STypeOK, STypeOK', Hands, LogInv,
           NEW s \in Sources, SendLine(s), UNCHANGED castvars
    PROVE  LogInv'
<1> DEFINE l == pend[s][1]
<1>1. l \in SpineLine /\ l \in Lines /\ Len(pend[s]) = 1
  BY InHandType, HawkdAssumption
<1>2. l.src = s /\ l.n = sent[s] + 1 /\ l.input = Len(read[s])
  BY DEF Hands, SendLine
<1>3. /\ spine' = Append(spine, l) /\ read' = read
      /\ sent' = [sent EXCEPT ![s] = @ + 1] /\ pend' = [pend EXCEPT ![s] = <<>>]
  BY DEF SendLine
<1> HIDE DEF l
<1>4. /\ LogLen \in Nat /\ LogLen' = LogLen + 1
      /\ \A m \in Nat : m = LogLen + 1 => LogAt(m)' = l
      /\ \A i \in 1 .. LogLen : LogAt(i)' = LogAt(i)
  BY <1>1, <1>3, LogGrows
<1>5. ASSUME NEW t \in Sources
      PROVE  /\ sent[t] \in Nat /\ sent'[t] = (IF t = s THEN sent[t] + 1 ELSE sent[t])
             /\ Len(read[t]) \in Nat /\ Len(pend[t]) \in Nat
             /\ Len(pend'[t]) = (IF t = s THEN 0 ELSE Len(pend[t]))
  BY <1>3 DEF STypeOK
<1>6. ASSUME NEW i \in 1 .. LogLen
      PROVE  /\ LogAt(i) \in SpineLine /\ LogAt(i).src \in Sources
             /\ LogAt(i).n \in Int /\ LogAt(i).input \in Int
             /\ LogAt(i).n <= sent[LogAt(i).src]
             /\ LogAt(i).input + Len(pend[LogAt(i).src]) <= Len(read[LogAt(i).src])
  <2>1. LogAt(i) \in SpineLine
    BY DEF LogInv, LogSent
  <2>2. LogAt(i).src \in Sources /\ LogAt(i).n \in Int /\ LogAt(i).input \in Int
    BY <2>1, SourcesAssumption DEF SpineLine
  <2> QED
    BY <2>1, <2>2 DEF LogInv, LogSent
<1>7. LogSent'
  <2> SUFFICES ASSUME NEW i \in 1 .. LogLen + 1
               PROVE  /\ LogAt(i)' \in SpineLine
                      /\ LogAt(i)'.n <= sent'[LogAt(i)'.src]
                      /\ LogAt(i)'.input + Len(pend'[LogAt(i)'.src]) <= Len(read[LogAt(i)'.src])
    BY <1>3, <1>4 DEF LogSent
  <2>1. CASE i \in 1 .. LogLen
    <3>1. LogAt(i)' = LogAt(i)
      BY <1>4, <2>1
    <3>2. PICK t \in Sources, n \in Int, k \in Int :
              LogAt(i).src = t /\ LogAt(i).n = n /\ LogAt(i).input = k
      BY <1>6, <2>1
    <3>3. n <= sent[t] /\ k + Len(pend[t]) <= Len(read[t])
      BY <1>6, <2>1, <3>2
    <3>4. n <= sent'[t] /\ k + Len(pend'[t]) <= Len(read[t])
      BY <1>5, <3>3
    <3> QED
      BY <1>6, <2>1, <3>1, <3>2, <3>4
  <2>2. CASE i = LogLen + 1
    <3>1. LogAt(i)' = l
      BY <1>4, <2>2
    <3> QED
      BY <1>1, <1>2, <1>5, <3>1
  <2> QED
    BY <1>4, <2>1, <2>2
<1>8. LogOrdered'
  <2> SUFFICES ASSUME NEW i \in 1 .. LogLen + 1, NEW j \in 1 .. LogLen + 1,
                      i < j, LogAt(i)'.src = LogAt(j)'.src
               PROVE  LogAt(i)'.n < LogAt(j)'.n /\ LogAt(i)'.input < LogAt(j)'.input
    BY <1>4 DEF LogOrdered
  <2>1. i \in 1 .. LogLen /\ LogAt(i)' = LogAt(i)
    BY <1>4
  <2>2. CASE j = LogLen + 1
    <3>1. LogAt(j)' = l /\ LogAt(i).src = s
      BY <1>2, <1>4, <2>1, <2>2
    <3>2. LogAt(i).n <= sent[s] /\ LogAt(i).input + 1 <= Len(read[s])
      BY ZenonT(60), <1>1, <1>6, <2>1, <3>1
    <3>3. /\ LogAt(i).n \in Int /\ LogAt(i).input \in Int
          /\ sent[s] \in Nat /\ Len(read[s]) \in Nat
      BY <1>5, <1>6, <2>1
    <3>4. LogAt(i).n < sent[s] + 1 /\ LogAt(i).input < Len(read[s])
      BY <3>2, <3>3
    <3> QED
      BY <1>2, <2>1, <3>1, <3>4, Zenon
  <2>3. CASE j # LogLen + 1
    <3>1. j \in 1 .. LogLen /\ LogAt(j)' = LogAt(j)
      BY <1>4, <2>3
    <3> QED
      BY <2>1, <3>1 DEF LogInv, LogOrdered
  <2> QED
    BY <2>2, <2>3
<1>9. LogComplete'
  <2> SUFFICES ASSUME NEW t \in Sources, NEW n \in 1 .. sent'[t]
               PROVE  \E i \in 1 .. LogLen + 1 : LogAt(i)'.src = t /\ LogAt(i)'.n = n
    BY <1>4 DEF LogComplete, InLog
  <2>1. CASE n \in 1 .. sent[t]
    <3>1. PICK i \in 1 .. LogLen : LogAt(i).src = t /\ LogAt(i).n = n
      BY <2>1 DEF LogInv, LogComplete, InLog
    <3>2. i \in 1 .. LogLen + 1 /\ LogAt(i)' = LogAt(i)
      BY <1>4
    <3> QED
      BY <3>1, <3>2
  <2>2. CASE n \notin 1 .. sent[t]
    <3>1. t = s /\ n = sent[s] + 1
      BY <1>5, <2>2
    <3>2. PICK m \in Nat : m = LogLen + 1 /\ LogAt(m)' = l
      BY <1>4
    <3>3. m \in 1 .. LogLen + 1
      BY <1>4, <3>2
    <3> QED
      BY <1>2, <3>1, <3>2, <3>3
  <2> QED
    BY <2>1, <2>2
<1> QED
  BY <1>7, <1>8, <1>9 DEF LogInv

-------------------------------------------------------------------------------
(* The daemon starts with the invariant. *)
LEMMA HInvInit == HawkdInit => HInv
<1> SUFFICES ASSUME HawkdInit PROVE HInv
  OBVIOUS
<1>1. IInv /\ STypeOK /\ Hands
  BY InvInit, SInvInit DEF HawkdInit, SIInv
<1>2. LogLen = 0 /\ \A s \in Sources : sent[s] = 0
  <2>1. Len(cast) = 0 /\ Len(spine) = 0 /\ bpc = "recv"
    BY EmptySeq DEF HawkdInit, Init
  <2> QED
    BY <2>1 DEF LogLen, Held, HawkdInit, SInit
<1>3. LogInv
  BY <1>2 DEF LogInv, LogSent, LogOrdered, LogComplete
<1> QED
  BY <1>1, <1>3 DEF HInv

(* No step of hawkd reorders or loses a line of the log. *)
LEMMA LogStep ==
    ASSUME HInv, TypeOK, TypeOK', STypeOK', [HawkdNext]_<<bvars, svars>>
    PROVE  LogInv'
<1> USE DEF HInv
<1>1. ASSUME UNCHANGED svars,
             \/ UNCHANGED bvars
             \/ AcceptLoop \/ BroadcastLoop \/ \E c \in Clients : Client(c)
      PROVE  LogInv'
  <2>1. LogLen' = LogLen /\ \A i \in 1 .. LogLen : LogAt(i)' = LogAt(i)
    BY <1>1, LogStable DEF bvars, castvars
  <2>2. \A s \in Sources : Len(read[s]) \in Nat /\ Len(pend[s]) \in Nat
    BY DEF STypeOK
  <2> QED
    BY <1>1, <2>1, <2>2, LogKept DEF svars
<1>2. ASSUME NEW s \in Sources, SendLine(s), UNCHANGED castvars PROVE LogInv'
  BY <1>2, LogAppended
<1>3. ASSUME NEW s \in Sources, UNCHANGED castvars,
             (\E x \in Inputs : ReadLine(s, x)) \/ ReadEof(s) \/ IngestConnect(s)
      PROVE  LogInv'
  <2>1. UNCHANGED <<spine, sent>>
    BY <1>3 DEF ReadLine, ReadEof, IngestConnect
  <2>2. LogLen' = LogLen /\ \A i \in 1 .. LogLen : LogAt(i)' = LogAt(i)
    BY <1>3, <2>1, LogStable
  <2>3. \A t \in Sources : /\ Len(read[t]) \in Nat /\ Len(pend[t]) \in Nat
                           /\ Len(pend'[t]) \in 0 .. 1
    BY DEF STypeOK
  <2>4. ASSUME NEW t \in Sources
        PROVE  Len(read[t]) + Len(pend'[t]) <= Len(read'[t]) + Len(pend[t])
    <3>1. PICK a \in Nat, b \in Nat, d \in 0 .. 1 :
              Len(read[t]) = a /\ Len(pend[t]) = b /\ Len(pend'[t]) = d
      BY <2>3
    <3>2. \/ read'[t] = read[t] /\ pend'[t] = pend[t]
          \/ Len(read'[t]) = Len(read[t]) + 1
      <4>1. CASE ReadEof(s) \/ IngestConnect(s)
        BY <4>1 DEF ReadEof, IngestConnect, Stop
      <4>2. ASSUME NEW x \in Inputs, ReadLine(s, x), t = s
            PROVE  Len(read'[t]) = Len(read[t]) + 1
        BY <4>2, ReadGrows
      <4>3. ASSUME NEW x \in Inputs, ReadLine(s, x), t # s
            PROVE  read'[t] = read[t] /\ pend'[t] = pend[t]
        BY <4>3, ReadElsewhere
      <4> QED
        BY <1>3, <4>1, <4>2, <4>3
    <3>3. CASE read'[t] = read[t] /\ pend'[t] = pend[t]
      <4>1. Len(read'[t]) = a /\ Len(pend'[t]) = b
        BY <3>1, <3>3
      <4> QED
        BY <3>1, <4>1
    <3>4. CASE Len(read'[t]) = Len(read[t]) + 1
      <4>1. Len(read'[t]) = a + 1
        BY <3>1, <3>4
      <4>2. a + d <= (a + 1) + b
        OBVIOUS
      <4> QED
        BY <3>1, <4>1, <4>2
    <3> QED
      BY ZenonT(60), <3>2, <3>3, <3>4
  <2> QED
    BY ZenonT(60), <2>1, <2>2, <2>4, LogKept
<1> QED
  BY <1>1, <1>2, <1>3 DEF HawkdNext, SNext

(* Every step of the daemon keeps the invariant. *)
LEMMA HInvStep == HInv /\ [HawkdNext]_<<bvars, svars>> => HInv'
<1> SUFFICES ASSUME HInv, [HawkdNext]_<<bvars, svars>> PROVE HInv'
  OBVIOUS
<1>1. TypeOK /\ IInv /\ STypeOK /\ Hands
  BY DEF HInv, IInv
<1>2. IInv' /\ TypeOK'
  BY <1>1, HawkdStepBroadcasts, InvStep, TypeStep
<1>3. STypeOK' /\ Hands'
  <2>1. CASE SNext
    BY <1>1, <2>1, STypeStep, HandsStep
  <2>2. CASE UNCHANGED svars
    BY <1>1, <2>2 DEF svars, STypeOK, Hands
  <2> QED
    BY <2>1, <2>2 DEF HawkdNext
<1> QED
  BY <1>1, <1>2, <1>3, LogStep DEF HInv

(* The invariant holds in every behaviour. *)
LEMMA HInvHolds == HawkdSpec => []HInv
BY HInvInit, HInvStep, PTL DEF HawkdSpec

(* hawkd with its real producers is an instance of the broadcast            *)
(* specification: whatever the sources do, each step of hawkd is one that   *)
(* HawkdBroadcast allows, or leaves its state alone.                        *)
THEOREM HawkdImplementsBroadcast == HawkdSpec => ImplementsBroadcast
<1>1. HawkdInit => Init
  BY DEF HawkdInit
<1>2. HInv /\ [HawkdNext]_<<bvars, svars>> => [Next]_bvars
  BY HawkdStepBroadcasts DEF HInv, IInv
<1> QED
  BY <1>1, <1>2, HInvHolds, PTL DEF HawkdSpec, ImplementsBroadcast, Spec

-------------------------------------------------------------------------------
(* What a client has after its banner is a stretch of the log. *)
LEMMA ClientSeesLog ==
    ASSUME HInv, NEW c \in Clients, NEW k \in Greeted(c) + 1 .. Len(out[c])
    PROVE  /\ joined[c] - Greeted(c) \in Int
           /\ joined[c] - Greeted(c) + k \in 1 .. LogLen
           /\ out[c][k] = LogAt(joined[c] - Greeted(c) + k)
           /\ out[c][k] # Banner
<1>1. /\ joined[c] # NotJoined
      /\ joined[c] + k - Greeted(c) <= Len(cast)
      /\ out[c][k] = cast[joined[c] + k - Greeted(c)]
  BY DEF HInv, IInv, GapFree
<1>2. /\ joined[c] \in Nat /\ Len(cast) \in Nat /\ Len(spine) \in Nat /\ Held \in 0 .. 1
      /\ Greeted(c) \in 0 .. 1 /\ cast \in Seq(Lines) /\ Len(out[c]) \in Nat
  BY <1>1, LenProperties DEF HInv, IInv, TypeOK, Held, Greeted, GreetLen, NotJoined
<1>3. PICK j \in Nat, g \in 0 .. 1, h \in 0 .. 1, a \in Nat, b \in Nat :
          /\ joined[c] = j /\ Greeted(c) = g /\ Held = h
          /\ Len(cast) = a /\ Len(spine) = b
  BY <1>2
<1>4. j - g + k = j + k - g /\ j - g + k \in 1 .. a
  BY <1>1, <1>2, <1>3
<1>5. LogLen = a + h + b
  BY <1>3 DEF LogLen
<1>6. j - g + k \in 1 .. LogLen
  BY <1>4, <1>5
<1>7. out[c][k] = cast[j - g + k]
  BY <1>1, <1>3, <1>4
<1>8. LogAt(j - g + k) = cast[j - g + k]
  BY <1>3, <1>4 DEF LogAt
<1>9. cast[j - g + k] \in Lines
  BY <1>2, <1>3, <1>4
<1> QED
  BY <1>3, <1>4, <1>6, <1>7, <1>8, <1>9, BroadcastAssumption

(* The order at a client follows from the invariant. *)
LEMMA ClientOrder == HInv => SourceOrderAtClient
<1> SUFFICES ASSUME HInv, NEW c \in Clients, NEW s \in Sources,
                    NEW i \in 1 .. Len(out[c]), NEW j \in 1 .. Len(out[c]),
                    i < j, IsOf(s, out[c][i]), IsOf(s, out[c][j])
             PROVE  /\ out[c][i].n < out[c][j].n
                    /\ out[c][i].input < out[c][j].input
                    /\ \A n \in out[c][i].n + 1 .. out[c][j].n - 1 :
                          \E k \in i + 1 .. j - 1 : IsOf(s, out[c][k]) /\ out[c][k].n = n
  BY DEF SourceOrderAtClient
<1>1. Len(out[c]) \in Nat /\ Greeted(c) \in 0 .. 1
  BY DEF HInv, IInv, TypeOK, Greeted, GreetLen
<1>2. i \in Greeted(c) + 1 .. Len(out[c]) /\ j \in Greeted(c) + 1 .. Len(out[c])
  <2>1. out[c][i] # Banner
    BY DEF IsOf
  <2>2. i # Greeted(c)
    BY <2>1 DEF Greeted, GreetLen
  <2> QED
    BY <1>1, <2>2
<1>3. PICK b \in Int, len \in Nat :
          /\ b = joined[c] - Greeted(c) /\ len = LogLen
          /\ \A k \in Greeted(c) + 1 .. Len(out[c]) :
                b + k \in 1 .. len /\ out[c][k] = LogAt(b + k) /\ out[c][k] # Banner
  <2>1. joined[c] - Greeted(c) \in Int /\ LogLen \in Nat
    <3>1. Len(cast) \in Nat /\ Len(spine) \in Nat /\ Held \in 0 .. 1
      BY DEF HInv, IInv, TypeOK, Held
    <3> QED
      BY <1>2, <3>1, ClientSeesLog DEF LogLen
  <2> QED
    BY <2>1, ClientSeesLog
<1>4. /\ b + i \in 1 .. LogLen /\ b + j \in 1 .. LogLen /\ b + i < b + j
      /\ out[c][i] = LogAt(b + i) /\ out[c][j] = LogAt(b + j)
      /\ LogAt(b + i).src = s /\ LogAt(b + j).src = s
  BY <1>2, <1>3 DEF IsOf
<1>5. out[c][i].n < out[c][j].n /\ out[c][i].input < out[c][j].input
  BY <1>4 DEF HInv, LogInv, LogOrdered
<1>6. ASSUME NEW m \in 1 .. LogLen PROVE LogAt(m).n \in Nat \ {0}
  <2>1. LogAt(m) \in SpineLine
    BY DEF HInv, LogInv, LogSent
  <2> QED
    BY <2>1, SourcesAssumption DEF SpineLine
<1>7. ASSUME NEW n \in out[c][i].n + 1 .. out[c][j].n - 1
      PROVE  \E k \in i + 1 .. j - 1 : IsOf(s, out[c][k]) /\ out[c][k].n = n
  <2>1. PICK p \in Nat \ {0}, q \in Nat \ {0} : LogAt(b + i).n = p /\ LogAt(b + j).n = q
    BY <1>4, <1>6
  <2>2. n \in p + 1 .. q - 1
    BY <1>4, <2>1
  <2>3. q <= sent[s] /\ sent[s] \in Nat
    BY <1>4, <2>1 DEF HInv, LogInv, LogSent, STypeOK
  <2>4. n \in 1 .. sent[s]
    BY <2>2, <2>3
  <2>5. PICK m \in 1 .. LogLen : LogAt(m).src = s /\ LogAt(m).n = n
    BY <2>4 DEF HInv, LogInv, LogComplete, InLog
  <2>6. m \in Int /\ b + i < m /\ m < b + j
    <3>1. m # b + i /\ m # b + j
      BY <2>1, <2>2, <2>5
    <3>2. ~(m < b + i)
      <4>1. m < b + i => n < p
        BY <1>4, <2>1, <2>5 DEF HInv, LogInv, LogOrdered
      <4> QED
        BY <2>2, <4>1
    <3>3. ~(b + j < m)
      <4>1. b + j < m => q < n
        BY <1>4, <2>1, <2>5 DEF HInv, LogInv, LogOrdered
      <4> QED
        BY <2>2, <4>1
    <3> QED
      BY <1>3, <3>1, <3>2, <3>3
  <2>7. PICK k \in i + 1 .. j - 1 : b + k = m
    <3>1. m - b \in i + 1 .. j - 1 /\ b + (m - b) = m
      BY <2>6
    <3> QED
      BY <3>1
  <2>8. k \in Greeted(c) + 1 .. Len(out[c])
    BY <1>1, <1>2
  <2>9. out[c][k] = LogAt(m) /\ out[c][k] # Banner
    BY <1>3, <2>7, <2>8
  <2> QED
    BY <2>5, <2>9 DEF IsOf
<1> QED
  BY <1>5, <1>7

(* For every number of sources and clients: of each source, a client sees   *)
(* consecutive lines in the order the source read them, however the reader  *)
(* threads, accept_loop and broadcast_loop interleave.                      *)
THEOREM HawkdSourceOrder == HawkdSpec => []SourceOrderAtClient
BY HInvHolds, ClientOrder, PTL
===============================================================================
