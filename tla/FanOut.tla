-------------------------------- MODULE FanOut --------------------------------
(***************************************************************************)
(* What hawkd's broadcast socket promises its UI clients: there is one log *)
(* of published lines, and what a client sees is an optional greeting      *)
(* followed by consecutive lines of that log, starting at the end of the   *)
(* log as it stood when the client joined.  Nothing is skipped, repeated   *)
(* or reordered.  HawkdBroadcast.tla implements this specification.        *)
(***************************************************************************)
EXTENDS Integers, Sequences

CONSTANTS
    Clients,    \* connections to the broadcast socket
    Lines,      \* lines producers put on the spine
    Banner,     \* the greeting line "# hawkd connected"
    NotJoined   \* position of a client that has not joined yet

VARIABLES
    log,    \* every published line, oldest first
    view,   \* view[c]: the lines handed to c's connection
    next    \* next[c]: how much of the log c has been handed, or NotJoined

vars == <<log, view, next>>

Init ==
    /\ log = <<>>
    /\ view = [c \in Clients |-> <<>>]
    /\ next = [c \in Clients |-> NotJoined]

Publish(l) ==
    /\ log' = Append(log, l)
    /\ UNCHANGED <<view, next>>

(* The greeting, if any, comes before the client joins. *)
Greet(c) ==
    /\ next[c] = NotJoined
    /\ view[c] = <<>>
    /\ view' = [view EXCEPT ![c] = <<Banner>>]
    /\ UNCHANGED <<log, next>>

Join(c) ==
    /\ next[c] = NotJoined
    /\ next' = [next EXCEPT ![c] = Len(log)]
    /\ UNCHANGED <<log, view>>

(* A client is handed the next line it is owed, and only that one. *)
Deliver(c) ==
    /\ next[c] # NotJoined
    /\ next[c] < Len(log)
    /\ view' = [view EXCEPT ![c] = Append(@, log[next[c] + 1])]
    /\ next' = [next EXCEPT ![c] = @ + 1]
    /\ UNCHANGED log

Next ==
    \/ \E l \in Lines : Publish(l)
    \/ \E c \in Clients : Greet(c) \/ Join(c) \/ Deliver(c)

Spec == Init /\ [][Next]_vars
===============================================================================
