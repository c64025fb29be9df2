--------------------------------- MODULE Hawkd ---------------------------------
(***************************************************************************)
(* hawkd from its inputs to its UI clients: the producers of HawkdSources  *)
(* and the broadcast half of HawkdBroadcast, joined by the spine channel   *)
(* that main() of crates/hawkd/src/main.rs creates and hands to both.      *)
(***************************************************************************)
EXTENDS HawkdBroadcast, HawkdSources

(* Whatever a source sends, the broadcast half carries. *)
ASSUME HawkdAssumption == SpineLine \subseteq Lines

(* Everything of the broadcast half but the channel it shares. *)
castvars == <<bpc, line, cursor, clients, accepting, backlog, conn, out, rd,
              cast, joined, closedAt>>

HawkdInit == Init /\ SInit

(* MaxLines, the bound of HawkdBroadcast. *)
WithinBound ==
    Len(spine) + Len(cast) + (IF bpc = "lock" THEN 1 ELSE 0) <= MaxLines

(* main() keeps running whatever becomes of the producers: a source that    *)
(* has ended leaves the channel open, and the broadcast loop waiting.       *)
HawkdNext ==
    \/ SNext /\ UNCHANGED castvars /\ WithinBound'
    \/ /\ AcceptLoop \/ BroadcastLoop \/ \E c \in Clients : Client(c)
       /\ UNCHANGED svars

HawkdSpec == HawkdInit /\ [][HawkdNext]_<<bvars, svars>>

HawkdFairSpec ==
    /\ HawkdSpec
    /\ WF_<<bvars, svars>>(BroadcastLoop /\ UNCHANGED svars)
    /\ WF_<<bvars, svars>>(PushClient /\ UNCHANGED svars)
    /\ WF_<<bvars, svars>>((\E c \in Clients : AcceptClient(c)) /\ UNCHANGED svars)
    /\ \A c \in Clients : WF_<<bvars, svars>>(Read(c) /\ UNCHANGED svars)
    /\ \A s \in Sources :
          WF_<<bvars, svars>>(SendLine(s) /\ UNCHANGED castvars /\ WithinBound')

-------------------------------------------------------------------------------
(* Properties *)

IsOf(s, l) == l # Banner /\ l.src = s

(* Of each source, a UI client sees consecutive lines in the order that the *)
(* source read them, from some point on to the end of what it has been sent:*)
(* whatever the sources and clients do meanwhile, no line of a source is    *)
(* overtaken by, or lost before, a later one.                               *)
SourceOrderAtClient ==
    \A c \in Clients : \A s \in Sources : \A i, j \in 1 .. Len(out[c]) :
        i < j /\ IsOf(s, out[c][i]) /\ IsOf(s, out[c][j]) =>
            /\ out[c][i].n < out[c][j].n
            /\ out[c][i].input < out[c][j].input
            /\ \A n \in out[c][i].n + 1 .. out[c][j].n - 1 :
                  \E k \in i + 1 .. j - 1 : IsOf(s, out[c][k]) /\ out[c][k].n = n

(* A line that a producer is about to send while a client is registered is  *)
(* eventually read by the client, unless it closes; also if the producer    *)
(* ends right after.                                                        *)
LineReachesClient ==
    \A c \in Clients : \A s \in Sources : \A n \in 1 .. MaxRead :
        (pc[s] = "send" /\ sent[s] + 1 = n /\ Registered(c) /\ conn[c] = "open")
          ~> \/ conn[c] = "closed"
             \/ \E k \in 1 .. rd[c] :
                   IsOf(s, out[c][k]) /\ out[c][k].n = n

(* The joined system is an instance of the broadcast specification, so what *)
(* is proved of HawkdBroadcast holds of it: the handlers only ever append to*)
(* the spine.                                                               *)
ImplementsBroadcast == Spec
===============================================================================
