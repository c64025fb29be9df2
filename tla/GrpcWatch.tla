------------------------------- MODULE GrpcWatch -------------------------------
(***************************************************************************)
(* One gRPC health watcher of hawkd (watch_one in                          *)
(* crates/hawkd/src/grpc_health.rs): connect, call Watch, emit a frame per *)
(* status the server streams, and start over after a delay.                *)
(*                                                                         *)
(* The server is external: it is reachable or not, has a serving status,   *)
(* answers Watch with its status and then streams every change.  When it   *)
(* becomes unreachable the stream ends, with an error or in good order, or *)
(* the peer vanishes without a word: hawkd sets no keepalive, so nothing   *)
(* obliges the stream ever to end then.                                    *)
(* Reachable covers what connect_channel checks on the way: a usable URI,  *)
(* readable TLS files, a handshake within the connect timeout.             *)
(***************************************************************************)
EXTENDS Integers, Sequences, Backoff

CONSTANTS
    MaxServerChanges,  \* bound: changes of the server (status, reachability)
    MaxBreaks       \* bound: connects, calls and streams that fail although
                    \* the server is reachable

ASSUME GrpcAssumption == MaxServerChanges \in Nat /\ MaxBreaks \in Nat

(* Bound on the history naps: six doublings of 250 ms exceed 15 s. *)
NapCap == 6

(* What the wire carries: the four codes of the protocol, or another one. *)
Statuses == {"Serving", "NotServing", "ServiceUnknown", "Unknown", "other"}

VARIABLES
    up,         \* the endpoint is reachable
    status,     \* the serving status the server has
    gchanges,   \* history: changes of up and status
    breaks,     \* history: failures that are not for want of the server
    gpc,        \* "connect", "watch", "stream", "sleep"
    silent,     \* the stream's peer is gone and the stream has not ended
    inbox,      \* statuses streamed and not yet received
    gbackoff,   \* backoff_ms
    naps,       \* history: delays slept since the last successful connect
    glast       \* level of the last frame sent for this service

gvars == <<up, status, gchanges, breaks, gpc, silent, inbox, gbackoff,
           naps, glast>>

GInit ==
    /\ up \in BOOLEAN
    /\ status \in Statuses
    /\ gchanges = 0
    /\ breaks = 0
    /\ gpc = "connect"
    /\ silent = FALSE
    /\ inbox = <<>>
    /\ gbackoff = FirstBackoff
    /\ naps = 0
    /\ glast = "none"

(* emit_status_frame; a code outside the protocol is taken as Unknown. *)
LevelOf(s) ==
    CASE s = "Serving"        -> "ok"
      [] s = "NotServing"     -> "fail"
      [] s = "ServiceUnknown" -> "warn"
      [] OTHER                -> "unknown"

(* emit_error_frame *)
ErrorLevel == "fail"

-------------------------------------------------------------------------------
(* The server. *)
ServerStatusChanges(s) ==
    /\ gchanges < MaxServerChanges
    /\ up
    /\ s # status
    /\ status' = s
    /\ gchanges' = gchanges + 1
    /\ inbox' = IF gpc = "stream" /\ ~silent THEN Append(inbox, s) ELSE inbox
    /\ UNCHANGED <<up, breaks, gpc, silent, gbackoff, naps, glast>>

(* The server goes away or comes back; an open stream dies with it, though  *)
(* what it had sent may still arrive.                                       *)
ServerUpOrDown ==
    /\ gchanges < MaxServerChanges
    /\ up \/ silent \/ gpc # "stream"
    /\ up' = ~up
    /\ gchanges' = gchanges + 1
    /\ UNCHANGED <<status, breaks, gpc, silent, inbox, gbackoff, naps, glast>>

(* The server's machine or the network to it dies under an open stream. *)
PeerVanishes ==
    /\ gchanges < MaxServerChanges
    /\ gpc = "stream" /\ up /\ ~silent
    /\ up' = FALSE
    /\ silent' = TRUE
    /\ gchanges' = gchanges + 1
    /\ UNCHANGED <<status, breaks, gpc, inbox, gbackoff, naps, glast>>

-------------------------------------------------------------------------------
(* A call or a stream fails: for want of the server, or for another reason. *)
Breaks ==
    \/ ~up /\ UNCHANGED breaks
    \/ up /\ breaks < MaxBreaks /\ breaks' = breaks + 1

(* A bad URI, an unreadable certificate or key, a refused handshake and a    *)
(* timeout are all one Err; with a wrong configuration no server is ever up.*)
connect_channel(result) ==
    \/ result = "Ok" /\ up /\ UNCHANGED breaks
    \/ result = "Err" /\ Breaks

(* Mutant: the delay survives a successful connect. *)
ConnectOkKeepsDelay ==
    /\ gpc = "connect"
    /\ connect_channel("Ok")
    /\ gpc' = "watch"
    /\ naps' = 0
    /\ UNCHANGED <<up, status, gchanges, silent, inbox, gbackoff, glast>>

ConnectOk ==
    /\ gpc = "connect"
    /\ connect_channel("Ok")
    /\ gpc' = "watch"
    /\ gbackoff' = FirstBackoff
    /\ naps' = 0
    /\ UNCHANGED <<up, status, gchanges, silent, inbox, glast>>

(* Mutant: a failed connect is retried without a frame. *)
ConnectFailsSilently ==
    /\ gpc = "connect"
    /\ connect_channel("Err")
    /\ gpc' = "sleep"
    /\ UNCHANGED <<up, status, gchanges, silent, inbox, gbackoff, naps, glast>>

ConnectFails ==
    /\ gpc = "connect"
    /\ connect_channel("Err")
    /\ gpc' = "sleep"
    /\ glast' = ErrorLevel
    /\ UNCHANGED <<up, status, gchanges, silent, inbox, gbackoff, naps>>

(* client.watch(req).await *)
WatchOk ==
    /\ gpc = "watch"
    /\ up
    /\ gpc' = "stream"
    /\ inbox' = <<status>>
    /\ UNCHANGED <<up, status, gchanges, breaks, silent, gbackoff, naps, glast>>

WatchFails ==
    /\ gpc = "watch"
    /\ Breaks
    /\ gpc' = "sleep"
    /\ glast' = ErrorLevel
    /\ UNCHANGED <<up, status, gchanges, silent, inbox, gbackoff, naps>>

(* Mutant: a status that is neither good nor bad is passed over. *)
StreamItemKnownOnly ==
    /\ gpc = "stream"
    /\ inbox # <<>>
    /\ glast' = IF Head(inbox) \in {"Serving", "NotServing"}
                THEN LevelOf(Head(inbox))
                ELSE glast
    /\ inbox' = Tail(inbox)
    /\ UNCHANGED <<up, status, gchanges, breaks, gpc, silent, gbackoff, naps>>

StreamItem ==
    /\ gpc = "stream"
    /\ inbox # <<>>
    /\ glast' = LevelOf(Head(inbox))
    /\ inbox' = Tail(inbox)
    /\ UNCHANGED <<up, status, gchanges, breaks, gpc, silent, gbackoff, naps>>

(* The stream yields an error: a frame says so. *)
StreamError ==
    /\ gpc = "stream"
    /\ IF silent THEN UNCHANGED breaks ELSE Breaks
    /\ gpc' = "sleep"
    /\ glast' = ErrorLevel
    /\ inbox' = <<>>
    /\ silent' = FALSE
    /\ UNCHANGED <<up, status, gchanges, gbackoff, naps>>

(* The stream ends in good order: no frame, the last status stands. *)
StreamEnds ==
    /\ gpc = "stream"
    /\ inbox = <<>>
    /\ ~silent /\ Breaks
    /\ gpc' = "sleep"
    /\ UNCHANGED <<up, status, gchanges, silent, inbox, gbackoff, naps, glast>>

GWake ==
    /\ gpc = "sleep"
    /\ gpc' = "connect"
    /\ gbackoff' = Doubled(gbackoff)
    /\ naps' = IF naps < NapCap THEN naps + 1 ELSE naps
    /\ UNCHANGED <<up, status, gchanges, breaks, silent, inbox, glast>>

GTask ==
    \/ ConnectOk \/ ConnectFails \/ WatchOk \/ WatchFails
    \/ StreamItem \/ StreamError \/ StreamEnds \/ GWake

GNext ==
    \/ \E s \in Statuses : ServerStatusChanges(s)
    \/ ServerUpOrDown
    \/ PeerVanishes
    \/ GTask

GSpec == GInit /\ [][GNext]_gvars

(* tokio runs the task; a dead connection is noticed, unless the peer       *)
(* vanished without a word.                                                 *)
GFairSpec == GSpec /\ WF_gvars(GTask /\ (silent => silent'))

-------------------------------------------------------------------------------
(* Properties *)

(* Type invariant of watch_one; the delay stays between 250 ms and 15 s.     *)
GTypeOK ==
    /\ up \in BOOLEAN
    /\ status \in Statuses
    /\ gchanges \in 0 .. MaxServerChanges
    /\ breaks \in 0 .. MaxBreaks
    /\ gpc \in {"connect", "watch", "stream", "sleep"}
    /\ silent \in BOOLEAN
    /\ silent => gpc = "stream"
    /\ inbox \in Seq(Statuses)
    /\ gbackoff \in FirstBackoff .. MaxBackoff
    /\ naps \in 0 .. NapCap
    /\ glast \in {"none", "ok", "info", "warn", "fail", "unknown"}

(* On a live stream with nothing left to receive, the last frame has the    *)
(* level of the server's status: no change is lost between Watch and the    *)
(* first item, nor between two items.                                       *)
StreamCurrent ==
    gpc = "stream" /\ up /\ ~silent /\ inbox = <<>> => glast = LevelOf(status)

(* The delay before a retry is 250 ms doubled for every delay since the     *)
(* last successful connect, at most 15 s: a server that accepts connections *)
(* and then refuses or ends Watch is retried every 250 ms for ever.         *)
RetryDelay ==
    /\ gbackoff = CappedDelay(naps)
    /\ gpc \in {"watch", "stream"} => gbackoff = FirstBackoff

(* A server that stays away is eventually shown as failed, also when its    *)
(* stream had ended in good order with status SERVING, and one that stays   *)
(* reachable with one status is eventually shown with that status.  The     *)
(* only exception is a peer that vanished without a word: its last status   *)
(* may stand for ever, and hide that the server is back, as hawkd neither   *)
(* pings it nor times the stream out.                                       *)
ServerMirrored ==
    /\ <>[]~up => <>[](glast = ErrorLevel \/ silent)
    /\ \A s \in Statuses :
         <>[](up /\ status = s) => <>[](glast = LevelOf(s) \/ silent)
===============================================================================
