--------------------------- MODULE MCOperatorConsole ---------------------------
(* A small instance of the operator console for TLC. *)
EXTENDS OperatorConsole

(* In idle turns; the log is polled most often and the command least. *)
Intervals == [grpc |-> 2, streams |-> 2, command |-> 3, log |-> 1]

NoUnit == [s \in Scopes |-> "absent"]

(* Nothing happens. *)
Quiet == [keys |-> {}, maxKeys |-> 0, events |-> {}, maxEvents |-> 0,
          catalogs |-> {<<"a", "b">>}, slow |-> {}, adapters |-> {"fallback"},
          logs |-> {0}, chats |-> {0}, units |-> {NoUnit}]

(* Commands are selected and run, slow ones among them, from a catalog that *)
(* fails to load, or has lost one of its commands, when it is read again.   *)
OfCommands ==
    [Quiet EXCEPT !.keys = {"q", "select", "enter", "r", "m"}, !.maxKeys = 4,
                  !.catalogs = {<<"a", "b">>, <<"b">>, <<>>},
                  !.slow = {"catalog", "command", "streams", "prompt"}]

(* Endpoints come and go while they are polled, and the fake file is made   *)
(* anew; the poll fails.                                                    *)
OfEndpoints ==
    [Quiet EXCEPT !.events = {"endpoint"}, !.maxEvents = 3, !.slow = {"grpc"},
                  !.adapters = {"fake", "grpcurl", "fallback", "missing"}]

(* The log is written, emptied and removed. *)
OfLog == [Quiet EXCEPT !.events = {"log"}, !.maxEvents = 4, !.logs = {-1, 1}]

(* So are the notes, by two consoles and by others. *)
OfNotes ==
    [Quiet EXCEPT !.keys = {"m"}, !.maxKeys = 2,
                  !.events = {"notes"}, !.maxEvents = 3, !.chats = {-1, 0}]

(* The daemon is started and stopped. *)
OfDaemon ==
    [Quiet EXCEPT !.keys = Changing \cup Asking, !.maxKeys = 3,
                  !.units = [Scopes -> {"absent", "down"}]]

FiveScenes == {OfCommands, OfEndpoints, OfLog, OfNotes, OfDaemon}
===============================================================================
