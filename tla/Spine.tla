--------------------------------- MODULE Spine ---------------------------------
(* The mpsc channel main() of crates/hawkd/src/main.rs creates: its sender   *)
(* is cloned to every source of HawkdSources, its receiver is the broadcast  *)
(* loop of HawkdBroadcast.                                                   *)
VARIABLE spine      \* the lines sent and not yet received
===============================================================================
