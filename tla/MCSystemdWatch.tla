---------------------------- MODULE MCSystemdWatch ----------------------------
(* Small instances of a systemd unit watcher for TLC. *)
EXTENDS SystemdWatch

Props(a, s, l) == [active |-> a, sub |-> s, load |-> l]

(* A running unit, a failed one, one being started and one whose file is    *)
(* gone: every level but "warn" and "unknown", and torn mixtures of them.   *)
FewStates == {Props("active", "running", "loaded"),
              Props("failed", "failed", "loaded"),
              Props("activating", "start", "loaded"),
              Props("inactive", "dead", "not-found")}
===============================================================================
