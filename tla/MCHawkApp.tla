------------------------------- MODULE MCHawkApp -------------------------------
(* Frames for model checking HawkApp: with and without a timestamp, dated   *)
(* in the past and in the future, with and without TTLs of their own.       *)
(* Entity 1 goes stale and dies by the defaults, or is a dream at the end;  *)
(* all three entities can be dead by then, and only two have a row.         *)
EXTENDS HawkApp

Frame(k, level, ts, stale, dead) ==
    [key |-> k, level |-> level, ts |-> ts, stale |-> stale, dead |-> dead]

ThreeEntities == {
    Frame(1, "ok", NoTs, 3, 4),
    Frame(1, "fail", 0, 0, 0),
    Frame(2, "warn", NoTs, 2, 2),
    Frame(3, "unknown", 1, 2, 1)}
===============================================================================
