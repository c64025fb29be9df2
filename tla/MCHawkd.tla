-------------------------------- MODULE MCHawkd --------------------------------
(* A small instance of hawkd as a whole for TLC. *)
EXTENDS Hawkd

In(kind, cut) == [kind |-> kind, cut |-> cut]

(* A frame, and a line that is reported by ingest and, unless strict,       *)
(* dropped by stdin.                                                        *)
FrameOrBad == {In("frame", "whole"), In("bad", "whole")}

Carried == SpineLine
===============================================================================
