---------------------------- MODULE MCHawkdSources ----------------------------
(* Small instances of hawkd's line-reading producers for TLC. *)
EXTENDS HawkdSources

In(kind, cut) == [kind |-> kind, cut |-> cut]

(* One input per case the handlers distinguish. *)
AllInputs == {In("frame", "whole"), In("skip", "whole"), In("garbled", "whole"),
              In("bad", "whole"), In("bad", "split")}
===============================================================================
