-------------------------------- MODULE Backoff --------------------------------
(***************************************************************************)
(* The retry delay that the health watchers of hawkd share, in             *)
(* milliseconds (backoff_ms of watch_one_unit and of watch_one): it starts *)
(* at 250, and each sleep doubles it up to 15000.                          *)
(***************************************************************************)
EXTENDS Integers

FirstBackoff == 250
MaxBackoff == 15000

(* (backoff_ms * 2).min(...) *)
Doubled(delay) == IF 2 * delay > MaxBackoff THEN MaxBackoff ELSE 2 * delay

(* What the delay amounts to after n sleeps. *)
CappedDelay(n) ==
    LET exact == FirstBackoff * 2 ^ n
    IN  IF exact > MaxBackoff THEN MaxBackoff ELSE exact
===============================================================================
