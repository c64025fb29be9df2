----------------------------- MODULE SystemdWatch -----------------------------
(***************************************************************************)
(* One systemd unit watcher of hawkd (crates/hawkd/src/systemd.rs): the    *)
(* retry loop watch_one_unit around watch_one_unit_once, which connects,   *)
(* emits a snapshot of the unit, subscribes to PropertiesChanged and emits *)
(* a snapshot per signal.  A snapshot reads three properties with an await *)
(* before each, so the unit may change between two of them.                *)
(*                                                                         *)
(* The bus and systemd are external.  The unit proxy is built with zbus's  *)
(* default, so it caches: the first read of an attempt fetches all         *)
(* properties, later ones return what a task of zbus has kept up to date   *)
(* from its own copy of the signals, sooner or later than the watcher gets *)
(* its copy.  systemd sends signals only while some client has called the  *)
(* manager's Subscribe, which hawkd does not do.  Any await may fail,      *)
(* which ends the attempt.                                                 *)
(***************************************************************************)
EXTENDS Integers, Sequences, FiniteSets, Backoff

CONSTANTS
    UnitStates,     \* records with fields active, sub, load
    MaxChanges,     \* bound: changes of the unit
    MaxFailures     \* bound: failed awaits

ASSUME SystemdAssumption ==
    /\ UnitStates \subseteq [active : STRING, sub : STRING, load : STRING]
    /\ MaxChanges \in Nat
    /\ MaxFailures \in Nat

VARIABLES
    emits,      \* systemd sends signals: somebody else has called Subscribe
    unit,       \* the unit's properties, as systemd has them
    cache,      \* the same, as the unit proxy's cache has them
    updates,    \* signals on their way to the cache: the unit's new properties
    changes,    \* history: how often they changed
    wpc,        \* the await the task is at
    snap,       \* properties read so far by emit_snapshot_frame
    subscribed, \* receive_properties_changed has returned
    signals,    \* PropertiesChanged signals not yet received
    backoff,    \* backoff_ms
    failures,   \* history: failed attempts
    last,       \* the last frame sent for this unit
    missed,     \* history: the unit changed after the first read of the
                \* attempt and no signal was sent to the watcher, be it for
                \* want of its subscription or of anybody's, nor has it
                \* received one since
    lagged      \* history: the last snapshot read the cache when it was behind

wvars == <<emits, unit, cache, updates, changes, wpc, snap, subscribed, signals,
           backoff, failures, last, missed, lagged>>

NoFrame == [kind |-> "none", level |-> "none", props |-> <<>>]

(* The level of a snapshot; the cases are tried in the source's order. *)
map_systemd_level(p) ==
    IF p.load = "not-found" \/ "failed" \in {p.active, p.sub} THEN "fail"
    ELSE CASE p.active = "active"                       -> "ok"
           [] p.active \in {"activating", "reloading"}  -> "info"
           [] p.active \in {"deactivating", "inactive"} -> "warn"
           [] OTHER                                     -> "unknown"

SnapshotFrame(p) == [kind |-> "snapshot", level |-> map_systemd_level(p), props |-> p]

ErrorFrame == [kind |-> "error", level |-> "fail", props |-> <<>>]

WInit ==
    /\ emits \in BOOLEAN
    /\ unit \in UnitStates
    /\ cache = unit
    /\ updates = <<>>
    /\ changes = 0
    /\ wpc = "connect"
    /\ snap = <<>>
    /\ subscribed = FALSE
    /\ signals = 0
    /\ backoff = FirstBackoff
    /\ failures = 0
    /\ last = NoFrame
    /\ missed = FALSE
    /\ lagged = FALSE

(* The attempt has read the unit once, so there is a cache. *)
Cached == subscribed \/ wpc \in {"sub", "load", "subscribe"}

-------------------------------------------------------------------------------
(* The unit changes state.  If systemd emits, cache and subscriber hear it. *)
UnitChanges(u) ==
    /\ changes < MaxChanges
    /\ u # unit
    /\ unit' = u
    /\ changes' = changes + 1
    /\ updates' = IF emits /\ Cached THEN Append(updates, u) ELSE updates
    /\ signals' = IF emits /\ subscribed THEN signals + 1 ELSE signals
    /\ missed' = (missed \/ (Cached /\ ~(emits /\ subscribed)))
    /\ UNCHANGED <<emits, cache, wpc, snap, subscribed, backoff, failures, last, lagged>>

CacheUpdates ==
    /\ updates # <<>>
    /\ cache' = Head(updates)
    /\ updates' = Tail(updates)
    /\ UNCHANGED <<emits, unit, changes, wpc, snap, subscribed, signals, backoff,
                   failures, last, missed, lagged>>

(* Bus connection, manager proxy, GetUnit, unit and properties proxies. *)
ConnectBus ==
    /\ wpc = "connect"
    /\ wpc' = "active"
    /\ missed' = FALSE
    /\ UNCHANGED <<emits, cache, updates, unit, changes, snap, subscribed, signals, backoff, failures, last, lagged>>

(* emit_snapshot_frame: active_state, sub_state, load_state, then send. *)
ReadActive ==
    /\ wpc = "active"
    /\ cache' = IF Cached THEN cache ELSE unit
    /\ snap' = <<cache'.active>>
    /\ lagged' = (updates # <<>>)
    /\ wpc' = "sub"
    /\ UNCHANGED <<emits, unit, updates, changes, subscribed, signals, backoff, failures, last, missed>>

ReadSub ==
    /\ wpc = "sub"
    /\ snap' = <<snap[1], cache.sub>>
    /\ lagged' = (lagged \/ updates # <<>>)
    /\ wpc' = "load"
    /\ UNCHANGED <<emits, unit, cache, updates, changes, subscribed, signals, backoff, failures, last, missed>>

ReadLoadAndEmit ==
    /\ wpc = "load"
    /\ last' = SnapshotFrame([active |-> snap[1], sub |-> snap[2], load |-> cache.load])
    /\ snap' = <<>>
    /\ lagged' = (lagged \/ updates # <<>>)
    /\ wpc' = IF subscribed THEN "wait" ELSE "subscribe"
    /\ UNCHANGED <<emits, unit, cache, updates, changes, subscribed, signals, backoff, failures, missed>>

Subscribe ==
    /\ wpc = "subscribe"
    /\ subscribed' = TRUE
    /\ wpc' = "wait"
    /\ UNCHANGED <<emits, cache, updates, unit, changes, snap, signals, backoff, failures, last, missed, lagged>>

(* Mutant: signals that queued up during a snapshot are taken as answered. *)
ReceiveAllSignals ==
    /\ wpc = "wait"
    /\ signals > 0
    /\ signals' = 0
    /\ wpc' = IF signals > 1 THEN "wait" ELSE "active"
    /\ missed' = FALSE
    /\ UNCHANGED <<emits, cache, updates, unit, changes, snap, subscribed, backoff, failures, last, lagged>>

ReceiveSignal ==
    /\ wpc = "wait"
    /\ signals > 0
    /\ signals' = signals - 1
    /\ wpc' = "active"
    /\ missed' = FALSE
    /\ UNCHANGED <<emits, cache, updates, unit, changes, snap, subscribed, backoff, failures, last, lagged>>

(* Mutant: the attempt ends without a word, as if watch_one_unit_once had   *)
(* returned Ok.                                                             *)
AttemptEndsSilently ==
    /\ wpc \in {"connect", "active", "sub", "load", "subscribe", "wait"}
    /\ failures < MaxFailures
    /\ failures' = failures + 1
    /\ snap' = <<>>
    /\ subscribed' = FALSE
    /\ signals' = 0
    /\ wpc' = "sleep"
    /\ updates' = <<>>
    /\ UNCHANGED <<emits, cache, unit, changes, backoff, last, missed, lagged>>

(* An await fails, or the signal stream ends: watch_one_unit_once returns   *)
(* Err, dropping connection and subscription, and an error frame is sent.   *)
AttemptFails ==
    /\ wpc \in {"connect", "active", "sub", "load", "subscribe", "wait"}
    /\ failures < MaxFailures
    /\ failures' = failures + 1
    /\ last' = ErrorFrame
    /\ snap' = <<>>
    /\ subscribed' = FALSE
    /\ signals' = 0
    /\ wpc' = "sleep"
    /\ updates' = <<>>
    /\ UNCHANGED <<emits, cache, unit, changes, backoff, missed, lagged>>

(* Mutant: the delay grows by a step instead of doubling. *)
WakeLinear ==
    /\ wpc = "sleep"
    /\ wpc' = "connect"
    /\ backoff' = IF backoff + FirstBackoff > MaxBackoff THEN MaxBackoff
                  ELSE backoff + FirstBackoff
    /\ UNCHANGED <<emits, cache, updates, unit, changes, snap, subscribed, signals, failures, last, missed, lagged>>

(* The delay passes and doubles.  The branch of watch_one_unit that resets  *)
(* it is for an Ok that watch_one_unit_once never returns.                  *)
Wake ==
    /\ wpc = "sleep"
    /\ wpc' = "connect"
    /\ backoff' = Doubled(backoff)
    /\ UNCHANGED <<emits, cache, updates, unit, changes, snap, subscribed, signals, failures, last, missed, lagged>>

Task ==
    \/ ConnectBus \/ ReadActive \/ ReadSub \/ ReadLoadAndEmit
    \/ Subscribe \/ ReceiveSignal \/ Wake

WNext ==
    \/ \E u \in UnitStates : UnitChanges(u)
    \/ CacheUpdates
    \/ Task
    \/ AttemptFails

WSpec == WInit /\ [][WNext]_wvars

(* tokio runs the task whenever what it awaits is ready; nothing is assumed *)
(* of the task that updates the cache.                                      *)
WFairSpec == WSpec /\ WF_wvars(Task)

-------------------------------------------------------------------------------
(* Properties *)

(* Type invariant of watch_one_unit: the snapshot's reads follow the await   *)
(* the task is at, signals queue only on a subscription, and the delay stays *)
(* between 250 ms and 15 s.                                                  *)
WTypeOK ==
    /\ emits \in BOOLEAN
    /\ unit \in UnitStates
    /\ cache \in UnitStates
    /\ updates \in Seq(UnitStates)
    /\ changes \in 0 .. MaxChanges
    /\ wpc \in {"connect", "active", "sub", "load", "subscribe", "wait", "sleep"}
    /\ snap \in Seq(STRING)
    /\ Len(snap) \in {0, 1, 2}
    /\ Len(snap) = 1 <=> wpc = "sub"
    /\ Len(snap) = 2 <=> wpc = "load"
    /\ subscribed \in BOOLEAN
    /\ signals \in 0 .. changes
    /\ signals > 0 => emits /\ subscribed
    /\ backoff \in FirstBackoff .. MaxBackoff
    /\ failures \in 0 .. MaxFailures
    /\ last.kind \in {"none", "snapshot", "error"}
    /\ missed \in BOOLEAN
    /\ lagged \in BOOLEAN

(* When the watcher rests with no signal to answer, its last frame is the   *)
(* unit's state, also after a snapshot torn by a change between its reads.  *)
(* There are two exceptions, and only the next change repairs them: no      *)
(* signal was sent for the change, as it came before the subscription or    *)
(* nobody has called Subscribe; or the answer to the signal read the cache  *)
(* before the cache had got it.                                             *)
AtRestCurrent ==
    wpc = "wait" /\ signals = 0 /\ ~missed /\ ~lagged => last = SnapshotFrame(unit)

(* While an attempt has failed and the next has not produced a snapshot,    *)
(* the frame that stands is the failure, never an older healthy one.        *)
OutageStands ==
    failures > 0 /\ (wpc \in {"sleep", "connect"} \/ (wpc \in {"active", "sub", "load"} /\ ~subscribed))
        => last = ErrorFrame

(* Delays before retry k: 250 ms doubled k times, at most 15 s, over the    *)
(* whole life of the watcher, since no success ever resets them.            *)
DelayByFailures ==
    backoff = CappedDelay(IF wpc = "sleep" THEN failures - 1 ELSE failures)

(* A watcher that misses nothing ends up with the state the unit settles    *)
(* in: a change that was not signalled and a cache that was behind are the  *)
(* only ways to stay wrong.                                                 *)
MirroredUnlessMissed ==
    \A u \in UnitStates :
        <>[](unit = u) => <>[](last = SnapshotFrame(u) \/ missed \/ lagged)
===============================================================================
