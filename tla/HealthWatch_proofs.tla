-------------------------- MODULE HealthWatch_proofs --------------------------
(***************************************************************************)
(* Proofs about the two health watchers of hawkd: SystemdWatch, for every  *)
(* set of unit states and every number of changes and failures, and        *)
(* GrpcWatch, for every number of changes and failures.  They share the    *)
(* lemmas about the retry delay, which come first.                         *)
(*                                                                         *)
(* AtRestCurrent (SystemdWatch) speaks of a watcher at rest; to carry it   *)
(* through a snapshot the invariant says, at each await, which of the      *)
(* values read so far are still the unit's: all of them, unless a signal   *)
(* is pending, the change went unseen or the cache was behind; and that    *)
(* the cache, once it has caught up, holds the unit's properties.          *)
(*                                                                         *)
(* StreamCurrent (GrpcWatch) speaks of an empty inbox; what carries it     *)
(* through the statuses still on their way is that the last of them is the *)
(* server's.                                                               *)
(***************************************************************************)
EXTENDS SystemdWatch, GrpcWatch, SequenceTheorems, FiniteSetTheorems, TLAPS

(* The provers a leaf is tried with, in turn, where it names none. *)
USE SMTT(10), ZenonT(20), SMTT(30), SMTT(40)

(***************************************************************************)
(* The retry delay.                                                        *)
(***************************************************************************)

(* Doubling with a cap stays in range. *)
LEMMA CappedDoubling ==
    ASSUME NEW b \in Int, FirstBackoff <= b, b <= MaxBackoff
    PROVE  Doubled(b) \in FirstBackoff .. MaxBackoff
BY DEF Doubled, FirstBackoff, MaxBackoff

(* The bounds of a delay. *)
LEMMA DelayBounds ==
    ASSUME NEW b \in FirstBackoff .. MaxBackoff
    PROVE  b \in Int /\ FirstBackoff <= b /\ b <= MaxBackoff
BY DEF FirstBackoff, MaxBackoff

(* From the sixth on, the powers of two exceed 60: a set of n elements has  *)
(* 2 ^ n subsets, those of its first six elements among them.               *)
LEMMA PowerFromSix ==
    ASSUME NEW n \in Nat, n >= 6
    PROVE  2 ^ n \in Nat /\ 2 ^ n >= 64
<1>1. \A m \in Nat : /\ IsFiniteSet(1 .. m)
                     /\ Cardinality(1 .. m) = m
  BY FS_Interval
<1>2. \A m \in Nat : /\ IsFiniteSet(SUBSET (1 .. m))
                     /\ Cardinality(SUBSET (1 .. m)) = 2 ^ m
  BY ZenonT(60), <1>1, FS_SUBSET
<1>3. SUBSET (1 .. 6) \in SUBSET (SUBSET (1 .. n))
  OBVIOUS
<1>4. Cardinality(SUBSET (1 .. 6)) <= Cardinality(SUBSET (1 .. n))
  BY ZenonT(60), <1>2, <1>3, FS_Subset
<1>5. Cardinality(SUBSET (1 .. n)) \in Nat
  BY ZenonT(60), <1>2, FS_CardinalityType
<1>6. 2 ^ 6 = 64 /\ 6 \in Nat
  OBVIOUS
<1> QED
  BY ZenonT(60), <1>2, <1>4, <1>5, <1>6

(* The delays of a watcher, in order. *)
LEMMA DelayTable ==
    /\ CappedDelay(0) = 250 /\ CappedDelay(1) = 500 /\ CappedDelay(2) = 1000
    /\ CappedDelay(3) = 2000 /\ CappedDelay(4) = 4000 /\ CappedDelay(5) = 8000
    /\ \A r \in Nat : r >= 6 => CappedDelay(r) = 15000
<1>1. 2 ^ 0 = 1 /\ 2 ^ 1 = 2 /\ 2 ^ 2 = 4 /\ 2 ^ 3 = 8 /\ 2 ^ 4 = 16 /\ 2 ^ 5 = 32
  OBVIOUS
<1>2. \A r \in Nat : r >= 6 => CappedDelay(r) = 15000
  BY PowerFromSix DEF CappedDelay, FirstBackoff, MaxBackoff
<1> QED
  BY <1>1, <1>2 DEF CappedDelay, FirstBackoff, MaxBackoff

(* Doubling with a cap leads from each delay to the next. *)
LEMMA NextDelay ==
    ASSUME NEW r \in Nat
    PROVE  CappedDelay(r + 1) = Doubled(CappedDelay(r))
<1>1. r \in {0, 1, 2, 3, 4, 5} \/ r >= 6
  OBVIOUS
<1> QED
  BY <1>1, DelayTable DEF Doubled, MaxBackoff

(***************************************************************************)
(* watch_one_unit (SystemdWatch).                                          *)
(***************************************************************************)

(* The subscription exists from Subscribe to the end of the attempt. *)
Phases ==
    /\ wpc \in {"connect", "subscribe", "sleep"} => ~subscribed
    /\ wpc = "wait" => subscribed

(* What has been read is what the unit has, unless it has been told, or     *)
(* failed to be told, of a change.                                          *)
ReadsCurrent ==
    signals = 0 /\ ~missed /\ ~lagged =>
        /\ wpc = "sub" => snap = <<unit.active>>
        /\ wpc = "load" => snap = <<unit.active, unit.sub>>
        /\ wpc \in {"subscribe", "wait"} => last = SnapshotFrame(unit)

(* The last of the signals on their way to the cache, if any, has the       *)
(* unit's properties, and otherwise the cache has, unless a change was not  *)
(* signalled.                                                               *)
Newest(q, c) == IF q = <<>> THEN c ELSE q[Len(q)]

CacheTold ==
    /\ ~emits => updates = <<>>
    /\ ~Cached => updates = <<>>
    /\ Cached /\ (emits \/ ~missed) => unit = Newest(updates, cache)

(* The delay of the next sleep is a function of the failures so far.  An    *)
(* attempt that sleeps has failed, so the retries before it are one fewer.  *)
Retries == IF wpc = "sleep" THEN failures - 1 ELSE failures

DelayCounted ==
    /\ wpc = "sleep" => failures > 0
    /\ backoff = CappedDelay(Retries)

(* The conjuncts of WTypeOK in two groups, each within reach of one prover. *)
Flags ==
    /\ emits \in BOOLEAN
    /\ lagged \in BOOLEAN
    /\ subscribed \in BOOLEAN
    /\ missed \in BOOLEAN
    /\ signals > 0 => emits /\ subscribed

Values ==
    /\ unit \in UnitStates
    /\ cache \in UnitStates
    /\ updates \in Seq(UnitStates)
    /\ changes \in 0 .. MaxChanges
    /\ wpc \in {"connect", "active", "sub", "load", "subscribe", "wait", "sleep"}
    /\ snap \in Seq(STRING)
    /\ Len(snap) \in {0, 1, 2}
    /\ Len(snap) = 1 <=> wpc = "sub"
    /\ Len(snap) = 2 <=> wpc = "load"
    /\ signals \in 0 .. changes
    /\ backoff \in FirstBackoff .. MaxBackoff
    /\ failures \in 0 .. MaxFailures
    /\ last.kind \in {"none", "snapshot", "error"}

WIInv == WTypeOK /\ Phases /\ CacheTold /\ ReadsCurrent /\ OutageStands /\ DelayCounted

(* The first element of a sequence of length one. *)
LEMMA FirstInSeq ==
    ASSUME NEW S, NEW q \in Seq(S), Len(q) = 1
    PROVE  q[1] \in S
OBVIOUS

(* Applying the first of the pending updates does not change the newest. *)
LEMMA NewestAfterHead ==
    ASSUME NEW S, NEW q \in Seq(S), NEW c, q # <<>>
    PROVE  Newest(Tail(q), Head(q)) = Newest(q, c)
<1>1. Len(q) \in Nat /\ Len(q) > 0 /\ Tail(q) \in Seq(S) /\ Len(Tail(q)) = Len(q) - 1
  OBVIOUS
<1>2. CASE Len(q) = 1
  <2>1. Tail(q) = <<>>
    <3>1. Len(Tail(q)) \notin Nat \ {0}
      BY <1>1, <1>2
    <3> QED
      BY <1>1, <3>1, EmptySeq, Zenon
  <2>2. Head(q) = q[Len(q)]
    BY <1>2
  <2> QED
    BY <2>1, <2>2 DEF Newest
<1>3. CASE Len(q) # 1
  <2>1. Tail(q) # <<>>
    <3>1. Len(Tail(q)) # 0
      BY <1>1, <1>3
    <3> QED
      BY <3>1, EmptySeq, Zenon
  <2>2. Len(q) - 1 \in 1 .. Len(q) - 1
    BY <1>1, <1>3
  <2>3. Tail(q)[Len(q) - 1] = q[Len(q)]
    BY <1>1, <2>2, HeadTailProperties
  <2> QED
    BY <1>1, <2>1, <2>3 DEF Newest
<1> QED
  BY <1>2, <1>3

(* A further update is the newest. *)
LEMMA NewestAppended ==
    ASSUME NEW S, NEW q \in Seq(S), NEW c, NEW u \in S
    PROVE  Newest(Append(q, u), c) = u
BY DEF Newest

(* The initial states satisfy the invariant. *)
LEMMA WInvInit == WInit => WIInv
<1> SUFFICES ASSUME WInit PROVE WIInv
  OBVIOUS
<1> USE SystemdAssumption DEF WInit
<1>1. Flags
  <2>1. ~(signals > 0)
    OBVIOUS
  <2> QED
    BY ZenonT(60), <2>1 DEF Flags
<1>2. Values
  BY DEF Values, FirstBackoff, MaxBackoff, NoFrame
<1>3. Phases /\ CacheTold /\ ReadsCurrent /\ OutageStands
  BY DEF Phases, CacheTold, Cached, ReadsCurrent, OutageStands
<1>4. DelayCounted
  BY DelayTable DEF DelayCounted, Retries, FirstBackoff
<1> QED
  BY <1>1, <1>2, <1>3, <1>4 DEF WIInv, WTypeOK, Flags, Values

(* Every step keeps the flags. *)
LEMMA FlagsStep == WIInv /\ [WNext]_wvars => Flags'
<1> SUFFICES ASSUME Flags, Values, Phases, [WNext]_wvars PROVE Flags'
  BY DEF WIInv, WTypeOK, Flags, Values
<1> USE DEF Flags
<1>1. CASE UNCHANGED wvars
  BY <1>1 DEF wvars
<1>2. ASSUME NEW u \in UnitStates, UnitChanges(u) PROVE Flags'
  BY <1>2 DEF UnitChanges
<1>3. CASE ConnectBus
  BY ZenonT(60), <1>3 DEF ConnectBus
<1>4. CASE ReadActive
  BY <1>4 DEF ReadActive
<1>5. CASE ReadSub
  BY <1>5 DEF ReadSub
<1>6. CASE ReadLoadAndEmit
  BY <1>6 DEF ReadLoadAndEmit
<1>7. CASE Subscribe
  BY <1>7 DEF Subscribe, Phases
<1>8. CASE ReceiveSignal
  BY ZenonT(60), <1>8 DEF ReceiveSignal, Phases
<1>9. CASE AttemptFails
  <2>1. ~(signals' > 0)
    BY <1>9 DEF AttemptFails
  <2> QED
    BY ZenonT(60), <1>9, <2>1 DEF AttemptFails
<1>10. CASE Wake
  BY <1>10 DEF Wake
<1>11. CASE CacheUpdates
  BY <1>11 DEF CacheUpdates
<1> QED
  BY <1>1, <1>2, <1>3, <1>4, <1>5, <1>6, <1>7, <1>8, <1>9, <1>10, <1>11 DEF WNext, Task

(* Every step keeps the values in their ranges. *)
LEMMA ValuesStep == WIInv /\ [WNext]_wvars => Values'
<1> SUFFICES ASSUME Values, [WNext]_wvars PROVE Values'
  BY DEF WIInv, WTypeOK, Flags, Values
<1> USE SystemdAssumption DEF Values
<1>1. CASE UNCHANGED wvars
  BY <1>1 DEF wvars
<1>2. ASSUME NEW u \in UnitStates, UnitChanges(u) PROVE Values'
  BY <1>2 DEF UnitChanges
<1>3. CASE ConnectBus
  BY <1>3 DEF ConnectBus
<1>4. CASE ReadActive
  BY <1>4 DEF ReadActive
<1>5. CASE ReadSub
  <2>1. cache.sub \in STRING
    OBVIOUS
  <2>2. snap[1] \in STRING /\ snap' = <<snap[1], cache.sub>>
    <3>1. snap \in Seq(STRING) /\ Len(snap) = 1
      BY <1>5 DEF ReadSub
    <3>2. snap[1] \in STRING
      BY <3>1, FirstInSeq
    <3> QED
      BY <1>5, <3>2 DEF ReadSub
  <2>3. snap' \in Seq(STRING) /\ Len(snap') = 2
    BY <2>1, <2>2
  <2> QED
    BY <1>5, <2>3 DEF ReadSub
<1>6. CASE ReadLoadAndEmit
  BY <1>6 DEF ReadLoadAndEmit, SnapshotFrame
<1>7. CASE Subscribe
  BY <1>7 DEF Subscribe
<1>8. CASE ReceiveSignal
  BY <1>8 DEF ReceiveSignal
<1>9. CASE AttemptFails
  BY <1>9 DEF AttemptFails, ErrorFrame
<1>10. CASE Wake
  <2>1. backoff' \in FirstBackoff .. MaxBackoff
    <3>1. backoff \in FirstBackoff .. MaxBackoff
      BY Zenon
    <3> QED
      BY <1>10, <3>1, DelayBounds, CappedDoubling, Zenon DEF Wake
  <2> QED
    BY <1>10, <2>1 DEF Wake
<1>11. CASE CacheUpdates
  BY <1>11 DEF CacheUpdates
<1> QED
  BY <1>1, <1>2, <1>3, <1>4, <1>5, <1>6, <1>7, <1>8, <1>9, <1>10, <1>11 DEF WNext, Task

(* Every step keeps what the cache has been told. *)
LEMMA CacheStep == WIInv /\ [WNext]_wvars => CacheTold'
<1> SUFFICES ASSUME Flags, Values, Phases, CacheTold, [WNext]_wvars PROVE CacheTold'
  BY DEF WIInv, WTypeOK, Flags, Values
<1> USE DEF CacheTold, Cached
<1>1. CASE UNCHANGED wvars
  BY <1>1 DEF wvars
<1>2. ASSUME NEW u \in UnitStates, UnitChanges(u) PROVE CacheTold'
  <2>1. CASE emits /\ Cached
    <3>1. updates' = Append(updates, u) /\ unit' = u
      BY <1>2, <2>1 DEF UnitChanges
    <3>2. Newest(updates', cache') = u
      BY <3>1, NewestAppended DEF Values
    <3> QED
      BY <1>2, <2>1, <3>1, <3>2 DEF UnitChanges
  <2>2. CASE ~(emits /\ Cached)
    BY ZenonT(60), <1>2, <2>2 DEF UnitChanges, Flags
  <2> QED
    BY <2>1, <2>2
<1>3. CASE ConnectBus
  BY <1>3 DEF ConnectBus, Phases
<1>4. CASE ReadActive
  BY <1>4 DEF ReadActive, Newest
<1>5. CASE ReadSub
  BY <1>5 DEF ReadSub
<1>6. CASE ReadLoadAndEmit
  BY <1>6 DEF ReadLoadAndEmit
<1>7. CASE Subscribe
  BY <1>7 DEF Subscribe
<1>8. CASE ReceiveSignal
  <2>1. emits
    BY <1>8 DEF ReceiveSignal, Flags
  <2> QED
    BY <1>8, <2>1 DEF ReceiveSignal, Phases
<1>9. CASE AttemptFails
  BY <1>9 DEF AttemptFails
<1>10. CASE Wake
  BY <1>10 DEF Wake, Phases
<1>11. CASE CacheUpdates
  <2>1. Newest(updates', cache') = Newest(updates, cache)
    BY <1>11, NewestAfterHead DEF CacheUpdates, Values
  <2> QED
    BY <1>11, <2>1 DEF CacheUpdates
<1> QED
  BY <1>1, <1>2, <1>3, <1>4, <1>5, <1>6, <1>7, <1>8, <1>9, <1>10, <1>11 DEF WNext, Task

(* Every step keeps the delay in line with the failures: a failure counts   *)
(* once it is slept off, and nothing else touches either.                   *)
LEMMA DelayStep == WIInv /\ [WNext]_wvars => DelayCounted'
<1> SUFFICES ASSUME Values, DelayCounted, [WNext]_wvars PROVE DelayCounted'
  BY DEF WIInv, WTypeOK, Values
<1> USE DEF DelayCounted, Retries
<1>1. CASE AttemptFails
  <2>1. wpc # "sleep" /\ wpc' = "sleep" /\ failures' = failures + 1 /\ backoff' = backoff
    BY <1>1 DEF AttemptFails
  <2>2. failures \in Nat /\ failures' - 1 = failures
    BY <2>1, SystemdAssumption DEF Values
  <2>3. failures' > 0
    BY <2>1, <2>2
  <2> QED
    BY <2>1, <2>2, <2>3
<1>2. CASE Wake
  <2>1. failures - 1 \in Nat /\ failures - 1 + 1 = failures
    BY <1>2, SystemdAssumption DEF Wake, Values
  <2>2. CappedDelay(failures) = Doubled(CappedDelay(failures - 1))
    BY <2>1, NextDelay
  <2>3. backoff' = CappedDelay(failures)
    BY <1>2, <2>2 DEF Wake
  <2> QED
    BY <1>2, <2>3 DEF Wake
<1>3. CASE ConnectBus \/ ReadActive \/ ReadSub \/ ReadLoadAndEmit \/ Subscribe \/ ReceiveSignal
  BY <1>3 DEF ConnectBus, ReadActive, ReadSub, ReadLoadAndEmit, Subscribe, ReceiveSignal
<1>4. CASE CacheUpdates \/ (\E u \in UnitStates : UnitChanges(u)) \/ UNCHANGED wvars
  BY <1>4 DEF CacheUpdates, UnitChanges, wvars
<1> QED
  BY <1>1, <1>2, <1>3, <1>4 DEF WNext, Task

(* Every step keeps the rest of the invariant. *)
LEMMA WInvStep == WIInv /\ [WNext]_wvars => WIInv'
<1> SUFFICES ASSUME WIInv, [WNext]_wvars PROVE Phases' /\ ReadsCurrent' /\ OutageStands'
  BY FlagsStep, ValuesStep, CacheStep, DelayStep DEF WIInv, WTypeOK, Flags, Values
<1> USE SystemdAssumption DEF WIInv, WTypeOK, Phases, ReadsCurrent, OutageStands
<1>1. CASE UNCHANGED wvars
  BY <1>1 DEF wvars, SnapshotFrame, map_systemd_level, ErrorFrame
<1>2. ASSUME NEW u \in UnitStates, UnitChanges(u)
      PROVE Phases' /\ ReadsCurrent' /\ OutageStands'
  <2>1. Phases' /\ OutageStands'
    BY <1>2 DEF UnitChanges, ErrorFrame
  <2>2. ASSUME (signals = 0)' PROVE ~(emits /\ subscribed)
    BY <1>2, <2>2 DEF UnitChanges
  <2>3. ASSUME (signals = 0)', ~missed'
        PROVE wpc' \notin {"sub", "load", "subscribe", "wait"}
    BY ZenonT(60), <1>2, <2>2, <2>3 DEF UnitChanges, Cached
  <2> QED
    BY <2>1, <2>3
<1>3. CASE ConnectBus
  BY <1>3 DEF ConnectBus
<1>4. CASE ReadActive
  <2>1. Phases' /\ OutageStands'
    BY <1>4 DEF ReadActive
  <2>2. ASSUME ~missed, updates = <<>> PROVE cache' = unit
    BY <1>4, <2>2 DEF ReadActive, CacheTold, Newest
  <2>3. ASSUME ~missed, ~lagged' PROVE snap' = <<unit.active>>
    BY ZenonT(60), <1>4, <2>2, <2>3 DEF ReadActive
  <2> QED
    BY <1>4, <2>1, <2>3 DEF ReadActive
<1>5. CASE ReadSub
  <2>1. Phases' /\ OutageStands'
    BY <1>5 DEF ReadSub
  <2>2. ASSUME signals = 0, ~missed, ~lagged' PROVE snap' = <<unit.active, unit.sub>>
    <3>1. ~lagged /\ updates = <<>>
      BY ZenonT(60), <1>5, <2>2 DEF ReadSub
    <3>2. cache = unit
      BY <1>5, <2>2, <3>1 DEF ReadSub, CacheTold, Cached, Newest
    <3>3. snap = <<unit.active>> /\ snap' = <<snap[1], unit.sub>>
      BY <1>5, <2>2, <3>1, <3>2 DEF ReadSub
    <3> QED
      BY <3>3
  <2> QED
    BY <1>5, <2>1, <2>2 DEF ReadSub
<1>6. CASE ReadLoadAndEmit
  <2>1. Phases' /\ OutageStands'
    BY <1>6 DEF ReadLoadAndEmit
  <2>2. ReadsCurrent'
    <3> SUFFICES ASSUME signals = 0, ~missed, ~lagged' PROVE last' = SnapshotFrame(unit)'
      BY <1>6 DEF ReadLoadAndEmit
    <3>0. ~lagged /\ updates = <<>>
      BY ZenonT(60), <1>6 DEF ReadLoadAndEmit
    <3>1. snap[1] = unit.active /\ snap[2] = unit.sub /\ cache = unit
      BY <1>6, <3>0 DEF ReadLoadAndEmit, CacheTold, Cached, Newest
    <3>2. unit = [active |-> snap[1], sub |-> snap[2], load |-> cache.load]
      BY <3>1
    <3> QED
      BY <1>6, <3>2 DEF ReadLoadAndEmit, SnapshotFrame, map_systemd_level
  <2> QED
    BY <2>1, <2>2
<1>7. CASE Subscribe
  BY <1>7 DEF Subscribe, SnapshotFrame, map_systemd_level
<1>8. CASE ReceiveSignal
  BY <1>8 DEF ReceiveSignal
<1>9. CASE AttemptFails
  BY <1>9 DEF AttemptFails, ErrorFrame
<1>10. CASE Wake
  BY <1>10 DEF Wake
<1>11. CASE CacheUpdates
  BY <1>11 DEF CacheUpdates, SnapshotFrame, map_systemd_level, ErrorFrame
<1> QED
  BY <1>1, <1>2, <1>3, <1>4, <1>5, <1>6, <1>7, <1>8, <1>9, <1>10, <1>11 DEF WNext, Task

(* The invariant holds throughout. *)
LEMMA WInvHolds == WSpec => []WIInv
BY WInvInit, WInvStep, PTL DEF WSpec

(* The watcher's state is well formed; in particular backoff_ms stays       *)
(* between 250 and 15000 and no signal is pending without a subscription.   *)
THEOREM WatcherTypes == WSpec => []WTypeOK
<1>1. WIInv => WTypeOK
  BY DEF WIInv
<1> QED
  BY <1>1, WInvHolds, PTL

(* A watcher at rest that missed nothing and read no cache that was behind  *)
(* has the unit's state as its last frame: a change between two reads of    *)
(* emit_snapshot_frame is always followed by a signal and a further         *)
(* snapshot.                                                                *)
THEOREM WatcherAtRestCurrent == WSpec => []AtRestCurrent
<1>1. WIInv => AtRestCurrent
  BY DEF WIInv, ReadsCurrent, AtRestCurrent
<1> QED
  BY <1>1, WInvHolds, PTL

(* The delay before retry k is 250 ms doubled k times, at most 15 s, for a  *)
(* watcher of any age: watch_one_unit never resets it.                      *)
THEOREM WatcherDelays == WSpec => []DelayByFailures
<1>1. WIInv => DelayByFailures
  BY DEF WIInv, DelayCounted, Retries, DelayByFailures
<1> QED
  BY <1>1, WInvHolds, PTL

(* After a failed attempt the error frame stands until the next snapshot.   *)
THEOREM FailureStands == WSpec => []OutageStands
<1>1. WIInv => OutageStands
  BY DEF WIInv
<1> QED
  BY <1>1, WInvHolds, PTL

(***************************************************************************)
(* watch_one (GrpcWatch).                                                  *)
(***************************************************************************)

Levels == {"none", "ok", "info", "warn", "fail", "unknown"}

(* The newest status the watcher has or will receive is the server's. *)
StreamTold ==
    gpc = "stream" /\ up /\ ~silent =>
        IF inbox = <<>> THEN glast = LevelOf(status) ELSE inbox[Len(inbox)] = status

(* A connection that is up has a fresh delay, and naps count those since. *)
FreshDelay == gpc \in {"watch", "stream"} => gbackoff = FirstBackoff /\ naps = 0

(* The delay is the first one doubled for every nap, capped. *)
GDelayCounted == gbackoff = CappedDelay(naps)

GIInv == GTypeOK /\ StreamTold /\ FreshDelay /\ GDelayCounted

(* A nap leads from each delay to the next; past NapCap it is no longer     *)
(* counted, and the delay is at its limit.                                  *)
LEMMA NapDelay ==
    ASSUME NEW n \in 0 .. NapCap
    PROVE  CappedDelay(IF n < NapCap THEN n + 1 ELSE n) = Doubled(CappedDelay(n))
<1>1. n \in {0, 1, 2, 3, 4, 5, 6}
  BY DEF NapCap
<1> QED
  BY <1>1, DelayTable DEF NapCap, Doubled, MaxBackoff

(* Every status has a level. *)
LEMMA LevelOfType == ASSUME NEW s \in Statuses PROVE LevelOf(s) \in Levels
BY DEF Statuses, LevelOf, Levels

(* Taking the first of several elements leaves the last in its place. *)
LEMMA LastAfterTail ==
    ASSUME NEW S, NEW q \in Seq(S), q # <<>>
    PROVE  /\ Tail(q) \in Seq(S)
           /\ Tail(q) = <<>> => Head(q) = q[Len(q)]
           /\ Tail(q) # <<>> => Tail(q)[Len(Tail(q))] = q[Len(q)]
<1>1. Len(q) \in Nat /\ Len(q) > 0 /\ Tail(q) \in Seq(S) /\ Len(Tail(q)) = Len(q) - 1
  OBVIOUS
<1>2. CASE Len(q) = 1
  <2>1. Len(Tail(q)) \notin Nat \ {0}
    BY <1>1, <1>2
  <2>2. Tail(q) = <<>>
    BY <1>1, <2>1, EmptySeq, Zenon
  <2>3. Head(q) = q[Len(q)]
    BY <1>2
  <2> QED
    BY <1>1, <2>2, <2>3
<1>3. CASE Len(q) # 1
  <2>1. Len(Tail(q)) # 0 /\ Len(q) - 1 \in 1 .. Len(q) - 1
    BY <1>1, <1>3
  <2>2. Tail(q) # <<>>
    BY <2>1, EmptySeq, Zenon
  <2>3. Tail(q)[Len(Tail(q))] = q[Len(q)]
    BY <1>1, <2>1, HeadTailProperties
  <2> QED
    BY <1>1, <2>2, <2>3
<1> QED
  BY <1>2, <1>3

(* The initial states satisfy the invariant. *)
LEMMA GInvInit == GInit => GIInv
<1> SUFFICES ASSUME GInit PROVE GIInv
  OBVIOUS
<1>1. silent \in BOOLEAN /\ (silent => gpc = "stream")
  BY ZenonT(60) DEF GInit
<1>2. GTypeOK
  BY <1>1, GrpcAssumption DEF GInit, GTypeOK, FirstBackoff, MaxBackoff, NapCap
<1>3. StreamTold /\ FreshDelay /\ GDelayCounted
  BY DelayTable DEF GInit, StreamTold, FreshDelay, GDelayCounted, FirstBackoff
<1> QED
  BY <1>2, <1>3 DEF GIInv

(* Every step keeps the types. *)
LEMMA GTypeStep == GIInv /\ [GNext]_gvars => GTypeOK'
<1> SUFFICES ASSUME GTypeOK, [GNext]_gvars PROVE GTypeOK'
  BY DEF GIInv
<1> USE GrpcAssumption DEF GTypeOK, NapCap, ErrorLevel
<1>1. CASE UNCHANGED gvars
  BY <1>1 DEF gvars
<1>2. ASSUME NEW s \in Statuses, ServerStatusChanges(s) PROVE GTypeOK'
  BY <1>2 DEF ServerStatusChanges
<1>3. CASE ServerUpOrDown
  <2>1. up' \in BOOLEAN
    BY <1>3 DEF ServerUpOrDown
  <2> QED
    BY <1>3, <2>1 DEF ServerUpOrDown
<1>4. CASE PeerVanishes
  <2>1. up' \in BOOLEAN /\ silent' \in BOOLEAN
    BY ZenonT(60), <1>4 DEF PeerVanishes
  <2> QED
    BY <1>4, <2>1 DEF PeerVanishes
<1>5. CASE ConnectOk
  <2>1. gbackoff' \in FirstBackoff .. MaxBackoff
    <3> HIDE DEF GTypeOK
    <3> QED
      BY <1>5 DEF ConnectOk, FirstBackoff, MaxBackoff
  <2> QED
    BY <1>5, <2>1 DEF ConnectOk, connect_channel, Breaks
<1>6. CASE ConnectFails
  BY <1>6 DEF ConnectFails, connect_channel, Breaks
<1>7. CASE WatchOk
  BY <1>7 DEF WatchOk
<1>8. CASE WatchFails
  BY <1>8 DEF WatchFails, Breaks
<1>9. CASE StreamItem
  <2>1. Head(inbox) \in Statuses /\ Tail(inbox) \in Seq(Statuses)
    BY <1>9 DEF StreamItem
  <2>2. glast' \in Levels
    BY <1>9, <2>1, LevelOfType DEF StreamItem
  <2> QED
    BY <1>9, <2>1, <2>2 DEF StreamItem, Levels
<1>10. CASE StreamError
  <2>1. breaks' \in 0 .. MaxBreaks
    BY <1>10 DEF StreamError, Breaks
  <2>2. silent' \in BOOLEAN /\ ~silent'
    BY ZenonT(60), <1>10 DEF StreamError
  <2> QED
    BY <1>10, <2>1, <2>2 DEF StreamError
<1>11. CASE StreamEnds
  BY <1>11 DEF StreamEnds, Breaks
<1>12. CASE GWake
  <2>1. gbackoff' \in FirstBackoff .. MaxBackoff
    <3>1. gbackoff \in FirstBackoff .. MaxBackoff
      BY Zenon
    <3> QED
      BY <1>12, <3>1, DelayBounds, CappedDoubling, Zenon DEF GWake
  <2> QED
    BY <1>12, <2>1 DEF GWake
<1> QED
  BY <1>1, <1>2, <1>3, <1>4, <1>5, <1>6, <1>7, <1>8, <1>9, <1>10, <1>11, <1>12 DEF GNext, GTask

(* Every step keeps the delay in line with the naps since the last connect. *)
LEMMA GDelayStep == GIInv /\ [GNext]_gvars => GDelayCounted'
<1> SUFFICES ASSUME naps \in 0 .. NapCap, GDelayCounted, [GNext]_gvars PROVE GDelayCounted'
  BY DEF GIInv, GTypeOK
<1> USE DEF GDelayCounted
<1>1. CASE GWake
  BY <1>1, NapDelay DEF GWake
<1>2. CASE ConnectOk
  BY <1>2, DelayTable DEF ConnectOk, FirstBackoff
<1>3. CASE ConnectFails \/ WatchOk \/ WatchFails \/ StreamItem \/ StreamError \/ StreamEnds
  BY <1>3 DEF ConnectFails, WatchOk, WatchFails, StreamItem, StreamError, StreamEnds
<1>4. CASE ServerUpOrDown \/ PeerVanishes \/ UNCHANGED gvars
  BY <1>4 DEF ServerUpOrDown, PeerVanishes, gvars
<1>5. CASE \E s \in Statuses : ServerStatusChanges(s)
  BY <1>5 DEF ServerStatusChanges
<1> QED
  BY <1>1, <1>2, <1>3, <1>4, <1>5 DEF GNext, GTask

(* Every step keeps the rest of the invariant. *)
LEMMA GInvStep == GIInv /\ [GNext]_gvars => GIInv'
<1> SUFFICES ASSUME GIInv, [GNext]_gvars PROVE StreamTold' /\ FreshDelay'
  BY GTypeStep, GDelayStep DEF GIInv
<1> USE DEF GIInv, GTypeOK, StreamTold, FreshDelay
<1>1. CASE UNCHANGED gvars
  BY <1>1 DEF gvars, LevelOf
<1>2. ASSUME NEW s \in Statuses, ServerStatusChanges(s) PROVE StreamTold' /\ FreshDelay'
  <2>1. FreshDelay'
    BY <1>2 DEF ServerStatusChanges
  <2>2. ASSUME gpc = "stream", ~silent PROVE inbox' # <<>> /\ inbox'[Len(inbox')] = s
    BY <1>2, <2>2 DEF ServerStatusChanges
  <2> QED
    BY <1>2, <2>1, <2>2 DEF ServerStatusChanges
<1>3. CASE ServerUpOrDown
  BY <1>3 DEF ServerUpOrDown, LevelOf
<1>4. CASE PeerVanishes
  BY <1>4 DEF PeerVanishes
<1>5. CASE ConnectOk
  BY <1>5 DEF ConnectOk
<1>6. CASE ConnectFails
  BY <1>6 DEF ConnectFails
<1>7. CASE WatchOk
  BY <1>7 DEF WatchOk
<1>8. CASE WatchFails
  BY <1>8 DEF WatchFails
<1>9. CASE StreamItem
  <2>1. FreshDelay'
    BY <1>9 DEF StreamItem
  <2>2. ASSUME up, ~silent, inbox' = <<>> PROVE Head(inbox) = status
    BY <1>9, <2>2, LastAfterTail DEF StreamItem
  <2>3. ASSUME up, ~silent, inbox' # <<>> PROVE inbox'[Len(inbox')] = status
    BY <1>9, <2>3, LastAfterTail DEF StreamItem
  <2>4. ASSUME up, ~silent, inbox' = <<>> PROVE glast' = LevelOf(status)
    BY <1>9, <2>2, <2>4 DEF StreamItem
  <2> QED
    BY <1>9, <2>1, <2>3, <2>4 DEF StreamItem, LevelOf
<1>10. CASE StreamError
  BY <1>10 DEF StreamError
<1>11. CASE StreamEnds
  BY <1>11 DEF StreamEnds
<1>12. CASE GWake
  BY <1>12 DEF GWake
<1> QED
  BY <1>1, <1>2, <1>3, <1>4, <1>5, <1>6, <1>7, <1>8, <1>9, <1>10, <1>11, <1>12 DEF GNext, GTask

(* The invariant holds throughout. *)
LEMMA GInvHolds == GSpec => []GIInv
BY GInvInit, GInvStep, PTL DEF GSpec

(* The watcher's state is well formed; in particular backoff_ms stays       *)
(* between 250 and 15000.                                                   *)
THEOREM GrpcTypes == GSpec => []GTypeOK
<1>1. GIInv => GTypeOK
  BY DEF GIInv
<1> QED
  BY <1>1, GInvHolds, PTL

(* On a live stream with nothing left to receive, the last frame watch_one  *)
(* sent has the level of the server's status.                               *)
THEOREM GrpcStreamCurrent == GSpec => []StreamCurrent
<1>1. GIInv => StreamCurrent
  BY DEF GIInv, StreamTold, StreamCurrent
<1> QED
  BY <1>1, GInvHolds, PTL

(* The delay is 250 ms doubled for every delay since the last successful    *)
(* connect, at most 15 s, and 250 ms again as soon as watch_one has         *)
(* connected.                                                               *)
THEOREM GrpcRetryDelay == GSpec => []RetryDelay
<1>1. GIInv => RetryDelay
  BY DEF GIInv, FreshDelay, GDelayCounted, RetryDelay
<1> QED
  BY <1>1, GInvHolds, PTL
===============================================================================
