---------------------------- MODULE HawkApp_proofs -----------------------------
(***************************************************************************)
(* Proofs about hawk's state, for any frames, tail size, time limits and   *)
(* number of messages: every message is counted once, the entities and the *)
(* tail are those of the last frames ingested, a screen's bar is backed by *)
(* its table, and only frames revive an entity on the screen.              *)
(***************************************************************************)
EXTENDS HawkApp, SequenceTheorems, FiniteSetTheorems, TLAPS

(* The provers a leaf is tried with, in turn, where it names none. *)
USE SMTT(10), ZenonT(20), SMTT(30), SMTT(40)

AInv ==
    /\ ATypeOK
    /\ rx_ui \in Seq(Msgs)
    /\ {frames_seen, parse_errors, io_errors} \subseteq Nat
    /\ ingested \in Seq(Frames)
    /\ tail \in Seq(Frames)
    /\ bar.at \in Nat /\ nowRows \in Nat
    /\ MirrorsLastFrames

(* A message that is a frame carries one. *)
LEMMA MsgKinds ==
    ASSUME NEW m \in Msgs
    PROVE  m.kind = "frame" => m.frame \in Frames
BY DEF Msgs

(* The application starts with the invariant. *)
LEMMA AInvInit == AInit => AInv
<1> SUFFICES ASSUME AInit PROVE AInv
  OBVIOUS
<1>1. /\ rx_ui \in Seq(Msgs) /\ ingested \in Seq(Frames) /\ tail \in Seq(Frames)
      /\ Len(rx_ui) = 0 /\ Len(ingested) = 0 /\ Len(tail) = 0 /\ DOMAIN entities = {}
      /\ frames_seen = 0 /\ parse_errors = 0 /\ io_errors = 0 /\ arrived = 0
      /\ clock = 0 /\ bar.at = 0 /\ nowRows = 0 /\ upc = "drain"
  BY DEF AInit
<1>2. TailSize \in Nat /\ MaxTime \in Nat /\ MaxMsgs \in Nat
  BY AppAssumption
<1>3. ATypeOK
  BY <1>1, <1>2 DEF ATypeOK
<1>4. MirrorsLastFrames
  BY <1>1, <1>2 DEF MirrorsLastFrames
<1> QED
  BY <1>1, <1>3, <1>4 DEF AInv

(* What push_tail returns: the frame, then the old tail, cut to size. *)
LEMMA PushTail ==
    ASSUME tail \in Seq(Frames), Len(tail) <= TailSize, NEW f \in Frames
    PROVE  /\ push_tail(f) \in Seq(Frames)
           /\ Len(push_tail(f)) = IF Len(tail) < TailSize THEN Len(tail) + 1 ELSE TailSize
           /\ \A i \in 1 .. Len(push_tail(f)) :
                 push_tail(f)[i] = IF i = 1 THEN f ELSE tail[i - 1]
<1> DEFINE longer == <<f>> \o tail
<1>1. TailSize \in Nat /\ Len(tail) \in Nat
  BY AppAssumption
<1>2. /\ longer \in Seq(Frames) /\ Len(longer) = Len(tail) + 1
      /\ \A i \in 1 .. Len(tail) + 1 : longer[i] = IF i = 1 THEN f ELSE tail[i - 1]
  OBVIOUS
<1>3. push_tail(f) = IF Len(longer) > TailSize THEN SubSeq(longer, 1, TailSize) ELSE longer
  BY DEF push_tail
<1> HIDE DEF longer
<1>4. CASE Len(longer) > TailSize
  <2>1. /\ SubSeq(longer, 1, TailSize) \in Seq(Frames)
        /\ Len(SubSeq(longer, 1, TailSize)) = TailSize
        /\ \A i \in 1 .. TailSize : SubSeq(longer, 1, TailSize)[i] = longer[i]
    BY <1>1, <1>2, <1>4
  <2> QED
    BY <1>1, <1>2, <1>3, <1>4, <2>1
<1>5. CASE ~(Len(longer) > TailSize)
  BY <1>1, <1>2, <1>3, <1>5
<1> QED
  BY <1>4, <1>5

(* What EntitiesWith returns: the entity of the frame is replaced. *)
LEMMA EntityReplaced ==
    ASSUME NEW f \in Frames
    PROVE  /\ DOMAIN EntitiesWith(f) = DOMAIN entities \cup {f.key}
           /\ EntitiesWith(f)[f.key].last_level = f.level
           /\ f.ts # NoTs => EntitiesWith(f)[f.key].last_seen = f.ts
           /\ EntitiesWith(f)[f.key].stale = f.stale
           /\ EntitiesWith(f)[f.key].dead = f.dead
           /\ \A k \in DOMAIN entities : k # f.key => EntitiesWith(f)[k] = entities[k]
BY DEF EntitiesWith

(* A frame is ingested: the last frame of every key is still mirrored. *)
LEMMA IngestMirrors ==
    ASSUME AInv, NEW f \in Frames, ingest_frame(f)
    PROVE  MirrorsLastFrames' /\ Len(tail') <= TailSize /\ tail' \in Seq(Frames)
<1> USE DEF NoTs
<1>1. PICK n \in Nat : Len(ingested) = n
  BY DEF AInv
<1>2. /\ ingested' \in Seq(Frames) /\ Len(ingested') = n + 1
      /\ ingested'[n + 1] = f /\ \A i \in 1 .. n : ingested'[i] = ingested[i]
  BY <1>1 DEF AInv, ingest_frame
<1>3. PICK t \in Nat : Len(tail) = t
  BY DEF AInv
<1>4. PICK z \in Nat : TailSize = z
  BY AppAssumption
<1>5. /\ tail' \in Seq(Frames)
      /\ Len(tail') = IF t < z THEN t + 1 ELSE z
      /\ \A i \in 1 .. Len(tail') : tail'[i] = IF i = 1 THEN f ELSE tail[i - 1]
  BY ZenonT(60), <1>3, <1>4, PushTail DEF AInv, ATypeOK, ingest_frame
<1>6. /\ DOMAIN entities' = DOMAIN entities \cup {f.key}
      /\ entities'[f.key].last_level = f.level
      /\ f.ts # NoTs => entities'[f.key].last_seen = f.ts
      /\ entities'[f.key].stale = f.stale
      /\ entities'[f.key].dead = f.dead
      /\ \A k \in DOMAIN entities : k # f.key => entities'[k] = entities[k]
  BY ZenonT(60), EntityReplaced DEF ingest_frame
<1>7. t = IF n < z THEN n ELSE z
  BY <1>1, <1>3, <1>4 DEF AInv, MirrorsLastFrames
<1>8. \A k \in Keys :
         k \in DOMAIN entities' <=> \E i \in 1 .. n + 1 : ingested'[i].key = k
  <2>1. \A k \in Keys : k \in DOMAIN entities <=> \E i \in 1 .. n : ingested[i].key = k
    BY <1>1 DEF AInv, MirrorsLastFrames
  <2>2. \A i : i \in 1 .. n + 1 <=> i \in 1 .. n \/ i = n + 1
    BY <1>1
  <2>3. \A k : (\E i \in 1 .. n + 1 : ingested'[i].key = k)
                 <=> (\E i \in 1 .. n : ingested[i].key = k) \/ f.key = k
    BY <1>2, <2>2
  <2> QED
    BY <1>6, <2>1, <2>3
<1>9. ASSUME NEW i \in 1 .. n + 1,
             \A j \in i + 1 .. n + 1 : ingested'[j].key # ingested'[i].key
      PROVE  /\ entities'[ingested'[i].key].last_level = ingested'[i].level
             /\ ingested'[i].ts # NoTs => entities'[ingested'[i].key].last_seen = ingested'[i].ts
             /\ entities'[ingested'[i].key].stale = ingested'[i].stale
             /\ entities'[ingested'[i].key].dead = ingested'[i].dead
  <2>1. CASE i = n + 1
    BY <1>2, <1>6, <2>1
  <2>2. CASE i # n + 1
    <3>1. i \in 1 .. n /\ n + 1 \in i + 1 .. n + 1
      BY <1>1, <2>2
    <3>2. ingested'[i] = ingested[i] /\ ingested[i].key # f.key
      BY <1>2, <1>9, <3>1
    <3>3. \A j \in i + 1 .. n : j \in i + 1 .. n + 1 /\ j \in 1 .. n
      BY <1>1, <3>1
    <3>4. \A j \in i + 1 .. n : ingested[j].key # ingested[i].key
      BY <1>2, <1>9, <3>2, <3>3
    <3>5. ingested[i].key \in DOMAIN entities
      <4>1. ingested[i] \in Frames
        BY <1>1, <3>1 DEF AInv
      <4> QED
        BY ZenonT(60), <1>1, <3>1, <4>1 DEF AInv, MirrorsLastFrames, Keys
    <3>6. entities'[ingested[i].key] = entities[ingested[i].key]
      BY <1>6, <3>2, <3>5
    <3>7. /\ entities[ingested[i].key].last_level = ingested[i].level
          /\ ingested[i].ts # NoTs => entities[ingested[i].key].last_seen = ingested[i].ts
          /\ entities[ingested[i].key].stale = ingested[i].stale
          /\ entities[ingested[i].key].dead = ingested[i].dead
      BY <1>1, <3>1, <3>4 DEF AInv, MirrorsLastFrames
    <3> QED
      BY <3>2, <3>6, <3>7
  <2> QED
    BY <2>1, <2>2
<1>10. \A i \in 1 .. Len(tail') : tail'[i] = ingested'[n + 1 - i + 1]
  <2> SUFFICES ASSUME NEW i \in 1 .. Len(tail')
               PROVE  tail'[i] = ingested'[n + 1 - i + 1]
    OBVIOUS
  <2>1. CASE i = 1
    <3>1. n + 1 - i + 1 = n + 1
      BY <2>1
    <3> QED
      BY <1>2, <1>5, <2>1, <3>1
  <2>2. CASE i # 1
    <3>1. i - 1 \in 1 .. t /\ n - (i - 1) + 1 \in 1 .. n /\ n + 1 - i + 1 = n - (i - 1) + 1
      BY <1>5, <1>7, <2>2
    <3>2. tail[i - 1] = ingested[n - (i - 1) + 1]
      BY <1>1, <1>3, <3>1 DEF AInv, MirrorsLastFrames
    <3> QED
      BY ZenonT(60), <1>2, <1>5, <2>2, <3>1, <3>2
  <2> QED
    BY <2>1, <2>2
<1>11. Len(tail') = IF n + 1 < z THEN n + 1 ELSE z
  BY <1>5, <1>7
<1>12. Len(tail') <= TailSize
  BY <1>4, <1>11
<1>13. MirrorsLastFrames'
  BY <1>2, <1>4, <1>8, <1>9, <1>10, <1>11 DEF MirrorsLastFrames
<1> QED
  BY <1>5, <1>12, <1>13

(* Every step of the application keeps the invariant. *)
LEMMA AInvStep == AInv /\ [ANext]_avars => AInv'
<1> SUFFICES ASSUME AInv, [ANext]_avars PROVE AInv'
  OBVIOUS
<1>1. /\ TailSize \in Nat /\ MaxTime \in Nat /\ MaxMsgs \in Nat
      /\ clock \in 0 .. MaxTime /\ arrived \in 0 .. MaxMsgs
  BY AppAssumption DEF AInv, ATypeOK
<1>a. /\ Len(rx_ui) \in Nat /\ frames_seen \in Nat /\ parse_errors \in Nat /\ io_errors \in Nat
      /\ arrived = Len(rx_ui) + frames_seen + parse_errors + io_errors
  BY DEF AInv, ATypeOK
<1>2. CASE Tick
  <2>1. clock' = clock + 1 /\ clock' \in 0 .. MaxTime
    BY <1>1, <1>2 DEF Tick
  <2>2. UNCHANGED <<rx_ui, arrived, state, upc, bar, nowRows>>
    BY <1>2 DEF Tick
  <2>3. MirrorsLastFrames'
    BY ZenonT(60), <2>2 DEF AInv, MirrorsLastFrames, state
  <2>4. bar.at <= clock + 1 /\ nowRows <= clock + 1
    BY <1>1 DEF AInv, ATypeOK
  <2> QED
    BY <2>1, <2>2, <2>3, <2>4 DEF AInv, ATypeOK, state
<1>3. ASSUME NEW m \in Msgs, Arrive(m)
      PROVE  AInv'
  <2>1. /\ arrived' = arrived + 1 /\ arrived' \in 0 .. MaxMsgs
        /\ rx_ui' \in Seq(Msgs) /\ Len(rx_ui') = Len(rx_ui) + 1
    BY <1>1, <1>3 DEF Arrive, AInv
  <2>2. UNCHANGED <<clock, state, upc, bar, nowRows>>
    BY <1>3 DEF Arrive
  <2>3. MirrorsLastFrames'
    BY ZenonT(60), <2>2 DEF AInv, MirrorsLastFrames, state
  <2>4. arrived' = Len(rx_ui') + frames_seen + parse_errors + io_errors
    BY <1>a, <2>1
  <2> QED
    BY ZenonT(60), <2>1, <2>2, <2>3, <2>4 DEF AInv, ATypeOK, state
<1>4. CASE Ingest
  <2>1. /\ rx_ui' \in Seq(Msgs) /\ Head(rx_ui) \in Msgs /\ Len(rx_ui) \in Nat
        /\ Len(rx_ui') = Len(rx_ui) - 1
    BY <1>4 DEF Ingest, AInv
  <2>2. UNCHANGED <<clock, arrived, upc, bar, nowRows>>
    BY <1>4 DEF Ingest
  <2>3. CASE Head(rx_ui).kind = "frame" /\ ingest_frame(Head(rx_ui).frame)
    <3> DEFINE f == Head(rx_ui).frame
    <3>1. f \in Frames
      BY <2>1, <2>3, MsgKinds
    <3>2. MirrorsLastFrames' /\ Len(tail') <= TailSize /\ tail' \in Seq(Frames)
      BY <2>3, <3>1, IngestMirrors
    <3>3. DOMAIN entities' \subseteq Keys
      <4>1. DOMAIN entities' = DOMAIN entities \cup {f.key}
        BY ZenonT(60), <2>3, <3>1, EntityReplaced DEF ingest_frame
      <4>2. f.key \in Keys /\ DOMAIN entities \subseteq Keys
        BY <3>1 DEF Keys, AInv, ATypeOK
      <4> QED
        BY <4>1, <4>2
    <3>4. /\ frames_seen' = frames_seen + 1
          /\ UNCHANGED <<parse_errors, io_errors>>
          /\ ingested' = Append(ingested, f)
      BY <2>3 DEF ingest_frame
    <3> HIDE DEF f
    <3>5. ingested' \in Seq(Frames) /\ Len(ingested') = frames_seen'
      BY <3>1, <3>4 DEF AInv, ATypeOK
    <3>6. arrived' = Len(rx_ui') + frames_seen' + parse_errors' + io_errors'
      BY <1>a, <2>1, <2>2, <3>4
    <3>7. frames_seen' \in Nat /\ parse_errors' \in Nat /\ io_errors' \in Nat
      BY <3>4 DEF AInv
    <3> QED
      BY ZenonT(60), <2>1, <2>2, <3>2, <3>3, <3>5, <3>6, <3>7 DEF AInv, ATypeOK
  <2>4. CASE /\ parse_errors' = parse_errors + 1
             /\ UNCHANGED <<entities, tail, frames_seen, io_errors, ingested>>
    <3>1. arrived' = Len(rx_ui') + frames_seen' + parse_errors' + io_errors'
      BY <1>a, <2>1, <2>2, <2>4
    <3>2. MirrorsLastFrames'
      BY <2>4 DEF AInv, MirrorsLastFrames
    <3>3. frames_seen' \in Nat /\ parse_errors' \in Nat /\ io_errors' \in Nat
      BY <2>4 DEF AInv
    <3> QED
      BY ZenonT(60), <2>1, <2>2, <2>4, <3>1, <3>2, <3>3 DEF AInv, ATypeOK
  <2>5. CASE /\ io_errors' = io_errors + 1
             /\ UNCHANGED <<entities, tail, frames_seen, parse_errors, ingested>>
    <3>1. arrived' = Len(rx_ui') + frames_seen' + parse_errors' + io_errors'
      BY <1>a, <2>1, <2>2, <2>5
    <3>2. MirrorsLastFrames'
      BY ZenonT(60), <2>5 DEF AInv, MirrorsLastFrames
    <3>3. frames_seen' \in Nat /\ parse_errors' \in Nat /\ io_errors' \in Nat
      BY <2>5 DEF AInv
    <3> QED
      BY ZenonT(60), <2>1, <2>2, <2>5, <3>1, <3>2, <3>3 DEF AInv, ATypeOK
  <2> QED
    BY <1>4, <2>3, <2>4, <2>5 DEF Ingest
<1>5. CASE DrawTopBar
  <2>1. /\ bar'.at = clock /\ upc' = "now"
        /\ UNCHANGED <<clock, rx_ui, arrived, state, nowRows>>
    BY <1>5 DEF DrawTopBar
  <2>2. MirrorsLastFrames'
    BY <2>1 DEF AInv, MirrorsLastFrames, state
  <2> QED
    BY <1>1, <2>1, <2>2 DEF AInv, ATypeOK, state
<1>6. CASE TableClock
  <2>1. MirrorsLastFrames'
    BY ZenonT(60), <1>6 DEF AInv, MirrorsLastFrames, state, TableClock
  <2> QED
    BY <1>1, <1>6, <2>1 DEF AInv, ATypeOK, state, TableClock
<1>7. CASE UNCHANGED <<clock, rx_ui, arrived, state, bar, nowRows>>
           /\ upc' \in {"drain", "now", "table", "poll", "quit", "error"}
  <2>1. MirrorsLastFrames'
    BY <1>7 DEF AInv, MirrorsLastFrames, state
  <2> QED
    BY <1>7, <2>1 DEF AInv, ATypeOK, state
<1>8. CASE DrawTable \/ Poll \/ Quit \/ TerminalFails
  BY <1>7, <1>8 DEF DrawTable, Poll, Quit, TerminalFails
<1>9. CASE UNCHANGED avars
  BY <1>7, <1>9 DEF avars, AInv, ATypeOK
<1> QED
  BY <1>2, <1>3, <1>4, <1>5, <1>6, <1>8, <1>9 DEF ANext, Loop

(* Every message that reached rx_ui is waiting or counted once (App::ingest), *)
(* the tail keeps to its size (push_tail), and the draw's clocks are not      *)
(* ahead, for any frames and bounds.                                          *)
THEOREM AppTypes == ASpec => []ATypeOK
<1>1. AInv => ATypeOK
  BY DEF AInv
<1> QED
  BY AInvInit, AInvStep, <1>1, PTL DEF ASpec

(* Whatever arrives, in whatever order of timestamps, entities and tail are   *)
(* those of the last frames ingested (ingest_frame, push_tail).               *)
THEOREM AppMirrorsLastFrames == ASpec => []MirrorsLastFrames
<1>1. AInv => MirrorsLastFrames
  BY DEF AInv
<1> QED
  BY AInvInit, AInvStep, <1>1, PTL DEF ASpec
EntityState == [last_level : Levels, last_seen : Nat, stale : Nat, dead : Nat]

(* The entities of App: finitely many, and well formed. *)
IsTable(ents) ==
    /\ DOMAIN ents \subseteq Nat
    /\ IsFiniteSet(DOMAIN ents)
    /\ \A k \in DOMAIN ents : ents[k] \in EntityState

(* Bar, labels and order of a screen are those of the same entities, taken  *)
(* at three moments, in that order; the labels' is not after t.             *)
DrawnBy(s, t) ==
    /\ IsTable(s.ents)
    /\ s.barAt \in Nat /\ s.at \in Nat
    /\ s.counts = counts_by_state(s.ents, s.barAt)
    /\ \E u \in 0 .. t : /\ s.barAt <= u /\ u <= s.at
                         /\ s.rows = TableRows(s.ents, u, s.at)

(* Entities ents that differ from those drawn have had one of the frames    *)
(* ingested since.                                                          *)
ChangedByFrames(s, ents, frames) ==
    /\ s.upto \in 0 .. Len(frames)
    /\ \A k \in DOMAIN s.ents :
          \/ k \in DOMAIN ents /\ ents[k] = s.ents[k]
          \/ \E n \in s.upto + 1 .. Len(frames) : frames[n].key = k

(* Between the draw of the bar and that of the table no message is taken.   *)
SInv ==
    /\ IsTable(entities)
    /\ upc \in {"now", "table"} => bar.counts = counts_by_state(entities, bar.at)
    /\ upc = "table" => bar.at <= nowRows
    /\ DOMAIN screen \subseteq {1}
    /\ \A i \in DOMAIN screen : /\ DrawnBy(screen[i], nowRows)
                                /\ ChangedByFrames(screen[i], entities, ingested)

(* What the liveness of an entity can be, and that it only ages. *)
LEMMA LivenessAges ==
    ASSUME NEW st \in EntityState, NEW t \in Nat, NEW u \in Nat, t <= u
    PROVE  /\ compute_entity_liveness(st, t) \in {"active", "dream", "stale", "dead"}
           /\ AgeRank[compute_entity_liveness(st, t)] <= AgeRank[compute_entity_liveness(st, u)]
           /\ compute_entity_liveness(st, t) = "dead" => compute_entity_liveness(st, u) = "dead"
           /\ compute_entity_liveness(st, t) \in {"dead", "stale"} =>
                 compute_entity_liveness(st, u) \in {"dead", "stale"}
<1> DEFINE seen == st.last_seen
           stale == parse_ttl_from_kv(st.stale, StaleS)
           dead == parse_ttl_from_kv(st.dead, DeadS)
           half == IF stale \div 2 > 1 THEN stale \div 2 ELSE 1
           live(now) == IF now - seen >= dead THEN "dead"
                        ELSE IF now - seen >= stale THEN "stale"
                        ELSE IF now - seen <= half THEN "active" ELSE "dream"
<1>1. \A now : compute_entity_liveness(st, now) = live(now)
  BY DEF compute_entity_liveness, compute_liveness_with_ttl
<1>2. seen \in Nat /\ stale \in Nat /\ dead \in Nat
  BY AppAssumption DEF EntityState, parse_ttl_from_kv
<1> HIDE DEF seen, stale, dead
<1>3. half \in Nat
  BY <1>2
<1> HIDE DEF half
<1>4. /\ live(t) \in {"active", "dream", "stale", "dead"}
      /\ live(u) \in {"active", "dream", "stale", "dead"}
      /\ live(t) = "dead" => live(u) = "dead"
      /\ live(t) \in {"dead", "stale"} => live(u) \in {"dead", "stale"}
      /\ live(u) = "active" => live(t) = "active"
  BY <1>2, <1>3
<1>5. AgeRank[live(t)] <= AgeRank[live(u)]
  BY <1>4 DEF AgeRank
<1> QED
  BY <1>1, <1>4, <1>5

(* The comparison of sort_by is a strict total order: ids differ. *)
LEMMA SortIsTotal ==
    ASSUME NEW ents, IsTable(ents), NEW now \in Nat
    PROVE  /\ \A a, b \in DOMAIN ents :
                 a = b \/ SortsBefore(ents, now, a, b) \/ SortsBefore(ents, now, b, a)
           /\ \A a, b \in DOMAIN ents :
                 SortsBefore(ents, now, a, b) => a # b /\ ~SortsBefore(ents, now, b, a)
           /\ \A a, b, c \in DOMAIN ents :
                 SortsBefore(ents, now, a, b) /\ SortsBefore(ents, now, b, c)
                     => SortsBefore(ents, now, a, c)
           /\ \A a, b \in DOMAIN ents :
                 SortsBefore(ents, now, a, b) /\ compute_entity_liveness(ents[b], now) = "dead"
                     => compute_entity_liveness(ents[a], now) = "dead"
<1> DEFINE life(k) == compute_entity_liveness(ents[k], now)
           live(k) == rank_live[life(k)]
           level(k) == LevelRank[ents[k].last_level]
           seen(k) == ents[k].last_seen
           before(a, b) ==
               \/ live(a) < live(b)
               \/ /\ live(a) = live(b)
                  /\ \/ level(a) < level(b)
                     \/ level(a) = level(b) /\ (seen(a) > seen(b) \/ (seen(a) = seen(b) /\ a < b))
<1>1. \A a, b : SortsBefore(ents, now, a, b) <=> before(a, b)
  BY DEF SortsBefore
<1>2. \A k \in DOMAIN ents :
         k \in Nat /\ live(k) \in 0 .. 3 /\ level(k) \in 0 .. 4 /\ seen(k) \in Nat
         /\ (live(k) = 0 <=> life(k) = "dead")
  <2> SUFFICES ASSUME NEW k \in DOMAIN ents
               PROVE  /\ k \in Nat /\ live(k) \in 0 .. 3 /\ level(k) \in 0 .. 4 /\ seen(k) \in Nat
                      /\ live(k) = 0 <=> life(k) = "dead"
    OBVIOUS
  <2>1. k \in Nat /\ ents[k] \in EntityState
    BY DEF IsTable
  <2>2. life(k) \in {"active", "dream", "stale", "dead"}
    BY <2>1, LivenessAges
  <2>3. ents[k].last_level \in Levels /\ seen(k) \in Nat
    BY <2>1 DEF EntityState
  <2> HIDE DEF life
  <2>4. live(k) \in 0 .. 3 /\ (live(k) = 0 <=> life(k) = "dead")
    BY <2>2 DEF rank_live
  <2>5. level(k) \in 0 .. 4
    BY <2>3 DEF LevelRank, Levels
  <2> QED
    BY <2>1, <2>3, <2>4, <2>5
<1> HIDE DEF live, level, seen, life
<1>3. \A a, b \in DOMAIN ents : a = b \/ before(a, b) \/ before(b, a)
  BY <1>2
<1>4. \A a, b \in DOMAIN ents : before(a, b) => a # b /\ ~before(b, a)
  BY <1>2
<1>5. \A a, b, c \in DOMAIN ents : before(a, b) /\ before(b, c) => before(a, c)
  BY <1>2
<1>6. \A a, b \in DOMAIN ents : before(a, b) /\ life(b) = "dead" => life(a) = "dead"
  BY <1>2
<1> HIDE DEF before
<1> QED
  BY <1>1, <1>3, <1>4, <1>5, <1>6 DEF life
(* sorted_entities has every entity once, in the order of the comparison:    *)
(* an entity's place is given by the number of those that sort before it.   *)
LEMMA SortedTable ==
    ASSUME NEW ents, IsTable(ents), NEW now \in Nat
    PROVE  /\ Cardinality(DOMAIN ents) \in Nat
           /\ sorted_entities(ents, now) \in [1 .. Cardinality(DOMAIN ents) -> DOMAIN ents]
           /\ \A i, j \in 1 .. Cardinality(DOMAIN ents) :
                 i < j => SortsBefore(ents, now, sorted_entities(ents, now)[i],
                                                 sorted_entities(ents, now)[j])
           /\ \A k \in DOMAIN ents : \E i \in 1 .. Cardinality(DOMAIN ents) :
                 sorted_entities(ents, now)[i] = k
<1> DEFINE D == DOMAIN ents
           n == Cardinality(D)
           before(a, b) == SortsBefore(ents, now, a, b)
           earlier(k) == {x \in D : before(x, k)}
           place == [k \in D |-> Cardinality(earlier(k)) + 1]
           sorted(f) == \A i, j \in DOMAIN f : i < j => before(f[i], f[j])
<1>1. /\ \A a, b \in D : a = b \/ before(a, b) \/ before(b, a)
      /\ \A a, b \in D : before(a, b) => a # b /\ ~before(b, a)
      /\ \A a, b, c \in D : before(a, b) /\ before(b, c) => before(a, c)
  BY Zenon, SortIsTotal
<1>2. IsFiniteSet(D) /\ n \in Nat
  BY FS_CardinalityType DEF IsTable
<1>3. sorted_entities(ents, now) = CHOOSE f \in [1 .. n -> D] : sorted(f)
  BY Zenon DEF sorted_entities
<1> HIDE DEF before, D
<1>4. ASSUME NEW S \in SUBSET D, NEW x \in D \ S, NEW T \in SUBSET D, S \cup {x} \subseteq T
      PROVE  /\ Cardinality(S) \in Nat /\ Cardinality(T) \in Nat
             /\ Cardinality(S) < Cardinality(T)
  <2>1. IsFiniteSet(S) /\ IsFiniteSet(T)
    BY <1>2, FS_Subset
  <2>2. Cardinality(S) \in Nat /\ Cardinality(T) \in Nat
    BY <2>1, FS_CardinalityType
  <2>3. Cardinality(S \cup {x}) = Cardinality(S) + 1
    BY <2>1, FS_AddElement
  <2>4. Cardinality(S \cup {x}) <= Cardinality(T)
    BY <1>4, <2>1, FS_Subset
  <2> QED
    BY <2>2, <2>3, <2>4
<1>5. ASSUME NEW k \in D
      PROVE  place[k] \in 1 .. n
  <2>1. earlier(k) \in SUBSET D /\ k \notin earlier(k)
    BY <1>1
  <2>2. Cardinality(earlier(k)) \in Nat /\ Cardinality(earlier(k)) < n
    BY <1>4, <2>1, D \in SUBSET D, k \in D \ earlier(k)
  <2>3. place[k] = Cardinality(earlier(k)) + 1
    OBVIOUS
  <2> QED
    BY <1>2, <2>2, <2>3
<1>6. ASSUME NEW a \in D, NEW b \in D, before(a, b)
      PROVE  place[a] < place[b]
  <2>1. /\ earlier(a) \in SUBSET D /\ earlier(b) \in SUBSET D
        /\ a \in D \ earlier(a) /\ earlier(a) \cup {a} \subseteq earlier(b)
    BY <1>1, <1>6
  <2>2. /\ Cardinality(earlier(a)) \in Nat /\ Cardinality(earlier(b)) \in Nat
        /\ Cardinality(earlier(a)) < Cardinality(earlier(b))
    BY <1>4, <2>1
  <2>3. place[a] = Cardinality(earlier(a)) + 1 /\ place[b] = Cardinality(earlier(b)) + 1
    OBVIOUS
  <2> QED
    BY <2>2, <2>3
<1>7. place \in [D -> 1 .. n]
  BY <1>5
<1> HIDE DEF place
<1>8. place \in Injection(D, 1 .. n)
  <2>1. \A a, b \in D : place[a] \in Nat /\ (place[a] = place[b] => a = b)
    BY <1>1, <1>5, <1>6, <1>2
  <2> QED
    BY <1>7, <2>1 DEF Injection, IsInjective
<1>9. IsFiniteSet(1 .. n) /\ Cardinality(1 .. n) = n
  BY <1>2, FS_Interval
<1>10. \A i \in 1 .. n : \E k \in D : place[k] = i
  <2>1. place \in Surjection(D, 1 .. n)
    BY <1>8, <1>9, FS_Injection
  <2> QED
    BY <2>1 DEF Surjection
<1>11. \E f \in [1 .. n -> D] : sorted(f)
  <2> DEFINE f == [i \in 1 .. n |-> CHOOSE k \in D : place[k] = i]
  <2>1. \A i \in 1 .. n : f[i] \in D /\ place[f[i]] = i
    BY <1>10
  <2>2. f \in [1 .. n -> D] /\ DOMAIN f = 1 .. n
    BY <2>1
  <2> HIDE DEF f
  <2>3. \A i, j \in 1 .. n : i < j => before(f[i], f[j])
    <3> SUFFICES ASSUME NEW i \in 1 .. n, NEW j \in 1 .. n, i < j PROVE before(f[i], f[j])
      OBVIOUS
    <3>1. /\ f[i] \in D /\ f[j] \in D /\ place[f[i]] = i /\ place[f[j]] = j
      BY <2>1
    <3>2. ~(j < i) /\ i # j
      BY <1>2
    <3>3. ~before(f[j], f[i])
      BY <1>6, <3>1, <3>2
    <3> QED
      BY <1>1, <3>1, <3>2, <3>3
  <2> QED
    BY ZenonT(60), <2>2, <2>3
<1> DEFINE order == sorted_entities(ents, now)
<1>12. order \in [1 .. n -> D] /\ sorted(order)
  BY ZenonT(60), <1>3, <1>11
<1> HIDE DEF order
<1>13. \A i, j \in 1 .. n : i < j => before(order[i], order[j])
  BY <1>12
<1>14. order \in Injection(1 .. n, D)
  <2>1. \A i, j \in 1 .. n : order[i] = order[j] => i = j
    <3> SUFFICES ASSUME NEW i \in 1 .. n, NEW j \in 1 .. n, order[i] = order[j] PROVE i = j
      OBVIOUS
    <3>1. order[i] \in D /\ order[j] \in D
      BY <1>12
    <3>2. ~(i < j) /\ ~(j < i)
      BY <1>1, <1>13, <3>1
    <3> QED
      BY <1>2, <3>2
  <2> QED
    BY <1>12, <2>1 DEF Injection, IsInjective
<1>15. order \in Surjection(1 .. n, D)
  BY <1>2, <1>9, <1>14, FS_Injection
<1>16. \A k \in D : \E i \in 1 .. n : order[i] = k
  BY <1>15 DEF Surjection
<1> QED
  BY <1>2, <1>12, <1>13, <1>16 DEF before, D, order
(* The m rows drawn: the first RowCap of the order, labelled by another     *)
(* clock.                                                                   *)
RowsAre(ents, now, nowSort, m) ==
    /\ m = IF Cardinality(DOMAIN ents) <= RowCap THEN Cardinality(DOMAIN ents) ELSE RowCap
    /\ DOMAIN TableRows(ents, now, nowSort) = 1 .. m
    /\ Len(TableRows(ents, now, nowSort)) = m
    /\ \A i \in 1 .. m :
          LET k == sorted_entities(ents, nowSort)[i]
              r == TableRows(ents, now, nowSort)[i]
          IN  /\ k \in DOMAIN ents
              /\ r.key = k /\ r.live = compute_entity_liveness(ents[k], now)

(* What draw_entity_table draws. *)
LEMMA DrawnRows ==
    ASSUME NEW ents, IsTable(ents), NEW now \in Nat, NEW nowSort \in Nat
    PROVE  \E m \in Nat : RowsAre(ents, now, nowSort, m)
<1> DEFINE n == Cardinality(DOMAIN ents)
           m == IF n <= RowCap THEN n ELSE RowCap
           order == sorted_entities(ents, nowSort)
           row(k) == [key   |-> k,
                      level |-> ents[k].last_level,
                      live  |-> compute_entity_liveness(ents[k], now),
                      age   |-> IF now > ents[k].last_seen THEN now - ents[k].last_seen ELSE 0]
           rows == TableRows(ents, now, nowSort)
<1>1. n \in Nat /\ order \in [1 .. n -> DOMAIN ents]
  BY Zenon, SortedTable
<1>2. rows = [i \in {j \in DOMAIN order : j <= RowCap} |-> row(order[i])]
  BY Zenon DEF TableRows
<1>3. \A k : row(k).key = k /\ row(k).live = compute_entity_liveness(ents[k], now)
  OBVIOUS
<1>4. RowCap \in Nat
  BY AppAssumption
<1> HIDE DEF n, order, row, rows
<1>5. m \in Nat /\ {j \in DOMAIN order : j <= RowCap} = 1 .. m
  BY <1>1, <1>4
<1> HIDE DEF m
<1>6. DOMAIN rows = 1 .. m /\ \A i \in 1 .. m : rows[i] = row(order[i])
  BY <1>2, <1>5
<1>7. Len(rows) = m
  BY <1>2, <1>5
<1>8. \A i \in 1 .. m : i \in 1 .. n
  BY <1>1, <1>4, <1>5 DEF m
<1>9. \A i \in 1 .. m : order[i] \in DOMAIN ents
  BY <1>1, <1>8
<1>10. \A i \in 1 .. m : /\ order[i] \in DOMAIN ents
                         /\ rows[i].key = order[i]
                         /\ rows[i].live = compute_entity_liveness(ents[order[i]], now)
  BY <1>3, <1>6, <1>9
<1>11. RowsAre(ents, now, nowSort, m)
  BY ZenonT(60), <1>6, <1>7, <1>10 DEF m, n, order, rows, RowsAre
<1> QED
  BY <1>5, <1>11

(* What BarBackedByTable says of one screen. *)
Backed(s) ==
    LET shown == {s.rows[j].key : j \in DOMAIN s.rows}
        dead(k, now) == compute_entity_liveness(s.ents[k], now) = "dead"
    IN  /\ Len(s.rows) = Min({s.counts.total, RowCap})
        /\ s.counts.total <= RowCap =>
              /\ s.counts.dead <= RowsWith(s, {"dead"})
              /\ s.counts.dead + s.counts.stale <= RowsWith(s, {"dead", "stale"})
        /\ (\E k \in DOMAIN s.ents \ shown : dead(k, s.barAt))
              => \A k \in shown : dead(k, s.at)

(* If all rows fit, as many rows carry one of the labels S as any set of    *)
(* entities that had them when the labels were computed.                    *)
LEMMA LabelledRows ==
    ASSUME NEW s, IsTable(s.ents), NEW u \in Nat, NEW v \in Nat,
           s.rows = TableRows(s.ents, u, v),
           Cardinality(DOMAIN s.ents) <= RowCap,
           NEW S, NEW K \in SUBSET DOMAIN s.ents,
           \A k \in K : compute_entity_liveness(s.ents[k], u) \in S
    PROVE  /\ RowsWith(s, S) \in Nat /\ Cardinality(K) \in Nat
           /\ Cardinality(K) <= RowsWith(s, S)
<1> DEFINE order == sorted_entities(s.ents, v)
           n == Cardinality(DOMAIN s.ents)
           R == {i \in DOMAIN s.rows : s.rows[i].live \in S}
           f == [i \in R |-> order[i]]
           T == {order[i] : i \in R}
<1>1. /\ n \in Nat
      /\ \A k \in DOMAIN s.ents : \E i \in 1 .. n : order[i] = k
  BY ZenonT(60), SortedTable
<1>2. /\ DOMAIN s.rows = 1 .. n
      /\ \A i \in 1 .. n : s.rows[i].live = compute_entity_liveness(s.ents[order[i]], u)
  <2>1. PICK m \in Nat : RowsAre(s.ents, u, v, m)
    BY ZenonT(60), DrawnRows
  <2>2. m = n
    BY <2>1 DEF RowsAre
  <2> QED
    BY Zenon, <2>1, <2>2 DEF RowsAre
<1>3. RowsWith(s, S) = Cardinality(R)
  BY Zenon DEF RowsWith
<1> HIDE DEF order, n
<1>4. IsFiniteSet(R)
  <2>1. IsFiniteSet(1 .. n)
    BY <1>1, FS_Interval
  <2> QED
    BY ZenonT(60), <1>2, <2>1, FS_Subset
<1>5. IsFiniteSet(T) /\ Cardinality(T) <= Cardinality(R)
  <2>1. f \in Surjection(R, T)
    BY DEF Surjection
  <2> QED
    BY <1>4, <2>1, FS_Surjection
<1>6. K \in SUBSET T
  BY <1>1, <1>2
<1>7. IsFiniteSet(K) /\ Cardinality(K) <= Cardinality(T)
  BY <1>5, <1>6, FS_Subset
<1>8. Cardinality(R) \in Nat /\ Cardinality(T) \in Nat /\ Cardinality(K) \in Nat
  BY <1>4, <1>5, <1>7, FS_CardinalityType
<1> QED
  BY <1>3, <1>5, <1>7, <1>8
(* Every screen drawn as DrawnBy says is backed by its table. *)
LEMMA DrawnIsBacked ==
    ASSUME NEW s, NEW t \in Nat, DrawnBy(s, t)
    PROVE  Backed(s)
<1> DEFINE D == DOMAIN s.ents
           n == Cardinality(D)
           life(k, now) == compute_entity_liveness(s.ents[k], now)
           order == sorted_entities(s.ents, s.at)
           shown == {s.rows[j].key : j \in DOMAIN s.rows}
           Kd == {k \in D : life(k, s.barAt) = "dead"}
           Ks == {k \in D : life(k, s.barAt) = "stale"}
<1>1. IsTable(s.ents) /\ s.barAt \in Nat /\ s.at \in Nat
  BY DEF DrawnBy
<1>2. PICK u \in 0 .. t : s.barAt <= u /\ u <= s.at /\ s.rows = TableRows(s.ents, u, s.at)
  BY DEF DrawnBy
<1>3. s.counts.total = n /\ s.counts.dead = Cardinality(Kd) /\ s.counts.stale = Cardinality(Ks)
  BY DEF DrawnBy, counts_by_state
<1>4. u \in Nat
  BY <1>2
<1>5. PICK m \in Nat :
         /\ m = IF n <= RowCap THEN n ELSE RowCap
         /\ DOMAIN s.rows = 1 .. m
         /\ Len(s.rows) = m
         /\ \A i \in 1 .. m : order[i] \in D /\ s.rows[i].key = order[i]
  <2>1. PICK m \in Nat : RowsAre(s.ents, u, s.at, m)
    BY ZenonT(60), <1>1, <1>4, DrawnRows
  <2> QED
    BY ZenonT(60), <1>2, <2>1 DEF RowsAre
<1>6. /\ n \in Nat
      /\ \A i, j \in 1 .. n : i < j => SortsBefore(s.ents, s.at, order[i], order[j])
      /\ \A k \in D : \E i \in 1 .. n : order[i] = k
  <2>1. n \in Nat
    BY ZenonT(60), <1>1, SortedTable
  <2>2. \A i, j \in 1 .. n : i < j => SortsBefore(s.ents, s.at, order[i], order[j])
    BY ZenonT(60), <1>1, SortedTable
  <2>3. \A k \in D : \E i \in 1 .. n : order[i] = k
    <3>1. \A v \in Nat : \A k \in D : \E i \in 1 .. n : sorted_entities(s.ents, v)[i] = k
      BY ZenonT(60), <1>1, SortedTable
    <3> QED
      BY <1>1, <3>1
  <2> QED
    BY <2>1, <2>2, <2>3
<1>7. RowCap \in Nat
  BY AppAssumption
<1>8. \A k \in D : /\ life(k, s.barAt) = "dead" => life(k, u) = "dead" /\ life(k, s.at) = "dead"
                   /\ life(k, s.barAt) \in {"dead", "stale"} => life(k, u) \in {"dead", "stale"}
  <2> SUFFICES ASSUME NEW k \in D
               PROVE  /\ life(k, s.barAt) = "dead" => life(k, u) = "dead" /\ life(k, s.at) = "dead"
                      /\ life(k, s.barAt) \in {"dead", "stale"} => life(k, u) \in {"dead", "stale"}
    BY ZenonT(60)
  <2>1. s.ents[k] \in EntityState
    BY <1>1 DEF IsTable
  <2>2. s.barAt <= u /\ s.barAt <= s.at
    BY <1>1, <1>2, <1>4
  <2> QED
    BY Zenon, <1>1, <1>4, <2>1, <2>2, LivenessAges
<1>9. Len(s.rows) = Min({s.counts.total, RowCap})
  <2>1. \A a, b \in Nat : Min({a, b}) = IF a <= b THEN a ELSE b
    BY DEF Min
  <2> QED
    BY ZenonT(60), <1>3, <1>5, <1>6, <1>7, <2>1
<1>10. ASSUME n <= RowCap
       PROVE  /\ Cardinality(Kd) <= RowsWith(s, {"dead"})
              /\ Cardinality(Kd) + Cardinality(Ks) <= RowsWith(s, {"dead", "stale"})
  <2>1. Cardinality(Kd) <= RowsWith(s, {"dead"})
    <3>1. Kd \in SUBSET D /\ \A k \in Kd : life(k, u) \in {"dead"}
      BY ZenonT(60), <1>8
    <3> HIDE DEF Kd
    <3> QED
      BY ZenonT(60), <1>1, <1>2, <1>4, <1>10, <3>1, LabelledRows
  <2>2. Cardinality(Kd \cup Ks) <= RowsWith(s, {"dead", "stale"})
    <3>1. Kd \cup Ks \in SUBSET D /\ \A k \in Kd \cup Ks : life(k, u) \in {"dead", "stale"}
      BY <1>8
    <3> HIDE DEF Kd, Ks
    <3> QED
      BY ZenonT(60), <1>1, <1>2, <1>4, <1>10, <3>1, LabelledRows
  <2>3. Cardinality(Kd \cup Ks) = Cardinality(Kd) + Cardinality(Ks)
    <3>1. Kd \in SUBSET D /\ Ks \in SUBSET D /\ Kd \cap Ks = {}
      OBVIOUS
    <3> HIDE DEF Kd, Ks
    <3>2. IsFiniteSet(Kd) /\ IsFiniteSet(Ks)
      BY <1>1, <3>1, FS_Subset DEF IsTable
    <3>3. /\ Cardinality(Kd) \in Nat /\ Cardinality(Ks) \in Nat
          /\ Cardinality(Kd \cup Ks) = Cardinality(Kd) + Cardinality(Ks) - Cardinality(Kd \cap Ks)
      BY <3>2, FS_Union, FS_CardinalityType
    <3>4. Cardinality(Kd \cap Ks) = 0
      BY <3>1, FS_EmptySet
    <3> QED
      BY <3>3, <3>4
  <2> HIDE DEF Kd, Ks
  <2> QED
    BY <2>1, <2>2, <2>3
<1>11. ASSUME NEW k \in D \ shown, life(k, s.barAt) = "dead", NEW h \in shown
       PROVE  life(h, s.at) = "dead"
  <2>1. PICK i \in 1 .. n : order[i] = k
    BY <1>6
  <2>2. PICK j \in 1 .. m : order[j] = h /\ h \in D
    BY <1>5
  <2>3. i \notin 1 .. m
    BY <1>5, <2>1
  <2>4. j < i /\ j \in 1 .. n
    BY <1>5, <1>6, <1>7, <2>3
  <2>5. SortsBefore(s.ents, s.at, h, k)
    BY <1>6, <2>1, <2>2, <2>4
  <2>6. life(k, s.at) = "dead"
    BY ZenonT(60), <1>8, <1>11
  <2> QED
    BY ZenonT(60), <1>1, <2>2, <2>5, <2>6, SortIsTotal
<1> QED
  BY ZenonT(60), <1>3, <1>9, <1>10, <1>11 DEF Backed
(* The screen's invariant holds at the start. *)
LEMMA SInvInit == AInit => SInv
<1> SUFFICES ASSUME AInit PROVE SInv
  OBVIOUS
<1>1. entities = <<>> /\ upc = "drain" /\ screen = <<>>
  BY DEF AInit
<1>2. DOMAIN entities = {} /\ DOMAIN screen = {}
  BY <1>1
<1>3. IsTable(entities)
  BY <1>2, FS_EmptySet DEF IsTable
<1> QED
  BY <1>1, <1>2, <1>3 DEF SInv

(* A frame leaves the entities well formed, and changes the one it is about. *)
LEMMA FrameKeepsTable ==
    ASSUME AInv, IsTable(entities), NEW f \in Frames, ingest_frame(f)
    PROVE  /\ IsTable(entities')
           /\ \A k \in DOMAIN entities \ {f.key} : k \in DOMAIN entities' /\ entities'[k] = entities[k]
           /\ f.key \in DOMAIN entities'
           /\ Len(ingested) \in Nat /\ Len(ingested') = Len(ingested) + 1
           /\ ingested'[Len(ingested) + 1] = f
           /\ \A n \in 1 .. Len(ingested) : ingested'[n] = ingested[n]
<1>1. f \in FrameType /\ clock \in Nat
  BY AppAssumption DEF AInv, ATypeOK
<1>2. f.key \in Nat /\ f.level \in Levels /\ f.ts \in Nat \cup {NoTs} /\ f.stale \in Nat /\ f.dead \in Nat
  BY <1>1 DEF FrameType
<1>3. /\ DOMAIN entities' = DOMAIN entities \cup {f.key}
      /\ \A k \in DOMAIN entities : k # f.key => entities'[k] = entities[k]
      /\ entities'[f.key] = [last_level |-> f.level,
                             last_seen  |-> IF f.ts = NoTs THEN clock ELSE f.ts,
                             stale      |-> f.stale,
                             dead       |-> f.dead]
  BY DEF ingest_frame, EntitiesWith
<1>4. entities'[f.key] \in EntityState
  BY <1>1, <1>2, <1>3 DEF EntityState
<1>5. IsFiniteSet(DOMAIN entities')
  BY <1>3, FS_AddElement DEF IsTable
<1>6. IsTable(entities')
  BY <1>2, <1>3, <1>4, <1>5 DEF IsTable
<1>7. /\ Len(ingested) \in Nat /\ Len(ingested') = Len(ingested) + 1
      /\ ingested'[Len(ingested) + 1] = f
      /\ \A n \in 1 .. Len(ingested) : ingested'[n] = ingested[n]
  BY DEF AInv, ingest_frame
<1> QED
  BY <1>3, <1>6, <1>7

(* DrawnBy only asks that the labels' clock is not after t. *)
LEMMA DrawnLater ==
    ASSUME NEW s, NEW t \in Nat, NEW u \in Nat, t <= u, DrawnBy(s, t)
    PROVE  DrawnBy(s, u)
<1>1. \A v \in 0 .. t : v \in 0 .. u
  OBVIOUS
<1> QED
  BY Zenon, <1>1 DEF DrawnBy

(* What is true of a screen stays true when a frame is ingested. *)
LEMMA FrameExplainsChange ==
    ASSUME NEW s, NEW ents, NEW frames, NEW f, NEW ents2, NEW frames2,
           ChangedByFrames(s, ents, frames),
           \A k \in DOMAIN ents \ {f.key} : k \in DOMAIN ents2 /\ ents2[k] = ents[k],
           Len(frames) \in Nat, Len(frames2) = Len(frames) + 1,
           frames2[Len(frames) + 1] = f,
           \A n \in 1 .. Len(frames) : frames2[n] = frames[n]
    PROVE  ChangedByFrames(s, ents2, frames2)
<1> DEFINE n == Len(frames)
<1>1. s.upto \in 0 .. n + 1 /\ n + 1 \in s.upto + 1 .. n + 1
  BY DEF ChangedByFrames
<1>2. ASSUME NEW k \in DOMAIN s.ents
      PROVE  \/ k \in DOMAIN ents2 /\ ents2[k] = s.ents[k]
             \/ \E i \in s.upto + 1 .. n + 1 : frames2[i].key = k
  <2>1. CASE k = f.key
    BY <1>1, <2>1
  <2>2. CASE k # f.key /\ k \in DOMAIN ents /\ ents[k] = s.ents[k]
    BY <2>2
  <2>3. ASSUME NEW i \in s.upto + 1 .. n, frames[i].key = k
        PROVE  i \in s.upto + 1 .. n + 1 /\ frames2[i].key = k
    <3>1. i \in s.upto + 1 .. n + 1 /\ i \in 1 .. n
      BY <1>1
    <3> QED
      BY <2>3, <3>1
  <2> QED
    BY <2>1, <2>2, <2>3 DEF ChangedByFrames
<1> QED
  BY <1>1, <1>2 DEF ChangedByFrames
(* Every step of the application keeps what is said of the screen. *)
LEMMA SInvStep == AInv /\ SInv /\ [ANext]_avars => SInv'
<1> SUFFICES ASSUME AInv, SInv, [ANext]_avars PROVE SInv'
  OBVIOUS
<1>1. /\ clock \in Nat /\ bar.at \in Nat /\ nowRows \in Nat
      /\ bar.at <= clock /\ nowRows <= clock /\ Len(ingested) \in Nat
  BY AppAssumption DEF AInv, ATypeOK
<1>2. CASE /\ UNCHANGED <<entities, ingested, bar, nowRows>>
           /\ screen' = screen \/ screen' = <<>>
           /\ upc' = upc \/ upc' \in {"drain", "poll", "quit", "error"}
  <2>1. DOMAIN <<>> = {}
    OBVIOUS
  <2>2. /\ DOMAIN screen' \subseteq {1}
        /\ \A i \in DOMAIN screen' : /\ DrawnBy(screen'[i], nowRows)
                                     /\ ChangedByFrames(screen'[i], entities, ingested)
    BY Zenon, <1>2, <2>1 DEF SInv
  <2>3. /\ upc' \in {"now", "table"} => upc \in {"now", "table"}
        /\ upc' = "table" => upc = "table"
    BY <1>2
  <2> QED
    BY Zenon, <1>2, <2>2, <2>3 DEF SInv
<1>3. ASSUME NEW f \in Frames, ingest_frame(f), upc = "drain", upc' = upc,
             UNCHANGED <<bar, nowRows, screen>>
      PROVE  SInv'
  <2>1. IsTable(entities)
    BY DEF SInv
  <2>2. /\ IsTable(entities')
        /\ \A k \in DOMAIN entities \ {f.key} : k \in DOMAIN entities' /\ entities'[k] = entities[k]
        /\ Len(ingested) \in Nat /\ Len(ingested') = Len(ingested) + 1
        /\ ingested'[Len(ingested) + 1] = f
        /\ \A n \in 1 .. Len(ingested) : ingested'[n] = ingested[n]
    BY ZenonT(60), <1>3, <2>1, FrameKeepsTable
  <2>3. ASSUME NEW i \in DOMAIN screen
        PROVE  ChangedByFrames(screen[i], entities', ingested')
    <3>1. ChangedByFrames(screen[i], entities, ingested)
      BY DEF SInv
    <3> QED
      BY ZenonT(60), <2>2, <3>1, FrameExplainsChange
  <2>4. upc' # "now" /\ upc' # "table"
    BY <1>3
  <2> QED
    BY ZenonT(60), <1>3, <2>2, <2>3, <2>4 DEF SInv
<1>4. CASE Ingest
  <2>1. UNCHANGED <<upc, bar, nowRows, screen>> /\ upc = "drain" /\ Head(rx_ui) \in Msgs
    BY <1>4 DEF Ingest, AInv
  <2>2. CASE Head(rx_ui).kind = "frame" /\ ingest_frame(Head(rx_ui).frame)
    BY ZenonT(60), <1>3, <2>1, <2>2, MsgKinds
  <2>3. CASE UNCHANGED <<entities, ingested>>
    BY ZenonT(60), <1>2, <2>1, <2>3
  <2> QED
    BY Zenon, <1>4, <2>2, <2>3 DEF Ingest
<1>5. CASE DrawTopBar
  <2>1. /\ bar'.counts = counts_by_state(entities, clock) /\ bar'.at = clock /\ upc' = "now"
        /\ UNCHANGED <<entities, ingested, nowRows, screen>>
    BY Zenon, <1>5 DEF DrawTopBar, state
  <2>2. upc' # "table"
    BY <2>1
  <2> QED
    BY Zenon, <2>1, <2>2 DEF SInv
<1>6. CASE TableClock
  <2>1. /\ upc = "now" /\ upc' = "table" /\ nowRows' = clock
        /\ UNCHANGED <<entities, ingested, bar, screen>>
    BY Zenon, <1>6 DEF TableClock, state
  <2>2. ASSUME NEW i \in DOMAIN screen
        PROVE  DrawnBy(screen[i], clock)
    BY ZenonT(60), <1>1, DrawnLater DEF SInv
  <2>3. bar.counts = counts_by_state(entities, bar.at)
    BY <2>1 DEF SInv
  <2> QED
    BY ZenonT(60), <1>1, <2>1, <2>2, <2>3 DEF SInv
<1>7. CASE DrawTable
  <2> DEFINE s == [counts |-> bar.counts,
                   rows   |-> TableRows(entities, nowRows, clock),
                   tail   |-> tail,
                   errors |-> <<frames_seen, parse_errors, io_errors>>,
                   barAt |-> bar.at, at |-> clock,
                   ents |-> entities, upto |-> Len(ingested)]
  <2>1. /\ upc = "table" /\ upc' = "poll" /\ screen' = <<s>>
        /\ UNCHANGED <<entities, ingested, bar, nowRows>>
    BY ZenonT(60), <1>7 DEF DrawTable, state
  <2>2. /\ s.counts = bar.counts /\ s.rows = TableRows(entities, nowRows, clock)
        /\ s.barAt = bar.at /\ s.at = clock /\ s.ents = entities /\ s.upto = Len(ingested)
    OBVIOUS
  <2> HIDE DEF s
  <2>3. /\ IsTable(entities) /\ bar.counts = counts_by_state(entities, bar.at)
        /\ bar.at <= nowRows /\ nowRows \in 0 .. nowRows
    BY <1>1, <2>1 DEF SInv
  <2>4. DrawnBy(s, nowRows)
    BY ZenonT(60), <1>1, <2>2, <2>3 DEF DrawnBy
  <2>5. ChangedByFrames(s, entities, ingested)
    BY <1>1, <2>2 DEF ChangedByFrames
  <2>6. DOMAIN screen' = {1} /\ screen'[1] = s
    BY <2>1
  <2>7. upc' # "now" /\ upc' # "table"
    BY <2>1
  <2>8. \A i \in DOMAIN screen' : i = 1
    BY <2>6
  <2> QED
    BY ZenonT(60), <2>1, <2>3, <2>4, <2>5, <2>6, <2>7, <2>8 DEF SInv
<1>8. CASE Tick \/ (\E m \in Msgs : Arrive(m)) \/ Poll \/ Quit \/ TerminalFails \/ UNCHANGED avars
  BY <1>2, <1>8 DEF Tick, Arrive, Poll, Quit, TerminalFails, avars, state
<1> QED
  BY <1>4, <1>5, <1>6, <1>7, <1>8 DEF ANext, Loop

(* The bar of a screen is never ahead of its table, for any frames, time     *)
(* limits and cap on the rows, although bar, labels and order are taken at   *)
(* three moments (draw_top_bar, draw_entity_table, sorted_entities).         *)
THEOREM AppBarBacked == ASpec => []BarBackedByTable
<1>1. AInv /\ SInv => BarBackedByTable
  <2> SUFFICES ASSUME AInv, SInv, NEW i \in DOMAIN screen PROVE Backed(screen[i])
    BY Zenon DEF BarBackedByTable, Backed
  <2>1. nowRows \in Nat /\ DrawnBy(screen[i], nowRows)
    BY DEF AInv, SInv
  <2> QED
    BY Zenon, <2>1, DrawnIsBacked
<1> QED
  BY AInvInit, AInvStep, SInvInit, SInvStep, <1>1, PTL DEF ASpec
(* The rows of TableRows show entities, as they are at the labels' clock. *)
LEMMA RowsShow ==
    ASSUME NEW ents, IsTable(ents), NEW u \in Nat, NEW v \in Nat,
           NEW a \in ToSet(TableRows(ents, u, v))
    PROVE  a.key \in DOMAIN ents /\ a.live = compute_entity_liveness(ents[a.key], u)
<1>1. PICK m \in Nat : RowsAre(ents, u, v, m)
  BY ZenonT(60), DrawnRows
<1>2. PICK i \in 1 .. m : a = TableRows(ents, u, v)[i]
  BY <1>1 DEF ToSet, RowsAre
<1> QED
  BY Zenon, <1>1, <1>2 DEF RowsAre

(* A step that draws anew over a screen revives an entity only if a frame   *)
(* of it was ingested after the old screen was drawn; other steps leave the *)
(* screen as it is, or take it away.                                        *)
LEMMA ReviveStep ==
    ASSUME AInv, SInv, ANext,
           NEW i \in DOMAIN screen \cap DOMAIN screen',
           NEW a \in ToSet(screen[i].rows), NEW b \in ToSet(screen'[i].rows),
           a.key = b.key, AgeRank[b.live] < AgeRank[a.live]
    PROVE  \E n \in screen[i].upto + 1 .. screen'[i].upto : ingested'[n].key = a.key
<1> DEFINE s == screen[i]
<1>1. nowRows \in Nat /\ clock \in Nat
  BY AppAssumption DEF AInv, ATypeOK
<1>2. /\ DrawnBy(s, nowRows) /\ ChangedByFrames(s, entities, ingested) /\ i = 1
      /\ IsTable(entities)
  BY DEF SInv
<1>3. PICK u \in 0 .. nowRows : s.rows = TableRows(s.ents, u, s.at)
  BY <1>2 DEF DrawnBy
<1>4. IsTable(s.ents) /\ s.at \in Nat /\ u \in Nat /\ u <= nowRows
  BY <1>1, <1>2, <1>3 DEF DrawnBy
<1>5. a.key \in DOMAIN s.ents /\ a.live = compute_entity_liveness(s.ents[a.key], u)
  BY ZenonT(60), <1>3, <1>4, RowsShow
<1>6. s.ents[a.key] \in EntityState
  BY <1>4, <1>5 DEF IsTable
<1>7. \A now \in Nat : AgeRank[compute_entity_liveness(s.ents[a.key], now)] \in 0 .. 3
  BY <1>6, LivenessAges DEF AgeRank
<1>8. ASSUME NEW now \in Nat, u <= now, b.live = compute_entity_liveness(s.ents[a.key], now)
      PROVE  FALSE
  <2>1. AgeRank[a.live] <= AgeRank[b.live]
    BY ZenonT(60), <1>4, <1>5, <1>6, <1>8, LivenessAges
  <2>2. AgeRank[a.live] \in 0 .. 3 /\ AgeRank[b.live] \in 0 .. 3
    BY ZenonT(60), <1>4, <1>5, <1>7, <1>8
  <2> QED
    BY <2>1, <2>2
<1>9. CASE screen' = screen
  <2>1. b.live = compute_entity_liveness(s.ents[b.key], u)
    BY ZenonT(60), <1>3, <1>4, <1>9, RowsShow
  <2>2. u <= u
    BY <1>4
  <2> QED
    BY ZenonT(60), <1>4, <1>8, <2>1, <2>2
<1>10. CASE DrawTable
  <2>1. /\ screen'[1].rows = TableRows(entities, nowRows, clock)
        /\ screen'[1].upto = Len(ingested) /\ ingested' = ingested
    BY <1>10 DEF DrawTable, state
  <2>2. b.key \in DOMAIN entities /\ b.live = compute_entity_liveness(entities[b.key], nowRows)
    BY ZenonT(60), <1>1, <1>2, <2>1, RowsShow
  <2>3. entities[a.key] # s.ents[a.key]
    BY ZenonT(60), <1>1, <1>4, <1>8, <2>2
  <2>4. \E n \in s.upto + 1 .. Len(ingested) : ingested[n].key = a.key
    BY ZenonT(60), <1>2, <1>5, <2>3 DEF ChangedByFrames
  <2> QED
    BY ZenonT(60), <1>2, <2>1, <2>4
<1>11. CASE Quit
  <2>1. DOMAIN screen' = {}
    BY <1>11 DEF Quit
  <2> QED
    BY <2>1
<1>12. CASE Tick \/ (\E m \in Msgs : Arrive(m)) \/ Ingest \/ DrawTopBar \/ TableClock
            \/ Poll \/ TerminalFails
  BY <1>9, <1>12 DEF Tick, Arrive, Ingest, DrawTopBar, TableClock, Poll, TerminalFails
<1> QED
  BY <1>10, <1>11, <1>12 DEF ANext, Loop

(* From one screen to the next an entity's label only ages, unless a frame   *)
(* of its own was ingested in between (App::ingest, draw_entity_table).      *)
THEOREM AppOnlyFramesRevive == ASpec => OnlyFramesRevive
<1>1. AInv /\ SInv /\ [ANext]_avars =>
         [\A i \in DOMAIN screen \cap DOMAIN screen' :
            \A a \in ToSet(screen[i].rows), b \in ToSet(screen'[i].rows) :
              a.key = b.key /\ AgeRank[b.live] < AgeRank[a.live] =>
                  \E n \in screen[i].upto + 1 .. screen'[i].upto : ingested'[n].key = a.key
         ]_avars
  <2> SUFFICES ASSUME AInv, SInv, ANext,
                      NEW i \in DOMAIN screen \cap DOMAIN screen',
                      NEW a \in ToSet(screen[i].rows), NEW b \in ToSet(screen'[i].rows),
                      a.key = b.key, AgeRank[b.live] < AgeRank[a.live]
               PROVE  \E n \in screen[i].upto + 1 .. screen'[i].upto : ingested'[n].key = a.key
    BY Zenon
  <2> QED
    BY ZenonT(60), ReviveStep
<1> QED
  BY AInvInit, AInvStep, SInvInit, SInvStep, <1>1, PTL DEF ASpec, OnlyFramesRevive
===============================================================================
