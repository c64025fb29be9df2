-------------------------------- MODULE HawkApp --------------------------------
(***************************************************************************)
(* hawk's state and screen: App of crates/hawk/src/app.rs, the loop        *)
(* run_tui of ui.rs and what ui/draw.rs puts on the screen.  The loop      *)
(* drains rx_ui, draws, and polls for a key.  Drawing reads the clock      *)
(* three times: for the counts, for the rows' labels, and, last, for the   *)
(* order of the rows.                                                      *)
(*                                                                         *)
(* Time is in seconds and does not run backwards.  An entity is a number,  *)
(* in the order of ids.  A frame's ttl fields are 0 when its kv has no     *)
(* such key or one that is not a positive integer.                         *)
(***************************************************************************)
EXTENDS Integers, Sequences, SequencesExt, FiniteSets, FiniteSetsExt, TLC

CONSTANTS
    Frames,         \* the frames considered: a subset of FrameType
    TailSize,       \* cli.tail_size
    StaleS, DeadS,  \* cli.stale_s, cli.dead_s
    RowCap,         \* rows drawn at most: 200 in draw_entity_table
    MaxTime,        \* bound: the clock
    MaxMsgs         \* bound: messages that arrive

NoTs == -1
Levels == {"fail", "warn", "info", "ok", "unknown"}
FrameType == [key : Nat, level : Levels, ts : Nat \cup {NoTs}, stale : Nat, dead : Nat]

ASSUME AppAssumption ==
    /\ \A f \in Frames : f \in FrameType
    /\ {TailSize, StaleS, DeadS, RowCap, MaxTime, MaxMsgs} \subseteq Nat

Keys == {f.key : f \in Frames}

VARIABLES
    clock,          \* wall clock
    rx_ui,          \* messages not yet received
    arrived,        \* history: number of messages that came
    entities,       \* key -> EntityState
    tail,           \* newest first
    frames_seen, parse_errors, io_errors,
    upc,            \* the loop: "drain", "now", "table", "poll", "quit", "error"
    bar,            \* the counts of the draw under way, and when they were taken
    nowRows,        \* the draw's clock for labels
    screen,         \* what the terminal shows
    ingested        \* history: the frames ingested, in order

state == <<entities, tail, frames_seen, parse_errors, io_errors, ingested>>
avars == <<clock, rx_ui, arrived, state, upc, bar, nowRows, screen>>

-------------------------------------------------------------------------------
(* Liveness of an entity *)

parse_ttl_from_kv(n, default) == IF n > 0 THEN n ELSE default

(* Mutant: the two halves of the stale window are swapped. *)
compute_liveness_swapped(last_seen, now, stale_s, dead_s) ==
    LET age_s == now - last_seen
        half == IF stale_s \div 2 > 1 THEN stale_s \div 2 ELSE 1
    IN  IF age_s >= dead_s THEN "dead"
        ELSE IF age_s >= stale_s THEN "stale"
        ELSE IF age_s >= half THEN "active" ELSE "dream"

compute_liveness_with_ttl(last_seen, now, stale_s, dead_s) ==
    LET age_s == now - last_seen
        half == IF stale_s \div 2 > 1 THEN stale_s \div 2 ELSE 1
    IN  IF age_s >= dead_s THEN "dead"
        ELSE IF age_s >= stale_s THEN "stale"
        ELSE IF age_s <= half THEN "active" ELSE "dream"

compute_entity_liveness(st, now) ==
    compute_liveness_with_ttl(st.last_seen, now,
        parse_ttl_from_kv(st.stale, StaleS), parse_ttl_from_kv(st.dead, DeadS))

-------------------------------------------------------------------------------
(* What is drawn of the entities ents *)

counts_by_state(ents, now) ==
    LET live(k) == compute_entity_liveness(ents[k], now)
        fresh == {k \in DOMAIN ents : live(k) \in {"active", "dream"}}
        level(S) == Cardinality({k \in fresh : ents[k].last_level \in S})
    IN  [total |-> Cardinality(DOMAIN ents),
         ok    |-> level({"ok", "info", "unknown"}),
         warn  |-> level({"warn"}),
         fail  |-> level({"fail"}),
         stale |-> Cardinality({k \in DOMAIN ents : live(k) = "stale"}),
         dead  |-> Cardinality({k \in DOMAIN ents : live(k) = "dead"})]

LevelRank == [fail |-> 0, warn |-> 1, info |-> 2, ok |-> 3, unknown |-> 4]
rank_live == [dead |-> 0, stale |-> 1, active |-> 2, dream |-> 3]

(* The comparison of sort_by: liveness, level, recency, id. *)
SortsBefore(ents, now, a, b) ==
    LET live(k) == rank_live[compute_entity_liveness(ents[k], now)]
        level(k) == LevelRank[ents[k].last_level]
        seen(k) == ents[k].last_seen
    IN  \/ live(a) < live(b)
        \/ /\ live(a) = live(b)
           /\ \/ level(a) < level(b)
              \/ level(a) = level(b) /\ (seen(a) > seen(b) \/ (seen(a) = seen(b) /\ a < b))

(* Mutant: the order of the BTreeMap is kept. *)
sorted_entities_by_id(ents, now) ==
    SetToSortSeq(DOMAIN ents, LAMBDA a, b : a < b)

(* The rows in the order of sort_by; all comparisons use the same clock. *)
sorted_entities(ents, now) ==
    CHOOSE order \in [1 .. Cardinality(DOMAIN ents) -> DOMAIN ents] :
        \A i, j \in DOMAIN order : i < j => SortsBefore(ents, now, order[i], order[j])

(* draw_entity_table: order by one clock, labels and ages by an earlier one. *)
TableRows(ents, now, nowSort) ==
    LET order == sorted_entities(ents, nowSort)
        row(k) == [key   |-> k,
                   level |-> ents[k].last_level,
                   live  |-> compute_entity_liveness(ents[k], now),
                   age   |-> IF now > ents[k].last_seen THEN now - ents[k].last_seen ELSE 0]
    IN  [i \in {j \in DOMAIN order : j <= RowCap} |-> row(order[i])]

-------------------------------------------------------------------------------
AInit ==
    /\ clock = 0
    /\ rx_ui = <<>>
    /\ arrived = 0
    /\ entities = <<>>
    /\ tail = <<>>
    /\ frames_seen = 0 /\ parse_errors = 0 /\ io_errors = 0
    /\ ingested = <<>>
    /\ upc = "drain"
    /\ bar = [counts |-> counts_by_state(<<>>, 0), at |-> 0]
    /\ nowRows = 0
    /\ screen = <<>>

(* What happens after hawk's end is of no account. *)
Running == upc \notin {"quit", "error"}

Tick ==
    /\ Running
    /\ clock < MaxTime
    /\ clock' = clock + 1
    /\ UNCHANGED <<rx_ui, arrived, state, upc, bar, nowRows, screen>>

(* The threads before rx_ui, see HawkPipeline. *)
Arrive(m) ==
    /\ Running
    /\ arrived < MaxMsgs
    /\ arrived' = arrived + 1
    /\ rx_ui' = Append(rx_ui, m)
    /\ UNCHANGED <<clock, state, upc, bar, nowRows, screen>>

-------------------------------------------------------------------------------
(* App::ingest *)

(* Mutant: an entity is only replaced by a frame that is not older. *)
EntitiesIfNewer(f) ==
    LET seen == IF f.ts = NoTs THEN clock ELSE f.ts
    IN  IF f.key \in DOMAIN entities /\ entities[f.key].last_seen > seen THEN entities
        ELSE (f.key :> [last_level |-> f.level, last_seen |-> seen,
                        stale |-> f.stale, dead |-> f.dead]) @@ entities

(* The entity is replaced whatever was known of it; a frame without a       *)
(* timestamp is taken as seen now.                                          *)
EntitiesWith(f) ==
    [k \in DOMAIN entities \cup {f.key} |->
        IF k = f.key
        THEN [last_level |-> f.level,
              last_seen  |-> IF f.ts = NoTs THEN clock ELSE f.ts,
              stale      |-> f.stale,
              dead       |-> f.dead]
        ELSE entities[k]]

push_tail(f) ==
    LET longer == <<f>> \o tail
    IN  IF Len(longer) > TailSize THEN SubSeq(longer, 1, TailSize) ELSE longer

ingest_frame(f) ==
    /\ frames_seen' = frames_seen + 1
    /\ entities' = EntitiesWith(f)
    /\ tail' = push_tail(f)
    /\ ingested' = Append(ingested, f)
    /\ UNCHANGED <<parse_errors, io_errors>>

(* One round of the drain loop. *)
Ingest ==
    /\ upc = "drain"
    /\ rx_ui # <<>>
    /\ rx_ui' = Tail(rx_ui)
    /\ LET m == Head(rx_ui) IN
          \/ m.kind = "frame" /\ ingest_frame(m.frame)
          \/ /\ m.kind = "parse"
             /\ parse_errors' = parse_errors + 1
             /\ UNCHANGED <<entities, tail, frames_seen, io_errors, ingested>>
          \/ /\ m.kind = "io"
             /\ io_errors' = io_errors + 1
             /\ UNCHANGED <<entities, tail, frames_seen, parse_errors, ingested>>
    /\ UNCHANGED <<clock, arrived, upc, bar, nowRows, screen>>

-------------------------------------------------------------------------------
(* terminal.draw: the top bar, then the table's clock, then the table. *)

DrawTopBar ==
    /\ upc = "drain"
    /\ rx_ui = <<>>
    /\ bar' = [counts |-> counts_by_state(entities, clock), at |-> clock]
    /\ upc' = "now"
    /\ UNCHANGED <<clock, rx_ui, arrived, state, nowRows, screen>>

TableClock ==
    /\ upc = "now"
    /\ nowRows' = clock
    /\ upc' = "table"
    /\ UNCHANGED <<clock, rx_ui, arrived, state, bar, screen>>

(* The screen also records, for the properties, what was drawn and when. *)
DrawTable ==
    /\ upc = "table"
    /\ screen' = <<[counts |-> bar.counts,
                    rows   |-> TableRows(entities, nowRows, clock),
                    tail   |-> tail,
                    errors |-> <<frames_seen, parse_errors, io_errors>>,
                    barAt |-> bar.at, at |-> clock,
                    ents |-> entities, upto |-> Len(ingested)]>>
    /\ upc' = "poll"
    /\ UNCHANGED <<clock, rx_ui, arrived, state, bar, nowRows>>

(* Mutant: without a timeout the loop waits for a key. *)
PollBlocks ==
    /\ upc = "poll"
    /\ rx_ui # <<>>
    /\ upc' = "drain"
    /\ UNCHANGED <<clock, rx_ui, arrived, state, bar, nowRows, screen>>

(* The poll times out, or a key other than q and Esc is pressed. *)
Poll ==
    /\ upc = "poll"
    /\ upc' = "drain"
    /\ UNCHANGED <<clock, rx_ui, arrived, state, bar, nowRows, screen>>

(* q or Esc: the terminal goes back to the screen it had before hawk. *)
Quit ==
    /\ upc = "poll"
    /\ upc' = "quit"
    /\ screen' = <<>>
    /\ UNCHANGED <<clock, rx_ui, arrived, state, bar, nowRows>>

(* Drawing or polling fails: run_tui returns the error, terminal as it is. *)
TerminalFails ==
    /\ upc \in {"table", "poll"}
    /\ upc' = "error"
    /\ UNCHANGED <<clock, rx_ui, arrived, state, bar, nowRows, screen>>

Loop == Ingest \/ DrawTopBar \/ TableClock \/ DrawTable \/ Poll

Msgs == {[kind |-> "frame", frame |-> f] : f \in Frames}
            \cup {[kind |-> "parse"], [kind |-> "io"]}

ANext == Tick \/ (\E m \in Msgs : Arrive(m)) \/ Loop \/ Quit \/ TerminalFails

ASpec == AInit /\ [][ANext]_avars

(* Time passes and the loop runs; nobody need ever press q. *)
AFairSpec == ASpec /\ WF_avars(Tick) /\ WF_avars(Loop)

-------------------------------------------------------------------------------
(* Properties *)

(* Type invariant of App and run_tui: every message that came is waiting or  *)
(* counted once, and the tail keeps to its size.                             *)
ATypeOK ==
    /\ clock \in 0 .. MaxTime
    /\ arrived \in 0 .. MaxMsgs
    /\ DOMAIN entities \subseteq Keys
    /\ Len(tail) <= TailSize
    /\ upc \in {"drain", "now", "table", "poll", "quit", "error"}
    /\ bar.at <= clock /\ nowRows <= clock
    /\ arrived = Len(rx_ui) + frames_seen + parse_errors + io_errors
    /\ frames_seen = Len(ingested)

(* The state is a function of the frames ingested: each entity is what the  *)
(* last of its frames says, even if an earlier one carries a later          *)
(* timestamp, and the tail is the newest TailSize frames.                   *)
MirrorsLastFrames ==
    /\ \A k \in Keys :
          k \in DOMAIN entities <=> \E n \in 1 .. Len(ingested) : ingested[n].key = k
    /\ \A n \in 1 .. Len(ingested) :
          LET f == ingested[n]
              e == entities[f.key]
          IN  (\A m \in n + 1 .. Len(ingested) : ingested[m].key # f.key) =>
                  /\ e.last_level = f.level
                  /\ f.ts # NoTs => e.last_seen = f.ts
                  /\ e.stale = f.stale /\ e.dead = f.dead
    /\ \A i \in 1 .. Len(tail) : tail[i] = ingested[Len(ingested) - i + 1]
    /\ Len(tail) = IF Len(ingested) < TailSize THEN Len(ingested) ELSE TailSize

RowsWith(s, S) == Cardinality({i \in DOMAIN s.rows : s.rows[i].live \in S})

(* Bar and table of one screen are taken at different moments, but the bar  *)
(* is never ahead: whoever it counts as dead, or as stale or dead, has such *)
(* a row in the table, if all rows fit.  If not, an entity the bar counts   *)
(* as dead is left out only if every row shown is dead by the time the      *)
(* table is drawn (draw_top_bar, draw_entity_table, sorted_entities).       *)
BarBackedByTable ==
    \A i \in DOMAIN screen :
        LET s == screen[i]
            shown == {s.rows[j].key : j \in DOMAIN s.rows}
            dead(k, now) == compute_entity_liveness(s.ents[k], now) = "dead"
        IN  /\ Len(s.rows) = Min({s.counts.total, RowCap})
            /\ s.counts.total <= RowCap =>
                  /\ s.counts.dead <= RowsWith(s, {"dead"})
                  /\ s.counts.dead + s.counts.stale <= RowsWith(s, {"dead", "stale"})
            /\ (\E k \in DOMAIN s.ents \ shown : dead(k, s.barAt))
                  => \A k \in shown : dead(k, s.at)

AgeRank == [active |-> 0, dream |-> 1, stale |-> 2, dead |-> 3]

(* From one screen to the next an entity only ages (active, dream, stale,   *)
(* dead), unless a frame of its own came in between.                        *)
OnlyFramesRevive ==
    [][\A i \in DOMAIN screen \cap DOMAIN screen' :
          \A a \in ToSet(screen[i].rows), b \in ToSet(screen'[i].rows) :
              a.key = b.key /\ AgeRank[b.live] < AgeRank[a.live] =>
                  \E n \in screen[i].upto + 1 .. screen'[i].upto : ingested'[n].key = a.key
      ]_avars

(* A source that falls silent does not leave its last state on the screen:  *)
(* unless the user leaves, the screen ends up with what the state is at the *)
(* clock's last value, with no message waiting.                             *)
ScreenCatchesUp ==
    <>[](\/ ~Running
         \/ /\ screen # <<>> /\ rx_ui = <<>>
            /\ screen[1].barAt = MaxTime
            /\ screen[1].errors = <<frames_seen, parse_errors, io_errors>>
            /\ screen[1].tail = tail
            /\ screen[1].counts = counts_by_state(entities, MaxTime)
            /\ screen[1].rows = TableRows(entities, MaxTime, MaxTime))
===============================================================================
