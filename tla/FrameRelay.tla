------------------------------ MODULE FrameRelay -------------------------------
(***************************************************************************)
(* A line on its way through the system.  Every hop (a source of hawkd,    *)
(* the writer of hawk's awk bridge) parses the line it reads and sends the *)
(* frame on with to_tsv_line.  A writer that is killed, or a client that   *)
(* closes, in the middle of a line leaves a cut line, which read_line      *)
(* hands to the next hop like any other.                                   *)
(*                                                                         *)
(* The line starts as one of an adapter, or with a frame that hawkd builds *)
(* itself, whose kv values nobody has parsed before: read_line makes       *)
(* several lines of it if there are line breaks in them.  A line has none, *)
(* and a hop adds none.                                                    *)
(***************************************************************************)
EXTENDS HawkFrame

CONSTANTS
    Lines,      \* lines that adapters send
    Built,      \* frames that hawkd builds
    MaxHops,    \* bound: hops of a line
    MaxCuts     \* bound: hops that end in the middle of it

TTL == <<"ttl">>

(* What the watchers and the ingest listener build: they stamp the frame,   *)
(* name the keys, and put only trimmed values under TTL and the keys after  *)
(* it (the TTLs, which are numbers, and the name of a unit).                *)
IsBuilt(f) ==
    /\ IsTimestamp(f.ts)
    /\ {f.kind, f.scope, f.id, f.msg} \subseteq Text
    /\ f.level \in DOMAIN LevelWords \cup {"unknown"}
    /\ IsFiniteSet(DOMAIN f.kv)
    /\ \A k \in DOMAIN f.kv :
          /\ k \in Text \ {<<>>} /\ Trim(k) = k
          /\ {TAB, NL, SEMI, "="} \cap Range(k) = {}
          /\ f.kv[k] \in Text
          /\ ~TextBefore(k, TTL) => Trim(f.kv[k]) = f.kv[k]

ASSUME RelayAssumption ==
    /\ Lines \subseteq Text
    /\ \A l \in Lines : NL \notin Range(l)
    /\ \A f \in Built : IsBuilt(f)
    /\ MaxHops \in 1 .. Len(Stamps) - 1
    /\ MaxCuts \in Nat

VARIABLES
    built,      \* <<>>, or the frame the line was built from
    sent,       \* history: the line as it was first read
    line,       \* the line as the next hop will read it
    result,     \* what the last hop made of it: "frame", "none" or "err", or
                \* "cut" once its writer has ended within the line
    seen,       \* history: the frames the hops have parsed
    cuts        \* number of cuts

rvars == <<built, sent, line, result, seen, cuts>>

(* What read_line makes of a text. *)
LinesOf(text) == Range(Split(text, NL))

RInit ==
    /\ \/ built = <<>> /\ sent \in Lines
       \/ \E f \in Built : built = <<f>> /\ sent \in LinesOf(to_tsv_line(f, Stamps[1]))
    /\ line = sent
    /\ result = "frame"
    /\ seen = <<>>
    /\ cuts = 0

(* parse_tsv_line, then to_tsv_line(now) of the frame, if there is one. *)
Hop ==
    /\ result \in {"frame", "cut"}
    /\ Len(seen) < MaxHops
    /\ LET p == parse_tsv_line(line) IN
          /\ result' = p.result
          /\ seen' = seen \o p.frames
          /\ line' = IF p.result = "frame"
                     THEN to_tsv_line(p.frames[1], Stamps[Len(seen) + 2])
                     ELSE line
    /\ UNCHANGED <<built, sent, cuts>>

(* The writer ends within the line. *)
Cut(n) ==
    /\ result = "frame"
    /\ cuts < MaxCuts
    /\ n \in 1 .. Len(line) - 1
    /\ line' = SubSeq(line, 1, n)
    /\ result' = "cut"
    /\ cuts' = cuts + 1
    /\ UNCHANGED <<built, sent, seen>>

RNext == Hop \/ \E n \in 1 .. Len(line) : Cut(n)

RSpec == RInit /\ [][RNext]_rvars

-------------------------------------------------------------------------------
(* Properties *)

(* However many hops a whole line takes, once one of them has made a frame  *)
(* of it none refuses it, and all see the frame the first one saw, stamped  *)
(* once, by the first, if it had no timestamp: what parse_tsv_line accepts  *)
(* survives to_tsv_line.                                                    *)
StableAfterFirstHop ==
    cuts = 0 /\ seen # <<>> =>
        /\ result = "frame"
        /\ \A i \in 2 .. Len(seen) :
              seen[i] = [seen[1] EXCEPT
                            !.ts = IF @ = <<>> THEN <<Stamps[2]>> ELSE @,
                            !.kv = Expressible(@)]

Columns(f) == <<f.kind, f.scope, f.id, f.level, f.msg>>

(* Keys that a bag has and should not have, or has with another value. *)
WrongKeys(kv, whole) ==
    {k \in DOMAIN kv : k \notin DOMAIN whole \/ kv[k] # whole[k]}

(* A line cut anywhere is refused or costs part of the kv bag only: it      *)
(* never makes a frame of a line that was none, nor another entity, level,  *)
(* message or time; and between hops each cut falsifies at most one key.    *)
CutConfined ==
    \A i \in DOMAIN seen :
        LET whole == parse_tsv_line(sent) IN
        /\ whole.result = "frame"
        /\ Columns(seen[i]) = Columns(whole.frames[1])
        /\ whole.frames[1].ts # <<>> => seen[i].ts = whole.frames[1].ts
        /\ Cardinality(WrongKeys(seen[i].kv, seen[1].kv)) <= cuts

(* No TAB and no line break anywhere in the frame, and no ";" in its TTLs   *)
(* or in what follows them, the name of a unit.                             *)
Tame(f) ==
    /\ \A c \in {f.kind, f.scope, f.id, f.msg} : {TAB, NL} \cap Range(c) = {}
    /\ \A k \in DOMAIN f.kv :
          /\ {TAB, NL} \cap Range(f.kv[k]) = {}
          /\ ~TextBefore(k, TTL) => SEMI \notin Range(f.kv[k])

(* hawkd does not escape what it puts into a kv bag, such as a unit's       *)
(* description or an error's text.  Short of a TAB, which ends the column,  *)
(* and of a line break, which ends the line, whatever it says the TTLs of   *)
(* the frame are read back as hawkd set them: their keys sort after "desc"  *)
(* and "error", and the last of equal keys wins.                            *)
TtlSafe ==
    \A i \in DOMAIN built, j \in DOMAIN seen :
        LET f == built[i]
        IN  TTL \in DOMAIN f.kv /\ Tame(f) /\ cuts = 0
                => TTL \in DOMAIN seen[j].kv /\ seen[j].kv[TTL] = f.kv[TTL]
===============================================================================
