--------------------------- MODULE FrameRelay_proofs ---------------------------
(***************************************************************************)
(* Proofs about a line on its way, for lines of any length and any number  *)
(* of cuts: what a cut leaves of a kv bag (CutBag), and RelayInv, the      *)
(* inductive invariant of the relay.                                       *)
(***************************************************************************)
EXTENDS FrameRelay, HawkFrame_proofs

(* The provers a leaf is tried with, in turn, where it names none. *)
USE SMTT(10), ZenonT(20), SMTT(30), SMTT(40)

(* A cut kv bag has at most one key wrong, that of the part the cut falls   *)
(* in.                                                                      *)
LEMMA CutBag ==
    ASSUME NEW kv, IsBag(kv), NEW j \in 0 .. Len(serialize_kv_bag(kv))
    PROVE  \E x : WrongKeys(parse_kv_bag(Trim(SubSeq(serialize_kv_bag(kv), 1, j))), kv) \subseteq {x}
<1> DEFINE keys == SortedKeys(kv)
           ss == Written(kv)
           s == serialize_kv_bag(kv)
<1>1. IsWritten(ss, keys, kv, s)
  BY WrittenParts
<1> HIDE DEF keys, ss
<1>2. s \in Text /\ IsTrimmed(s) /\ TAB \notin Range(s)
  BY <1>1 DEF IsWritten
<1>3. PICK k \in 0 .. Len(s) : Trim(SubSeq(s, 1, j)) = SubSeq(s, 1, k)
  BY <1>2, CutTrim DEF Text
<1> HIDE DEF s
<1> DEFINE t == SubSeq(s, 1, k)
           parts == KvParts(t)
           bag == parse_kv_bag(t)
           m == Len(parts)
           x == KeyOf(parts[m])
<1>4. t \in Text /\ TAB \notin Range(t)
  <2>1. t \in Text /\ DOMAIN t = 1 .. k /\ \A p \in 1 .. k : t[p] = s[p]
    BY <1>2, CutReads DEF Text
  <2>2. k \in Nat /\ k <= Len(s) /\ Len(s) \in Nat /\ DOMAIN s = 1 .. Len(s)
    BY <1>2
  <2> HIDE DEF t
  <2> QED
    BY <1>2, <2>1, <2>2 DEF Range
<1>5. IsCutSplit(t, s, SEMI)
  BY <1>2, SplitCut DEF Text
<1> HIDE DEF t
<1>6. /\ parts \in Seq(Text) /\ Len(parts) = Len(Split(t, SEMI))
      /\ DOMAIN Split(t, SEMI) = 1 .. Len(Split(t, SEMI))
  BY <1>4, PartsClean, SplitPieces DEF Text
<1>7. parts = [i \in DOMAIN Split(t, SEMI) |-> Trim(Split(t, SEMI)[i])]
  BY Zenon DEF KvParts
<1>8. bag = [y \in KeysIn(parts) |-> ValueOf(parts[Max(PartsOf(parts, y))])]
  BY Zenon DEF parse_kv_bag
<1> HIDE DEF parts, bag
<1>9. m \in Nat /\ m # 0 /\ DOMAIN parts = 1 .. m
  BY <1>5, <1>6 DEF IsCutSplit
<1>10. ASSUME NEW i \in 1 .. m - 1
       PROVE  /\ i \in 1 .. Len(ss) /\ parts[i] = ss[i]
              /\ KeyOf(parts[i]) = keys[i] /\ ValueOf(parts[i]) = kv[keys[i]] /\ keys[i] \in DOMAIN kv
  <2>1. /\ m \in 1 .. Len(Split(s, SEMI)) /\ Split(t, SEMI)[i] = Split(s, SEMI)[i]
        /\ i \in DOMAIN Split(t, SEMI)
    BY <1>5, <1>6, <1>9 DEF IsCutSplit
  <2>2. parts[i] = Trim(Split(s, SEMI)[i])
    BY <1>7, <2>1
  <2>3. Len(ss) # 0
    <3>1. SUFFICES ASSUME Len(ss) = 0 PROVE FALSE
      OBVIOUS
    <3>2. s = <<>> /\ SEMI \notin Range(s)
      BY <1>1, <3>1 DEF IsWritten, Range
    <3>3. Split(s, SEMI) = <<s>>
      BY Zenon, <1>2, <3>2, SplitSole DEF Text
    <3> QED
      BY <1>9, <2>1, <3>3
  <2>4. Split(s, SEMI) = ss /\ ss \in Seq(Text)
    BY <1>1, <2>3 DEF IsWritten
  <2>5. i \in 1 .. Len(ss)
    BY <1>9, <2>1, <2>4
  <2>6. /\ ss[i] \in Text /\ IsTrimmed(ss[i]) /\ keys[i] \in DOMAIN kv
        /\ KeyOf(ss[i]) = keys[i] /\ ValueOf(ss[i]) = kv[keys[i]]
    BY <1>1, <2>5 DEF IsWritten
  <2>7. Trim(ss[i]) = ss[i]
    BY <2>6, TrimFixed DEF Text
  <2> QED
    BY <2>2, <2>4, <2>5, <2>6, <2>7
<1>11. ASSUME NEW y \in WrongKeys(bag, kv)
       PROVE  y = x
  <2>1. y \in DOMAIN bag /\ (y \notin DOMAIN kv \/ bag[y] # kv[y])
    BY DEF WrongKeys
  <2>2. y \in KeysIn(parts)
    BY <1>8, <2>1
  <2> DEFINE a == Max(PartsOf(parts, y))
  <2>3. a \in 1 .. m /\ KeyOf(parts[a]) = y
    BY <1>6, <2>2, LastPart
  <2>4. bag[y] = ValueOf(parts[a])
    BY <1>8, <2>2
  <2> HIDE DEF a
  <2>5. a \notin 1 .. m - 1
    BY <1>10, <2>1, <2>3, <2>4
  <2> QED
    BY <1>9, <2>3, <2>5
<1> QED
  BY Zenon, <1>3, <1>11 DEF bag, t, s

-------------------------------------------------------------------------------
(* The relay *)

Bags == UNION {[K -> Text] : K \in SUBSET Text}

Frames ==
    {f \in [ts : Text, kind : Text, scope : Text, id : Text, level : Levels, msg : Text, kv : Bags] :
        IsFrame(f)}

(* Frames holds every frame that a hop can parse. *)
LEMMA FramesAre == \A f : IsFrame(f) => f \in Frames
<1> SUFFICES ASSUME NEW f, IsFrame(f) PROVE f \in Frames
  OBVIOUS
<1>1. f.kv \in Bags
  <2>1. /\ f.kv = [k \in DOMAIN f.kv |-> f.kv[k]]
        /\ \A k \in DOMAIN f.kv : k \in Text /\ f.kv[k] \in Text
    BY DEF IsFrame, IsBag, CleanKey, CleanValue
  <2> DEFINE K == DOMAIN f.kv
  <2>2. f.kv \in [K -> Text] /\ K \in SUBSET Text
    BY <2>1
  <2> QED
    BY <2>2, Zenon DEF Bags
<1>2. f.ts \in Text
  <2>1. f.ts = <<>> \/ IsTimestamp(f.ts)
    BY Zenon DEF IsFrame
  <2>2. IsTimestamp(f.ts) => f.ts \in Text
    BY StampIsColumn DEF IsColumn
  <2>3. <<>> \in Text
    BY DEF Text
  <2> QED
    BY <2>1, <2>2, <2>3
<1>3. f.kind \in Text /\ f.scope \in Text /\ f.id \in Text /\ f.msg \in Text /\ f.level \in Levels
  BY DEF IsFrame, IsColumn
<1>4. f = [ts |-> f.ts, kind |-> f.kind, scope |-> f.scope, id |-> f.id,
           level |-> f.level, msg |-> f.msg, kv |-> f.kv]
  BY DEF IsFrame
<1>5. \A a \in Text, b \in Text, c \in Text, d \in Text, e \in Levels, m \in Text, k \in Bags :
         [ts |-> a, kind |-> b, scope |-> c, id |-> d, level |-> e, msg |-> m, kv |-> k]
            \in [ts : Text, kind : Text, scope : Text, id : Text, level : Levels, msg : Text, kv : Bags]
  OBVIOUS
<1>6. f \in [ts : Text, kind : Text, scope : Text, id : Text, level : Levels, msg : Text, kv : Bags]
  BY <1>1, <1>2, <1>3, <1>4, <1>5, Zenon
<1> QED
  BY <1>6, Zenon DEF Frames

(* The line as the last writer meant it. *)
Whole == IF seen = <<>> THEN sent ELSE to_tsv_line(seen[Len(seen)], Stamps[Len(seen) + 1])

(* The frame of the line as it was first sent. *)
First == ParsedFrame(Split(sent, TAB))

(* f has the columns and the time of g. *)
SameHead(f, g) == Columns(f) = Columns(g) /\ (g.ts # <<>> => f.ts = g.ts)

(* 1 between a cut and the next hop. *)
Pending == IF result = "cut" THEN 1 ELSE 0

(* At most n keys of kv are not as in whole. *)
FewWrong(kv, whole, n) ==
    IsFiniteSet(WrongKeys(kv, whole)) /\ Cardinality(WrongKeys(kv, whole)) <= n

(* The types; what the next hop reads is what the last writer meant, or,    *)
(* after a cut, a beginning of it.                                          *)
LineInv ==
    /\ sent \in Text
    /\ cuts \in Nat
    /\ seen \in Seq(Frames) /\ Len(seen) <= MaxHops
    /\ result \in {"frame", "none", "err", "cut"}
    /\ Whole \in Text
    /\ result = "frame" => line = Whole
    /\ result = "cut" => cuts > 0 /\ \E n \in 0 .. Len(Whole) : line = SubSeq(Whole, 1, n)

(* Without a cut no hop refuses the line, and all see the first frame.      *)
StableInv ==
    cuts = 0 /\ seen # <<>> =>
        /\ result = "frame"
        /\ \A i \in 2 .. Len(seen) : seen[i] = Relayed(seen[1], Stamps[2])

(* The line as it was sent is a frame, every hop has its columns, and every *)
(* cut that a hop has read has falsified at most one key.                   *)
CutInv ==
    /\ seen # <<>> => Accepted(sent)
    /\ \A i \in 1 .. Len(seen) :
          /\ SameHead(seen[i], First)
          /\ FewWrong(seen[i].kv, seen[1].kv, cuts - (IF i = Len(seen) THEN Pending ELSE 0))

(* A frame that was relayed once is relayed as it is. *)
LEMMA RelayedOnce ==
    ASSUME NEW f, IsFrame(f), NEW c, NEW d
    PROVE  Relayed(Relayed(f, c), d) = Relayed(f, c)
<1> DEFINE ts == IF f.ts = <<>> THEN <<c>> ELSE f.ts
           kv == Expressible(f.kv)
           g == [ts |-> ts, kind |-> f.kind, scope |-> f.scope, id |-> f.id,
                 level |-> f.level, msg |-> f.msg, kv |-> kv]
<1>1. f = [ts |-> f.ts, kind |-> f.kind, scope |-> f.scope, id |-> f.id,
           level |-> f.level, msg |-> f.msg, kv |-> f.kv]
  BY DEF IsFrame
<1>2. Relayed(f, c) = [f EXCEPT !.ts = ts, !.kv = kv]
  BY Zenon DEF Relayed
<1>3. Relayed(f, c) = g
  BY <1>1, <1>2, FrameExcept, Zenon
<1>4. ts # <<>>
  OBVIOUS
<1>5. Expressible(kv) = kv
  BY ZenonT(30) DEF Expressible
<1> HIDE DEF ts, kv
<1>6. /\ g.ts = ts /\ g.kv = kv
      /\ g = [ts |-> ts, kind |-> f.kind, scope |-> f.scope, id |-> f.id,
              level |-> f.level, msg |-> f.msg, kv |-> kv]
  OBVIOUS
<1> HIDE DEF g
<1>7. Relayed(g, d) = [g EXCEPT !.ts = IF g.ts = <<>> THEN <<d>> ELSE g.ts, !.kv = Expressible(g.kv)]
  BY Zenon DEF Relayed
<1>8. (IF g.ts = <<>> THEN <<d>> ELSE g.ts) = ts /\ Expressible(g.kv) = kv
  BY <1>4, <1>5, <1>6
<1>9. Relayed(g, d) = [g EXCEPT !.ts = ts, !.kv = kv]
  BY <1>7, <1>8, Zenon
<1>10. [g EXCEPT !.ts = ts, !.kv = kv] = g
  <2>1. g = [ts |-> ts, kind |-> f.kind, scope |-> f.scope, id |-> f.id,
             level |-> f.level, msg |-> f.msg, kv |-> kv]
    BY <1>6
  <2>2. [g EXCEPT !.ts = ts] = g
    BY <2>1
  <2>3. [g EXCEPT !.kv = kv] = g
    BY <2>1
  <2> QED
    BY <2>2, <2>3, Zenon
<1> QED
  BY <1>3, <1>9, <1>10, Zenon

(* The fields of a relayed frame. *)
LEMMA RelayedFields ==
    ASSUME NEW f, IsFrame(f), NEW c
    PROVE  /\ Columns(Relayed(f, c)) = Columns(f)
           /\ f.ts # <<>> => Relayed(f, c).ts = f.ts
           /\ Relayed(f, c).kv = Expressible(f.kv)
<1> DEFINE ts == IF f.ts = <<>> THEN <<c>> ELSE f.ts
           kv == Expressible(f.kv)
<1>1. f = [ts |-> f.ts, kind |-> f.kind, scope |-> f.scope, id |-> f.id,
           level |-> f.level, msg |-> f.msg, kv |-> f.kv]
  BY DEF IsFrame
<1>2. Relayed(f, c) = [f EXCEPT !.ts = ts, !.kv = kv]
  BY Zenon DEF Relayed
<1>3. Relayed(f, c) = [ts |-> ts, kind |-> f.kind, scope |-> f.scope, id |-> f.id,
                       level |-> f.level, msg |-> f.msg, kv |-> kv]
  BY <1>1, <1>2, FrameExcept, Zenon
<1> QED
  BY <1>3 DEF Columns

(* f has the columns and the time of g, the frame of w, and the bag of a    *)
(* beginning of its seventh column.                                         *)
IsCutFrame(f, g, w) ==
    /\ Accepted(w) /\ Columns(f) = Columns(g) /\ f.ts = g.ts
    /\ \E j \in 0 .. Len(Split(w, TAB)[7]) :
          f.kv = parse_kv_bag(Trim(SubSeq(Split(w, TAB)[7], 1, j)))

(* A cut line that is accepted gives the columns and the time of the whole  *)
(* line, and the bag of a beginning of its seventh column.                  *)
LEMMA CutHead ==
    ASSUME NEW w \in Text, NEW n \in 0 .. Len(w), Accepted(SubSeq(w, 1, n)),
           NEW f, f = ParsedFrame(Split(SubSeq(w, 1, n), TAB)),
           NEW g, g = ParsedFrame(Split(w, TAB))
    PROVE  IsCutFrame(f, g, w)
<1> DEFINE A == Split(SubSeq(w, 1, n), TAB)
           B == Split(w, TAB)
<1>1. Accepted(w) /\ \A i \in 1 .. 6 : A[i] = B[i]
  BY CutAccepted
<1>2. PICK j \in 0 .. Len(B[7]) : A[7] = SubSeq(B[7], 1, j)
  BY CutAccepted
<1> HIDE DEF A, B
<1>3. A[1] = B[1] /\ A[2] = B[2] /\ A[3] = B[3] /\ A[4] = B[4] /\ A[5] = B[5] /\ A[6] = B[6]
  BY <1>1
<1>4. Columns(f) = Columns(g) /\ f.ts = g.ts /\ f.kv = parse_kv_bag(Trim(SubSeq(B[7], 1, j)))
  BY ZenonT(30), <1>2, <1>3 DEF ParsedFrame, Columns, A, B
<1> QED
  BY <1>1, <1>4 DEF IsCutFrame, B

(* A bag that differs from kv in one key has one more wrong key than kv; if *)
(* it differs in none it has no more.                                       *)
LEMMA WrongAdd ==
    ASSUME NEW kv, NEW base, NEW n \in Int, FewWrong(kv, base, n), NEW bag
    PROVE  /\ WrongKeys(bag, kv) = {} => FewWrong(bag, base, n)
           /\ \A x : WrongKeys(bag, kv) \subseteq {x} => FewWrong(bag, base, n + 1)
<1> DEFINE W == WrongKeys(kv, base)
           V == WrongKeys(bag, base)
           D == WrongKeys(bag, kv)
<1>1. V \subseteq W \cup D
  BY DEF WrongKeys
<1>2. IsFiniteSet(W) /\ Cardinality(W) \in Nat /\ Cardinality(W) <= n
  BY FS_CardinalityType DEF FewWrong
<1> HIDE DEF W, V, D
<1>3. ASSUME D = {} PROVE FewWrong(bag, base, n)
  <2>1. V \subseteq W
    BY <1>1, <1>3
  <2>2. IsFiniteSet(V) /\ Cardinality(V) <= Cardinality(W)
    BY <1>2, <2>1, FS_Subset
  <2>3. Cardinality(V) \in Nat
    BY <2>2, FS_CardinalityType
  <2> QED
    BY <1>2, <2>2, <2>3 DEF FewWrong, V
<1>4. ASSUME NEW x, D \subseteq {x} PROVE FewWrong(bag, base, n + 1)
  <2> DEFINE U == W \cup {x}
  <2>1. V \subseteq U
    BY <1>1, <1>4
  <2>2. IsFiniteSet(U) /\ Cardinality(U) \in Nat /\ Cardinality(U) <= Cardinality(W) + 1
    <3>1. IsFiniteSet(U) /\ Cardinality(U) = IF x \in W THEN Cardinality(W) ELSE Cardinality(W) + 1
      BY <1>2, FS_AddElement, Zenon
    <3> QED
      BY <1>2, <3>1
  <2> HIDE DEF U
  <2>3. IsFiniteSet(V) /\ Cardinality(V) <= Cardinality(U)
    BY <2>1, <2>2, FS_Subset
  <2>4. Cardinality(V) \in Nat
    BY <2>3, FS_CardinalityType
  <2> QED
    BY <1>2, <2>2, <2>3, <2>4 DEF FewWrong, V
<1> QED
  BY <1>3, <1>4 DEF D

(* A whole bag has no wrong key, and loses none by what cannot be written.  *)
LEMMA WrongNone ==
    /\ \A kv : WrongKeys(Expressible(kv), kv) = {}
    /\ \A kv, n : n \in Nat => FewWrong(kv, kv, n)
<1>1. ASSUME NEW kv PROVE WrongKeys(Expressible(kv), kv) = {}
  BY DEF WrongKeys, Expressible
<1>2. ASSUME NEW kv, NEW n \in Nat PROVE FewWrong(kv, kv, n)
  <2>1. WrongKeys(kv, kv) = {}
    BY DEF WrongKeys
  <2> QED
    BY <2>1, FS_EmptySet DEF FewWrong
<1> QED
  BY <1>1, <1>2

(* g has the columns of f, its time if it had one, and at most one key      *)
(* wrong.                                                                   *)
IsReading(g, f) ==
    /\ Columns(g) = Columns(f)
    /\ f.ts # <<>> => g.ts = f.ts
    /\ \E x : WrongKeys(g.kv, f.kv) \subseteq {x}

(* The frame that the next hop makes of what the last one sent of f, whole  *)
(* or cut.                                                                  *)
LEMMA HopReads ==
    ASSUME NEW f, IsFrame(f), NEW now \in Range(Stamps),
           NEW n \in 0 .. Len(to_tsv_line(f, now)),
           NEW l, l = SubSeq(to_tsv_line(f, now), 1, n), Accepted(l),
           NEW g, g = ParsedFrame(Split(l, TAB))
    PROVE  IsReading(g, f)
<1> DEFINE w == to_tsv_line(f, now)
           h == ParsedFrame(Split(w, TAB))
<1>1. w \in Text /\ Split(w, TAB) = Row(f, now) /\ h = Relayed(f, now)
  BY FrameRoundTrip
<1>2. Columns(h) = Columns(f) /\ (f.ts # <<>> => h.ts = f.ts)
  BY <1>1, RelayedFields
<1>3. l = SubSeq(w, 1, n) /\ n \in 0 .. Len(w) /\ h = ParsedFrame(Split(w, TAB))
  OBVIOUS
<1> HIDE DEF w, h
<1>4. IsCutFrame(g, h, w)
  BY Zenon, <1>1, <1>3, CutHead
<1>5. PICK j \in 0 .. Len(Split(w, TAB)[7]) :
         g.kv = parse_kv_bag(Trim(SubSeq(Split(w, TAB)[7], 1, j)))
  BY <1>4 DEF IsCutFrame
<1>6. Split(w, TAB)[7] = serialize_kv_bag(f.kv)
  BY <1>1 DEF Row
<1>7. IsBag(f.kv)
  BY DEF IsFrame
<1>8. \E x : WrongKeys(g.kv, f.kv) \subseteq {x}
  BY <1>5, <1>6, <1>7, CutBag
<1> QED
  BY <1>2, <1>4, <1>8 DEF IsCutFrame, IsReading

(* A hop that refuses the line, and one that makes g of it. *)
Refuses ==
    /\ ~Accepted(line)
    /\ seen' = seen /\ line' = line /\ result' \in {"none", "err"}

Accepts(g) ==
    /\ Accepted(line) /\ IsFrame(g)
    /\ seen' = Append(seen, g) /\ result' = "frame"
    /\ line' = to_tsv_line(g, Stamps[Len(seen) + 2])

(* What a hop reads: the last writer's line, or after a cut a beginning.    *)
Reads ==
    /\ line \in Text
    /\ \E n \in 0 .. Len(Whole) : line = SubSeq(Whole, 1, n)
    /\ cuts = 0 \/ result = "frame" => line = Whole

(* There is a stamp for the line that follows every frame seen. *)
LEMMA StampOf ==
    \A n \in Nat : n <= MaxHops => n + 1 \in 1 .. 4 /\ Stamps[n + 1] \in Range(Stamps)
<1>1. Len(Stamps) = 4 /\ DOMAIN Stamps = 1 .. 4
  BY DEF Stamps
<1>2. MaxHops \in 1 .. 3
  BY <1>1, RelayAssumption
<1>3. \A i \in 1 .. 4 : Stamps[i] \in Range(Stamps)
  BY <1>1 DEF Range
<1> QED
  BY <1>2, <1>3

(* A hop reads the line or a beginning of it, and refuses or accepts it.    *)
LEMMA HopIs ==
    ASSUME LineInv, Hop
    PROVE  /\ Reads
           /\ Len(seen) \in Nat /\ Len(seen) < MaxHops
           /\ result = "frame" \/ (result = "cut" /\ cuts > 0)
           /\ Refuses \/ Accepts(ParsedFrame(Split(line, TAB)))
           /\ UNCHANGED <<built, sent, cuts>>
<1> DEFINE p == parse_tsv_line(line)
           g == ParsedFrame(Split(line, TAB))
<1>1. /\ result \in {"frame", "cut"} /\ Len(seen) < MaxHops
      /\ result' = p.result /\ seen' = seen \o p.frames
      /\ line' = IF p.result = "frame" THEN to_tsv_line(p.frames[1], Stamps[Len(seen) + 2]) ELSE line
      /\ UNCHANGED <<built, sent, cuts>>
  BY Zenon DEF Hop
<1>2. /\ seen \in Seq(Frames) /\ Whole \in Text /\ cuts \in Nat
      /\ result = "frame" => line = Whole
      /\ result = "cut" => cuts > 0 /\ \E n \in 0 .. Len(Whole) : line = SubSeq(Whole, 1, n)
  BY Zenon DEF LineInv
<1>3. Len(seen) \in Nat
  BY <1>2
<1>4. result = "frame" \/ (result = "cut" /\ cuts > 0)
  BY <1>1, <1>2
<1>5. \E n \in 0 .. Len(Whole) : line = SubSeq(Whole, 1, n)
  <2>1. CASE result = "frame"
    <3>1. Len(Whole) \in 0 .. Len(Whole) /\ SubSeq(Whole, 1, Len(Whole)) = Whole
      BY <1>2, SubSeqFull DEF Text
    <3> QED
      BY ZenonT(30), <1>2, <2>1, <3>1
  <2>2. CASE result = "cut"
    BY <1>2, <2>2
  <2> QED
    BY <1>1, <2>1, <2>2
<1>6. line \in Text
  <2>1. PICK n \in 0 .. Len(Whole) : line = SubSeq(Whole, 1, n)
    BY <1>5
  <2> QED
    BY <1>2, <2>1, CutReads DEF Text
<1>7. Reads
  BY <1>2, <1>4, <1>5, <1>6 DEF Reads
<1>8. CASE Accepted(line)
  <2>1. p = Parsed("frame", <<g>>) /\ IsFrame(g)
    BY <1>6, <1>8, ParseIs, ParsedIsFrame
  <2> HIDE DEF p, g
  <2>2. p.result = "frame" /\ p.frames = <<g>> /\ p.frames[1] = g
    BY <2>1 DEF Parsed
  <2>3. seen \o <<g>> = Append(seen, g)
    BY <1>2
  <2>4. Accepts(g)
    BY <1>1, <1>8, <2>1, <2>2, <2>3 DEF Accepts
  <2> QED
    BY <1>1, <1>3, <1>4, <1>7, <2>4 DEF g
<1>9. CASE ~Accepted(line)
  <2>1. PICK r \in {"none", "err"} : p = Parsed(r, <<>>)
    BY ZenonT(30), <1>6, <1>9, ParseIs
  <2> HIDE DEF p
  <2>2. p.result = r /\ p.frames = <<>> /\ r # "frame"
    BY <2>1 DEF Parsed
  <2>3. seen \o <<>> = seen
    BY <1>2
  <2>4. Refuses
    BY <1>1, <1>9, <2>2, <2>3 DEF Refuses
  <2> QED
    BY <1>1, <1>3, <1>4, <1>7, <2>4
<1> QED
  BY <1>8, <1>9

(* What serialize_kv_bag writes of any bag of texts: one part per key, in   *)
(* the order of the keys.                                                   *)
LEMMA WrittenText ==
    ASSUME NEW kv, IsFiniteSet(DOMAIN kv), DOMAIN kv \subseteq Text,
           \A k \in DOMAIN kv : kv[k] \in Text
    PROVE  /\ IsKeys(SortedKeys(kv), kv)
           /\ Written(kv) \in Seq(Text) /\ Len(Written(kv)) = Cardinality(DOMAIN kv)
           /\ \A i \in 1 .. Cardinality(DOMAIN kv) :
                 Written(kv)[i] = Part(SortedKeys(kv)[i], kv[SortedKeys(kv)[i]])
           /\ serialize_kv_bag(kv) \in Text
<1> DEFINE n == Cardinality(DOMAIN kv)
           keys == SortedKeys(kv)
           ss == Written(kv)
<1>1. IsKeys(keys, kv)
  BY KeysSorted
<1>2. n \in Nat /\ DOMAIN keys = 1 .. n /\ \A i \in 1 .. n : keys[i] \in DOMAIN kv
  BY <1>1 DEF IsKeys
<1> HIDE DEF keys, n
<1>3. ss = [i \in 1 .. n |-> Part(keys[i], kv[keys[i]])]
  BY <1>2, Zenon DEF Written, keys
<1> HIDE DEF ss
<1>4. ASSUME NEW i \in 1 .. n PROVE Part(keys[i], kv[keys[i]]) \in Text
  <2> DEFINE k == keys[i]
             v == kv[k]
  <2>1. k \in Text /\ v \in Text
    BY <1>2
  <2> HIDE DEF k, v
  <2>2. k \o <<"=">> \o v \in Text
    BY <2>1, TokensHas, Separated DEF Text
  <2>3. Part(k, v) \in Text
    BY <2>1, <2>2 DEF Part
  <2> QED
    BY <2>3 DEF k, v
<1>5. ss \in [1 .. n -> Text]
  BY <1>3, <1>4
<1>6. ss \in Seq(Text) /\ Len(ss) = n
  BY <1>2, <1>5
<1>7. Join(ss, SEMI) \in Text
  BY <1>6, TokensHas, JoinIsText DEF Text
<1>8. serialize_kv_bag(kv) = Join(ss, SEMI)
  BY SerializeIs DEF ss
<1>9. \A i \in 1 .. n : ss[i] = Part(keys[i], kv[keys[i]])
  BY <1>3
<1> QED
  BY <1>1, <1>6, <1>7, <1>8, <1>9 DEF n, keys, ss

(* The row of a frame that hawkd builds. *)
LEMMA BuiltRow ==
    ASSUME NEW f, IsBuilt(f), NEW now
    PROVE  /\ Row(f, now) \in Seq(Text) /\ Len(Row(f, now)) = 7
           /\ Row(f, now)[1] = f.ts /\ Row(f, now)[2] = f.kind /\ Row(f, now)[3] = f.scope
           /\ Row(f, now)[4] = f.id /\ Row(f, now)[5] = as_str(f.level) /\ Row(f, now)[6] = f.msg
           /\ Row(f, now)[7] = serialize_kv_bag(f.kv)
           /\ to_tsv_line(f, now) \in Text
<1> DEFINE bag == serialize_kv_bag(f.kv)
           level == as_str(f.level)
           cols == Row(f, now)
<1>1. IsTimestamp(f.ts)
  BY Zenon DEF IsBuilt
<1>2. f.ts \in Text /\ f.ts # <<>>
  BY <1>1, StampIsColumn DEF IsColumn
<1>3. {f.kind, f.scope, f.id, f.msg} \subseteq Text
  BY Zenon DEF IsBuilt
<1>4. f.level \in Levels
  <2>1. f.level \in DOMAIN LevelWords \cup {"unknown"}
    BY Zenon DEF IsBuilt
  <2>2. DOMAIN LevelWords = {"ok", "info", "warn", "fail"}
    BY DEF LevelWords
  <2> QED
    BY <2>1, <2>2 DEF Levels
<1>5. level \in Text
  BY <1>4, LevelReads
<1>6. bag \in Text
  <2>1. /\ IsFiniteSet(DOMAIN f.kv) /\ DOMAIN f.kv \subseteq Text
        /\ \A k \in DOMAIN f.kv : f.kv[k] \in Text
    BY Zenon DEF IsBuilt
  <2> QED
    BY <2>1, WrittenText
<1>7. cols = <<IF f.ts = <<>> THEN <<now>> ELSE f.ts, f.kind, f.scope, f.id, level, f.msg, bag>>
  BY Zenon DEF Row
<1> HIDE DEF cols, level, bag
<1>8. cols = <<f.ts, f.kind, f.scope, f.id, level, f.msg, bag>>
  BY <1>2, <1>7
<1>9. cols \in Seq(Text)
  <2>1. \A t \in {f.ts, f.kind, f.scope, f.id, level, f.msg, bag} : t \in Text
    BY <1>2, <1>3, <1>5, <1>6
  <2> QED
    BY <1>8, <2>1
<1>10. to_tsv_line(f, now) = Join(cols, TAB)
  BY LineOfRow DEF cols
<1>11. to_tsv_line(f, now) \in Text
  BY <1>9, <1>10, TokensHas, JoinIsText DEF Text
<1> QED
  BY <1>8, <1>9, <1>11 DEF cols, level, bag

(* The invariants hold at the start. *)
LEMMA RelayInit ==
    ASSUME RInit
    PROVE  LineInv /\ StableInv /\ CutInv
<1>1. /\ line = sent /\ result = "frame" /\ seen = <<>> /\ cuts = 0
      /\ sent \in Lines \/ \E f \in Built : sent \in LinesOf(to_tsv_line(f, Stamps[1]))
  BY Zenon DEF RInit
<1>2. sent \in Text
  <2>1. CASE sent \in Lines
    BY <2>1, RelayAssumption
  <2>2. ASSUME NEW f \in Built, sent \in LinesOf(to_tsv_line(f, Stamps[1])) PROVE sent \in Text
    <3> DEFINE text == to_tsv_line(f, Stamps[1])
    <3>1. text \in Text
      BY RelayAssumption, BuiltRow
    <3> HIDE DEF text
    <3>2. Split(text, NL) \in Seq(Text)
      BY <3>1, SplitPieces DEF Text
    <3>3. sent \in Range(Split(text, NL))
      BY <2>2 DEF LinesOf, text
    <3> QED
      BY <3>2, <3>3 DEF Range
  <2> QED
    BY <1>1, <2>1, <2>2
<1>3. Whole = sent
  BY <1>1 DEF Whole
<1>4. MaxHops \in 1 .. 3
  <2>1. Len(Stamps) = 4
    BY DEF Stamps
  <2> QED
    BY <2>1, RelayAssumption
<1>5. LineInv
  <2>1. seen \in Seq(Frames) /\ Len(seen) = 0
    BY <1>1
  <2> QED
    BY <1>1, <1>2, <1>3, <1>4, <2>1 DEF LineInv
<1>6. StableInv /\ CutInv
  BY <1>1 DEF StableInv, CutInv
<1> QED
  BY <1>5, <1>6

(* A hop preserves LineInv. *)
LEMMA LineHop ==
    ASSUME LineInv, Hop
    PROVE  LineInv'
<1> DEFINE g == ParsedFrame(Split(line, TAB))
           n == Len(seen)
<1>1. /\ n \in Nat /\ n < MaxHops /\ sent' = sent /\ cuts' = cuts
      /\ Refuses \/ Accepts(g)
  BY HopIs
<1>2. sent \in Text /\ cuts \in Nat /\ seen \in Seq(Frames) /\ Whole \in Text
  BY Zenon DEF LineInv
<1>3. MaxHops \in Nat /\ n + 1 <= MaxHops
  BY <1>1, RelayAssumption
<1> HIDE DEF g
<1>4. Whole' = IF seen' = <<>> THEN sent' ELSE to_tsv_line(seen'[Len(seen')], Stamps[Len(seen') + 1])
  BY DEF Whole
<1>5. CASE Refuses
  <2>1. seen' = seen /\ result' \in {"none", "err"}
    BY <1>5 DEF Refuses
  <2>2. Whole' = Whole
    BY <1>1, <2>1 DEF Whole
  <2>3. Len(seen') <= MaxHops
    BY <1>1, <1>3, <2>1
  <2> QED
    BY <1>1, <1>2, <2>1, <2>2, <2>3 DEF LineInv
<1>6. CASE Accepts(g)
  <2>1. /\ seen' = Append(seen, g) /\ result' = "frame" /\ IsFrame(g)
        /\ line' = to_tsv_line(g, Stamps[n + 2])
    BY <1>6 DEF Accepts
  <2>2. g \in Frames
    BY <2>1, FramesAre
  <2> HIDE DEF n
  <2>3. seen' \in Seq(Frames) /\ Len(seen') = n + 1 /\ seen' # <<>> /\ seen'[n + 1] = g
    BY <1>2, <2>1, <2>2 DEF n
  <2>4. Whole' = to_tsv_line(g, Stamps[n + 2])
    <3>1. n + 1 + 1 = n + 2
      BY <1>1
    <3> QED
      BY <1>4, <2>3, <3>1
  <2>5. Stamps[n + 2] \in Range(Stamps)
    <3>1. n + 1 \in Nat /\ n + 1 + 1 = n + 2
      BY <1>1
    <3> QED
      BY <1>3, <3>1, StampOf
  <2>6. Whole' \in Text
    BY <2>1, <2>4, <2>5, FrameRoundTrip
  <2> QED
    BY <1>1, <1>2, <1>3, <2>1, <2>3, <2>4, <2>6 DEF LineInv
<1> QED
  BY <1>1, <1>5, <1>6

(* A line that some hop has sent, and that was not cut, the next one        *)
(* accepts, and relays the frame.                                           *)
LEMMA WholeReads ==
    ASSUME LineInv, Hop, line = Whole, seen # <<>>
    PROVE  /\ Accepted(line)
           /\ ParsedFrame(Split(line, TAB)) = Relayed(seen[Len(seen)], Stamps[Len(seen) + 1])
<1> DEFINE n == Len(seen)
           f == seen[n]
           now == Stamps[n + 1]
<1>1. seen \in Seq(Frames) /\ n <= MaxHops
  BY Zenon DEF LineInv
<1>2. n \in Nat \ {0} /\ n \in 1 .. n
  BY <1>1, EmptySeq
<1>3. IsFrame(f)
  BY <1>1, <1>2 DEF Frames
<1>4. now \in Range(Stamps)
  BY <1>1, <1>2, StampOf
<1>5. line = to_tsv_line(f, now)
  BY DEF Whole
<1> HIDE DEF f, now
<1> QED
  BY <1>3, <1>4, <1>5, FrameRoundTrip DEF f, now

(* A hop preserves StableInv: what it relays without a cut it accepts.      *)
LEMMA StableHop ==
    ASSUME LineInv, StableInv, Hop
    PROVE  StableInv'
<1> DEFINE g == ParsedFrame(Split(line, TAB))
           n == Len(seen)
<1> SUFFICES ASSUME cuts' = 0, seen' # <<>>
             PROVE  /\ result' = "frame"
                    /\ \A i \in 2 .. Len(seen') : seen'[i] = Relayed(seen'[1], Stamps[2])
  BY DEF StableInv
<1>1. n \in Nat /\ cuts' = cuts /\ Reads /\ (Refuses \/ Accepts(g))
  BY HopIs
<1>2. cuts = 0 /\ line = Whole
  BY <1>1 DEF Reads
<1>3. seen \in Seq(Frames) /\ \A i \in 1 .. n : IsFrame(seen[i])
  BY DEF LineInv, Frames
<1>4. Accepted(line) \/ seen = <<>>
  BY <1>2, WholeReads
<1>5. Accepts(g)
  BY <1>1, <1>4 DEF Refuses
<1>6. seen' = Append(seen, g) /\ result' = "frame"
  BY <1>5 DEF Accepts
<1>7. n = 0 \/ g = Relayed(seen[n], Stamps[n + 1])
  <2>1. CASE seen = <<>>
    BY <2>1
  <2>2. CASE seen # <<>>
    BY <1>2, <2>2, WholeReads
  <2> QED
    BY <2>1, <2>2
<1>8. n # 0 => \A i \in 2 .. n : seen[i] = Relayed(seen[1], Stamps[2])
  BY <1>2, <1>3 DEF StableInv
<1> HIDE DEF g, n
<1>9. /\ Len(seen') = n + 1 /\ seen'[n + 1] = g
      /\ \A i \in 1 .. n : seen'[i] = seen[i]
  BY <1>3, <1>6 DEF n
<1>10. CASE n = 0
  BY <1>6, <1>9, <1>10
<1>11. CASE n # 0
  <2> DEFINE r == Relayed(seen[1], Stamps[2])
  <2>1. 1 \in 1 .. n /\ IsFrame(seen[1]) /\ seen'[1] = seen[1]
    BY <1>1, <1>3, <1>9, <1>11
  <2>2. g = r
    <3>1. CASE n = 1
      BY <1>7, <3>1
    <3>2. CASE n # 1
      <4>1. n \in 2 .. n
        BY <1>1, <1>11, <3>2
      <4>2. seen[n] = r
        BY <1>8, <1>11, <4>1
      <4>3. Relayed(r, Stamps[n + 1]) = r
        BY <2>1, RelayedOnce
      <4> QED
        BY <1>7, <1>11, <4>2, <4>3
    <3> QED
      BY <3>1, <3>2
  <2> HIDE DEF r
  <2>3. ASSUME NEW i \in 2 .. n + 1 PROVE seen'[i] = r
    <3>1. CASE i = n + 1
      BY <1>9, <2>2, <3>1
    <3>2. CASE i # n + 1
      <4>1. i \in 1 .. n /\ i \in 2 .. n
        BY <1>1, <3>2
      <4> QED
        BY <1>8, <1>9, <1>11, <4>1 DEF r
    <3> QED
      BY <3>1, <3>2
  <2> QED
    BY <1>6, <1>9, <2>1, <2>3 DEF r
<1> QED
  BY <1>10, <1>11

(* A hop that accepts the line sees its columns, with at most one key more  *)
(* wrong if the line was cut.                                               *)
LEMMA CutHop ==
    ASSUME LineInv, CutInv, Hop
    PROVE  CutInv'
<1> DEFINE g == ParsedFrame(Split(line, TAB))
           n == Len(seen)
<1>1. /\ n \in Nat /\ n < MaxHops /\ cuts' = cuts /\ sent' = sent /\ Reads
      /\ Refuses \/ Accepts(g)
      /\ result = "frame" \/ (result = "cut" /\ cuts > 0)
  BY HopIs
<1>2. /\ seen \in Seq(Frames) /\ \A i \in 1 .. n : IsFrame(seen[i])
      /\ cuts \in Nat /\ Whole \in Text /\ n <= MaxHops
  BY DEF LineInv, Frames
<1>3. /\ seen # <<>> => Accepted(sent)
      /\ \A i \in 1 .. n :
            /\ SameHead(seen[i], First)
            /\ FewWrong(seen[i].kv, seen[1].kv, cuts - (IF i = n THEN Pending ELSE 0))
  BY Zenon DEF CutInv
<1>4. First' = First
  BY <1>1 DEF First
<1>5. result' \in {"frame", "none", "err"} /\ Pending' = 0 /\ Pending \in {0, 1}
  BY <1>1 DEF Refuses, Accepts, Pending
<1>6. \A i \in 1 .. n : SameHead(seen[i], First) /\ FewWrong(seen[i].kv, seen[1].kv, cuts)
  <2> TAKE i \in 1 .. n
  <2> DEFINE q == IF i = n THEN Pending ELSE 0
             W == WrongKeys(seen[i].kv, seen[1].kv)
  <2>1. SameHead(seen[i], First) /\ FewWrong(seen[i].kv, seen[1].kv, cuts - q)
    BY <1>3
  <2>2. q \in {0, 1}
    BY <1>5
  <2>3. IsFiniteSet(W) /\ Cardinality(W) <= cuts - q /\ Cardinality(W) \in Nat
    BY <2>1, FS_CardinalityType DEF FewWrong
  <2> HIDE DEF q, W
  <2>4. IsFiniteSet(W) /\ Cardinality(W) <= cuts
    BY <1>2, <2>2, <2>3
  <2> QED
    BY <2>1, <2>4 DEF FewWrong, W
<1> HIDE DEF g, n
<1>7. SUFFICES /\ seen' # <<>> => Accepted(sent)
               /\ \A i \in 1 .. Len(seen') :
                     SameHead(seen'[i], First) /\ FewWrong(seen'[i].kv, seen'[1].kv, cuts)
  <2>1. \A i \in 1 .. Len(seen') : cuts' - (IF i = Len(seen') THEN Pending' ELSE 0) = cuts
    BY <1>1, <1>2, <1>5
  <2> HIDE DEF First, Pending
  <2> QED
    BY <1>1, <1>4, <2>1 DEF CutInv
<1>8. CASE Refuses
  <2>1. seen' = seen /\ Len(seen') = n
    BY <1>8 DEF Refuses, n
  <2> QED
    BY <1>3, <1>6, <2>1
<1>9. CASE Accepts(g)
  <2>1. Accepted(line) /\ seen' = Append(seen, g) /\ IsFrame(g)
    BY <1>9 DEF Accepts
  <2>2. /\ Len(seen') = n + 1 /\ seen'[n + 1] = g
        /\ \A i \in 1 .. n : seen'[i] = seen[i]
    BY <1>2, <2>1 DEF n
  <2>3. PICK j \in 0 .. Len(Whole) : line = SubSeq(Whole, 1, j)
    BY <1>1 DEF Reads
  <2>4. g = ParsedFrame(Split(line, TAB))
    BY DEF g
  <2>5. CASE n = 0
    <3>1. Whole = sent
      BY <1>2, <2>5 DEF Whole, n
    <3>2. First = ParsedFrame(Split(sent, TAB)) /\ sent \in Text
      BY <1>2, <3>1 DEF First
    <3> HIDE DEF First
    <3>3. IsCutFrame(g, First, sent)
      BY <2>1, <2>3, <2>4, <3>1, <3>2, CutHead
    <3>4. Accepted(sent) /\ SameHead(g, First)
      BY <3>3 DEF IsCutFrame, SameHead
    <3>5. FewWrong(g.kv, g.kv, cuts)
      BY <1>2, WrongNone
    <3> QED
      BY <2>2, <2>5, <3>4, <3>5
  <2>6. CASE n # 0
    <3> DEFINE f == seen[n]
               now == Stamps[n + 1]
               base == seen[1].kv
    <3>1. /\ n \in 1 .. n /\ 1 \in 1 .. n /\ IsFrame(f) /\ seen # <<>> /\ seen'[1] = seen[1]
          /\ now \in Range(Stamps)
      BY <1>1, <1>2, <2>2, <2>6, StampOf DEF n
    <3>2. Whole = to_tsv_line(f, now)
      BY <3>1 DEF Whole, n
    <3>3. SameHead(f, First) /\ FewWrong(f.kv, base, cuts - Pending)
      BY <1>3, <3>1 DEF n
    <3> HIDE DEF f, now, base, First
    <3>4. /\ Columns(g) = Columns(f) /\ (f.ts # <<>> => g.ts = f.ts)
          /\ \E x : WrongKeys(g.kv, f.kv) \subseteq {x}
      <4>1. j \in 0 .. Len(to_tsv_line(f, now)) /\ line = SubSeq(to_tsv_line(f, now), 1, j)
        BY <2>3, <3>2
      <4>2. IsReading(g, f)
        BY Zenon, <2>1, <2>4, <3>1, <4>1, HopReads
      <4> QED
        BY <4>2 DEF IsReading
    <3>5. SameHead(g, First)
      BY <3>3, <3>4 DEF SameHead
    <3>6. FewWrong(g.kv, base, cuts)
      <4>1. CASE result = "cut"
        <5>1. Pending = 1
          BY <4>1 DEF Pending
        <5>2. FewWrong(f.kv, base, cuts - 1) /\ cuts - 1 \in Int /\ cuts - 1 + 1 = cuts
          BY <1>2, <3>3, <5>1
        <5> QED
          BY ZenonT(30), <3>4, <5>2, WrongAdd
      <4>2. CASE result = "frame"
        <5>1. cuts - Pending = cuts /\ cuts \in Int
          BY <1>2, <4>2 DEF Pending
        <5>2. line = Whole
          BY <1>1, <4>2 DEF Reads
        <5>3. g = Relayed(f, now)
          BY <2>4, <3>1, <5>2, WholeReads DEF f, now, n
        <5>4. g.kv = Expressible(f.kv)
          BY <3>1, <5>3, RelayedFields
        <5>5. WrongKeys(g.kv, f.kv) = {}
          BY <5>4, WrongNone
        <5> QED
          BY <3>3, <5>1, <5>5, WrongAdd
      <4> QED
        BY <1>1, <4>1, <4>2
    <3>7. Accepted(sent)
      BY <1>3, <3>1
    <3>8. ASSUME NEW i \in 1 .. n + 1
          PROVE  SameHead(seen'[i], First) /\ FewWrong(seen'[i].kv, seen'[1].kv, cuts)
      <4>1. CASE i = n + 1
        BY <2>2, <3>1, <3>5, <3>6, <4>1 DEF base
      <4>2. CASE i # n + 1
        <5>1. i \in 1 .. n
          BY <1>1, <4>2
        <5> QED
          BY <1>6, <2>2, <3>1, <5>1
      <4> QED
        BY <4>1, <4>2
    <3> QED
      BY <2>2, <3>7, <3>8
  <2> QED
    BY <2>5, <2>6
<1> QED
  BY <1>1, <1>8, <1>9

(* A cut preserves the invariants. *)
LEMMA CutStep ==
    ASSUME LineInv, StableInv, CutInv, NEW n \in 1 .. Len(line), Cut(n)
    PROVE  LineInv' /\ StableInv' /\ CutInv'
<1>1. /\ result = "frame" /\ n \in 1 .. Len(line) - 1 /\ line' = SubSeq(line, 1, n)
      /\ result' = "cut" /\ cuts' = cuts + 1 /\ built' = built /\ sent' = sent /\ seen' = seen
  BY DEF Cut
<1>2. Whole' = Whole /\ First' = First
  BY <1>1 DEF Whole, First
<1>3. line = Whole /\ Whole \in Text /\ cuts \in Nat
  BY <1>1 DEF LineInv
<1>4. n \in 0 .. Len(Whole)
  <2>1. Len(Whole) \in Nat
    BY <1>3 DEF Text
  <2> QED
    BY <1>1, <1>3, <2>1
<1>5. LineInv'
  BY <1>1, <1>2, <1>3, <1>4 DEF LineInv
<1>6. StableInv'
  BY <1>1, <1>3 DEF StableInv
<1>7. CutInv'
  <2>1. Pending = 0 /\ Pending' = 1
    BY <1>1 DEF Pending
  <2>2. /\ seen # <<>> => Accepted(sent)
        /\ \A i \in 1 .. Len(seen) :
              /\ SameHead(seen[i], First)
              /\ FewWrong(seen[i].kv, seen[1].kv, cuts - (IF i = Len(seen) THEN Pending ELSE 0))
    BY Zenon DEF CutInv
  <2>3. ASSUME NEW i \in 1 .. Len(seen)
        PROVE  FewWrong(seen[i].kv, seen[1].kv, cuts' - (IF i = Len(seen) THEN Pending' ELSE 0))
    <3> DEFINE W == WrongKeys(seen[i].kv, seen[1].kv)
               m == cuts' - (IF i = Len(seen) THEN Pending' ELSE 0)
    <3>1. cuts - (IF i = Len(seen) THEN Pending ELSE 0) = cuts
      BY <1>3, <2>1
    <3>2. FewWrong(seen[i].kv, seen[1].kv, cuts)
      BY <2>2, <3>1
    <3>3. IsFiniteSet(W) /\ Cardinality(W) <= cuts /\ Cardinality(W) \in Nat
      BY <3>2, FS_CardinalityType DEF FewWrong
    <3>4. m \in {cuts, cuts + 1}
      BY <1>1, <1>3, <2>1
    <3> HIDE DEF W, m
    <3>5. Cardinality(W) <= m
      BY <1>3, <3>3, <3>4
    <3> QED
      BY <3>3, <3>5 DEF FewWrong, W, m
  <2> HIDE DEF First, Pending
  <2> QED
    BY <1>1, <1>2, <2>2, <2>3 DEF CutInv
<1> QED
  BY <1>5, <1>6, <1>7

(* The inductive invariant of the relay. *)
RelayInv == LineInv /\ StableInv /\ CutInv

(* Every behaviour of the relay keeps it. *)
LEMMA RelayInvariant == RSpec => []RelayInv
<1>1. RInit => RelayInv
  BY RelayInit DEF RelayInv
<1>2. RelayInv /\ [RNext]_rvars => RelayInv'
  <2> SUFFICES ASSUME RelayInv, [RNext]_rvars PROVE RelayInv'
    OBVIOUS
  <2>1. LineInv /\ StableInv /\ CutInv
    BY DEF RelayInv
  <2>2. CASE Hop
    BY <2>1, <2>2, LineHop, StableHop, CutHop DEF RelayInv
  <2>3. ASSUME NEW n \in 1 .. Len(line), Cut(n) PROVE RelayInv'
    BY <2>1, <2>3, CutStep DEF RelayInv
  <2>4. CASE UNCHANGED rvars
    <3>1. /\ sent' = sent /\ line' = line /\ result' = result /\ seen' = seen /\ cuts' = cuts
      BY <2>4 DEF rvars
    <3>2. Whole' = Whole /\ First' = First /\ Pending' = Pending
      BY <3>1 DEF Whole, First, Pending
    <3>3. LineInv'
      BY <2>1, <3>1, <3>2 DEF LineInv
    <3>4. StableInv'
      BY <2>1, <3>1 DEF StableInv
    <3>5. CutInv'
      <4> HIDE DEF First, Pending
      <4> QED
        BY <2>1, <3>1, <3>2 DEF CutInv
    <3> QED
      BY <3>3, <3>4, <3>5 DEF RelayInv
  <2> QED
    BY <2>2, <2>3, <2>4 DEF RNext
<1> QED
  BY <1>1, <1>2, PTL DEF RSpec

(* However many hops a line takes without a cut, once parse_tsv_line has    *)
(* accepted it no later hop refuses it, and all of them see the frame that  *)
(* the first one saw, stamped once and without a bare flag of the empty     *)
(* key: to_tsv_line loses nothing that parse_tsv_line gives.                *)
THEOREM RelayIsStable == RSpec => []StableAfterFirstHop
<1>1. RelayInv => StableAfterFirstHop
  <2> SUFFICES ASSUME RelayInv, cuts = 0, seen # <<>>
               PROVE  /\ result = "frame"
                      /\ \A i \in 2 .. Len(seen) :
                            seen[i] = [seen[1] EXCEPT
                                          !.ts = IF @ = <<>> THEN <<Stamps[2]>> ELSE @,
                                          !.kv = Expressible(@)]
    BY DEF StableAfterFirstHop
  <2>1. result = "frame" /\ \A i \in 2 .. Len(seen) : seen[i] = Relayed(seen[1], Stamps[2])
    BY DEF RelayInv, StableInv
  <2> QED
    BY <2>1, Zenon DEF Relayed
<1> QED
  BY <1>1, RelayInvariant, PTL

(* Whatever hops end within the line: a frame that any hop parses has the   *)
(* kind, scope, id, level, message and time of the line as it was sent,     *)
(* which was a frame, and of the kv bag of the first frame at most one key  *)
(* per cut is wrong.                                                        *)
THEOREM CutsAreConfined == RSpec => []CutConfined
<1>1. RelayInv => CutConfined
  <2> SUFFICES ASSUME RelayInv, NEW i \in DOMAIN seen
               PROVE  LET whole == parse_tsv_line(sent) IN
                      /\ whole.result = "frame"
                      /\ Columns(seen[i]) = Columns(whole.frames[1])
                      /\ whole.frames[1].ts # <<>> => seen[i].ts = whole.frames[1].ts
                      /\ Cardinality(WrongKeys(seen[i].kv, seen[1].kv)) <= cuts
    BY Zenon DEF CutConfined
  <2> DEFINE whole == parse_tsv_line(sent)
             W == WrongKeys(seen[i].kv, seen[1].kv)
             q == IF i = Len(seen) THEN Pending ELSE 0
  <2>1. sent \in Text /\ seen \in Seq(Frames) /\ cuts \in Nat
    BY DEF RelayInv, LineInv
  <2>2. i \in 1 .. Len(seen) /\ seen # <<>>
    BY <2>1
  <2>3. Accepted(sent) /\ SameHead(seen[i], First) /\ FewWrong(seen[i].kv, seen[1].kv, cuts - q)
    BY <2>2, Zenon DEF RelayInv, CutInv
  <2>4. whole = Parsed("frame", <<First>>)
    BY <2>1, <2>3, ParseIs DEF First
  <2>5. whole.result = "frame" /\ whole.frames[1] = First
    <3> HIDE DEF First, whole
    <3> QED
      BY <2>4 DEF Parsed
  <2>6. q \in {0, 1}
    BY DEF Pending
  <2>7. IsFiniteSet(W) /\ Cardinality(W) <= cuts - q /\ Cardinality(W) \in Nat
    BY <2>3, FS_CardinalityType DEF FewWrong
  <2> HIDE DEF First, whole, W, q
  <2>8. Cardinality(W) <= cuts
    BY <2>1, <2>6, <2>7
  <2> QED
    BY <2>3, <2>5, <2>8 DEF SameHead, whole, W
<1> QED
  BY <1>1, RelayInvariant, PTL

-------------------------------------------------------------------------------
(* The TTLs of a frame that hawkd builds *)

(* The pieces a end with the texts ss from p to i. *)
EndsWith(a, ss, p, i) ==
    \E m \in Nat \ {0} : Len(a) = m + (i - p) /\ \A q \in p .. i : a[m + (q - p)] = ss[q]

(* One piece more. *)
LEMMA EndsAppend ==
    ASSUME NEW S, NEW a \in Seq(S), NEW ss, NEW p \in Nat, NEW i \in Nat, p < i,
           EndsWith(a, ss, p, i - 1), NEW b \in S, b = ss[i]
    PROVE  EndsWith(Append(a, b), ss, p, i)
<1>1. PICK m \in Nat \ {0} : Len(a) = m + (i - 1 - p) /\ \A q \in p .. i - 1 : a[m + (q - p)] = ss[q]
  BY DEF EndsWith
<1> DEFINE c == Append(a, b)
<1>2. /\ Len(a) \in Nat /\ Len(c) = Len(a) + 1 /\ c[Len(a) + 1] = b
      /\ \A q \in 1 .. Len(a) : c[q] = a[q]
  OBVIOUS
<1> HIDE DEF c
<1>3. Len(c) = m + (i - p) /\ Len(a) + 1 = m + (i - p)
  BY <1>1, <1>2
<1>4. ASSUME NEW q \in p .. i PROVE c[m + (q - p)] = ss[q]
  <2>1. CASE q = i
    BY <1>2, <1>3, <2>1
  <2>2. CASE q # i
    <3>1. q \in p .. i - 1 /\ m + (q - p) \in 1 .. Len(a)
      BY <1>1, <2>2
    <3> QED
      BY <1>1, <1>2, <3>1
  <2> QED
    BY <2>1, <2>2
<1> QED
  BY <1>3, <1>4 DEF EndsWith, c

(* If the texts from the p-th on have no c, the pieces of what is joined by *)
(* c end with them.                                                         *)
LEMMA SplitTail ==
    ASSUME NEW S, NEW ss \in Seq(Seq(S)), NEW c \in S, NEW p \in 1 .. Len(ss),
           \A i \in p .. Len(ss) : c \notin Range(ss[i])
    PROVE  EndsWith(Split(Join(ss, c), c), ss, p, Len(ss))
<1> DEFINE n == Len(ss)
<1>1. n \in Nat /\ ss # <<>> /\ p \in 1 .. n /\ n \in p .. n
  OBVIOUS
<1>2. PICK u \in [1 .. n -> Seq(S)] : Joins(u, n, ss, c) /\ Join(ss, c) = u[n]
  BY <1>1, JoinShape
<1>3. ASSUME NEW i \in p .. n
      PROVE  /\ i \in 1 .. n /\ ss[i] \in Seq(S) /\ c \notin Range(ss[i]) /\ u[i] \in Seq(S)
             /\ i = 1 => u[i] = ss[i]
             /\ i # 1 => i - 1 \in 1 .. n /\ u[i - 1] \in Seq(S) /\ u[i] = u[i - 1] \o <<c>> \o ss[i]
  <2>1. i \in 1 .. n /\ (i # 1 => i - 1 \in 1 .. n)
    BY <1>1
  <2>2. u[i] = IF i = 1 THEN ss[i] ELSE u[i - 1] \o <<c>> \o ss[i]
    BY Zenon, <1>2, <2>1 DEF Joins
  <2>3. ss[i] \in Seq(S) /\ c \notin Range(ss[i])
    BY <2>1
  <2> HIDE DEF n
  <2>4. \A j \in 1 .. n : u[j] \in Seq(S)
    OBVIOUS
  <2> QED
    BY Zenon, <2>1, <2>2, <2>3, <2>4
<1> HIDE DEF n
<1>4. ASSUME NEW i \in p .. n, i # 1
      PROVE  Split(u[i], c) = Append(Split(u[i - 1], c), ss[i]) /\ Split(u[i - 1], c) \in Seq(Seq(S))
  <2>1. AddsPiece(u[i - 1], c, ss[i])
    BY ZenonT(30), <1>3, <1>4, SplitAppend
  <2> QED
    BY Zenon, <1>3, <1>4, <2>1, SplitPieces DEF AddsPiece
<1>5. EndsWith(Split(u[p], c), ss, p, p)
  <2>1. p \in p .. n
    BY <1>1
  <2> DEFINE a == Split(u[p], c)
  <2>2. Len(a) \in Nat \ {0} /\ a[Len(a)] = ss[p]
    <3>1. CASE p = 1
      <4>1. a = <<ss[p]>>
        BY Zenon, <1>3, <2>1, <3>1, SplitSole
      <4> QED
        BY <4>1
    <3>2. CASE p # 1
      BY <1>3, <1>4, <2>1, <3>2
    <3> QED
      BY <3>1, <3>2
  <2> HIDE DEF a
  <2>3. Len(a) = Len(a) + (p - p) /\ \A q \in p .. p : a[Len(a) + (q - p)] = ss[q]
    BY <1>1, <2>2
  <2> QED
    BY <2>2, <2>3 DEF EndsWith, a
<1> DEFINE T == {i \in p .. n : ~EndsWith(Split(u[i], c), ss, p, i)}
<1>6. T = {}
  <2> SUFFICES ASSUME T # {} PROVE FALSE
    OBVIOUS
  <2>1. T \subseteq Nat
    BY <1>1
  <2>2. PICK i \in T : \A y \in T : i <= y
    BY Zenon, <2>1, Least
  <2>3. i \in p .. n /\ ~EndsWith(Split(u[i], c), ss, p, i)
    BY <2>2
  <2>4. i # p
    BY <1>5, <2>3
  <2>5. i \in Nat /\ p \in Nat /\ p < i /\ i # 1 /\ i - 1 \in p .. n
    BY <1>1, <2>3, <2>4
  <2>6. i - 1 \notin T
    <3> HIDE DEF T
    <3> QED
      BY <2>2, <2>5
  <2>7. EndsWith(Split(u[i - 1], c), ss, p, i - 1)
    BY <2>5, <2>6
  <2> HIDE DEF T
  <2>8. EndsWith(Append(Split(u[i - 1], c), ss[i]), ss, p, i)
    BY ZenonT(30), <1>3, <1>4, <2>3, <2>5, <2>7, EndsAppend
  <2> QED
    BY Zenon, <1>4, <2>3, <2>5, <2>8
<1> QED
  BY <1>1, <1>2, <1>6 DEF n

(* g has the TTL of f. *)
KeepsTtl(g, f) == TTL \in DOMAIN g.kv /\ g.kv[TTL] = f.kv[TTL]

(* What to_tsv_line writes of a tame bag of hawkd: a trimmed text without   *)
(* TABs, from whose p-th part on, the TTL's, every part is read back as its *)
(* key and value.                                                           *)
IsTameBag(s, ss, keys, kv, p) ==
    /\ s = Join(ss, SEMI) /\ ss \in Seq(Text) /\ p \in 1 .. Len(ss) /\ keys[p] = TTL
    /\ s \in Text /\ IsTrimmed(s) /\ TAB \notin Range(s)
    /\ \A i \in p .. Len(ss) :
          /\ i \in 1 .. Len(ss) /\ ss[i] \in Text /\ ss[i] # <<>> /\ IsTrimmed(ss[i]) /\ SEMI \notin Range(ss[i])
          /\ KeyOf(ss[i]) = keys[i] /\ ValueOf(ss[i]) = kv[keys[i]]
          /\ i # p => keys[i] # TTL

(* The first token of a part is that of its key. *)
LEMMA PartFirst ==
    ASSUME NEW k \in Text, k # <<>>, NEW v \in Text
    PROVE  Part(k, v) # <<>> /\ Part(k, v)[1] = k[1]
<1>1. Len(k) \in Nat \ {0}
  BY EmptySeq DEF Text
<1>2. IsSeparated(k \o <<"=">> \o v, k, "=", v)
  BY TokensHas, Separated DEF Text
<1>3. k \o <<"=">> \o v # <<>> /\ (k \o <<"=">> \o v)[1] = k[1]
  <2> DEFINE s == k \o <<"=">> \o v
  <2> HIDE DEF s
  <2>1. IsSeparated(s, k, "=", v)
    BY <1>2 DEF s
  <2>2. Len(s) # 0 /\ s[1] = k[1]
    BY <1>1, <2>1 DEF IsSeparated
  <2>3. s # <<>>
    BY <2>2
  <2> QED
    BY <2>2, <2>3 DEF s
<1> QED
  BY <1>3 DEF Part

(* The last text of what is joined ends it. *)
LEMMA JoinEnds ==
    ASSUME NEW S, NEW ss \in Seq(Seq(S)), NEW c \in S, ss # <<>>,
           ss[1] # <<>>, ss[1][1] \notin White,
           ss[Len(ss)] # <<>>, IsTrimmed(ss[Len(ss)])
    PROVE  IsTrimmed(Join(ss, c))
<1> DEFINE n == Len(ss)
           b == ss[n]
<1>1. n \in Nat \ {0} /\ n \in 1 .. n /\ b \in Seq(S)
  BY EmptySeq
<1>2. PICK u \in [1 .. n -> Seq(S)] : Joins(u, n, ss, c) /\ Join(ss, c) = u[n]
  BY JoinShape
<1>3. u[n] = IF n = 1 THEN b ELSE u[n - 1] \o <<c>> \o b
  BY ZenonT(30), <1>1, <1>2 DEF Joins
<1>4. Join(ss, c)[1] \notin White
  BY JoinKeeps
<1>5. Len(b) \in Nat \ {0} /\ b[Len(b)] \notin White
  BY <1>1, EmptySeq DEF IsTrimmed
<1> HIDE DEF b, n
<1>6. CASE n = 1
  BY <1>2, <1>3, <1>6 DEF b, n
<1>7. CASE n # 1
  <2> DEFINE s == u[n - 1] \o <<c>> \o b
  <2>1. u[n - 1] \in Seq(S)
    <3>1. n - 1 \in 1 .. n
      BY <1>1, <1>7
    <3> QED
      BY <1>2, <3>1
  <2>2. IsSeparated(s, u[n - 1], c, b)
    BY <1>1, <2>1, Separated
  <2>3. Join(ss, c) = s
    BY <1>2, <1>3, <1>7
  <2> HIDE DEF s
  <2>4. Len(s) = Len(u[n - 1]) + 1 + Len(b) /\ s[Len(u[n - 1]) + 1 + Len(b)] = b[Len(b)]
    BY <1>5, <2>2 DEF IsSeparated
  <2> QED
    BY <1>4, <1>5, <2>3, <2>4 DEF IsTrimmed
<1> QED
  BY <1>6, <1>7

(* serialize_kv_bag of a tame bag. *)
LEMMA TameBag ==
    ASSUME NEW f, IsBuilt(f), Tame(f), TTL \in DOMAIN f.kv
    PROVE  \E p : IsTameBag(serialize_kv_bag(f.kv), Written(f.kv), SortedKeys(f.kv), f.kv, p)
<1> DEFINE kv == f.kv
           n == Cardinality(DOMAIN kv)
           keys == SortedKeys(kv)
           ss == Written(kv)
           s == serialize_kv_bag(kv)
<1>1. /\ IsFiniteSet(DOMAIN kv)
      /\ \A k \in DOMAIN kv :
            /\ k \in Text \ {<<>>} /\ Trim(k) = k /\ {TAB, NL, SEMI, "="} \cap Range(k) = {}
            /\ kv[k] \in Text
            /\ ~TextBefore(k, TTL) => Trim(kv[k]) = kv[k]
  BY Zenon DEF IsBuilt
<1>2. \A k \in DOMAIN kv : /\ TAB \notin Range(kv[k])
                           /\ ~TextBefore(k, TTL) => SEMI \notin Range(kv[k])
  BY ZenonT(60) DEF Tame
<1> HIDE DEF kv
<1>3. ASSUME NEW k \in DOMAIN kv
      PROVE  /\ CleanKey(k) /\ k \in Text /\ k # <<>> /\ kv[k] \in Text
             /\ ~TextBefore(k, TTL) => IsTrimmed(kv[k])
  <2>1. k \in Text /\ k # <<>> /\ Trim(k) = k /\ kv[k] \in Text
    BY <1>1
  <2>2. IsTrimmed(k)
    BY <2>1, TrimTrims DEF Text
  <2>3. TAB \notin Range(k) /\ SEMI \notin Range(k) /\ "=" \notin Range(k)
    BY <1>1
  <2>4. ~TextBefore(k, TTL) => IsTrimmed(kv[k])
    BY <1>1, <2>1, TrimTrims DEF Text
  <2> QED
    BY <2>1, <2>2, <2>3, <2>4 DEF CleanKey
<1>4. /\ IsKeys(keys, kv) /\ ss \in Seq(Text) /\ Len(ss) = n /\ s \in Text
      /\ \A i \in 1 .. n : ss[i] = Part(keys[i], kv[keys[i]])
  BY <1>1, <1>3, WrittenText
<1>5. s = Join(ss, SEMI)
  BY SerializeIs
<1>6. /\ n \in Nat /\ \A i \in 1 .. n : keys[i] \in DOMAIN kv
      /\ \A i, j \in 1 .. n : i < j => TextBefore(keys[i], keys[j]) /\ keys[i] # keys[j]
      /\ \A k \in DOMAIN kv : \E i \in 1 .. n : keys[i] = k
  BY <1>4 DEF IsKeys
<1> HIDE DEF n, keys, ss, s
<1>7. PICK p \in 1 .. n : keys[p] = TTL
  BY <1>6 DEF kv
<1>8. TTL \in DOMAIN kv /\ TTL \in Text
  BY <1>3 DEF kv
<1>9. ASSUME NEW i \in p .. n
      PROVE  /\ i \in 1 .. n /\ ss[i] \in Text /\ ss[i] # <<>> /\ IsTrimmed(ss[i]) /\ SEMI \notin Range(ss[i])
             /\ KeyOf(ss[i]) = keys[i] /\ ValueOf(ss[i]) = kv[keys[i]]
             /\ i # p => keys[i] # TTL
  <2> DEFINE k == keys[i]
             v == kv[k]
  <2>1. i \in 1 .. n /\ (i = p \/ p < i)
    BY <1>6, <1>7
  <2>2. k \in DOMAIN kv /\ ss[i] = Part(k, v)
    BY <1>4, <1>6, <2>1
  <2>3. i # p => TextBefore(TTL, k) /\ k # TTL
    BY <1>6, <1>7, <2>1
  <2>4. i = p => k = TTL
    BY <1>7
  <2> HIDE DEF k
  <2>5. CleanKey(k) /\ k \in Text /\ k # <<>> /\ v \in Text
    BY <1>3, <2>2
  <2>6. ~TextBefore(k, TTL)
    BY <1>8, <2>3, <2>4, <2>5, BeforeIrreflexive, BeforeTransitive
  <2>7. IsTrimmed(v) /\ SEMI \notin Range(v)
    BY <1>2, <1>3, <2>2, <2>6
  <2> HIDE DEF v
  <2>8. /\ KeyOf(Part(k, v)) = k /\ ValueOf(Part(k, v)) = v
        /\ Part(k, v) \in Text /\ IsTrimmed(Part(k, v))
        /\ Part(k, v) # <<>>
    BY <2>5, <2>7, PartReads
  <2>9. SEMI \notin Range(Part(k, v))
    <3>1. SEMI \notin Range(k) /\ SEMI # "="
      BY <2>5, TokensDiffer DEF CleanKey
    <3>2. SEMI \notin Range(k \o <<"=">> \o v)
      BY <2>5, <2>7, <3>1, TokensHas, SeparatedRange DEF Text
    <3> QED
      BY <3>1, <3>2 DEF Part
  <2> QED
    BY <2>1, <2>2, <2>3, <2>8, <2>9 DEF k, v
<1>10. ASSUME NEW i \in 1 .. n PROVE TAB \notin Range(ss[i])
  <2> DEFINE k == keys[i]
             v == kv[k]
  <2>1. k \in DOMAIN kv /\ ss[i] = Part(k, v)
    BY <1>4, <1>6
  <2> HIDE DEF k
  <2>2. k \in Text /\ v \in Text /\ TAB \notin Range(k) /\ TAB \notin Range(v) /\ TAB # "="
    BY <1>2, <1>3, <2>1, TokensDiffer DEF CleanKey
  <2> HIDE DEF v
  <2>3. TAB \notin Range(k \o <<"=">> \o v)
    BY <2>2, TokensHas, SeparatedRange DEF Text
  <2> QED
    BY <2>1, <2>2, <2>3 DEF Part
<1>11. ss # <<>> /\ SEMI \in Range(Tokens) /\ TAB # SEMI
  BY <1>4, <1>6, <1>7, TokensHas, TokensDiffer
<1>12. TAB \notin Range(s)
  BY <1>4, <1>5, <1>10, <1>11, JoinKeeps DEF Text
<1>13. IsTrimmed(s)
  <2>1. n \in p .. n /\ 1 \in 1 .. n
    BY <1>6, <1>7
  <2>2. ss[Len(ss)] # <<>> /\ IsTrimmed(ss[Len(ss)])
    BY <1>4, <1>9, <2>1
  <2> DEFINE k == keys[1]
             v == kv[k]
  <2>3. k \in DOMAIN kv /\ ss[1] = Part(k, v)
    BY <1>4, <1>6, <2>1
  <2> HIDE DEF k
  <2>4. k \in Text /\ k # <<>> /\ v \in Text /\ k[1] \notin White
    BY <1>3, <2>3 DEF CleanKey, IsTrimmed
  <2>5. ss[1] # <<>> /\ ss[1][1] \notin White
    BY <2>3, <2>4, PartFirst
  <2> QED
    BY ZenonT(30), <1>4, <1>5, <1>11, <2>2, <2>5, JoinEnds DEF Text
<1>14. IsTameBag(s, ss, keys, kv, p)
  BY <1>4, <1>5, <1>7, <1>9, <1>12, <1>13 DEF IsTameBag
<1> QED
  BY <1>14 DEF s, ss, keys, kv

(* parse_kv_bag reads the TTL of a tame bag as hawkd set it. *)
LEMMA TtlReads ==
    ASSUME NEW s, NEW ss, NEW keys, NEW kv, NEW p, IsTameBag(s, ss, keys, kv, p)
    PROVE  TTL \in DOMAIN parse_kv_bag(s) /\ parse_kv_bag(s)[TTL] = kv[TTL]
<1> DEFINE parts == KvParts(s)
           pieces == Split(s, SEMI)
           n == Len(ss)
<1>1. /\ s = Join(ss, SEMI) /\ ss \in Seq(Text) /\ p \in 1 .. n /\ keys[p] = TTL
      /\ s \in Text /\ TAB \notin Range(s)
  BY Zenon DEF IsTameBag
<1>2. \A i \in p .. n :
         /\ i \in 1 .. n /\ ss[i] \in Text /\ ss[i] # <<>> /\ IsTrimmed(ss[i]) /\ SEMI \notin Range(ss[i])
         /\ KeyOf(ss[i]) = keys[i] /\ ValueOf(ss[i]) = kv[keys[i]]
         /\ i # p => keys[i] # TTL
  BY Zenon DEF IsTameBag
<1>3. EndsWith(pieces, ss, p, n)
  BY ZenonT(30), <1>1, <1>2, TokensHas, SplitTail DEF Text
<1>4. PICK m \in Nat \ {0} : Len(pieces) = m + (n - p) /\ \A q \in p .. n : pieces[m + (q - p)] = ss[q]
  BY <1>3 DEF EndsWith
<1>5. /\ parts \in Seq(Text) /\ Len(parts) = Len(pieces)
      /\ DOMAIN pieces = 1 .. Len(pieces)
  BY <1>1, PartsClean, SplitPieces DEF Text
<1>6. parts = [i \in DOMAIN pieces |-> Trim(pieces[i])]
  BY Zenon DEF KvParts
<1>7. parse_kv_bag(s) = [k \in KeysIn(parts) |-> ValueOf(parts[Max(PartsOf(parts, k))])]
  BY Zenon DEF parse_kv_bag
<1>8. n \in Nat /\ p \in Nat /\ 1 <= p /\ p <= n
  BY <1>1
<1> HIDE DEF parts, pieces, n
<1>9. \A q \in p .. n : m + (q - p) \in 1 .. Len(parts) /\ parts[m + (q - p)] = ss[q]
  <2> TAKE q \in p .. n
  <2>1. m + (q - p) \in 1 .. Len(parts) /\ m + (q - p) \in DOMAIN pieces
    BY <1>4, <1>5, <1>8
  <2>2. parts[m + (q - p)] = Trim(ss[q])
    BY <1>4, <1>6, <2>1
  <2>3. Trim(ss[q]) = ss[q]
    BY <1>2, TrimFixed DEF Text
  <2> QED
    BY <2>1, <2>2, <2>3
<1>10. m \in 1 .. Len(parts) /\ parts[m] = ss[p] /\ ss[p] # <<>> /\ KeyOf(ss[p]) = TTL /\ ValueOf(ss[p]) = kv[TTL]
  <2>1. p \in p .. n /\ m + (p - p) = m
    BY <1>8
  <2> QED
    BY <1>1, <1>2, <1>9, <2>1
<1>11. TTL \in KeysIn(parts) /\ m \in PartsOf(parts, TTL)
  <2>1. DOMAIN parts = 1 .. Len(parts)
    BY <1>5
  <2> QED
    BY <1>10, <2>1 DEF KeysIn, PartsOf
<1> DEFINE a == Max(PartsOf(parts, TTL))
<1>12. a \in 1 .. Len(parts) /\ KeyOf(parts[a]) = TTL /\ m <= a
  BY <1>5, <1>11, LastPart
<1> HIDE DEF a
<1>13. a = m
  <2> SUFFICES ASSUME a # m PROVE FALSE
    OBVIOUS
  <2> DEFINE q == a - m + p
  <2>1. q \in p .. n /\ q # p /\ m + (q - p) = a
    BY <1>4, <1>5, <1>8, <1>12
  <2> HIDE DEF q
  <2>2. parts[a] = ss[q] /\ KeyOf(ss[q]) = keys[q] /\ keys[q] # TTL
    BY <1>2, <1>9, <2>1
  <2> QED
    BY <1>12, <2>2
<1> QED
  BY <1>7, <1>10, <1>11, <1>13 DEF a

(* The first hop reads the TTL of a tame frame as hawkd set it. *)
LEMMA BuiltReads ==
    ASSUME NEW f, IsBuilt(f), Tame(f), TTL \in DOMAIN f.kv, NEW now
    PROVE  KeepsTtl(ParsedFrame(Split(to_tsv_line(f, now), TAB)), f)
<1> DEFINE cols == Row(f, now)
           bag == serialize_kv_bag(f.kv)
<1>1. /\ cols \in Seq(Text) /\ Len(cols) = 7
      /\ cols[1] = f.ts /\ cols[2] = f.kind /\ cols[3] = f.scope /\ cols[4] = f.id
      /\ cols[5] = as_str(f.level) /\ cols[6] = f.msg /\ cols[7] = bag
  BY BuiltRow
<1>2. PICK p : IsTameBag(bag, Written(f.kv), SortedKeys(f.kv), f.kv, p)
  BY TameBag
<1>3. bag \in Text /\ IsTrimmed(bag) /\ TAB \notin Range(bag)
  BY <1>2 DEF IsTameBag
<1>4. TTL \in DOMAIN parse_kv_bag(bag) /\ parse_kv_bag(bag)[TTL] = f.kv[TTL]
  BY <1>2, TtlReads
<1>5. IsTimestamp(f.ts)
  BY Zenon DEF IsBuilt
<1>6. TAB \notin Range(f.ts)
  BY <1>5, StampIsColumn DEF IsColumn
<1>7. TAB \notin Range(f.kind) /\ TAB \notin Range(f.scope) /\ TAB \notin Range(f.id) /\ TAB \notin Range(f.msg)
  BY DEF Tame
<1>8. TAB \notin Range(as_str(f.level))
  <2>1. f.level \in DOMAIN LevelWords \cup {"unknown"}
    BY Zenon DEF IsBuilt
  <2>2. DOMAIN LevelWords = {"ok", "info", "warn", "fail"}
    BY DEF LevelWords
  <2> QED
    BY <2>1, <2>2, LevelReads DEF Levels
<1>9. to_tsv_line(f, now) = Join(cols, TAB)
  BY LineOfRow
<1> HIDE DEF cols, bag
<1>10. \A i \in 1 .. 7 : TAB \notin Range(cols[i])
  <2>1. 1 .. 7 = {1, 2, 3, 4, 5, 6, 7}
    OBVIOUS
  <2> QED
    BY <1>1, <1>3, <1>6, <1>7, <1>8, <2>1
<1>11. Split(to_tsv_line(f, now), TAB) = cols
  BY <1>1, <1>5, <1>9, <1>10, RowReads
<1>12. Trim(bag) = bag
  BY <1>3, TrimFixed DEF Text
<1>13. ParsedFrame(cols).kv = parse_kv_bag(bag)
  BY <1>1, <1>12 DEF ParsedFrame
<1> QED
  BY <1>4, <1>11, <1>13 DEF KeepsTtl

(* A tame frame is written as one line. *)
LEMMA BuiltLine ==
    ASSUME NEW f, IsBuilt(f), Tame(f), NEW now
    PROVE  LinesOf(to_tsv_line(f, now)) = {to_tsv_line(f, now)}
<1> DEFINE cols == Row(f, now)
           kv == f.kv
           n == Cardinality(DOMAIN kv)
           keys == SortedKeys(kv)
           ss == Written(kv)
           bag == serialize_kv_bag(kv)
<1>1. NL # TAB /\ NL # SEMI /\ NL # "=" /\ NL # "true"
  BY ZenonT(60) DEF NL, TAB, SEMI
<1>2. /\ IsFiniteSet(DOMAIN kv) /\ DOMAIN kv \subseteq Text
      /\ \A k \in DOMAIN kv : kv[k] \in Text /\ NL \notin Range(k)
  BY ZenonT(60) DEF IsBuilt
<1>3. \A k \in DOMAIN kv : NL \notin Range(kv[k])
  BY ZenonT(60) DEF Tame
<1>4. /\ IsKeys(keys, kv) /\ ss \in Seq(Text) /\ Len(ss) = n /\ bag \in Text
      /\ \A i \in 1 .. n : ss[i] = Part(keys[i], kv[keys[i]])
  BY <1>2, WrittenText
<1>5. n \in Nat /\ \A i \in 1 .. n : keys[i] \in DOMAIN kv
  BY <1>4 DEF IsKeys
<1>6. bag = Join(ss, SEMI)
  BY SerializeIs
<1>7. /\ cols \in Seq(Text) /\ Len(cols) = 7
      /\ cols[1] = f.ts /\ cols[2] = f.kind /\ cols[3] = f.scope /\ cols[4] = f.id
      /\ cols[5] = as_str(f.level) /\ cols[6] = f.msg /\ cols[7] = bag
      /\ to_tsv_line(f, now) \in Text
  BY BuiltRow
<1>8. to_tsv_line(f, now) = Join(cols, TAB)
  BY LineOfRow
<1> HIDE DEF kv, n, keys, ss, bag, cols
<1>9. ASSUME NEW i \in 1 .. n PROVE NL \notin Range(ss[i])
  <2> DEFINE k == keys[i]
             v == kv[k]
  <2>1. k \in Text /\ v \in Text /\ NL \notin Range(k) /\ NL \notin Range(v) /\ ss[i] = Part(k, v)
    BY <1>2, <1>3, <1>4, <1>5
  <2> HIDE DEF k, v
  <2>2. NL \notin Range(k \o <<"=">> \o v)
    BY <1>1, <2>1, TokensHas, SeparatedRange DEF Text
  <2> QED
    BY <2>1, <2>2 DEF Part
<1>10. NL \notin Range(bag)
  <2>1. CASE ss = <<>>
    BY <1>6, <2>1 DEF Join, Range
  <2>2. CASE ss # <<>>
    BY <1>1, <1>4, <1>6, <1>9, <2>2, TokensHas, JoinKeeps DEF Text
  <2> QED
    BY <2>1, <2>2
<1>11. NL \notin Range(f.kind) /\ NL \notin Range(f.scope) /\ NL \notin Range(f.id) /\ NL \notin Range(f.msg)
  BY DEF Tame
<1>12. NL \notin Range(f.ts) /\ NL \notin Range(as_str(f.level))
  <2>1. PICK i \in DOMAIN Stamps : f.ts = <<Stamps[i]>>
    BY ZenonT(60) DEF IsBuilt, IsTimestamp
  <2>2. Stamps[i] \in {"00:00", "00:01", "00:02", "00:03"}
    BY DEF Stamps
  <2>3. f.level \in {"ok", "info", "warn", "fail", "unknown"}
    <3>1. f.level \in DOMAIN LevelWords \cup {"unknown"}
      BY Zenon DEF IsBuilt
    <3>2. DOMAIN LevelWords = {"ok", "info", "warn", "fail"}
      BY DEF LevelWords
    <3> QED
      BY <3>1, <3>2
  <2>4. NL \notin {"00:00", "00:01", "00:02", "00:03", "ok", "info", "warn", "fail", "unknown"}
    BY ZenonT(60) DEF NL
  <2>5. \A t : Range(<<t>>) = {t}
    BY DEF Range
  <2> QED
    BY <2>1, <2>2, <2>3, <2>4, <2>5 DEF as_str
<1>13. \A i \in 1 .. 7 : NL \notin Range(cols[i])
  <2>1. 1 .. 7 = {1, 2, 3, 4, 5, 6, 7}
    OBVIOUS
  <2> QED
    BY <1>7, <1>10, <1>11, <1>12, <2>1
<1>14. NL \notin Range(Join(cols, TAB))
  <2>1. cols # <<>>
    <3>1. Len(cols) # 0
      BY <1>7
    <3> QED
      BY <3>1, EmptySeq
  <2> QED
    BY <1>1, <1>7, <1>13, <2>1, TokensHas, JoinKeeps DEF Text
<1> DEFINE text == to_tsv_line(f, now)
<1>15. text \in Text /\ NL \notin Range(text)
  BY <1>7, <1>8, <1>14
<1> HIDE DEF text
<1>16. Split(text, NL) = <<text>>
  BY <1>15, SplitSole DEF Text
<1> QED
  BY <1>16 DEF LinesOf, Range, text

(* The line of a frame that hawkd has built is one of its to_tsv_line, and  *)
(* without a cut every hop has seen its TTL if the frame is tame.           *)
TtlInv ==
    /\ \/ built = <<>>
       \/ \E f \in Built : built = <<f>> /\ sent \in LinesOf(to_tsv_line(f, Stamps[1]))
    /\ \A i \in DOMAIN built, j \in 1 .. Len(seen) :
          TTL \in DOMAIN built[i].kv /\ Tame(built[i]) /\ cuts = 0 => KeepsTtl(seen[j], built[i])

(* A hop preserves TtlInv. *)
LEMMA TtlHop ==
    ASSUME LineInv, TtlInv, Hop
    PROVE  TtlInv'
<1> DEFINE g == ParsedFrame(Split(line, TAB))
           n == Len(seen)
<1>1. /\ n \in Nat /\ cuts' = cuts /\ sent' = sent /\ built' = built /\ Reads
      /\ Refuses \/ Accepts(g)
  BY HopIs
<1>2. seen \in Seq(Frames) /\ \A i \in 1 .. n : IsFrame(seen[i])
  BY DEF LineInv, Frames
<1>3. SUFFICES ASSUME NEW i \in DOMAIN built, NEW j \in 1 .. Len(seen'),
                      TTL \in DOMAIN built[i].kv, Tame(built[i]), cuts = 0
               PROVE  KeepsTtl(seen'[j], built[i])
  BY <1>1 DEF TtlInv
<1>4. line = Whole
  BY <1>1, <1>3 DEF Reads
<1>5. \A k \in 1 .. n : KeepsTtl(seen[k], built[i])
  BY <1>3 DEF TtlInv
<1>6. CASE Refuses
  BY <1>5, <1>6 DEF Refuses
<1>7. CASE Accepts(g)
  <2>1. seen' = Append(seen, g)
    BY <1>7 DEF Accepts
  <2>2. g = ParsedFrame(Split(line, TAB))
    OBVIOUS
  <2> HIDE DEF g, n
  <2>3. /\ Len(seen') = n + 1 /\ seen'[n + 1] = g
        /\ \A k \in 1 .. n : seen'[k] = seen[k]
    BY <1>2, <2>1 DEF n
  <2>4. KeepsTtl(g, built[i])
    <3>1. CASE seen = <<>>
      <4>1. PICK f \in Built : built = <<f>> /\ sent \in LinesOf(to_tsv_line(f, Stamps[1]))
        BY DEF TtlInv
      <4>2. built[i] = f
        BY <4>1
      <4>3. IsBuilt(f)
        BY RelayAssumption
      <4>4. line = to_tsv_line(f, Stamps[1])
        BY <1>3, <1>4, <3>1, <4>1, <4>2, <4>3, BuiltLine DEF Whole
      <4> QED
        BY <1>3, <2>2, <4>2, <4>3, <4>4, BuiltReads
    <3>2. CASE seen # <<>>
      <4> DEFINE f == seen[n]
      <4>1. n \in 1 .. n
        BY <1>2, <3>2, EmptySeq DEF n
      <4>2. g = Relayed(f, Stamps[n + 1]) /\ IsFrame(f)
        BY <1>2, <1>4, <2>2, <3>2, <4>1, WholeReads DEF n
      <4>3. KeepsTtl(f, built[i])
        BY <1>5, <4>1
      <4> HIDE DEF f
      <4>4. g.kv = Expressible(f.kv)
        BY <4>2, RelayedFields
      <4>5. TTL # <<>>
        BY DEF TTL
      <4> QED
        BY <4>3, <4>4, <4>5 DEF KeepsTtl, Expressible
    <3> QED
      BY <3>1, <3>2
  <2>5. CASE j = n + 1
    BY <2>3, <2>4, <2>5
  <2>6. CASE j # n + 1
    <3>1. j \in 1 .. n
      BY <1>1, <2>3, <2>6
    <3> QED
      BY <1>5, <2>3, <3>1
  <2> QED
    BY <2>5, <2>6
<1> QED
  BY <1>1, <1>6, <1>7

(* Whatever hawkd puts into the kv bag of a frame it builds, such as an     *)
(* unescaped description or error text, every hop reads the TTL of the      *)
(* frame as hawkd set it, unless the line is cut, the frame has a TAB or a  *)
(* line break, or the unit's name has a ";".                                *)
THEOREM TtlsAreSafe == RSpec => []TtlSafe
<1>1. RInit => TtlInv
  BY DEF RInit, TtlInv
<1>2. RelayInv /\ TtlInv /\ [RNext]_rvars => TtlInv'
  <2> SUFFICES ASSUME RelayInv, TtlInv, [RNext]_rvars PROVE TtlInv'
    OBVIOUS
  <2>1. LineInv
    BY DEF RelayInv
  <2>2. CASE Hop
    BY <2>1, <2>2, TtlHop
  <2>3. ASSUME NEW n \in 1 .. Len(line), Cut(n) PROVE TtlInv'
    <3>1. cuts' = cuts + 1 /\ cuts \in Nat /\ built' = built /\ sent' = sent /\ seen' = seen
      BY <2>1, <2>3 DEF Cut, LineInv
    <3>2. cuts' # 0
      BY <3>1
    <3> QED
      BY <3>1, <3>2 DEF TtlInv
  <2>4. CASE UNCHANGED rvars
    BY <2>4 DEF rvars, TtlInv
  <2> QED
    BY <2>2, <2>3, <2>4 DEF RNext
<1>3. RelayInv /\ TtlInv => TtlSafe
  <2> SUFFICES ASSUME RelayInv, TtlInv, NEW i \in DOMAIN built, NEW j \in DOMAIN seen,
                      TTL \in DOMAIN built[i].kv, Tame(built[i]), cuts = 0
               PROVE  TTL \in DOMAIN seen[j].kv /\ seen[j].kv[TTL] = built[i].kv[TTL]
    BY Zenon DEF TtlSafe
  <2>1. j \in 1 .. Len(seen)
    BY DEF RelayInv, LineInv
  <2>2. KeepsTtl(seen[j], built[i])
    BY <2>1 DEF TtlInv
  <2> QED
    BY <2>2 DEF KeepsTtl
<1> QED
  BY <1>1, <1>2, <1>3, RelayInvariant, PTL DEF RSpec
===============================================================================
