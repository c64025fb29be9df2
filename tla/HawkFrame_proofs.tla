--------------------------- MODULE HawkFrame_proofs ---------------------------
(***************************************************************************)
(* Proofs about the codec, for texts of any length: what trim, split and   *)
(* join do; that serialize_kv_bag undoes parse_kv_bag (BagRoundTrip) and   *)
(* to_tsv_line parse_tsv_line (FrameRoundTrip, CodecRoundTrip); and what   *)
(* the beginning of a line still says (CutAccepted).                       *)
(***************************************************************************)
EXTENDS HawkFrame, SequenceTheorems, FiniteSetTheorems, WellFoundedInduction, TLAPS

(* The provers a leaf is tried with, in turn, where it names none. *)
USE SMTT(10), ZenonT(20), SMTT(30), SMTT(40)

-------------------------------------------------------------------------------
(* A set of numbers has a least one. *)
LEMMA Least ==
    ASSUME NEW T, T \subseteq Nat, T # {}
    PROVE  \E x \in T : \A y \in T : x <= y
<1> DEFINE Less == {p \in Nat \X Nat : p[1] < p[2]}
<1>1. IsWellFoundedOn(Less, Nat)
  BY NatLessThanWellFounded DEF OpToRel
<1>2. PICK x \in T : \A y \in T : ~(<<y, x>> \in Less)
  BY ZenonT(60), <1>1, WFMin
<1>3. \A y \in T : x <= y
  <2> TAKE y \in T
  <2>1. x \in Nat /\ y \in Nat
    OBVIOUS
  <2>2. ~(y < x)
    BY Zenon, <1>2, <2>1
  <2> QED
    BY <2>1, <2>2
<1> QED
  BY <1>3

(* Min and Max of the places of a sequence. *)
LEMMA MinMax ==
    ASSUME NEW n \in Nat, NEW I, I \subseteq 0 .. n, I # {}
    PROVE  /\ Min(I) \in I /\ \A j \in I : Min(I) <= j
           /\ Max(I) \in I /\ \A j \in I : j <= Max(I)
<1>0. I \subseteq Nat
  OBVIOUS
<1>1. PICK a \in I : \A j \in I : a <= j
  BY Zenon, <1>0, Least
<1>2. Min(I) \in I /\ \A j \in I : Min(I) <= j
  BY <1>1, ZenonT(60) DEF Min
<1> DEFINE T == {n - i : i \in I}
<1>3. T \subseteq Nat /\ T # {}
  <2>1. \A i \in I : n - i \in Nat
    OBVIOUS
  <2> QED
    BY <2>1, ZenonT(60)
<1>4. PICK x \in T : \A y \in T : x <= y
  BY Zenon, <1>3, Least
<1>5. PICK b \in I : x = n - b
  OBVIOUS
<1>6. \A j \in I : b >= j
  <2> TAKE j \in I
  <2>1. n - j \in T /\ j \in Int /\ b \in Int
    OBVIOUS
  <2>2. n - b <= n - j
    BY Zenon, <1>4, <1>5, <2>1
  <2> QED
    BY <2>1, <2>2
<1>7. Max(I) \in I /\ \A j \in I : Max(I) >= j
  BY <1>6, ZenonT(60) DEF Max
<1> QED
  BY <1>2, <1>7

-------------------------------------------------------------------------------
(* Trimmed texts *)

IsTrimmed(t) == t = <<>> \/ (t[1] \notin White /\ t[Len(t)] \notin White)

(* What trim returns is a trimmed text of the same tokens. *)
LEMMA TrimTrims ==
    ASSUME NEW S, NEW s \in Seq(S)
    PROVE  Trim(s) \in Seq(S) /\ IsTrimmed(Trim(s)) /\ Range(Trim(s)) \subseteq Range(s)
<1> DEFINE ink == {i \in DOMAIN s : s[i] \notin White}
<1>1. CASE ink = {}
  <2>1. Trim(s) = <<>>
    BY <1>1 DEF Trim
  <2> QED
    BY <2>1 DEF IsTrimmed, Range
<1>2. CASE ink # {}
  <2> DEFINE a == Min(ink)
             b == Max(ink)
  <2>1. Trim(s) = SubSeq(s, a, b)
    BY <1>2, Zenon DEF Trim
  <2>2. ink \subseteq 0 .. Len(s) /\ Len(s) \in Nat /\ DOMAIN s = 1 .. Len(s)
    OBVIOUS
  <2>3. a \in ink /\ b \in ink /\ a <= b
    BY Zenon, <1>2, <2>2, MinMax
  <2>4. a \in 1 .. Len(s) /\ b \in 1 .. Len(s) /\ s[a] \notin White /\ s[b] \notin White
    BY <2>2, <2>3
  <2> HIDE DEF a, b, ink
  <2>5. /\ SubSeq(s, a, b) \in Seq(S) /\ Len(SubSeq(s, a, b)) = b - a + 1
        /\ \A i \in 1 .. b - a + 1 : SubSeq(s, a, b)[i] = s[a + i - 1]
    BY <2>3, <2>4
  <2>6. SubSeq(s, a, b)[1] = s[a] /\ SubSeq(s, a, b)[b - a + 1] = s[b]
    BY <2>3, <2>4, <2>5
  <2>7. Range(SubSeq(s, a, b)) \subseteq Range(s)
    <3>1. \A i \in 1 .. b - a + 1 : a + i - 1 \in DOMAIN s
      BY <2>2, <2>3, <2>4
    <3> QED
      BY <2>5, <3>1 DEF Range
  <2> QED
    BY <2>1, <2>4, <2>5, <2>6, <2>7 DEF IsTrimmed
<1> QED
  BY <1>1, <1>2

(* trim leaves a trimmed text alone. *)
LEMMA TrimFixed ==
    ASSUME NEW S, NEW s \in Seq(S), IsTrimmed(s)
    PROVE  Trim(s) = s
<1> DEFINE ink == {i \in DOMAIN s : s[i] \notin White}
<1>1. CASE s = <<>>
  <2>1. ink = {}
    BY <1>1
  <2> QED
    BY <1>1, <2>1 DEF Trim
<1>2. CASE s # <<>>
  <2>1. Len(s) \in Nat \ {0} /\ DOMAIN s = 1 .. Len(s) /\ s[1] \notin White /\ s[Len(s)] \notin White
    BY <1>2, EmptySeq DEF IsTrimmed
  <2>2. 1 \in ink /\ Len(s) \in ink /\ ink \subseteq 0 .. Len(s)
    BY <2>1
  <2>3. Min(ink) = 1 /\ Max(ink) = Len(s)
    <3>1. Min(ink) \in ink /\ Max(ink) \in ink /\ Min(ink) <= 1 /\ Len(s) <= Max(ink)
      BY Zenon, <2>1, <2>2, MinMax
    <3>2. \A i \in ink : i \in 1 .. Len(s)
      BY <2>1
    <3> QED
      BY <2>1, <3>1, <3>2
  <2>4. SubSeq(s, 1, Len(s)) = s
    BY SubSeqFull
  <2>5. Trim(s) = SubSeq(s, Min(ink), Max(ink))
    BY <2>2, Zenon DEF Trim
  <2> QED
    BY Zenon, <2>3, <2>4, <2>5
<1> QED
  BY <1>1, <1>2

-------------------------------------------------------------------------------
(* Finite sets in order *)

Orders(R, D) ==
    /\ \A a, b \in D : a = b \/ <<a, b>> \in R \/ <<b, a>> \in R
    /\ \A a, b \in D : <<a, b>> \in R => a # b /\ <<b, a>> \notin R
    /\ \A a, b, c \in D : <<a, b>> \in R /\ <<b, c>> \in R => <<a, c>> \in R

Ascends(f, R) == \A i, j \in DOMAIN f : i < j => <<f[i], f[j]>> \in R

(* A finite set has an enumeration in any strict total order: the place of  *)
(* an element is given by the number of smaller ones.                       *)
LEMMA HasEnumeration ==
    ASSUME NEW D, IsFiniteSet(D), NEW R, Orders(R, D)
    PROVE  /\ Cardinality(D) \in Nat
           /\ \E f \in [1 .. Cardinality(D) -> D] : Ascends(f, R)
<1> DEFINE n == Cardinality(D)
           smaller(k) == {x \in D : <<x, k>> \in R}
           place == [k \in D |-> Cardinality(smaller(k)) + 1]
<1>1. /\ \A a, b \in D : a = b \/ <<a, b>> \in R \/ <<b, a>> \in R
      /\ \A a, b \in D : <<a, b>> \in R => a # b /\ <<b, a>> \notin R
      /\ \A a, b, c \in D : <<a, b>> \in R /\ <<b, c>> \in R => <<a, c>> \in R
  BY Zenon DEF Orders
<1>2. n \in Nat
  BY FS_CardinalityType
<1>3. ASSUME NEW S \in SUBSET D, NEW x \in D \ S, NEW T \in SUBSET D, S \cup {x} \subseteq T
      PROVE  /\ Cardinality(S) \in Nat /\ Cardinality(T) \in Nat
             /\ Cardinality(S) < Cardinality(T)
  <2>1. IsFiniteSet(S) /\ IsFiniteSet(T)
    BY FS_Subset
  <2>2. Cardinality(S) \in Nat /\ Cardinality(T) \in Nat
    BY <2>1, FS_CardinalityType
  <2>3. Cardinality(S \cup {x}) = Cardinality(S) + 1
    BY Zenon, <2>1, FS_AddElement
  <2>4. Cardinality(S \cup {x}) <= Cardinality(T)
    BY <1>3, <2>1, FS_Subset
  <2> QED
    BY <2>2, <2>3, <2>4
<1>4. ASSUME NEW k \in D
      PROVE  place[k] \in 1 .. n
  <2>1. smaller(k) \in SUBSET D /\ k \in D \ smaller(k) /\ D \in SUBSET D
    BY <1>1
  <2>2. Cardinality(smaller(k)) \in Nat /\ Cardinality(smaller(k)) < n
    BY ZenonT(30), <1>3, <2>1
  <2>3. place[k] = Cardinality(smaller(k)) + 1
    OBVIOUS
  <2> QED
    BY <1>2, <2>2, <2>3
<1>5. ASSUME NEW a \in D, NEW b \in D, <<a, b>> \in R
      PROVE  place[a] < place[b]
  <2>1. /\ smaller(a) \in SUBSET D /\ smaller(b) \in SUBSET D
        /\ a \in D \ smaller(a) /\ smaller(a) \cup {a} \subseteq smaller(b)
    BY <1>1, <1>5
  <2>2. /\ Cardinality(smaller(a)) \in Nat /\ Cardinality(smaller(b)) \in Nat
        /\ Cardinality(smaller(a)) < Cardinality(smaller(b))
    BY Zenon, <1>3, <2>1
  <2>3. place[a] = Cardinality(smaller(a)) + 1 /\ place[b] = Cardinality(smaller(b)) + 1
    OBVIOUS
  <2> QED
    BY <2>2, <2>3
<1>6. place \in [D -> 1 .. n]
  BY <1>4
<1> HIDE DEF place
<1>7. place \in Injection(D, 1 .. n)
  <2> SUFFICES ASSUME NEW a \in D, NEW b \in D, place[a] = place[b] PROVE a = b
    BY <1>6 DEF Injection, IsInjective
  <2>1. place[a] \in Nat /\ place[b] \in Nat
    BY <1>2, <1>4
  <2>2. ~(<<a, b>> \in R) /\ ~(<<b, a>> \in R)
    BY <1>5, <2>1
  <2> QED
    BY <1>1, <2>2
<1>8. IsFiniteSet(1 .. n) /\ Cardinality(1 .. n) = n
  BY <1>2, FS_Interval
<1>9. \A i \in 1 .. n : \E k \in D : place[k] = i
  <2>1. place \in Surjection(D, 1 .. n)
    BY <1>7, <1>8, FS_Injection
  <2> QED
    BY <2>1 DEF Surjection
<1> DEFINE f == [i \in 1 .. n |-> CHOOSE k \in D : place[k] = i]
<1>10. \A i \in 1 .. n : f[i] \in D /\ place[f[i]] = i
  BY <1>9
<1>11. f \in [1 .. n -> D] /\ DOMAIN f = 1 .. n
  BY <1>10
<1> HIDE DEF f
<1>12. \A i, j \in 1 .. n : i < j => <<f[i], f[j]>> \in R
  <2> SUFFICES ASSUME NEW i \in 1 .. n, NEW j \in 1 .. n, i < j PROVE <<f[i], f[j]>> \in R
    OBVIOUS
  <2>1. f[i] \in D /\ f[j] \in D /\ place[f[i]] = i /\ place[f[j]] = j
    BY <1>10
  <2>2. ~(j < i) /\ i # j
    BY <1>2
  <2>3. <<f[j], f[i]>> \notin R
    BY <1>5, <2>1, <2>2
  <2> QED
    BY <1>1, <2>1, <2>2, <2>3
<1> QED
  BY <1>2, <1>11, <1>12, ZenonT(60) DEF Ascends

(* An ascending enumeration that is as long as the set has all of it. *)
LEMMA EnumerationComplete ==
    ASSUME NEW D, IsFiniteSet(D), NEW R, Orders(R, D),
           NEW f \in [1 .. Cardinality(D) -> D], Ascends(f, R)
    PROVE  \A k \in D : \E i \in 1 .. Cardinality(D) : f[i] = k
<1> DEFINE n == Cardinality(D)
<1>1. n \in Nat
  BY FS_CardinalityType
<1>2. \A i, j \in 1 .. n : i < j => f[i] # f[j]
  BY Zenon DEF Ascends, Orders
<1>3. \A i, j \in 1 .. n : f[i] = f[j] => i = j
  <2> SUFFICES ASSUME NEW i \in 1 .. n, NEW j \in 1 .. n, f[i] = f[j] PROVE i = j
    OBVIOUS
  <2>1. ~(i < j) /\ ~(j < i)
    BY <1>2
  <2> QED
    BY <1>1, <2>1
<1>4. f \in Injection(1 .. n, D)
  BY <1>3 DEF Injection, IsInjective
<1>5. IsFiniteSet(1 .. n) /\ Cardinality(1 .. n) = n
  BY <1>1, FS_Interval
<1>6. f \in Surjection(1 .. n, D)
  BY <1>4, <1>5, FS_Injection
<1> QED
  BY <1>6 DEF Surjection

-------------------------------------------------------------------------------
(* split *)

(* The places of the separators, and those before and after the text. *)
Ends(s, c) == {i \in DOMAIN s : s[i] = c} \cup {0, Len(s) + 1}

(* g has the m + 1 ends in their order. *)
Marks(g, m, s, c) ==
    /\ m \in Nat
    /\ g \in [1 .. m + 1 -> Ends(s, c)]
    /\ \A i, j \in 1 .. m + 1 : i < j => g[i] < g[j]
    /\ \A e \in Ends(s, c) : \E i \in 1 .. m + 1 : g[i] = e

Between(g, m, s) == [i \in 1 .. m |-> SubSeq(s, g[i] + 1, g[i + 1] - 1)]

(* split returns what lies between the ends. *)
LEMMA SplitBy ==
    ASSUME NEW S, NEW s \in Seq(S), NEW c, NEW m, NEW g, Marks(g, m, s, c)
    PROVE  Split(s, c) = Between(g, m, s)
<1> DEFINE ends == Ends(s, c)
           upto(e) == {j \in ends : j <= e}
           pick(n) == CHOOSE i \in ends : Cardinality(upto(i)) = n
           at == [n \in 1 .. Cardinality(ends) |-> pick(n)]
<1>1. ends \subseteq Nat /\ Len(s) \in Nat /\ ends \subseteq 0 .. Len(s) + 1
  BY DEF Ends
<1>2. /\ m \in Nat /\ g \in [1 .. m + 1 -> ends]
      /\ \A i, j \in 1 .. m + 1 : i < j => g[i] < g[j]
      /\ \A e \in ends : \E i \in 1 .. m + 1 : g[i] = e
  BY DEF Marks
<1>3. Split(s, c) = [n \in 1 .. Len(at) - 1 |-> SubSeq(s, at[n] + 1, at[n + 1] - 1)]
  BY Zenon DEF Split, Ends
<1> HIDE DEF ends
<1>4. \A i, j \in 1 .. m + 1 : (g[i] <= g[j] <=> i <= j) /\ (g[i] = g[j] => i = j)
  <2>0. \A k \in 1 .. m + 1 : g[k] \in ends
    BY <1>2
  <2> TAKE i, j \in 1 .. m + 1
  <2>1. g[i] \in Nat /\ g[j] \in Nat
    BY Zenon, <1>1, <2>0
  <2>3. i \in Nat /\ j \in Nat
    BY <1>2
  <2>2. (i < j => g[i] < g[j]) /\ (j < i => g[j] < g[i])
    BY <1>2
  <2> QED
    BY <2>1, <2>2, <2>3
<1>5. ASSUME NEW i \in 1 .. m + 1
      PROVE  Cardinality(upto(g[i])) = i
  <2> DEFINE h == [k \in 1 .. i |-> g[k]]
  <2>1. i \in Nat /\ 1 .. i \subseteq 1 .. m + 1
    BY <1>2
  <2>2. \A k \in 1 .. i : h[k] \in upto(g[i])
    BY <1>2, <1>4, <2>1
  <2>3. \A e \in upto(g[i]) : \E k \in 1 .. i : h[k] = e
    <3> TAKE e \in upto(g[i])
    <3>1. PICK k \in 1 .. m + 1 : g[k] = e
      BY <1>2
    <3>2. k \in 1 .. i
      BY <1>2, <1>4, <3>1
    <3> QED
      BY <3>1, <3>2
  <2>4. \A a, b \in 1 .. i : h[a] = h[b] => a = b
    BY <1>4, <2>1
  <2>5. h \in [1 .. i -> upto(g[i])]
    BY <2>2
  <2> HIDE DEF h, upto
  <2>6. h \in Bijection(1 .. i, upto(g[i]))
    BY <2>3, <2>4, <2>5 DEF Bijection, Injection, Surjection, IsInjective
  <2>7. ExistsBijection(1 .. i, upto(g[i]))
    BY <2>6 DEF ExistsBijection
  <2> QED
    BY <2>1, <2>7, FS_CountingElements
<1>6. Cardinality(ends) = m + 1
  <2>1. g \in Bijection(1 .. m + 1, ends)
    BY <1>2, <1>4 DEF Bijection, Injection, Surjection, IsInjective
  <2>2. ExistsBijection(1 .. m + 1, ends) /\ m + 1 \in Nat
    BY <1>2, <2>1 DEF ExistsBijection
  <2> QED
    BY <2>2, FS_CountingElements
<1>7. ASSUME NEW n \in 1 .. m + 1
      PROVE  at[n] = g[n]
  <2>1. g[n] \in ends /\ Cardinality(upto(g[n])) = n
    BY <1>2, <1>5
  <2>2. \A e \in ends : Cardinality(upto(e)) = n => e = g[n]
    <3> SUFFICES ASSUME NEW e \in ends, Cardinality(upto(e)) = n PROVE e = g[n]
      OBVIOUS
    <3>1. PICK k \in 1 .. m + 1 : g[k] = e
      BY <1>2
    <3>2. k = n
      BY <1>5, <3>1
    <3> QED
      BY <3>1, <3>2
  <2>3. at[n] = pick(n)
    BY Zenon, <1>6
  <2> HIDE DEF upto, at
  <2> QED
    BY <2>1, <2>2, <2>3
<1> HIDE DEF pick
<1>8. Len(at) = m + 1
  <2>1. \A n \in 1 .. m + 1 : pick(n) \in Nat
    <3> TAKE n \in 1 .. m + 1
    <3>1. at[n] = pick(n)
      BY <1>6
    <3>2. g[n] \in ends
      BY <1>2
    <3> QED
      BY Zenon, <1>1, <1>7, <3>1, <3>2
  <2>2. at \in [1 .. m + 1 -> Nat]
    BY <1>6, <2>1
  <2> HIDE DEF at
  <2> QED
    BY <1>2, <2>2
<1> HIDE DEF at
<1>9. \A n \in 1 .. m : at[n] = g[n] /\ at[n + 1] = g[n + 1]
  BY <1>2, <1>7
<1>10. Len(at) - 1 = m
  BY <1>2, <1>8
<1> QED
  BY Zenon, <1>3, <1>9, <1>10 DEF Between

(* The ends have an order, and it begins before and ends after the text. *)
LEMMA HasMarks ==
    ASSUME NEW S, NEW s \in Seq(S), NEW c
    PROVE  \E m \in Nat \ {0} : \E g : Marks(g, m, s, c)
<1> DEFINE D == Ends(s, c)
           R == {p \in Nat \X Nat : p[1] < p[2]}
           n == Cardinality(D)
<1>1. D \subseteq 0 .. Len(s) + 1 /\ Len(s) \in Nat /\ 0 \in D /\ Len(s) + 1 \in D
  BY DEF Ends
<1> HIDE DEF D
<1>2. IsFiniteSet(D)
  <2>1. IsFiniteSet(0 .. Len(s) + 1)
    BY <1>1, FS_Interval
  <2> QED
    BY Zenon, <1>1, <2>1, FS_Subset
<1>3. \A a, b \in D : a \in Nat /\ b \in Nat /\ (<<a, b>> \in R <=> a < b)
  BY <1>1
<1> HIDE DEF R
<1>4. Orders(R, D)
  <2>0. D \subseteq Nat
    BY <1>1
  <2>1. \A a, b, x \in D : a < b /\ b < x => a < x
    BY <2>0
  <2>2. \A a, b \in D : (a = b \/ a < b \/ b < a) /\ (a < b => a # b /\ ~(b < a))
    BY <2>0
  <2> QED
    BY <1>3, <2>1, <2>2, ZenonT(60) DEF Orders
<1>5. PICK f \in [1 .. n -> D] : Ascends(f, R)
  BY <1>2, <1>4, HasEnumeration
<1>6. n \in Nat /\ \A k \in D : \E i \in 1 .. n : f[i] = k
  <2>1. n \in Nat
    BY <1>2, FS_CardinalityType
  <2>2. \A k \in D : \E i \in 1 .. n : f[i] = k
    BY <1>2, <1>4, <1>5, EnumerationComplete, ZenonT(60)
  <2> QED
    BY <2>1, <2>2
<1> HIDE DEF n
<1>7. n >= 2
  <2>1. PICK i \in 1 .. n : f[i] = 0
    BY <1>1, <1>6
  <2>2. PICK j \in 1 .. n : f[j] = Len(s) + 1
    BY <1>1, <1>6
  <2> QED
    BY <1>1, <1>6, <2>1, <2>2
<1>8. n - 1 \in Nat \ {0} /\ (n - 1) + 1 = n
  BY <1>6, <1>7
<1>9. \A i, j \in 1 .. n : i < j => f[i] < f[j]
  <2>1. \A i, j \in 1 .. n : i < j => <<f[i], f[j]>> \in R
    BY <1>5 DEF Ascends
  <2>2. \A i, j \in 1 .. n : f[i] \in D /\ f[j] \in D
    OBVIOUS
  <2> QED
    BY Zenon, <1>3, <2>1, <2>2
<1>10. Marks(f, n - 1, s, c)
  BY <1>5, <1>6, <1>8, <1>9 DEF Marks, D
<1> QED
  BY <1>8, <1>10

(* The text lies between the first and the last end; no separator lies      *)
(* between two successive ones.                                             *)
Bounds(g, m, s, c) ==
    /\ m \in Nat \ {0} /\ Len(s) \in Nat
    /\ g[1] = 0 /\ g[m + 1] = Len(s) + 1
    /\ \A i \in 1 .. m + 1 : g[i] \in 0 .. Len(s) + 1
    /\ \A i \in 1 .. m : g[i] < g[i + 1]
    /\ \A i \in 2 .. m : s[g[i]] = c /\ g[i] \in 1 .. Len(s)
    /\ \A i \in 1 .. m : \A p \in g[i] + 1 .. g[i + 1] - 1 : p \in 1 .. Len(s) /\ s[p] # c

(* The ends in their order have these bounds. *)
LEMMA MarksBound ==
    ASSUME NEW S, NEW s \in Seq(S), NEW c, NEW m, NEW g, Marks(g, m, s, c)
    PROVE  Bounds(g, m, s, c)
<1> DEFINE ends == Ends(s, c)
<1>1. /\ m \in Nat /\ \A i \in 1 .. m + 1 : g[i] \in ends
      /\ \A i, j \in 1 .. m + 1 : i < j => g[i] < g[j]
      /\ \A e \in ends : \E i \in 1 .. m + 1 : g[i] = e
  BY DEF Marks
<1>2. Len(s) \in Nat /\ ends \subseteq 0 .. Len(s) + 1 /\ 0 \in ends /\ Len(s) + 1 \in ends
  BY DEF Ends
<1>3. \A e \in ends : e # 0 /\ e # Len(s) + 1 => e \in 1 .. Len(s) /\ s[e] = c
  BY <1>2 DEF Ends
<1>4. \A e \in 1 .. Len(s) : s[e] = c => e \in ends
  BY DEF Ends
<1> HIDE DEF ends
<1>5. \A i \in 1 .. m + 1 : g[i] \in 0 .. Len(s) + 1
  BY ZenonT(30), <1>1, <1>2
<1>6. PICK a \in 1 .. m + 1 : g[a] = 0
  BY <1>1, <1>2
<1>7. PICK b \in 1 .. m + 1 : g[b] = Len(s) + 1
  BY <1>1, <1>2
<1>8. a = 1
  <2>1. 1 \in 1 .. m + 1 /\ g[1] \in 0 .. Len(s) + 1
    BY <1>1, <1>5
  <2>2. ~(1 < a)
    BY <1>1, <1>2, <1>6, <2>1
  <2> QED
    BY <1>1, <2>2
<1>9. b = m + 1
  <2>1. m + 1 \in 1 .. m + 1 /\ g[m + 1] \in 0 .. Len(s) + 1
    BY <1>1, <1>5
  <2>2. ~(b < m + 1)
    BY <1>1, <1>2, <1>7, <2>1
  <2> QED
    BY <1>1, <2>2
<1>10. m \in Nat \ {0}
  BY <1>1, <1>2, <1>6, <1>7, <1>8, <1>9
<1>11. \A i \in 1 .. m : g[i] < g[i + 1]
  BY <1>1
<1>12. \A i \in 2 .. m : s[g[i]] = c /\ g[i] \in 1 .. Len(s)
  <2> TAKE i \in 2 .. m
  <2>1. i \in 1 .. m + 1 /\ 1 \in 1 .. m + 1 /\ m + 1 \in 1 .. m + 1 /\ 1 < i /\ i < m + 1
    BY <1>10
  <2>2. g[i] \in ends /\ g[1] < g[i] /\ g[i] < g[m + 1]
    BY <1>1, <2>1
  <2>3. g[i] # 0 /\ g[i] # Len(s) + 1
    BY <1>2, <1>6, <1>7, <1>8, <1>9, <2>2
  <2> QED
    BY <1>3, <2>2, <2>3
<1>13. ASSUME NEW i \in 1 .. m, NEW p \in g[i] + 1 .. g[i + 1] - 1
       PROVE  p \in 1 .. Len(s) /\ s[p] # c
  <2>1. i \in 1 .. m + 1 /\ i + 1 \in 1 .. m + 1
    BY <1>1
  <2>2. g[i] \in 0 .. Len(s) + 1 /\ g[i + 1] \in 0 .. Len(s) + 1
    BY <1>5, <2>1
  <2>3. p \in 1 .. Len(s) /\ g[i] < p /\ p < g[i + 1]
    BY <1>2, <2>2
  <2>4. p \notin ends
    <3> SUFFICES ASSUME p \in ends PROVE FALSE
      OBVIOUS
    <3>1. PICK k \in 1 .. m + 1 : g[k] = p
      BY <1>1
    <3>2. (k < i => g[k] < g[i]) /\ (i + 1 < k => g[i + 1] < g[k])
      BY Zenon, <1>1, <2>1
    <3>3. ~(k < i) /\ k # i /\ ~(i + 1 < k) /\ k # i + 1
      BY <2>2, <2>3, <3>1, <3>2
    <3> QED
      BY <1>1, <2>1, <3>3
  <2> QED
    BY <1>4, <2>3, <2>4
<1> QED
  BY <1>2, <1>5, <1>6, <1>7, <1>8, <1>9, <1>10, <1>11, <1>12, <1>13 DEF Bounds

(* The pieces are texts without the separator; there is at least one. *)
LEMMA SplitPieces ==
    ASSUME NEW S, NEW s \in Seq(S), NEW c
    PROVE  /\ Split(s, c) \in Seq(Seq(S))
           /\ Len(Split(s, c)) \in Nat \ {0}
           /\ \A i \in 1 .. Len(Split(s, c)) :
                 c \notin Range(Split(s, c)[i]) /\ Range(Split(s, c)[i]) \subseteq Range(s)
<1>1. PICK m \in Nat \ {0} : \E g : Marks(g, m, s, c)
  BY Zenon, HasMarks
<1>2. PICK g : Marks(g, m, s, c)
  BY <1>1
<1> DEFINE piece(i) == SubSeq(s, g[i] + 1, g[i + 1] - 1)
<1>3. Split(s, c) = [i \in 1 .. m |-> piece(i)]
  BY <1>2, SplitBy DEF Between
<1>4. /\ Len(s) \in Nat
      /\ \A i \in 1 .. m + 1 : g[i] \in 0 .. Len(s) + 1
      /\ \A i \in 1 .. m : \A p \in g[i] + 1 .. g[i + 1] - 1 : p \in 1 .. Len(s) /\ s[p] # c
  BY <1>2, MarksBound DEF Bounds
<1>5. ASSUME NEW i \in 1 .. m
      PROVE  piece(i) \in Seq(S) /\ c \notin Range(piece(i)) /\ Range(piece(i)) \subseteq Range(s)
  <2> DEFINE a == g[i] + 1
             b == g[i + 1] - 1
  <2>1. a \in Int /\ b \in Int
    <3>1. i \in 1 .. m + 1 /\ i + 1 \in 1 .. m + 1
      BY <1>1
    <3>2. g[i] \in 0 .. Len(s) + 1 /\ g[i + 1] \in 0 .. Len(s) + 1
      BY <1>4, <3>1
    <3> QED
      BY <1>4, <3>2
  <2>2. \A p \in a .. b : p \in 1 .. Len(s) /\ s[p] # c
    BY <1>4
  <2>3. \A p \in a .. b : s[p] \in S
    BY <2>2
  <2>4. piece(i) = SubSeq(s, a, b)
    OBVIOUS
  <2> HIDE DEF a, b, piece
  <2>5. /\ SubSeq(s, a, b) \in Seq(S)
        /\ Len(SubSeq(s, a, b)) = IF a <= b THEN b - a + 1 ELSE 0
        /\ \A k \in 1 .. b - a + 1 : SubSeq(s, a, b)[k] = s[a + k - 1]
    BY <2>1, <2>3, SubSeqProperties
  <2>6. \A k \in 1 .. Len(SubSeq(s, a, b)) :
           \E p \in a .. b : SubSeq(s, a, b)[k] = s[p]
    <3> TAKE k \in 1 .. Len(SubSeq(s, a, b))
    <3>1. k \in 1 .. b - a + 1 /\ a + k - 1 \in a .. b
      BY <2>1, <2>5
    <3> QED
      BY <2>5, <3>1
  <2>7. DOMAIN SubSeq(s, a, b) = 1 .. Len(SubSeq(s, a, b)) /\ DOMAIN s = 1 .. Len(s)
    BY <2>5
  <2>8. ASSUME NEW x \in Range(SubSeq(s, a, b)) PROVE x # c /\ x \in Range(s)
    <3>1. PICK k \in 1 .. Len(SubSeq(s, a, b)) : SubSeq(s, a, b)[k] = x
      BY Zenon, <2>7 DEF Range
    <3>2. PICK p \in a .. b : SubSeq(s, a, b)[k] = s[p]
      BY Zenon, <2>6
    <3>3. p \in 1 .. Len(s) /\ s[p] # c
      BY Zenon, <2>2
    <3> QED
      BY Zenon, <2>7, <3>1, <3>2, <3>3 DEF Range
  <2> QED
    BY Zenon, <2>4, <2>5, <2>8
<1> HIDE DEF piece
<1>6. Split(s, c) \in [1 .. m -> Seq(S)]
  BY <1>3, <1>5
<1>7. Split(s, c) \in Seq(Seq(S)) /\ Len(Split(s, c)) = m
  BY <1>1, <1>6
<1>8. \A i \in 1 .. m : Split(s, c)[i] = piece(i)
  BY <1>3
<1> QED
  BY <1>1, <1>5, <1>7, <1>8

(* Texts that agree from a to b have the same part there. *)
LEMMA SubSeqAlike ==
    ASSUME NEW s, NEW t, NEW a \in Int, NEW b \in Int, \A p \in a .. b : s[p] = t[p]
    PROVE  SubSeq(s, a, b) = SubSeq(t, a, b)
<1> DEFINE S == {s[p] : p \in a .. b}
<1>1. \A p \in a .. b : s[p] \in S /\ t[p] \in S
  OBVIOUS
<1> HIDE DEF S
<1>2. /\ SubSeq(s, a, b) \in Seq(S) /\ SubSeq(t, a, b) \in Seq(S)
      /\ Len(SubSeq(s, a, b)) = (IF a <= b THEN b - a + 1 ELSE 0)
      /\ Len(SubSeq(t, a, b)) = (IF a <= b THEN b - a + 1 ELSE 0)
      /\ \A i \in 1 .. b - a + 1 : SubSeq(s, a, b)[i] = s[a + i - 1] /\ SubSeq(t, a, b)[i] = t[a + i - 1]
  BY <1>1, SubSeqProperties
<1>3. \A i \in 1 .. Len(SubSeq(s, a, b)) : SubSeq(s, a, b)[i] = SubSeq(t, a, b)[i]
  <2> TAKE i \in 1 .. Len(SubSeq(s, a, b))
  <2>1. i \in 1 .. b - a + 1 /\ a + i - 1 \in a .. b
    BY <1>2
  <2> QED
    BY <1>2, <2>1
<1> QED
  BY <1>2, <1>3, SeqEqual

(* The part of a text that begins after place k and reads like b is b. *)
LEMMA SubSeqReads ==
    ASSUME NEW S, NEW s, NEW b \in Seq(S), NEW k \in Int,
           \A p \in 1 .. Len(b) : s[k + p] = b[p]
    PROVE  SubSeq(s, k + 1, k + Len(b)) = b
<1> DEFINE n == Len(b)
           t == SubSeq(s, k + 1, k + n)
<1>1. n \in Nat /\ \A p \in 1 .. n : b[p] \in S
  OBVIOUS
<1>2. \A q \in k + 1 .. k + n : s[q] \in S
  <2> TAKE q \in k + 1 .. k + n
  <2>1. q - k \in 1 .. n /\ k + (q - k) = q
    BY <1>1
  <2> QED
    BY <1>1, <2>1
<1>3. /\ t \in Seq(S) /\ Len(t) = (IF k + 1 <= k + n THEN k + n - (k + 1) + 1 ELSE 0)
      /\ \A i \in 1 .. k + n - (k + 1) + 1 : t[i] = s[k + 1 + i - 1]
  BY <1>1, <1>2, SubSeqProperties
<1>4. Len(t) = n
  BY <1>1, <1>3
<1>5. \A i \in 1 .. n : t[i] = b[i]
  <2> TAKE i \in 1 .. n
  <2>1. i \in 1 .. k + n - (k + 1) + 1 /\ k + 1 + i - 1 = k + i
    BY <1>1
  <2> QED
    BY Zenon, <1>3, <2>1
<1> HIDE DEF t
<1> QED
  BY <1>3, <1>4, <1>5, SeqEqual DEF t

(* A text without the separator is its own only piece. *)
LEMMA SplitSole ==
    ASSUME NEW S, NEW s \in Seq(S), NEW c, c \notin Range(s)
    PROVE  Split(s, c) = <<s>>
<1> DEFINE g == <<0, Len(s) + 1>>
<1>1. Len(s) \in Nat /\ DOMAIN s = 1 .. Len(s)
  OBVIOUS
<1>2. Ends(s, c) = {0, Len(s) + 1}
  BY DEF Ends, Range
<1>3. Marks(g, 1, s, c)
  BY <1>1, <1>2 DEF Marks
<1>4. Split(s, c) = Between(g, 1, s)
  BY <1>3, SplitBy
<1>5. SubSeq(s, 0 + 1, Len(s) + 1 - 1) = s
  BY <1>1, SubSeqFull
<1>6. Between(g, 1, s) = [i \in 1 .. 1 |-> s]
  BY <1>5 DEF Between
<1> QED
  BY <1>4, <1>6

IsSeparated(s, l, c, b) ==
    /\ Len(l) \in Nat /\ Len(b) \in Nat /\ Len(s) = Len(l) + 1 + Len(b)
    /\ DOMAIN s = 1 .. Len(s)
    /\ \A p \in 1 .. Len(l) : s[p] = l[p]
    /\ s[Len(l) + 1] = c
    /\ \A p \in 1 .. Len(b) : s[Len(l) + 1 + p] = b[p]

(* The tokens of two texts with a separator between them. *)
LEMMA Separated ==
    ASSUME NEW S, NEW l \in Seq(S), NEW b \in Seq(S), NEW c \in S
    PROVE  l \o <<c>> \o b \in Seq(S) /\ IsSeparated(l \o <<c>> \o b, l, c, b)
<1>1. <<c>> \in Seq(S) /\ Len(<<c>>) = 1 /\ <<c>>[1] = c
  OBVIOUS
<1> DEFINE lc == l \o <<c>>
<1>2. /\ lc \in Seq(S) /\ Len(lc) = Len(l) + 1 /\ lc[Len(l) + 1] = c
      /\ \A p \in 1 .. Len(l) : lc[p] = l[p]
  BY <1>1
<1>3. l \o <<c>> \o b = lc \o b
  OBVIOUS
<1> HIDE DEF lc
<1>4. /\ lc \o b \in Seq(S) /\ Len(lc \o b) = Len(l) + 1 + Len(b)
      /\ DOMAIN (lc \o b) = 1 .. Len(lc \o b)
      /\ \A p \in 1 .. Len(l) + 1 : (lc \o b)[p] = lc[p]
      /\ \A p \in 1 .. Len(b) : (lc \o b)[Len(l) + 1 + p] = b[p]
  BY <1>2
<1>5. IsSeparated(lc \o b, l, c, b)
  BY <1>2, <1>4 DEF IsSeparated
<1> QED
  BY Zenon, <1>3, <1>4, <1>5

AddsPiece(l, c, b) == Split(l \o <<c>> \o b, c) = Append(Split(l, c), b)

(* A text after a separator is the last piece. *)
LEMMA SplitAppend ==
    ASSUME NEW S, NEW l \in Seq(S), NEW b \in Seq(S), NEW c \in S, c \notin Range(b)
    PROVE  AddsPiece(l, c, b)
<1> DEFINE s == l \o <<c>> \o b
<1>1. /\ s \in Seq(S) /\ Len(s) = Len(l) + 1 + Len(b)
      /\ \A p \in 1 .. Len(l) : s[p] = l[p]
      /\ s[Len(l) + 1] = c
      /\ \A p \in 1 .. Len(b) : s[Len(l) + 1 + p] = b[p]
  BY Separated DEF IsSeparated
<1> HIDE DEF s
<1>2. PICK m \in Nat \ {0} : \E g : Marks(g, m, l, c)
  BY Zenon, HasMarks
<1>3. PICK g : Marks(g, m, l, c)
  BY <1>2
<1>4. Bounds(g, m, l, c)
  BY <1>3, MarksBound
<1>5. Split(l, c) = Between(g, m, l)
  BY <1>3, SplitBy
<1> DEFINE h == [i \in 1 .. m + 2 |-> IF i <= m + 1 THEN g[i] ELSE Len(s) + 1]
<1>6. Len(l) \in Nat /\ Len(b) \in Nat /\ DOMAIN l = 1 .. Len(l) /\ DOMAIN b = 1 .. Len(b)
  OBVIOUS
<1>7. \A p \in 1 .. Len(b) : b[p] # c
  BY <1>6 DEF Range
<1>8. Ends(s, c) = Ends(l, c) \cup {Len(s) + 1}
  <2>1. DOMAIN s = 1 .. Len(s)
    BY <1>1
  <2>2. ASSUME NEW e \in 1 .. Len(s), s[e] = c PROVE e \in Ends(l, c)
    <3>1. CASE e \in 1 .. Len(l)
      BY <1>1, <1>6, <2>2, <3>1 DEF Ends
    <3>2. CASE e = Len(l) + 1
      BY <3>2 DEF Ends
    <3>3. CASE e > Len(l) + 1
      <4>1. e - Len(l) - 1 \in 1 .. Len(b) /\ Len(l) + 1 + (e - Len(l) - 1) = e
        BY <1>1, <1>6, <3>3
      <4> QED
        BY ZenonT(60), <1>1, <1>7, <2>2, <4>1
    <3> QED
      BY <1>6, <3>1, <3>2, <3>3
  <2>3. ASSUME NEW e \in Ends(l, c) PROVE e \in Ends(s, c)
    <3>1. CASE e = 0
      BY <3>1 DEF Ends
    <3>2. CASE e = Len(l) + 1
      BY <1>1, <1>6, <2>1, <3>2 DEF Ends
    <3>3. CASE e \in 1 .. Len(l) /\ l[e] = c
      BY <1>1, <1>6, <2>1, <3>3 DEF Ends
    <3> QED
      BY <1>6, <3>1, <3>2, <3>3 DEF Ends
  <2>4. Ends(s, c) \subseteq Ends(l, c) \cup {Len(s) + 1}
    BY <2>1, <2>2 DEF Ends
  <2>5. Len(s) + 1 \in Ends(s, c)
    BY DEF Ends
  <2> QED
    BY <2>3, <2>4, <2>5
<1>9. Marks(h, m + 1, s, c)
  <2>1. /\ \A i \in 1 .. m + 1 : g[i] \in Ends(l, c) /\ g[i] \in 0 .. Len(l) + 1
        /\ \A i, j \in 1 .. m + 1 : i < j => g[i] < g[j]
        /\ \A e \in Ends(l, c) : \E i \in 1 .. m + 1 : g[i] = e
    BY <1>3, <1>4 DEF Marks, Bounds
  <2>2. (m + 1) + 1 = m + 2 /\ m + 1 \in Nat
    OBVIOUS
  <2>3. \A i \in 1 .. m + 1 : i \in 1 .. m + 2 /\ h[i] = g[i]
    OBVIOUS
  <2>4. h[m + 2] = Len(s) + 1 /\ m + 2 \in 1 .. m + 2
    OBVIOUS
  <2>5. \A i \in 1 .. m + 2 : i = m + 2 \/ i \in 1 .. m + 1
    OBVIOUS
  <2>6. h = [i \in 1 .. m + 2 |-> h[i]]
    OBVIOUS
  <2> HIDE DEF h
  <2>7. h \in [1 .. m + 2 -> Ends(s, c)]
    <3>1. \A i \in 1 .. m + 2 : h[i] \in Ends(s, c)
      BY <1>8, <2>1, <2>3, <2>4, <2>5
    <3> QED
      BY <2>6, <3>1
  <2>8. \A i, j \in 1 .. m + 2 : i < j => h[i] < h[j]
    <3> SUFFICES ASSUME NEW i \in 1 .. m + 2, NEW j \in 1 .. m + 2, i < j PROVE h[i] < h[j]
      OBVIOUS
    <3>1. i \in 1 .. m + 1 /\ h[i] = g[i] /\ g[i] \in 0 .. Len(l) + 1
      BY <2>1, <2>3
    <3>2. CASE j \in 1 .. m + 1
      BY <2>1, <2>3, <3>1, <3>2
    <3>3. CASE j = m + 2
      BY <1>1, <1>6, <2>4, <3>1, <3>3
    <3> QED
      BY <2>5, <3>2, <3>3
  <2>9. \A e \in Ends(s, c) : \E i \in 1 .. m + 2 : h[i] = e
    BY <1>8, <2>1, <2>3, <2>4
  <2> QED
    BY <2>2, <2>7, <2>8, <2>9 DEF Marks
<1>10. Split(s, c) = Between(h, m + 1, s)
  BY <1>1, <1>9, SplitBy
<1>11. ASSUME NEW i \in 1 .. m
       PROVE  SubSeq(s, h[i] + 1, h[i + 1] - 1) = SubSeq(l, g[i] + 1, g[i + 1] - 1)
  <2>1. h[i] = g[i] /\ h[i + 1] = g[i + 1]
    OBVIOUS
  <2>2. i \in 1 .. m + 1 /\ i + 1 \in 1 .. m + 1
    OBVIOUS
  <2>3. g[i] \in 0 .. Len(l) + 1 /\ g[i + 1] \in 0 .. Len(l) + 1
    BY <1>4, <2>2 DEF Bounds
  <2> HIDE DEF h
  <2>4. \A p \in g[i] + 1 .. g[i + 1] - 1 : s[p] = l[p]
    BY <1>1, <1>6, <2>3
  <2>5. g[i] + 1 \in Int /\ g[i + 1] - 1 \in Int
    BY <1>6, <2>3
  <2>6. SubSeq(s, g[i] + 1, g[i + 1] - 1) = SubSeq(l, g[i] + 1, g[i + 1] - 1)
    BY ZenonT(30), <2>4, <2>5, SubSeqAlike
  <2> QED
    BY Zenon, <2>1, <2>6
<1>12. SubSeq(s, h[m + 1] + 1, h[m + 2] - 1) = b
  <2>1. h[m + 1] = Len(l) + 1 /\ h[m + 2] = Len(l) + Len(b) + 2
    BY <1>1, <1>4, <1>6 DEF Bounds
  <2>2. SubSeq(s, Len(l) + 2, Len(l) + 1 + Len(b)) = b
    <3> DEFINE k == Len(l) + 1
    <3>1. k \in Int /\ k + 1 = Len(l) + 2 /\ k + Len(b) = Len(l) + 1 + Len(b)
      BY <1>6
    <3>2. \A p \in 1 .. Len(b) : s[k + p] = b[p]
      BY Zenon, <1>1
    <3> HIDE DEF k
    <3>3. SubSeq(s, k + 1, k + Len(b)) = b
      BY <3>1, <3>2, SubSeqReads
    <3> QED
      BY Zenon, <3>1, <3>3
  <2> HIDE DEF h
  <2>3. h[m + 1] + 1 = Len(l) + 2 /\ h[m + 2] - 1 = Len(l) + 1 + Len(b)
    BY <1>6, <2>1
  <2> QED
    BY <2>2, <2>3
<1> HIDE DEF h
<1> QED
  <2> DEFINE A == Between(h, m + 1, s)
             B == Append(Between(g, m, l), b)
  <2>1. \A i \in 1 .. m + 1 : A[i] = SubSeq(s, h[i] + 1, h[i + 1] - 1)
    BY Zenon DEF Between
  <2>2. DOMAIN A = 1 .. m + 1
    BY DEF Between
  <2>3. Split(l, c) \in Seq(Seq(S))
    BY SplitPieces
  <2>4. Between(g, m, l) \in Seq(Seq(S)) /\ DOMAIN Between(g, m, l) = 1 .. m
    BY <1>5, <2>3 DEF Between
  <2>5. Len(Between(g, m, l)) = m
    BY <2>4
  <2>6. /\ B \in Seq(Seq(S)) /\ Len(B) = m + 1 /\ B[m + 1] = b
        /\ \A i \in 1 .. m : B[i] = Between(g, m, l)[i]
    BY <2>4, <2>5, AppendProperties
  <2>7. \A i \in 1 .. m : Between(g, m, l)[i] = SubSeq(l, g[i] + 1, g[i + 1] - 1)
    BY Zenon DEF Between
  <2>8. A \in Seq(Seq(S)) /\ Len(A) = m + 1
    <3>1. A \in Seq(Seq(S))
      BY <1>1, <1>10, SplitPieces
    <3> HIDE DEF A
    <3> QED
      BY <2>2, <3>1
  <2>9. \A i \in 1 .. m + 1 : A[i] = B[i]
    <3> TAKE i \in 1 .. m + 1
    <3>1. CASE i \in 1 .. m
      BY Zenon, <1>11, <2>1, <2>6, <2>7, <3>1
    <3>2. CASE i = m + 1
      <4>1. m + 1 + 1 = m + 2
        OBVIOUS
      <4> QED
        BY Zenon, <1>12, <2>1, <2>6, <3>2, <4>1
    <3> HIDE DEF A, B
    <3> QED
      BY <3>1, <3>2
  <2> HIDE DEF A, B
  <2>10. A = B
    BY <2>6, <2>8, <2>9, SeqEqual
  <2> QED
    BY <1>5, <1>10, <2>10 DEF A, B, s, AddsPiece

-------------------------------------------------------------------------------
(* join *)

(* u has the joins of the first 1, 2, ... n of the texts ss. *)
Joins(u, n, ss, c) ==
    \A i \in 1 .. n : u[i] = IF i = 1 THEN ss[i] ELSE u[i - 1] \o <<c>> \o ss[i]

(* The joins of the beginnings of ss exist. *)
LEMMA HasJoins ==
    ASSUME NEW S, NEW ss \in Seq(Seq(S)), NEW c \in S
    PROVE  \A n \in 0 .. Len(ss) : \E u \in [1 .. n -> Seq(S)] : Joins(u, n, ss, c)
<1> DEFINE T == {n \in 0 .. Len(ss) : ~ \E u \in [1 .. n -> Seq(S)] : Joins(u, n, ss, c)}
<1> SUFFICES ASSUME T # {} PROVE FALSE
  OBVIOUS
<1>0. Len(ss) \in Nat /\ \A i \in 1 .. Len(ss) : ss[i] \in Seq(S)
  OBVIOUS
<1>1. T \subseteq Nat
  BY <1>0
<1>2. PICK n \in T : \A k \in T : n <= k
  BY Zenon, <1>1, Least
<1>3. n \in 0 .. Len(ss) /\ ~ \E u \in [1 .. n -> Seq(S)] : Joins(u, n, ss, c)
  OBVIOUS
<1>4. n # 0
  <2> SUFFICES ASSUME n = 0 PROVE FALSE
    OBVIOUS
  <2>1. <<>> \in [1 .. 0 -> Seq(S)] /\ Joins(<<>>, 0, ss, c)
    BY DEF Joins
  <2> QED
    BY Zenon, <1>3, <2>1
<1>5. n - 1 \in 0 .. Len(ss) /\ n - 1 \notin T
  <2> HIDE DEF T
  <2> QED
    BY <1>0, <1>2, <1>3, <1>4
<1>6. PICK v \in [1 .. n - 1 -> Seq(S)] : Joins(v, n - 1, ss, c)
  BY <1>5
<1> DEFINE next == IF n = 1 THEN ss[n] ELSE v[n - 1] \o <<c>> \o ss[n]
           u == [i \in 1 .. n |-> IF i = n THEN next ELSE v[i]]
<1>7. next \in Seq(S)
  <2>1. ss[n] \in Seq(S)
    BY <1>0, <1>3, <1>4
  <2>2. CASE n # 1
    <3>1. v[n - 1] \in Seq(S)
      BY <1>0, <1>3, <1>4, <1>6, <2>2
    <3>2. v[n - 1] \o <<c>> \o ss[n] \in Seq(S)
      BY <2>1, <3>1, Separated
    <3> QED
      BY <2>2, <3>2
  <2> QED
    BY <2>1, <2>2
<1> HIDE DEF next
<1>8. u \in [1 .. n -> Seq(S)]
  <2>1. \A i \in 1 .. n : i = n \/ i \in 1 .. n - 1
    BY <1>0, <1>3
  <2> QED
    BY <1>6, <1>7, <2>1
<1>9. Joins(u, n, ss, c)
  <2> SUFFICES ASSUME NEW i \in 1 .. n
               PROVE  u[i] = IF i = 1 THEN ss[i] ELSE u[i - 1] \o <<c>> \o ss[i]
    BY Zenon DEF Joins
  <2>1. n \in 1 .. n /\ n \in Nat
    BY <1>0, <1>3, <1>4
  <2>2. u[n] = next /\ \A k \in 1 .. n - 1 : u[k] = v[k]
    BY <2>1
  <2> HIDE DEF u
  <2>3. CASE i = n
    <3>1. i # 1 => u[i - 1] = v[n - 1]
      BY <2>1, <2>2, <2>3
    <3> QED
      BY <2>2, <2>3, <3>1 DEF next
  <2>4. CASE i # n
    <3>1. i \in 1 .. n - 1 /\ (i # 1 => i - 1 \in 1 .. n - 1)
      BY <2>1, <2>4
    <3>2. v[i] = IF i = 1 THEN ss[i] ELSE v[i - 1] \o <<c>> \o ss[i]
      BY Zenon, <1>6, <3>1 DEF Joins
    <3> QED
      BY Zenon, <2>2, <3>1, <3>2
  <2> QED
    BY <2>3, <2>4
<1> HIDE DEF u
<1> QED
  BY <1>3, <1>8, <1>9

(* What join returns, in terms of the joins of the beginnings. *)
LEMMA JoinShape ==
    ASSUME NEW S, NEW ss \in Seq(Seq(S)), ss # <<>>, NEW c \in S
    PROVE  \E u \in [1 .. Len(ss) -> Seq(S)] :
              Joins(u, Len(ss), ss, c) /\ Join(ss, c) = u[Len(ss)]
<1> DEFINE D == DOMAIN ss
           n == Len(ss)
           rec(f) == [i \in D |-> IF i = 1 THEN ss[i] ELSE f[i - 1] \o <<c>> \o ss[i]]
           w == CHOOSE f : f = rec(f)
<1>1. n \in Nat /\ D = 1 .. n
  OBVIOUS
<1>2. Join(ss, c) = w[n]
  BY Zenon DEF Join
<1>3. PICK u \in [1 .. n -> Seq(S)] : Joins(u, n, ss, c)
  <2>1. n \in 0 .. Len(ss)
    BY <1>1
  <2> QED
    BY <2>1, HasJoins
<1>4. u = rec(u)
  BY Zenon, <1>1, <1>3 DEF Joins
<1> HIDE DEF D, rec
<1>5. w = rec(w)
  BY <1>4
<1> HIDE DEF w
<1>6. Joins(w, n, ss, c)
  <2>1. \A i \in D : rec(w)[i] = IF i = 1 THEN ss[i] ELSE w[i - 1] \o <<c>> \o ss[i]
    BY Zenon DEF rec
  <2> QED
    BY Zenon, <1>1, <1>5, <2>1 DEF Joins
<1>7. \A i \in 1 .. n : w[i] = u[i]
  <2> DEFINE T == {i \in 1 .. n : w[i] # u[i]}
  <2> SUFFICES ASSUME T # {} PROVE FALSE
    OBVIOUS
  <2>1. T \subseteq Nat
    OBVIOUS
  <2>2. PICK i \in T : \A k \in T : i <= k
    BY Zenon, <2>1, Least
  <2>3. i \in 1 .. n /\ w[i] # u[i]
    OBVIOUS
  <2>4. /\ w[i] = IF i = 1 THEN ss[i] ELSE w[i - 1] \o <<c>> \o ss[i]
        /\ u[i] = IF i = 1 THEN ss[i] ELSE u[i - 1] \o <<c>> \o ss[i]
    BY Zenon, <1>3, <1>6, <2>3 DEF Joins
  <2>5. i # 1
    BY <2>3, <2>4
  <2>6. i - 1 \in 1 .. n /\ i - 1 \notin T
    <3> HIDE DEF T
    <3> QED
      BY <1>1, <2>2, <2>3, <2>5
  <2>7. w[i - 1] = u[i - 1]
    BY <2>6
  <2> QED
    BY <2>3, <2>4, <2>7
<1>8. n \in 1 .. n
  BY <1>1, EmptySeq
<1> QED
  BY <1>2, <1>3, <1>7, <1>8

(* join gives a text. *)
LEMMA JoinIsText ==
    ASSUME NEW S, NEW ss \in Seq(Seq(S)), NEW c \in S
    PROVE  Join(ss, c) \in Seq(S)
<1>1. CASE ss = <<>>
  BY <1>1 DEF Join
<1>2. CASE ss # <<>>
  <2>1. PICK u \in [1 .. Len(ss) -> Seq(S)] : Join(ss, c) = u[Len(ss)]
    BY <1>2, JoinShape
  <2>2. Len(ss) \in 1 .. Len(ss)
    BY <1>2, EmptySeq
  <2> QED
    BY <2>1, <2>2
<1> QED
  BY <1>1, <1>2

(* A beginning of ss is a shorter one and one more. *)
LEMMA Beginnings ==
    ASSUME NEW S, NEW ss \in Seq(S), NEW i \in 1 .. Len(ss)
    PROVE  /\ i = 1 => SubSeq(ss, 1, i) = <<ss[i]>>
           /\ i # 1 => SubSeq(ss, 1, i) = Append(SubSeq(ss, 1, i - 1), ss[i])
<1>1. Len(ss) \in Nat /\ i \in Nat /\ ss[i] \in S /\ \A p \in 1 .. i : ss[p] \in S
  OBVIOUS
<1>2. /\ SubSeq(ss, 1, i) \in Seq(S) /\ Len(SubSeq(ss, 1, i)) = i
      /\ \A p \in 1 .. i : SubSeq(ss, 1, i)[p] = ss[p]
  BY <1>1
<1>3. CASE i = 1
  <2>1. <<ss[i]>> \in Seq(S) /\ Len(<<ss[i]>>) = 1 /\ <<ss[i]>>[1] = ss[i]
    BY <1>1
  <2>2. \A p \in 1 .. Len(SubSeq(ss, 1, i)) : SubSeq(ss, 1, i)[p] = <<ss[i]>>[p]
    BY <1>2, <1>3, <2>1
  <2> QED
    BY Zenon, <1>2, <1>3, <2>1, <2>2, SeqEqual
<1>4. CASE i # 1
  <2>1. /\ SubSeq(ss, 1, i - 1) \in Seq(S) /\ Len(SubSeq(ss, 1, i - 1)) = i - 1
        /\ \A p \in 1 .. i - 1 : SubSeq(ss, 1, i - 1)[p] = ss[p]
    BY <1>1, <1>4
  <2> DEFINE t == Append(SubSeq(ss, 1, i - 1), ss[i])
  <2>2. /\ t \in Seq(S) /\ Len(t) = i /\ t[i] = ss[i]
        /\ \A p \in 1 .. i - 1 : t[p] = ss[p]
    BY <1>1, <2>1, AppendProperties
  <2> HIDE DEF t
  <2>3. \A p \in 1 .. i : SubSeq(ss, 1, i)[p] = t[p]
    BY <1>1, <1>2, <2>2
  <2>4. SubSeq(ss, 1, i) = t
    BY <1>2, <2>2, <2>3, SeqEqual
  <2> QED
    BY <1>4, <2>4 DEF t
<1> QED
  BY <1>3, <1>4

(* split undoes join of texts without the separator. *)
LEMMA SplitJoin ==
    ASSUME NEW S, NEW ss \in Seq(Seq(S)), ss # <<>>, NEW c \in S,
           \A i \in 1 .. Len(ss) : c \notin Range(ss[i])
    PROVE  Split(Join(ss, c), c) = ss
<1> DEFINE n == Len(ss)
<1>1. PICK u \in [1 .. n -> Seq(S)] : Joins(u, n, ss, c) /\ Join(ss, c) = u[n]
  BY JoinShape
<1>2. n \in Nat /\ n \in 1 .. n /\ \A i \in 1 .. n : ss[i] \in Seq(S) /\ u[i] \in Seq(S)
  <2>1. Len(ss) \in Nat \ {0} /\ \A i \in 1 .. n : ss[i] \in Seq(S)
    BY EmptySeq
  <2>2. \A i \in 1 .. n : u[i] \in Seq(S)
    BY <1>1
  <2> QED
    BY <2>1, <2>2
<1>3. \A i \in 1 .. n : Split(u[i], c) = SubSeq(ss, 1, i)
  <2> DEFINE T == {i \in 1 .. n : Split(u[i], c) # SubSeq(ss, 1, i)}
  <2> SUFFICES ASSUME T # {} PROVE FALSE
    BY Zenon
  <2>1. T \subseteq Nat
    OBVIOUS
  <2>2. PICK i \in T : \A k \in T : i <= k
    BY Zenon, <2>1, Least
  <2>3. i \in 1 .. n /\ Split(u[i], c) # SubSeq(ss, 1, i)
    OBVIOUS
  <2>4. u[i] = IF i = 1 THEN ss[i] ELSE u[i - 1] \o <<c>> \o ss[i]
    BY Zenon, <1>1, <2>3 DEF Joins
  <2>5. SubSeq(ss, 1, i) = IF i = 1 THEN <<ss[1]>> ELSE Append(SubSeq(ss, 1, i - 1), ss[i])
    BY Zenon, <2>3, Beginnings
  <2>6. CASE i = 1
    <3>1. Split(ss[1], c) = <<ss[1]>>
      BY <1>2, <2>6, SplitSole
    <3> QED
      BY <2>3, <2>4, <2>5, <2>6, <3>1
  <2>7. CASE i # 1
    <3>1. i - 1 \in 1 .. n /\ i - 1 \notin T
      <4> HIDE DEF T
      <4> QED
        BY <1>2, <2>2, <2>3, <2>7
    <3>2. Split(u[i - 1], c) = SubSeq(ss, 1, i - 1)
      BY <3>1
    <3>3. Split(u[i - 1] \o <<c>> \o ss[i], c) = Append(Split(u[i - 1], c), ss[i])
      <4>1. u[i - 1] \in Seq(S) /\ ss[i] \in Seq(S) /\ c \notin Range(ss[i])
        BY <1>2, <2>3, <3>1
      <4>2. AddsPiece(u[i - 1], c, ss[i])
        BY <4>1, SplitAppend
      <4> QED
        BY Zenon, <4>2 DEF AddsPiece
    <3> QED
      BY Zenon, <2>3, <2>4, <2>5, <2>7, <3>2, <3>3
  <2> QED
    BY <2>6, <2>7
<1> QED
  BY Zenon, <1>1, <1>2, <1>3, SubSeqFull

-------------------------------------------------------------------------------
(* The order of keys *)

(* Different tokens have different ranks. *)
LEMMA Ranks ==
    \A c, d \in Range(Tokens) : Rank(c) \in Int /\ (Rank(c) = Rank(d) => c = d)
<1>2. \A i \in DOMAIN Tokens : i \in Int
  BY DEF Tokens, Stamps
<1>3. \A c \in Range(Tokens) : \E i \in DOMAIN Tokens : Tokens[i] = c
  BY Zenon DEF Range
<1>4. \A c \in Range(Tokens) : Rank(c) \in DOMAIN Tokens /\ Tokens[Rank(c)] = c
  BY <1>3, Zenon DEF Rank
<1> QED
  BY <1>2, <1>4

(* A text is not before itself. *)
LEMMA BeforeIrreflexive == \A s \in Text : ~TextBefore(s, s)
<1> SUFFICES ASSUME NEW s \in Text, NEW i \in DOMAIN s, i <= Len(s) => Rank(s[i]) < Rank(s[i])
             PROVE  FALSE
  BY Zenon DEF TextBefore
<1>1. i <= Len(s) /\ s[i] \in Range(Tokens)
  BY DEF Text
<1>2. Rank(s[i]) \in Int
  BY <1>1, Ranks
<1> QED
  BY <1>1, <1>2

(* Of two different texts one is before the other. *)
LEMMA BeforeTotal == \A s, t \in Text : s = t \/ TextBefore(s, t) \/ TextBefore(t, s)
<1> SUFFICES ASSUME NEW s \in Text, NEW t \in Text, s # t
             PROVE  TextBefore(s, t) \/ TextBefore(t, s)
  OBVIOUS
<1>1. /\ Len(s) \in Nat /\ Len(t) \in Nat /\ DOMAIN s = 1 .. Len(s) /\ DOMAIN t = 1 .. Len(t)
      /\ \A i \in 1 .. Len(s) : s[i] \in Range(Tokens)
      /\ \A i \in 1 .. Len(t) : t[i] \in Range(Tokens)
  BY DEF Text
<1> DEFINE T == {i \in 1 .. Len(s) : i <= Len(t) /\ s[i] # t[i]}
<1>2. CASE T = {}
  <2>1. \A i \in 1 .. Len(s) : i <= Len(t) => s[i] = t[i]
    BY <1>2
  <2>2. Len(s) # Len(t)
    <3> SUFFICES ASSUME Len(s) = Len(t) PROVE FALSE
      OBVIOUS
    <3>1. \A i \in 1 .. Len(s) : s[i] = t[i]
      BY <1>1, <2>1
    <3> QED
      BY <3>1, SeqEqual DEF Text
  <2>3. CASE Len(s) < Len(t)
    <3> DEFINE i == Len(s) + 1
    <3>1. i \in DOMAIN t /\ i <= Len(s) + 1 /\ ~(i <= Len(s))
      BY <1>1, <2>3
    <3>2. \A j \in 1 .. i - 1 : s[j] = t[j]
      BY <1>1, <2>1, <2>3
    <3> QED
      BY <3>1, <3>2 DEF TextBefore
  <2>4. CASE Len(t) < Len(s)
    <3> DEFINE i == Len(t) + 1
    <3>1. i \in DOMAIN s /\ i <= Len(t) + 1 /\ ~(i <= Len(t))
      BY <1>1, <2>4
    <3>2. \A j \in 1 .. i - 1 : t[j] = s[j]
      BY <1>1, <2>1, <2>4
    <3> QED
      BY <3>1, <3>2 DEF TextBefore
  <2>5. Len(s) < Len(t) \/ Len(t) < Len(s)
    <3>1. Len(s) \in Nat /\ Len(t) \in Nat
      BY <1>1
    <3> QED
      BY <2>2, <3>1
  <2> QED
    BY <2>3, <2>4, <2>5
<1>3. CASE T # {}
  <2>1. T \subseteq Nat
    OBVIOUS
  <2>2. PICK i \in T : \A k \in T : i <= k
    BY Zenon, <1>3, <2>1, Least
  <2>3. i \in 1 .. Len(s) /\ i \in 1 .. Len(t) /\ s[i] # t[i]
    BY <1>1
  <2>4. \A j \in 1 .. i - 1 : s[j] = t[j]
    <3> TAKE j \in 1 .. i - 1
    <3>1. j \notin T
      <4> HIDE DEF T
      <4> QED
        BY <1>1, <2>2, <2>3
    <3> QED
      BY <1>1, <2>3, <3>1
  <2>5. Rank(s[i]) \in Int /\ Rank(t[i]) \in Int /\ Rank(s[i]) # Rank(t[i])
    BY <1>1, <2>3, Ranks
  <2>6. CASE Rank(s[i]) < Rank(t[i])
    BY <1>1, <2>3, <2>4, <2>6 DEF TextBefore
  <2>7. CASE Rank(t[i]) < Rank(s[i])
    BY <1>1, <2>3, <2>4, <2>7 DEF TextBefore
  <2> QED
    BY <2>5, <2>6, <2>7
<1> QED
  BY <1>2, <1>3

(* The order of texts is transitive. *)
LEMMA BeforeTransitive ==
    \A s, t, u \in Text : TextBefore(s, t) /\ TextBefore(t, u) => TextBefore(s, u)
<1> SUFFICES ASSUME NEW s \in Text, NEW t \in Text, NEW u \in Text,
                    TextBefore(s, t), TextBefore(t, u)
             PROVE  TextBefore(s, u)
  OBVIOUS
<1>1. /\ Len(s) \in Nat /\ Len(t) \in Nat /\ Len(u) \in Nat
      /\ DOMAIN t = 1 .. Len(t) /\ DOMAIN u = 1 .. Len(u)
      /\ \A i \in 1 .. Len(s) : s[i] \in Range(Tokens)
      /\ \A i \in 1 .. Len(t) : t[i] \in Range(Tokens)
      /\ \A i \in 1 .. Len(u) : u[i] \in Range(Tokens)
  BY DEF Text
<1>2. PICK i \in 1 .. Len(t) :
         /\ i <= Len(s) + 1
         /\ \A p \in 1 .. i - 1 : s[p] = t[p]
         /\ i <= Len(s) => Rank(s[i]) < Rank(t[i])
  BY <1>1 DEF TextBefore
<1>3. PICK j \in 1 .. Len(u) :
         /\ j <= Len(t) + 1
         /\ \A p \in 1 .. j - 1 : t[p] = u[p]
         /\ j <= Len(t) => Rank(t[j]) < Rank(u[j])
  BY <1>1 DEF TextBefore
<1>4. CASE i < j
  <2>1. i \in 1 .. Len(u) /\ u[i] = t[i]
    BY <1>1, <1>2, <1>3, <1>4
  <2>2. \A p \in 1 .. i - 1 : s[p] = u[p]
    BY <1>1, <1>2, <1>3, <1>4
  <2> QED
    BY <1>1, <1>2, <2>1, <2>2 DEF TextBefore
<1>5. CASE j < i
  <2>1. j <= Len(s) /\ j <= Len(t) /\ s[j] = t[j]
    BY <1>1, <1>2, <1>3, <1>5
  <2>2. \A p \in 1 .. j - 1 : s[p] = u[p]
    BY <1>1, <1>2, <1>3, <1>5
  <2>3. Rank(s[j]) < Rank(u[j])
    BY <1>3, <2>1
  <2>4. j \in DOMAIN u /\ j <= Len(s) + 1
    BY <1>1, <1>3, <2>1
  <2> QED
    BY <2>2, <2>3, <2>4, ZenonT(60) DEF TextBefore
<1>6. CASE i = j
  <2>1. \A p \in 1 .. i - 1 : s[p] = u[p]
    BY <1>1, <1>2, <1>3, <1>6
  <2>2. Rank(t[i]) < Rank(u[i]) /\ i \in 1 .. Len(u)
    BY <1>1, <1>2, <1>3, <1>6
  <2>3. i <= Len(s) => Rank(s[i]) < Rank(u[i])
    <3> SUFFICES ASSUME i <= Len(s) PROVE Rank(s[i]) < Rank(u[i])
      OBVIOUS
    <3>1. Rank(s[i]) \in Int /\ Rank(t[i]) \in Int /\ Rank(u[i]) \in Int
      BY <1>1, <1>2, <2>2, Ranks
    <3> QED
      BY <1>2, <2>2, <3>1
  <2> QED
    BY <1>1, <1>2, <2>1, <2>2, <2>3 DEF TextBefore
<1> QED
  BY <1>4, <1>5, <1>6

IsKeys(keys, kv) ==
    /\ Cardinality(DOMAIN kv) \in Nat
    /\ keys \in [1 .. Cardinality(DOMAIN kv) -> DOMAIN kv]
    /\ \A i, j \in 1 .. Cardinality(DOMAIN kv) :
          i < j => TextBefore(keys[i], keys[j]) /\ keys[i] # keys[j]
    /\ \A k \in DOMAIN kv : \E i \in 1 .. Cardinality(DOMAIN kv) : keys[i] = k

(* BTreeMap::iter has every key once, in their order. *)
LEMMA KeysSorted ==
    ASSUME NEW kv, IsFiniteSet(DOMAIN kv), DOMAIN kv \subseteq Text
    PROVE  IsKeys(SortedKeys(kv), kv)
<1> DEFINE D == DOMAIN kv
           n == Cardinality(D)
           R == {p \in D \X D : TextBefore(p[1], p[2])}
           sorted(f) == \A i, j \in DOMAIN f : i < j => TextBefore(f[i], f[j])
           keys == SortedKeys(kv)
<1>1. \A a, b \in D : <<a, b>> \in R <=> TextBefore(a, b)
  OBVIOUS
<1> HIDE DEF R
<1>2. Orders(R, D)
  <2>1. \A a, b \in D : a = b \/ TextBefore(a, b) \/ TextBefore(b, a)
    BY BeforeTotal, Zenon
  <2>2. \A a, b, c \in D : TextBefore(a, b) /\ TextBefore(b, c) => TextBefore(a, c)
    BY BeforeTransitive, Zenon
  <2>3. \A a \in D : ~TextBefore(a, a)
    BY BeforeIrreflexive, Zenon
  <2>4. \A a, b \in D : TextBefore(a, b) => a # b /\ ~TextBefore(b, a)
    BY <2>2, <2>3, Zenon
  <2> QED
    BY <1>1, <2>1, <2>2, <2>4, ZenonT(60) DEF Orders
<1>3. n \in Nat
  BY FS_CardinalityType
<1>4. PICK f \in [1 .. n -> D] : Ascends(f, R)
  BY <1>2, HasEnumeration
<1>5. \A g \in [1 .. n -> D] : sorted(g) <=> Ascends(g, R)
  BY Zenon, <1>1 DEF Ascends
<1>6. keys = CHOOSE g \in [1 .. n -> D] : sorted(g)
  BY Zenon DEF SortedKeys
<1> HIDE DEF keys, sorted
<1>7. keys \in [1 .. n -> D] /\ sorted(keys)
  BY <1>4, <1>5, <1>6, Zenon
<1>8. Ascends(keys, R)
  BY <1>5, <1>7
<1> HIDE DEF n
<1>9. \A k \in D : \E i \in 1 .. n : keys[i] = k
  BY ZenonT(60), <1>2, <1>7, <1>8, EnumerationComplete DEF n
<1>10. \A i, j \in 1 .. n : i < j => TextBefore(keys[i], keys[j]) /\ keys[i] # keys[j]
  <2>1. \A i, j \in 1 .. n : i < j => <<keys[i], keys[j]>> \in R
    BY <1>7, <1>8 DEF Ascends
  <2>2. \A i \in 1 .. n : keys[i] \in D
    BY <1>7
  <2> QED
    BY Zenon, <1>1, <1>2, <2>1, <2>2 DEF Orders
<1> HIDE DEF D
<1>11. IsKeys(keys, kv)
  BY <1>3, <1>7, <1>9, <1>10 DEF IsKeys, n, D
<1> QED
  BY <1>11 DEF keys

-------------------------------------------------------------------------------
(* Parts of a kv bag *)

(* Two trimmed texts around a token that trim keeps are a trimmed text. *)
LEMMA SeparatedTrimmed ==
    ASSUME NEW S, NEW l \in Seq(S), NEW b \in Seq(S), NEW c \in S,
           IsTrimmed(l), IsTrimmed(b), c \notin White
    PROVE  IsTrimmed(l \o <<c>> \o b)
<1> DEFINE s == l \o <<c>> \o b
<1>1. /\ s \in Seq(S) /\ Len(s) = Len(l) + 1 + Len(b)
      /\ \A p \in 1 .. Len(l) : s[p] = l[p]
      /\ s[Len(l) + 1] = c
      /\ \A p \in 1 .. Len(b) : s[Len(l) + 1 + p] = b[p]
  BY Separated DEF IsSeparated
<1> HIDE DEF s
<1>2. s[1] \notin White
  <2>1. CASE l = <<>>
    <3>1. Len(l) + 1 = 1
      BY <2>1
    <3> QED
      BY <1>1, <3>1
  <2>2. CASE l # <<>>
    BY <1>1, <2>2, EmptySeq DEF IsTrimmed
  <2> QED
    BY <2>1, <2>2
<1>3. s[Len(s)] \notin White
  <2>1. CASE b = <<>>
    <3>1. Len(s) = Len(l) + 1
      BY <1>1, <2>1
    <3> QED
      BY <1>1, <3>1
  <2>2. CASE b # <<>>
    <3>1. Len(b) \in 1 .. Len(b) /\ b[Len(b)] \notin White
      BY <2>2, EmptySeq DEF IsTrimmed
    <3> QED
      BY <1>1, <3>1
  <2> QED
    BY <2>1, <2>2
<1> QED
  BY <1>2, <1>3 DEF IsTrimmed, s

(* The tokens of two texts and of the one between them. *)
LEMMA SeparatedRange ==
    ASSUME NEW S, NEW l \in Seq(S), NEW b \in Seq(S), NEW c \in S, NEW d,
           d \notin Range(l), d \notin Range(b), d # c
    PROVE  d \notin Range(l \o <<c>> \o b)
<1> DEFINE s == l \o <<c>> \o b
<1>1. /\ s \in Seq(S) /\ Len(s) = Len(l) + 1 + Len(b)
      /\ \A p \in 1 .. Len(l) : s[p] = l[p]
      /\ s[Len(l) + 1] = c
      /\ \A p \in 1 .. Len(b) : s[Len(l) + 1 + p] = b[p]
  BY Separated DEF IsSeparated
<1> HIDE DEF s
<1>2. /\ Len(l) \in Nat /\ Len(b) \in Nat
      /\ \A p \in 1 .. Len(l) : l[p] # d
      /\ \A p \in 1 .. Len(b) : b[p] # d
  BY DEF Range
<1>3. ASSUME NEW e \in 1 .. Len(s) PROVE s[e] # d
  <2>1. CASE e \in 1 .. Len(l)
    BY <1>1, <1>2, <2>1
  <2>2. CASE e = Len(l) + 1
    BY <1>1, <2>2
  <2>3. CASE e > Len(l) + 1
    <3>1. e - Len(l) - 1 \in 1 .. Len(b) /\ Len(l) + 1 + (e - Len(l) - 1) = e
      BY <1>1, <1>2, <2>3
    <3> QED
      BY ZenonT(60), <1>1, <1>2, <3>1
  <2> QED
    BY <1>2, <2>1, <2>2, <2>3
<1>4. DOMAIN s = 1 .. Len(s)
  BY <1>1
<1> QED
  BY <1>3, <1>4 DEF Range, s

(* What holds of every piece holds of their join: it is trimmed, it has no  *)
(* token d but for the separator, and it begins like the first piece.       *)
LEMMA JoinKeeps ==
    ASSUME NEW S, NEW ss \in Seq(Seq(S)), ss # <<>>, NEW c \in S
    PROVE  /\ (c \notin White /\ \A i \in 1 .. Len(ss) : IsTrimmed(ss[i])) => IsTrimmed(Join(ss, c))
           /\ \A d : (d # c /\ \A i \in 1 .. Len(ss) : d \notin Range(ss[i]))
                       => d \notin Range(Join(ss, c))
           /\ ss[1] # <<>> => Join(ss, c) # <<>> /\ Join(ss, c)[1] = ss[1][1]
<1> DEFINE n == Len(ss)
           trims == c \notin White /\ \A i \in 1 .. n : IsTrimmed(ss[i])
           free(d) == d # c /\ \A i \in 1 .. n : d \notin Range(ss[i])
           P(s) == /\ trims => IsTrimmed(s)
                   /\ \A d : free(d) => d \notin Range(s)
                   /\ ss[1] # <<>> => s # <<>> /\ s[1] = ss[1][1]
<1>1. PICK u \in [1 .. n -> Seq(S)] : Joins(u, n, ss, c) /\ Join(ss, c) = u[n]
  BY JoinShape
<1>2. n \in Nat /\ n \in 1 .. n /\ \A i \in 1 .. n : ss[i] \in Seq(S) /\ u[i] \in Seq(S)
  <2>1. Len(ss) \in Nat \ {0} /\ \A i \in 1 .. n : ss[i] \in Seq(S)
    BY EmptySeq
  <2>2. \A i \in 1 .. n : u[i] \in Seq(S)
    BY Zenon, <1>1
  <2> QED
    BY <2>1, <2>2
<1>3. \A i \in 1 .. n : P(u[i])
  <2> DEFINE T == {i \in 1 .. n : ~P(u[i])}
  <2> SUFFICES ASSUME T # {} PROVE FALSE
    BY Zenon
  <2> HIDE DEF P
  <2>1. T \subseteq Nat
    OBVIOUS
  <2>2. PICK i \in T : \A k \in T : i <= k
    BY Zenon, <2>1, Least
  <2>3. i \in 1 .. n /\ ~P(u[i])
    OBVIOUS
  <2>4. u[i] = IF i = 1 THEN ss[i] ELSE u[i - 1] \o <<c>> \o ss[i]
    BY Zenon, <1>1, <2>3 DEF Joins
  <2>5. i # 1
    <3> SUFFICES ASSUME i = 1 PROVE FALSE
      OBVIOUS
    <3>1. u[i] = ss[1]
      BY <2>4
    <3>2. P(ss[1])
      BY <2>3, Zenon DEF P
    <3> QED
      BY <2>3, <3>1, <3>2
  <2>6. i - 1 \in 1 .. n /\ i - 1 \notin T
    <3> HIDE DEF T
    <3> QED
      BY <1>2, <2>2, <2>3, <2>5
  <2>7. P(u[i - 1])
    BY <2>6
  <2> DEFINE l == u[i - 1]
             b == ss[i]
             s == u[i]
  <2>8. l \in Seq(S) /\ b \in Seq(S) /\ s = l \o <<c>> \o b /\ P(l) /\ i \in 1 .. n /\ b = ss[i]
    BY Zenon, <1>2, <2>3, <2>4, <2>5, <2>6, <2>7
  <2> HIDE DEF l, b, s
  <2>9. trims => IsTrimmed(s)
    BY <2>8, SeparatedTrimmed DEF P
  <2>10. \A d : free(d) => d \notin Range(s)
    BY <2>8, SeparatedRange DEF P
  <2>11. ss[1] # <<>> => s # <<>> /\ s[1] = ss[1][1]
    <3> SUFFICES ASSUME ss[1] # <<>> PROVE s # <<>> /\ s[1] = ss[1][1]
      OBVIOUS
    <3>1. l # <<>> /\ l[1] = ss[1][1]
      BY <2>8 DEF P
    <3>2. Len(l) \in Nat \ {0}
      BY <2>8, <3>1, EmptySeq
    <3>3. s \in Seq(S) /\ IsSeparated(s, l, c, b)
      BY <2>8, Separated
    <3>4. Len(s) # 0 /\ s[1] = l[1]
      BY <3>2, <3>3 DEF IsSeparated
    <3> QED
      BY <3>1, <3>3, <3>4
  <2>12. P(s)
    BY <2>9, <2>10, <2>11, Zenon DEF P
  <2> QED
    BY <2>3, <2>12 DEF s
<1>4. P(Join(ss, c))
  BY Zenon, <1>1, <1>2, <1>3
<1> QED
  BY <1>4, Zenon

(* Separators differ, and trim keeps them but for the TAB. *)
LEMMA TokensDiffer ==
    /\ SEMI \notin White /\ "=" \notin White
    /\ SEMI # "=" /\ SEMI # TAB /\ "=" # TAB
    /\ {"ok", "info", "warn", "fail", "unknown", "true"} \cap (White \cup {SEMI, "="}) = {}
    /\ {"00:00", "00:01", "00:02", "00:03"} \cap (White \cup {SEMI, "=", "#"}) = {}
BY ZenonT(60) DEF White, TAB, NL, SPACE, SEMI

IsConcatenated(s, l, b) ==
    /\ Len(s) = Len(l) + Len(b)
    /\ \A i \in 1 .. Len(l) : s[i] = l[i]
    /\ \A i \in 1 .. Len(b) : s[i + Len(l)] = b[i]

(* The tokens of two texts one after the other. *)
LEMMA Concatenated ==
    ASSUME NEW S, NEW l \in Seq(S), NEW b \in Seq(S)
    PROVE  l \o b \in Seq(S) /\ IsConcatenated(l \o b, l, b)
BY DEF IsConcatenated

(* The tokens the codec looks at are tokens. *)
LEMMA TokensHas ==
    {TAB, SEMI, "=", "true", "ok", "info", "warn", "fail", "unknown"} \cup Range(Stamps)
        \subseteq Range(Tokens)
<1> DEFINE A == <<TAB, NL, SPACE, "#">>
           B == <<"1", "2", SEMI, "=", "a", "b", "desc", "error", "fail", "fatal", "info", "ok",
                  "true", "ttl", "unknown", "warn", "x">>
           S == Range(A) \cup Range(Stamps) \cup Range(B)
<1>1. /\ Len(A) = 4 /\ A[1] = TAB /\ A \in Seq(S)
      /\ Len(Stamps) = 4 /\ Stamps \in Seq(S)
      /\ Stamps[1] = "00:00" /\ Stamps[2] = "00:01" /\ Stamps[3] = "00:02" /\ Stamps[4] = "00:03"
      /\ Len(B) = 17 /\ B \in Seq(S)
      /\ B[3] = SEMI /\ B[4] = "=" /\ B[13] = "true" /\ B[12] = "ok" /\ B[11] = "info"
      /\ B[16] = "warn" /\ B[9] = "fail" /\ B[15] = "unknown"
  BY DEF Stamps, Range
<1>6. Tokens = A \o Stamps \o B
  BY Zenon DEF Tokens
<1> HIDE DEF A, B, S
<1>10. Len(A) = 4 /\ A \in Seq(S) /\ Len(Stamps) = 4 /\ Stamps \in Seq(S) /\ Len(B) = 17 /\ B \in Seq(S)
  BY <1>1
<1> DEFINE AS == A \o Stamps
<1>7. /\ AS \in Seq(S) /\ Len(AS) = 8
      /\ \A i \in 1 .. 4 : AS[i] = A[i] /\ AS[i + 4] = Stamps[i]
  <2> HIDE DEF AS
  <2>1. AS \in Seq(S) /\ IsConcatenated(AS, A, Stamps)
    BY <1>10, Concatenated DEF AS
  <2> QED
    BY <1>10, <2>1 DEF IsConcatenated
<1> HIDE DEF AS
<1>8. /\ AS \o B \in Seq(S) /\ Len(AS \o B) = 25
      /\ \A i \in 1 .. 8 : (AS \o B)[i] = AS[i]
      /\ \A i \in 1 .. 17 : (AS \o B)[i + 8] = B[i]
  <2> DEFINE s == AS \o B
  <2>1. s \in Seq(S) /\ IsConcatenated(s, AS, B)
    BY <1>7, <1>10, Concatenated
  <2> HIDE DEF s
  <2>2. /\ s \in Seq(S) /\ Len(s) = 25
        /\ \A i \in 1 .. 8 : s[i] = AS[i]
        /\ \A i \in 1 .. 17 : s[i + 8] = B[i]
    BY <1>7, <1>10, <2>1 DEF IsConcatenated
  <2> QED
    BY Zenon, <2>2 DEF s
<1>9. /\ Tokens \in Seq(S) /\ Len(Tokens) = 25
      /\ \A i \in 1 .. 8 : Tokens[i] = AS[i]
      /\ \A i \in 1 .. 17 : Tokens[i + 8] = B[i]
  BY Zenon, <1>6, <1>8 DEF AS
<1>2. /\ DOMAIN Tokens = 1 .. 25
      /\ Tokens[1] = TAB /\ Tokens[11] = SEMI /\ Tokens[12] = "=" /\ Tokens[21] = "true"
      /\ Tokens[20] = "ok" /\ Tokens[19] = "info" /\ Tokens[24] = "warn" /\ Tokens[17] = "fail"
      /\ Tokens[23] = "unknown" /\ Tokens[5] = "00:00" /\ Tokens[6] = "00:01"
      /\ Tokens[7] = "00:02" /\ Tokens[8] = "00:03"
  <2>1. Tokens[1] = TAB
    BY <1>1, <1>7, <1>9
  <2>2. \A i \in 1 .. 4 : Tokens[i + 4] = Stamps[i]
    <3>1. \A i \in 1 .. 4 : i + 4 \in 1 .. 8
      OBVIOUS
    <3> QED
      BY Zenon, <1>7, <1>9, <3>1
  <2>3. /\ Tokens[3 + 8] = B[3] /\ Tokens[4 + 8] = B[4] /\ Tokens[13 + 8] = B[13]
        /\ Tokens[12 + 8] = B[12] /\ Tokens[11 + 8] = B[11] /\ Tokens[16 + 8] = B[16]
        /\ Tokens[9 + 8] = B[9] /\ Tokens[15 + 8] = B[15]
    BY <1>9
  <2>4. /\ Tokens[1 + 4] = Stamps[1] /\ Tokens[2 + 4] = Stamps[2] /\ Tokens[3 + 4] = Stamps[3]
        /\ Tokens[4 + 4] = Stamps[4]
    BY <2>2
  <2> QED
    BY <1>1, <1>9, <2>1, <2>3, <2>4
<1>3. \A i \in 1 .. 25 : Tokens[i] \in Range(Tokens)
  BY <1>2 DEF Range
<1>4. {1, 5, 6, 7, 8, 11, 12, 17, 19, 20, 21, 23, 24} \subseteq 1 .. 25
  OBVIOUS
<1>5. Range(Stamps) = {"00:00", "00:01", "00:02", "00:03"}
  BY DEF Range, Stamps
<1> QED
  BY <1>2, <1>3, <1>4, <1>5

(* How a key and its value are written. *)
Part(k, v) == IF v = <<"true">> THEN k ELSE k \o <<"=">> \o v

CleanKey(k) ==
    k \in Text /\ IsTrimmed(k) /\ SEMI \notin Range(k) /\ "=" \notin Range(k) /\ TAB \notin Range(k)

CleanValue(v) ==
    v \in Text /\ IsTrimmed(v) /\ SEMI \notin Range(v) /\ TAB \notin Range(v)

(* What a key and a value are read back from. *)
LEMMA PartReads ==
    ASSUME NEW k, CleanKey(k), NEW v \in Text, IsTrimmed(v)
    PROVE  /\ KeyOf(Part(k, v)) = k /\ ValueOf(Part(k, v)) = v
           /\ Part(k, v) \in Text /\ IsTrimmed(Part(k, v))
           /\ Part(k, v) = <<>> <=> k = <<>> /\ v = <<"true">>
<1> DEFINE s == Part(k, v)
<1>1. k \in Text /\ IsTrimmed(k) /\ "=" \notin Range(k)
  BY DEF CleanKey
<1>2. CASE v = <<"true">>
  <2>1. s = k
    BY <1>2 DEF Part
  <2>2. Equals(k) = {}
    BY <1>1, Zenon DEF Equals, Range
  <2> QED
    BY <1>1, <1>2, <2>1, <2>2 DEF KeyOf, ValueOf
<1>3. CASE v # <<"true">>
  <2>0. "=" \in Range(Tokens) /\ "=" \notin White
    BY TokensHas, TokensDiffer
  <2>1. s = k \o <<"=">> \o v
    BY <1>3 DEF Part
  <2>2. s \in Text /\ IsSeparated(s, k, "=", v)
    BY <1>1, <2>0, <2>1, Separated DEF Text
  <2>3. IsTrimmed(s)
    BY <1>1, <2>0, <2>1, SeparatedTrimmed DEF Text
  <2> HIDE DEF s
  <2> DEFINE e == Len(k) + 1
  <2>4. e \in Equals(s) /\ \A i \in Equals(s) : e <= i
    <3>1. /\ Len(k) \in Nat /\ Len(v) \in Nat /\ Len(s) = Len(k) + 1 + Len(v)
          /\ DOMAIN s = 1 .. Len(s) /\ s[e] = "=" /\ \A p \in 1 .. Len(k) : s[p] = k[p]
      BY <2>2 DEF IsSeparated
    <3>2. \A p \in 1 .. Len(k) : k[p] # "="
      BY <1>1 DEF Range, Text
    <3> QED
      BY <3>1, <3>2 DEF Equals
  <2>5. Min(Equals(s)) = e
    <3>1. Equals(s) \subseteq 0 .. Len(s) /\ Len(s) \in Nat
      BY <2>2 DEF Equals, Text
    <3>2. Min(Equals(s)) \in Equals(s) /\ \A i \in Equals(s) : Min(Equals(s)) <= i
      BY <2>4, <3>1, MinMax
    <3>3. \A i \in Equals(s) : i \in Int
      BY <3>1
    <3> QED
      BY <2>4, <3>2, <3>3
  <2>6. SubSeq(s, 1, e - 1) = k
    <3>1. \A p \in 1 .. Len(k) : s[0 + p] = k[p]
      BY <2>2 DEF IsSeparated
    <3>2. SubSeq(s, 0 + 1, 0 + Len(k)) = k
      BY <1>1, <3>1, SubSeqReads DEF Text
    <3> QED
      BY <1>1, <3>2 DEF Text
  <2>7. SubSeq(s, e + 1, Len(s)) = v
    <3>1. \A p \in 1 .. Len(v) : s[e + p] = v[p]
      BY <2>2 DEF IsSeparated
    <3>2. e \in Int /\ Len(s) = e + Len(v)
      BY <2>2 DEF IsSeparated
    <3>3. SubSeq(s, e + 1, e + Len(v)) = v
      BY <3>1, <3>2, SubSeqReads DEF Text
    <3> QED
      BY <3>2, <3>3
  <2>8. Trim(k) = k /\ Trim(v) = v
    BY <1>1, TrimFixed DEF Text
  <2>9. KeyOf(s) = k /\ ValueOf(s) = v
    <3>1. Equals(s) # {}
      BY <2>4
    <3> QED
      BY <2>5, <2>6, <2>7, <2>8, <3>1, Zenon DEF KeyOf, ValueOf
  <2>10. s # <<>>
    BY <2>4 DEF Equals
  <2> QED
    BY <1>3, <2>2, <2>3, <2>9, <2>10 DEF s
<1> QED
  BY <1>2, <1>3

(* A part of a text is a text of the tokens there. *)
LEMMA SubSeqText ==
    ASSUME NEW S, NEW s \in Seq(S), NEW a \in Int, NEW b \in Int,
           \A p \in a .. b : p \in 1 .. Len(s)
    PROVE  /\ SubSeq(s, a, b) \in Seq(S)
           /\ \A x \in Range(SubSeq(s, a, b)) : \E p \in a .. b : x = s[p]
<1> DEFINE t == SubSeq(s, a, b)
<1>1. \A p \in a .. b : s[p] \in S
  OBVIOUS
<1>2. /\ t \in Seq(S)
      /\ Len(t) = IF a <= b THEN b - a + 1 ELSE 0
      /\ \A k \in 1 .. b - a + 1 : t[k] = s[a + k - 1]
  BY <1>1, SubSeqProperties
<1> HIDE DEF t
<1>3. \A k \in 1 .. Len(t) : \E p \in a .. b : t[k] = s[p]
  <2> TAKE k \in 1 .. Len(t)
  <2>1. k \in 1 .. b - a + 1 /\ a + k - 1 \in a .. b
    BY <1>2
  <2> QED
    BY <1>2, <2>1
<1>4. DOMAIN t = 1 .. Len(t)
  BY <1>2
<1>5. \A x \in Range(t) : \E p \in a .. b : x = s[p]
  BY <1>3, <1>4 DEF Range
<1> QED
  BY <1>2, <1>5 DEF t

(* Key and value of a part are clean, whatever the part. *)
LEMMA PartClean ==
    ASSUME NEW part, CleanValue(part)
    PROVE  CleanKey(KeyOf(part)) /\ CleanValue(ValueOf(part))
<1>1. part \in Text /\ IsTrimmed(part) /\ SEMI \notin Range(part) /\ TAB \notin Range(part)
  BY DEF CleanValue
<1>2. Len(part) \in Nat /\ DOMAIN part = 1 .. Len(part) /\ part \in Seq(Range(Tokens))
  BY <1>1 DEF Text
<1>3. CASE Equals(part) = {}
  <2>1. "=" \notin Range(part)
    BY <1>3, Zenon DEF Equals, Range
  <2>2. CleanValue(<<"true">>)
    <3>1. "true" \in Range(Tokens)
      BY TokensHas
    <3>2. "true" \notin White /\ "true" # SEMI /\ "true" # TAB
      BY TokensDiffer, Zenon DEF White
    <3>3. Range(<<"true">>) = {"true"} /\ <<"true">>[1] = "true" /\ Len(<<"true">>) = 1
      BY DEF Range
    <3>4. <<"true">> \in Text
      BY <3>1 DEF Text
    <3> QED
      BY <3>2, <3>3, <3>4 DEF CleanValue, IsTrimmed
  <2> QED
    BY <1>1, <1>3, <2>1, <2>2 DEF KeyOf, ValueOf, CleanKey
<1>4. CASE Equals(part) # {}
  <2> DEFINE e == Min(Equals(part))
             k == SubSeq(part, 1, e - 1)
             v == SubSeq(part, e + 1, Len(part))
  <2>1. e \in Equals(part) /\ \A i \in Equals(part) : e <= i
    <3>1. Equals(part) \subseteq 0 .. Len(part)
      BY <1>2 DEF Equals
    <3> QED
      BY <1>2, <1>4, <3>1, MinMax
  <2>2. e \in 1 .. Len(part)
    BY <1>2, <2>1 DEF Equals
  <2>3. KeyOf(part) = Trim(k) /\ ValueOf(part) = Trim(v)
    BY <1>4, Zenon DEF KeyOf, ValueOf
  <2> HIDE DEF e
  <2>4. k \in Text /\ \A x \in Range(k) : \E p \in 1 .. e - 1 : x = part[p]
    BY <1>2, <2>2, SubSeqText DEF Text
  <2>5. v \in Text /\ \A x \in Range(v) : \E p \in e + 1 .. Len(part) : x = part[p]
    BY <1>2, <2>2, SubSeqText DEF Text
  <2> HIDE DEF k, v
  <2>6. \A p \in 1 .. e - 1 : part[p] # "=" /\ part[p] # SEMI /\ part[p] # TAB
    <3>1. \A p \in 1 .. e - 1 : p \in 1 .. Len(part) /\ p \notin Equals(part)
      BY <1>2, <2>1, <2>2
    <3> QED
      BY <1>1, <1>2, <3>1 DEF Equals, Range
  <2>7. \A p \in e + 1 .. Len(part) : part[p] # SEMI /\ part[p] # TAB
    BY <1>1, <1>2, <2>2 DEF Range
  <2>8. "=" \notin Range(k) /\ SEMI \notin Range(k) /\ TAB \notin Range(k)
    BY <2>4, <2>6
  <2>9. SEMI \notin Range(v) /\ TAB \notin Range(v)
    BY <2>5, <2>7
  <2>10. Trim(k) \in Text /\ IsTrimmed(Trim(k)) /\ Range(Trim(k)) \subseteq Range(k)
    BY <2>4, TrimTrims DEF Text
  <2>11. Trim(v) \in Text /\ IsTrimmed(Trim(v)) /\ Range(Trim(v)) \subseteq Range(v)
    BY <2>5, TrimTrims DEF Text
  <2> QED
    BY <2>3, <2>8, <2>9, <2>10, <2>11 DEF CleanKey, CleanValue
<1> QED
  BY <1>3, <1>4

-------------------------------------------------------------------------------
(* kv bags *)

(* A kv bag as parse_kv_bag makes it. *)
IsBag(kv) ==
    /\ IsFiniteSet(DOMAIN kv)
    /\ kv = [k \in DOMAIN kv |-> kv[k]]
    /\ \A k \in DOMAIN kv : CleanKey(k) /\ CleanValue(kv[k])

(* The parts of a bag are trimmed texts without separators. *)
LEMMA PartsClean ==
    ASSUME NEW s \in Text, TAB \notin Range(s)
    PROVE  /\ KvParts(s) \in Seq(Text)
           /\ Len(KvParts(s)) = Len(Split(s, SEMI))
           /\ \A i \in 1 .. Len(KvParts(s)) : CleanValue(KvParts(s)[i])
<1> DEFINE pieces == Split(s, SEMI)
           n == Len(pieces)
           parts == KvParts(s)
<1>1. /\ pieces \in Seq(Text) /\ n \in Nat /\ DOMAIN pieces = 1 .. n
      /\ \A i \in 1 .. n : SEMI \notin Range(pieces[i]) /\ Range(pieces[i]) \subseteq Range(s)
  BY SplitPieces DEF Text
<1>2. parts = [i \in DOMAIN pieces |-> Trim(pieces[i])]
  BY Zenon DEF KvParts
<1> HIDE DEF pieces, n, parts
<1>3. ASSUME NEW i \in 1 .. n PROVE CleanValue(Trim(pieces[i]))
  <2>1. pieces[i] \in Text
    BY <1>1
  <2>2. /\ Trim(pieces[i]) \in Text /\ IsTrimmed(Trim(pieces[i]))
        /\ Range(Trim(pieces[i])) \subseteq Range(pieces[i])
    BY <2>1, TrimTrims DEF Text
  <2> QED
    BY <1>1, <2>2 DEF CleanValue
<1>4. \A i \in 1 .. n : parts[i] = Trim(pieces[i])
  BY <1>1, <1>2
<1>5. \A i \in 1 .. n : parts[i] \in Text
  BY <1>3, <1>4 DEF CleanValue
<1>6. parts \in [1 .. n -> Text]
  BY <1>1, <1>2, <1>4, <1>5
<1>7. parts \in Seq(Text) /\ Len(parts) = n
  BY <1>1, <1>6
<1> QED
  BY <1>3, <1>4, <1>7 DEF parts, n, pieces

(* What parse_kv_bag makes of the parts, for parts of any kind: the keys    *)
(* are finitely many, and each has the value of its last part.              *)
LEMMA LastPart ==
    ASSUME NEW parts \in Seq(Text), NEW k \in KeysIn(parts)
    PROVE  /\ Max(PartsOf(parts, k)) \in 1 .. Len(parts)
           /\ parts[Max(PartsOf(parts, k))] # <<>>
           /\ KeyOf(parts[Max(PartsOf(parts, k))]) = k
           /\ \A i \in PartsOf(parts, k) : i <= Max(PartsOf(parts, k))
<1> DEFINE I == PartsOf(parts, k)
<1>1. Len(parts) \in Nat /\ DOMAIN parts = 1 .. Len(parts)
  OBVIOUS
<1>2. I \subseteq 0 .. Len(parts) /\ \A i \in I : i \in 1 .. Len(parts) /\ parts[i] # <<>> /\ KeyOf(parts[i]) = k
  BY <1>1 DEF PartsOf
<1>3. I # {}
  BY Zenon DEF KeysIn, PartsOf
<1> HIDE DEF I
<1>4. Max(I) \in I /\ \A i \in I : i <= Max(I)
  BY Zenon, <1>1, <1>2, <1>3, MinMax
<1> QED
  BY <1>2, <1>4 DEF I

(* A bag has finitely many keys. *)
LEMMA KeysFinite ==
    ASSUME NEW parts \in Seq(Text)
    PROVE  IsFiniteSet(KeysIn(parts))
<1> DEFINE J == {j \in DOMAIN parts : parts[j] # <<>>}
           f == [i \in J |-> KeyOf(parts[i])]
<1>1. DOMAIN parts = 1 .. Len(parts) /\ Len(parts) \in Nat
  OBVIOUS
<1>2. IsFiniteSet(1 .. Len(parts))
  BY <1>1, FS_Interval
<1>3. IsFiniteSet(J)
  <2>1. J \in SUBSET (1 .. Len(parts))
    BY <1>1
  <2> QED
    BY <1>2, <2>1, FS_Subset
<1>4. KeysIn(parts) = {KeyOf(parts[i]) : i \in J}
  BY Zenon DEF KeysIn
<1> HIDE DEF J
<1>5. f \in [J -> KeysIn(parts)] /\ \A k \in KeysIn(parts) : \E i \in J : f[i] = k
  BY <1>4
<1> HIDE DEF f
<1>6. f \in Surjection(J, KeysIn(parts))
  BY <1>5 DEF Surjection
<1> QED
  BY <1>3, <1>6, FS_Surjection

(* Whatever text it is given, parse_kv_bag makes a bag of clean keys and    *)
(* values.                                                                  *)
LEMMA ParseIsBag ==
    ASSUME NEW s \in Text, TAB \notin Range(s)
    PROVE  IsBag(parse_kv_bag(s))
<1> DEFINE parts == KvParts(s)
           value(k) == ValueOf(parts[Max(PartsOf(parts, k))])
           kv == parse_kv_bag(s)
<1>1. kv = [k \in KeysIn(parts) |-> value(k)]
  BY Zenon DEF parse_kv_bag
<1>2. parts \in Seq(Text) /\ \A i \in 1 .. Len(parts) : CleanValue(parts[i])
  BY PartsClean
<1> HIDE DEF parts
<1>3. ASSUME NEW k \in KeysIn(parts) PROVE CleanKey(k) /\ CleanValue(value(k))
  <2> DEFINE m == Max(PartsOf(parts, k))
  <2>1. m \in 1 .. Len(parts) /\ KeyOf(parts[m]) = k
    BY <1>2, LastPart
  <2> HIDE DEF m
  <2>2. CleanValue(parts[m])
    BY <1>2, <2>1
  <2>3. CleanKey(KeyOf(parts[m])) /\ CleanValue(ValueOf(parts[m]))
    BY <2>2, PartClean
  <2> QED
    BY <2>1, <2>3 DEF m
<1> HIDE DEF value, kv
<1>4. DOMAIN kv = KeysIn(parts) /\ \A k \in KeysIn(parts) : kv[k] = value(k)
  BY <1>1
<1>5. IsFiniteSet(DOMAIN kv)
  BY <1>2, <1>4, KeysFinite
<1>6. kv = [k \in DOMAIN kv |-> kv[k]]
  BY <1>1
<1>7. \A k \in DOMAIN kv : CleanKey(k) /\ CleanValue(kv[k])
  BY <1>3, <1>4
<1> QED
  BY <1>5, <1>6, <1>7, Zenon DEF IsBag, kv

(* The parts serialize_kv_bag writes. *)
Written(kv) == [i \in DOMAIN SortedKeys(kv) |-> Part(SortedKeys(kv)[i], kv[SortedKeys(kv)[i]])]

(* serialize_kv_bag joins them. *)
LEMMA SerializeIs == \A kv : serialize_kv_bag(kv) = Join(Written(kv), SEMI)
BY Zenon DEF serialize_kv_bag, Written, Part

(* The parts ss that serialize_kv_bag writes of kv, one for every key: each *)
(* is read back as its key and value, and the bag s is read back as ss.     *)
IsWritten(ss, keys, kv, s) ==
    /\ ss \in Seq(Text)
    /\ \A i \in 1 .. Len(ss) :
          /\ ss[i] \in Text /\ IsTrimmed(ss[i])
          /\ keys[i] \in DOMAIN kv /\ KeyOf(ss[i]) = keys[i] /\ ValueOf(ss[i]) = kv[keys[i]]
          /\ ss[i] = <<>> <=> keys[i] = <<>> /\ kv[keys[i]] = <<"true">>
    /\ \A k \in DOMAIN kv : \E i \in 1 .. Len(ss) : keys[i] = k
    /\ s \in Text /\ IsTrimmed(s) /\ TAB \notin Range(s)
    /\ Len(ss) # 0 => Split(s, SEMI) = ss
    /\ Len(ss) = 0 => s = <<>>

(* What serialize_kv_bag writes of a parsed bag is written so. *)
LEMMA WrittenParts ==
    ASSUME NEW kv, IsBag(kv)
    PROVE  IsWritten(Written(kv), SortedKeys(kv), kv, serialize_kv_bag(kv))
<1> DEFINE n == Cardinality(DOMAIN kv)
           keys == SortedKeys(kv)
           ss == Written(kv)
           s == serialize_kv_bag(kv)
<1>1. \A k \in DOMAIN kv : CleanKey(k) /\ CleanValue(kv[k])
  BY Zenon DEF IsBag
<1>2. IsFiniteSet(DOMAIN kv) /\ DOMAIN kv \subseteq Text
  BY <1>1, Zenon DEF IsBag, CleanKey
<1>3. IsKeys(keys, kv)
  BY <1>2, KeysSorted
<1>4. /\ n \in Nat /\ DOMAIN keys = 1 .. n /\ \A i \in 1 .. n : keys[i] \in DOMAIN kv
      /\ \A k \in DOMAIN kv : \E i \in 1 .. n : keys[i] = k
      /\ \A i, j \in 1 .. n : i < j => keys[i] # keys[j]
  BY <1>3 DEF IsKeys
<1> HIDE DEF keys, n
<1>5. ss = [i \in 1 .. n |-> Part(keys[i], kv[keys[i]])]
  BY <1>4, Zenon DEF Written, keys
<1>6. s = Join(ss, SEMI)
  BY SerializeIs
<1> HIDE DEF ss, s
<1>7. ASSUME NEW i \in 1 .. n
      PROVE  /\ ss[i] \in Text /\ IsTrimmed(ss[i]) /\ SEMI \notin Range(ss[i]) /\ TAB \notin Range(ss[i])
             /\ KeyOf(ss[i]) = keys[i] /\ ValueOf(ss[i]) = kv[keys[i]]
             /\ ss[i] = <<>> <=> keys[i] = <<>> /\ kv[keys[i]] = <<"true">>
  <2> DEFINE k == keys[i]
             v == kv[k]
  <2>1. ss[i] = Part(k, v)
    BY <1>5
  <2>2. k \in DOMAIN kv
    BY <1>4
  <2>3. CleanKey(k) /\ CleanValue(v)
    BY <1>1, <2>2
  <2> HIDE DEF k, v
  <2>4. v \in Text /\ IsTrimmed(v)
    BY <2>3 DEF CleanValue
  <2>5. /\ KeyOf(Part(k, v)) = k /\ ValueOf(Part(k, v)) = v
        /\ Part(k, v) \in Text /\ IsTrimmed(Part(k, v))
        /\ Part(k, v) = <<>> <=> k = <<>> /\ v = <<"true">>
    BY <2>3, <2>4, PartReads
  <2>6. \A d \in {SEMI, TAB} : d \notin Range(Part(k, v))
    <3> TAKE d \in {SEMI, TAB}
    <3>1. d \notin Range(k) /\ d \notin Range(v) /\ d # "=" /\ k \in Text
      BY <2>3, TokensDiffer DEF CleanKey, CleanValue
    <3>2. d \notin Range(k \o <<"=">> \o v)
      BY <2>4, <3>1, TokensHas, SeparatedRange DEF Text
    <3> QED
      BY <3>1, <3>2 DEF Part
  <2> QED
    BY <2>1, <2>5, <2>6 DEF k, v
<1>8. ss \in Seq(Text) /\ Len(ss) = n
  <2>1. ss \in [1 .. n -> Text]
    BY <1>5, <1>7
  <2> QED
    BY <1>4, <2>1
<1>9. /\ s \in Text /\ IsTrimmed(s) /\ TAB \notin Range(s)
      /\ n # 0 => Split(s, SEMI) = ss
      /\ n = 0 => s = <<>>
  <2>0. SEMI \in Range(Tokens) /\ SEMI \notin White /\ TAB # SEMI
    BY TokensHas, TokensDiffer
  <2>1. s \in Text
    BY <1>6, <1>8, <2>0, JoinIsText DEF Text
  <2>2. CASE n = 0
    <3>1. ss = <<>>
      BY <1>8, <2>2
    <3>2. s = <<>>
      BY <1>6, <3>1 DEF Join
    <3> QED
      BY <2>1, <2>2, <3>2 DEF IsTrimmed, Range
  <2>3. CASE n # 0
    <3>1. ss # <<>> /\ ss \in Seq(Seq(Range(Tokens)))
      BY <1>8, <2>3 DEF Text
    <3>2. /\ \A i \in 1 .. Len(ss) : IsTrimmed(ss[i])
          /\ \A i \in 1 .. Len(ss) : SEMI \notin Range(ss[i])
          /\ \A i \in 1 .. Len(ss) : TAB \notin Range(ss[i])
      BY <1>7, <1>8
    <3>3. IsTrimmed(Join(ss, SEMI)) /\ TAB \notin Range(Join(ss, SEMI))
      BY <2>0, <3>1, <3>2, JoinKeeps
    <3>4. Split(Join(ss, SEMI), SEMI) = ss
      BY <2>0, <3>1, <3>2, SplitJoin
    <3> QED
      BY <1>6, <2>1, <2>3, <3>3, <3>4
  <2> QED
    BY <2>2, <2>3
<1>10. IsWritten(ss, keys, kv, s)
  BY <1>4, <1>7, <1>8, <1>9 DEF IsWritten
<1> QED
  BY <1>10 DEF ss, keys, s

(* A bag survives serialize_kv_bag and parse_kv_bag but for a flag of the   *)
(* empty key.                                                               *)
LEMMA BagRoundTrip ==
    ASSUME NEW kv, IsBag(kv)
    PROVE  /\ serialize_kv_bag(kv) \in Text
           /\ IsTrimmed(serialize_kv_bag(kv))
           /\ TAB \notin Range(serialize_kv_bag(kv))
           /\ parse_kv_bag(serialize_kv_bag(kv)) = Expressible(kv)
<1> DEFINE keys == SortedKeys(kv)
           ss == Written(kv)
           s == serialize_kv_bag(kv)
           n == Len(ss)
<1>1. IsWritten(ss, keys, kv, s)
  BY WrittenParts
<1> HIDE DEF keys, ss, s
<1>2. ss \in Seq(Text) /\ n \in Nat /\ DOMAIN ss = 1 .. n
  BY <1>1 DEF IsWritten
<1> HIDE DEF n
<1>3. /\ \A i \in 1 .. n : keys[i] \in DOMAIN kv
      /\ \A k \in DOMAIN kv : \E i \in 1 .. n : keys[i] = k
  BY <1>1 DEF IsWritten, n
<1>4. \A i \in 1 .. n :
         /\ ss[i] \in Text /\ IsTrimmed(ss[i])
         /\ KeyOf(ss[i]) = keys[i] /\ ValueOf(ss[i]) = kv[keys[i]]
         /\ ss[i] = <<>> <=> keys[i] = <<>> /\ kv[keys[i]] = <<"true">>
  BY <1>1 DEF IsWritten, n
<1>5. ss \in Seq(Text) /\ Len(ss) = n
  BY <1>2 DEF n
<1>6. /\ s \in Text /\ IsTrimmed(s) /\ TAB \notin Range(s)
      /\ n # 0 => Split(s, SEMI) = ss
      /\ n = 0 => s = <<>>
  BY <1>1 DEF IsWritten, n
<1> DEFINE D == DOMAIN Expressible(kv)
           parts == KvParts(s)
           value(k) == ValueOf(parts[Max(PartsOf(parts, k))])
<1>7. /\ Expressible(kv) = [k \in D |-> kv[k]]
       /\ D = DOMAIN kv \ {j \in DOMAIN kv : j = <<>> /\ kv[j] = <<"true">>}
  BY Zenon DEF Expressible
<1>8. parse_kv_bag(s) = [k \in KeysIn(parts) |-> value(k)]
  BY Zenon DEF parse_kv_bag
<1>9. \A k \in D : k \in DOMAIN kv /\ ~(k = <<>> /\ kv[k] = <<"true">>)
  BY <1>7, Zenon
<1>10. \A k \in DOMAIN kv : k \in D \/ (k = <<>> /\ kv[k] = <<"true">>)
  BY <1>7, Zenon
<1> HIDE DEF D
<1>11. CASE n = 0
  <2>1. s = <<>> /\ s \in Seq(Range(Tokens)) /\ SEMI \notin Range(s)
    BY <1>6, <1>11 DEF Text, Range
  <2>2. Split(s, SEMI) = <<s>>
    BY Zenon, <2>1, SplitSole
  <2>3. Len(parts) = 1 /\ parts \in Seq(Text) /\ parts[1] = <<>>
    <3>1. parts = [i \in DOMAIN Split(s, SEMI) |-> Trim(Split(s, SEMI)[i])]
      BY Zenon DEF KvParts
    <3>2. Len(parts) = Len(Split(s, SEMI)) /\ parts \in Seq(Text)
      BY <1>6, PartsClean
    <3> HIDE DEF parts
    <3>3. DOMAIN <<s>> = 1 .. 1 /\ <<s>>[1] = <<>> /\ Len(<<s>>) = 1
      BY <2>1
    <3>4. Trim(<<>>) = <<>>
      BY DEF Trim
    <3> QED
      BY <2>2, <3>1, <3>2, <3>3, <3>4
  <2> HIDE DEF parts
  <2>4. KeysIn(parts) = {}
    BY <2>3 DEF KeysIn
  <2>5. D = {}
    BY <1>3, <1>9, <1>11
  <2> QED
    BY <1>6, <1>7, <1>8, <2>4, <2>5 DEF s
<1>12. CASE n # 0
  <2>1. parts = ss
    <3>1. parts = [i \in DOMAIN ss |-> Trim(ss[i])]
      BY <1>6, <1>12, Zenon DEF KvParts
    <3>2. DOMAIN ss = 1 .. n
      BY <1>2
    <3>3. \A i \in 1 .. n : Trim(ss[i]) = ss[i]
      BY <1>4, TrimFixed DEF Text
    <3>4. ss = [i \in DOMAIN ss |-> ss[i]]
      BY <1>5
    <3> HIDE DEF parts
    <3> QED
      BY <3>1, <3>2, <3>3, <3>4
  <2> HIDE DEF parts, value
  <2>2. DOMAIN ss = 1 .. n
    BY <1>2
  <2>3. \A i \in 1 .. n : ss[i] # <<>> <=> keys[i] \in D
    BY <1>3, <1>4, <1>9, <1>10
  <2>4. KeysIn(ss) = D
    <3>1. ASSUME NEW k \in KeysIn(ss) PROVE k \in D
      <4>1. PICK i \in 1 .. n : ss[i] # <<>> /\ k = KeyOf(ss[i])
        BY <2>2 DEF KeysIn
      <4> QED
        BY <1>4, <2>3, <4>1
    <3>2. ASSUME NEW k \in D PROVE k \in KeysIn(ss)
      <4>1. PICK i \in 1 .. n : keys[i] = k
        BY <1>3, <1>9
      <4>2. ss[i] # <<>> /\ KeyOf(ss[i]) = k
        BY <1>4, <2>3, <4>1
      <4> QED
        BY <2>2, <4>2 DEF KeysIn
    <3> QED
      BY <3>1, <3>2
  <2>5. ASSUME NEW k \in D PROVE value(k) = kv[k]
    <3> DEFINE m == Max(PartsOf(ss, k))
    <3>1. m \in 1 .. Len(ss) /\ KeyOf(ss[m]) = k
      BY <1>5, <2>4, LastPart
    <3>2. value(k) = ValueOf(ss[m])
      BY <2>1 DEF value
    <3> HIDE DEF m
    <3> QED
      BY <1>4, <1>5, <3>1, <3>2
  <2> QED
    BY <1>6, <1>7, <1>8, <2>1, <2>4, <2>5 DEF s
<1> QED
  BY <1>11, <1>12

-------------------------------------------------------------------------------
(* Frames *)

Levels == {"ok", "info", "warn", "fail", "unknown"}

(* Level::parse gives a level, and of what as_str writes the level itself. *)
LEMMA LevelReads ==
    /\ \A s : LevelParse(s) \in Levels
    /\ \A l \in Levels :
          /\ as_str(l) \in Text /\ IsTrimmed(as_str(l)) /\ TAB \notin Range(as_str(l))
          /\ LevelParse(as_str(l)) = l
<1>1. DOMAIN LevelWords = {"ok", "info", "warn", "fail"}
  BY DEF LevelWords
<1>2. ASSUME NEW s PROVE LevelParse(s) \in Levels
  <2> DEFINE fits == {l \in DOMAIN LevelWords : \E w \in LevelWords[l] : Trim(s) = <<w>>}
  <2>1. LevelParse(s) = IF fits = {} THEN "unknown" ELSE CHOOSE l \in fits : TRUE
    BY Zenon DEF LevelParse
  <2>2. fits \subseteq {"ok", "info", "warn", "fail"}
    BY <1>1
  <2> HIDE DEF fits
  <2>3. fits # {} => (CHOOSE l \in fits : TRUE) \in fits
    BY Zenon
  <2> QED
    BY <2>1, <2>2, <2>3 DEF Levels
<1>3. ASSUME NEW l \in Levels
      PROVE  /\ as_str(l) \in Text /\ IsTrimmed(as_str(l)) /\ TAB \notin Range(as_str(l))
             /\ LevelParse(as_str(l)) = l
  <2>1. l \in Range(Tokens)
    BY TokensHas DEF Levels
  <2>2. l \notin White /\ l # TAB
    BY TokensDiffer, Zenon DEF Levels, White
  <2>3. as_str(l) = <<l>>
    BY DEF as_str
  <2>4. <<l>> \in Text /\ IsTrimmed(<<l>>) /\ TAB \notin Range(<<l>>)
    BY <2>1, <2>2 DEF Text, IsTrimmed, Range
  <2>5. Trim(<<l>>) = <<l>>
    BY Zenon, <2>4, TrimFixed DEF Text
  <2> DEFINE fits == {k \in DOMAIN LevelWords : \E w \in LevelWords[k] : Trim(<<l>>) = <<w>>}
  <2>6. LevelParse(<<l>>) = IF fits = {} THEN "unknown" ELSE CHOOSE k \in fits : TRUE
    BY Zenon DEF LevelParse
  <2>7. fits = {k \in DOMAIN LevelWords : l \in LevelWords[k]}
    BY <2>5
  <2> HIDE DEF fits
  <2>8. /\ l = "unknown" => fits = {}
        /\ l # "unknown" => fits = {l}
    BY <1>1, <2>7 DEF LevelWords, Levels
  <2> QED
    BY <2>3, <2>4, <2>6, <2>8
<1> QED
  BY <1>2, <1>3

(* A column of a frame, once parsed. *)
IsColumn(t) == t \in Text /\ IsTrimmed(t) /\ TAB \notin Range(t)

(* A frame that some hop has parsed. *)
IsFrame(f) ==
    /\ f = [ts |-> f.ts, kind |-> f.kind, scope |-> f.scope, id |-> f.id,
            level |-> f.level, msg |-> f.msg, kv |-> f.kv]
    /\ f.ts = <<>> \/ IsTimestamp(f.ts)
    /\ IsColumn(f.kind) /\ IsColumn(f.scope) /\ IsColumn(f.id) /\ IsColumn(f.msg)
    /\ f.level \in Levels
    /\ IsBag(f.kv)

(* When parse_tsv_line makes a frame of a line. *)
Accepted(l) ==
    /\ Trim(l) # <<>> /\ Trim(l)[1] # "#"
    /\ Len(Split(l, TAB)) >= 7
    /\ Trim(Split(l, TAB)[1]) = <<>> \/ IsTimestamp(Trim(Split(l, TAB)[1]))

(* It makes one frame, of the columns of the line, if it accepts the line.  *)
LEMMA ParseIs ==
    ASSUME NEW l \in Text
    PROVE  /\ Accepted(l) => parse_tsv_line(l) = Parsed("frame", <<ParsedFrame(Split(l, TAB))>>)
           /\ ~Accepted(l) => \E r \in {"none", "err"} : parse_tsv_line(l) = Parsed(r, <<>>)
<1> DEFINE cols == Split(l, TAB)
           skipped == Trim(l) = <<>> \/ Trim(l)[1] = "#"
           bad == Len(cols) < 7 \/ ~(Trim(cols[1]) = <<>> \/ IsTimestamp(Trim(cols[1])))
<1>1. parse_tsv_line(l) = CASE skipped          -> Parsed("none", <<>>)
                            [] ~skipped /\ bad  -> Parsed("err", <<>>)
                            [] ~skipped /\ ~bad -> Parsed("frame", <<ParsedFrame(cols)>>)
  BY Zenon DEF parse_tsv_line
<1>2. Len(cols) \in Nat
  BY SplitPieces DEF Text
<1>3. Accepted(l) <=> ~skipped /\ ~bad
  <2> HIDE DEF cols
  <2>1. Accepted(l) <=> /\ Trim(l) # <<>> /\ Trim(l)[1] # "#"
                        /\ Len(cols) >= 7
                        /\ Trim(cols[1]) = <<>> \/ IsTimestamp(Trim(cols[1]))
    BY Zenon DEF Accepted, cols
  <2> QED
    BY <1>2, <2>1
<1> HIDE DEF skipped, bad, cols
<1>4. /\ skipped => parse_tsv_line(l) = Parsed("none", <<>>)
      /\ ~skipped /\ bad => parse_tsv_line(l) = Parsed("err", <<>>)
      /\ ~skipped /\ ~bad => parse_tsv_line(l) = Parsed("frame", <<ParsedFrame(cols)>>)
  BY <1>1
<1> QED
  BY <1>3, <1>4 DEF cols

(* Trim leaves a first token that is no white space the first. *)
LEMMA TrimFirst ==
    ASSUME NEW S, NEW s \in Seq(S), s # <<>>, s[1] \notin White
    PROVE  Trim(s) # <<>> /\ Trim(s)[1] = s[1]
<1> DEFINE ink == {i \in DOMAIN s : s[i] \notin White}
<1>1. Len(s) \in Nat \ {0} /\ DOMAIN s = 1 .. Len(s)
  BY EmptySeq
<1>2. 1 \in ink /\ ink \subseteq 1 .. Len(s) /\ ink \subseteq 0 .. Len(s) /\ ink # {}
  BY <1>1
<1>3. Trim(s) = SubSeq(s, Min(ink), Max(ink))
  BY <1>2, Zenon DEF Trim
<1> HIDE DEF ink
<1>4. Min(ink) = 1 /\ Max(ink) \in 1 .. Len(s)
  <2>1. Len(s) \in Nat
    BY <1>1
  <2>2. Min(ink) \in ink /\ (\A j \in ink : Min(ink) <= j) /\ Max(ink) \in ink
    BY Zenon, <1>2, <2>1, MinMax
  <2>3. Min(ink) \in 1 .. Len(s) /\ Max(ink) \in 1 .. Len(s) /\ Min(ink) <= 1
    BY Zenon, <1>2, <2>2
  <2> QED
    BY <2>1, <2>3
<1> QED
  BY <1>1, <1>3, <1>4

(* A trimmed text without a TAB is a column, and a column is trimmed. *)
LEMMA ColumnTrims ==
    ASSUME NEW t \in Text
    PROVE  /\ TAB \notin Range(t) => IsColumn(Trim(t))
           /\ IsColumn(t) => Trim(t) = t
BY TrimTrims, TrimFixed DEF Text, IsColumn

(* What parse_tsv_line accepts it makes a frame with columns and a bag that *)
(* to_tsv_line can write.                                                   *)
LEMMA ParsedIsFrame ==
    ASSUME NEW l \in Text, Accepted(l)
    PROVE  IsFrame(ParsedFrame(Split(l, TAB)))
<1> DEFINE cols == Split(l, TAB)
           f == ParsedFrame(cols)
<1>1. /\ Len(cols) \in Nat /\ Len(cols) >= 7 /\ cols \in Seq(Text)
      /\ \A i \in 1 .. Len(cols) : TAB \notin Range(cols[i])
  BY SplitPieces DEF Accepted, Text
<1>2. Trim(cols[1]) = <<>> \/ IsTimestamp(Trim(cols[1]))
  BY Zenon DEF Accepted
<1> HIDE DEF cols
<1>3. \A i \in 1 .. 7 : cols[i] \in Text /\ TAB \notin Range(cols[i])
  BY <1>1
<1>4. \A i \in 1 .. 7 : IsColumn(Trim(cols[i]))
  BY <1>3, ColumnTrims
<1>5. IsColumn(Trim(cols[2])) /\ IsColumn(Trim(cols[3])) /\ IsColumn(Trim(cols[4]))
      /\ IsColumn(Trim(cols[6])) /\ IsColumn(Trim(cols[7]))
  BY <1>4
<1>6. IsBag(parse_kv_bag(Trim(cols[7])))
  BY <1>5, ParseIsBag DEF IsColumn
<1>7. LevelParse(cols[5]) \in Levels
  BY LevelReads
<1>8. f = [ts |-> Trim(cols[1]), kind |-> Trim(cols[2]), scope |-> Trim(cols[3]),
           id |-> Trim(cols[4]), level |-> LevelParse(cols[5]), msg |-> Trim(cols[6]),
           kv |-> parse_kv_bag(Trim(cols[7]))]
  BY Zenon DEF ParsedFrame
<1> HIDE DEF f
<1>9. IsFrame(f)
  BY <1>2, <1>5, <1>6, <1>7, <1>8 DEF IsFrame
<1> QED
  BY <1>9 DEF f, cols

(* A line of seven columns that begins with a timestamp is read back as     *)
(* those columns.                                                           *)
LEMMA RowReads ==
    ASSUME NEW cols \in Seq(Text), Len(cols) = 7, IsTimestamp(cols[1]),
           \A i \in 1 .. 7 : TAB \notin Range(cols[i])
    PROVE  /\ Join(cols, TAB) \in Text
           /\ Split(Join(cols, TAB), TAB) = cols
           /\ Accepted(Join(cols, TAB))
<1> DEFINE l == Join(cols, TAB)
<1>1. TAB \in Range(Tokens) /\ cols # <<>>
  BY TokensHas
<1>2. l \in Text /\ Split(l, TAB) = cols
  BY Zenon, <1>1, JoinIsText, SplitJoin DEF Text
<1>3. PICK c \in Range(Stamps) : cols[1] = <<c>>
  BY DEF IsTimestamp, Range
<1>4. c \notin White /\ c # "#" /\ c \in Range(Tokens)
  <2>1. c \in {"00:00", "00:01", "00:02", "00:03"}
    BY DEF Stamps, Range
  <2>2. c \notin White /\ c # "#"
    BY <2>1, TokensDiffer, Zenon
  <2> QED
    BY <2>2, TokensHas
<1>5. l # <<>> /\ l[1] = cols[1][1]
  BY <1>1, <1>3, JoinKeeps DEF Text
<1>6. l[1] = c
  BY <1>3, <1>5
<1> HIDE DEF l
<1>7. Trim(l) # <<>> /\ Trim(l)[1] = c
  BY <1>2, <1>4, <1>5, <1>6, TrimFirst DEF Text
<1>8. cols[1] \in Text /\ IsTrimmed(cols[1])
  BY <1>3, <1>4 DEF IsTrimmed
<1>9. Trim(cols[1]) = cols[1]
  BY <1>8, TrimFixed DEF Text
<1>10. Accepted(l)
  BY <1>2, <1>4, <1>7, <1>9 DEF Accepted
<1> QED
  BY <1>2, <1>10 DEF l

(* The frame that the next hop parses of f. *)
Relayed(f, now) ==
    [f EXCEPT !.ts = IF @ = <<>> THEN <<now>> ELSE @, !.kv = Expressible(@)]

(* EXCEPT of a frame. *)
LEMMA FrameExcept ==
    ASSUME NEW a, NEW b, NEW c, NEW d, NEW e, NEW m, NEW k, NEW v, NEW w,
           NEW f, f = [ts |-> a, kind |-> b, scope |-> c, id |-> d, level |-> e, msg |-> m, kv |-> k]
    PROVE  [f EXCEPT !.ts = v, !.kv = w]
             = [ts |-> v, kind |-> b, scope |-> c, id |-> d, level |-> e, msg |-> m, kv |-> w]
<1> DEFINE g == [f EXCEPT !.ts = v]
<1>1. g = [ts |-> v, kind |-> b, scope |-> c, id |-> d, level |-> e, msg |-> m, kv |-> k]
  OBVIOUS
<1>2. [f EXCEPT !.ts = v, !.kv = w] = [g EXCEPT !.kv = w]
  BY Zenon
<1> HIDE DEF g
<1>3. [g EXCEPT !.kv = w] = [ts |-> v, kind |-> b, scope |-> c, id |-> d, level |-> e, msg |-> m, kv |-> w]
  BY <1>1
<1> QED
  BY <1>2, <1>3, Zenon

(* The columns that to_tsv_line writes. *)
Row(f, now) ==
    <<IF f.ts = <<>> THEN <<now>> ELSE f.ts, f.kind, f.scope, f.id, as_str(f.level),
      f.msg, serialize_kv_bag(f.kv)>>

(* to_tsv_line joins the row. *)
LEMMA LineOfRow == \A f, now : to_tsv_line(f, now) = Join(Row(f, now), TAB)
BY Zenon DEF to_tsv_line, Row

(* A timestamp is a column. *)
LEMMA StampIsColumn ==
    /\ \A c \in Range(Stamps) : IsTimestamp(<<c>>)
    /\ \A t : IsTimestamp(t) => IsColumn(t) /\ t # <<>>
<1>1. \A c \in Range(Stamps) : IsTimestamp(<<c>>)
  BY DEF IsTimestamp, Range
<1>2. ASSUME NEW t, IsTimestamp(t) PROVE IsColumn(t) /\ t # <<>>
  <2>1. PICK c \in Range(Stamps) : t = <<c>>
    BY <1>2 DEF IsTimestamp, Range
  <2>2. c \in {"00:00", "00:01", "00:02", "00:03"}
    BY DEF Stamps, Range
  <2>3. c \notin White /\ c # TAB
    BY <2>2, TokensDiffer, Zenon DEF White
  <2>4. c \in Range(Tokens)
    BY TokensHas
  <2> QED
    BY <2>1, <2>3, <2>4 DEF IsColumn, IsTrimmed, Text, Range
<1> QED
  BY <1>1, <1>2

(* What a hop sends of a frame it has parsed, the next one accepts, and     *)
(* sees the same frame, with a timestamp and what of the bag can be         *)
(* written.                                                                 *)
LEMMA FrameRoundTrip ==
    ASSUME NEW f, IsFrame(f), NEW now \in Range(Stamps)
    PROVE  /\ to_tsv_line(f, now) \in Text
           /\ Accepted(to_tsv_line(f, now))
           /\ Split(to_tsv_line(f, now), TAB) = Row(f, now)
           /\ ParsedFrame(Row(f, now)) = Relayed(f, now)
<1> DEFINE cols == Row(f, now)
           ts == IF f.ts = <<>> THEN <<now>> ELSE f.ts
           bag == serialize_kv_bag(f.kv)
<1>1. cols = <<ts, f.kind, f.scope, f.id, as_str(f.level), f.msg, bag>>
  BY Zenon DEF Row
<1>2. IsTimestamp(ts) /\ IsColumn(ts)
  BY StampIsColumn DEF IsFrame
<1>3. IsColumn(f.kind) /\ IsColumn(f.scope) /\ IsColumn(f.id) /\ IsColumn(f.msg)
  BY DEF IsFrame
<1>4. IsColumn(as_str(f.level)) /\ LevelParse(as_str(f.level)) = f.level
  BY LevelReads DEF IsFrame, IsColumn
<1>5. IsColumn(bag) /\ parse_kv_bag(bag) = Expressible(f.kv)
  BY BagRoundTrip DEF IsFrame, IsColumn
<1> HIDE DEF cols, ts, bag
<1>6. /\ cols[1] = ts /\ cols[2] = f.kind /\ cols[3] = f.scope /\ cols[4] = f.id
      /\ cols[5] = as_str(f.level) /\ cols[6] = f.msg /\ cols[7] = bag /\ Len(cols) = 7
  BY <1>1
<1>7. \A i \in 1 .. 7 : IsColumn(cols[i])
  BY <1>2, <1>3, <1>4, <1>5, <1>6
<1>8. cols \in Seq(Text)
  <2>1. \A t \in {ts, f.kind, f.scope, f.id, as_str(f.level), f.msg, bag} : t \in Text
    BY <1>2, <1>3, <1>4, <1>5 DEF IsColumn
  <2> QED
    BY <1>1, <2>1
<1>9. \A i \in 1 .. 7 : TAB \notin Range(cols[i])
  BY <1>7 DEF IsColumn
<1>10. /\ Join(cols, TAB) \in Text
       /\ Split(Join(cols, TAB), TAB) = cols
       /\ Accepted(Join(cols, TAB))
  BY <1>2, <1>6, <1>8, <1>9, RowReads
<1>11. to_tsv_line(f, now) = Join(cols, TAB)
  BY LineOfRow DEF cols
<1>12. ParsedFrame(cols) = [ts |-> ts, kind |-> f.kind, scope |-> f.scope, id |-> f.id,
                            level |-> f.level, msg |-> f.msg, kv |-> Expressible(f.kv)]
  <2>1. Trim(ts) = ts /\ Trim(f.kind) = f.kind /\ Trim(f.scope) = f.scope /\ Trim(f.id) = f.id
        /\ Trim(f.msg) = f.msg /\ Trim(bag) = bag
    BY <1>2, <1>3, <1>5, ColumnTrims DEF IsColumn
  <2> QED
    BY <1>4, <1>5, <1>6, <2>1 DEF ParsedFrame
<1>13. Relayed(f, now) = [ts |-> ts, kind |-> f.kind, scope |-> f.scope, id |-> f.id,
                          level |-> f.level, msg |-> f.msg, kv |-> Expressible(f.kv)]
  <2>1. Relayed(f, now) = [f EXCEPT !.ts = ts, !.kv = Expressible(f.kv)]
    BY Zenon DEF Relayed, ts
  <2>2. f = [ts |-> f.ts, kind |-> f.kind, scope |-> f.scope, id |-> f.id,
             level |-> f.level, msg |-> f.msg, kv |-> f.kv]
    BY DEF IsFrame
  <2> QED
    BY <2>1, <2>2, FrameExcept, Zenon
<1> QED
  BY <1>10, <1>11, <1>12, <1>13 DEF cols

-------------------------------------------------------------------------------
(* Cut lines *)

(* The pieces of t, a beginning of s: those of s, of which the last is cut. *)
IsCutSplit(t, s, c) ==
    /\ Len(Split(t, c)) \in 1 .. Len(Split(s, c))
    /\ \A i \in 1 .. Len(Split(t, c)) - 1 : Split(t, c)[i] = Split(s, c)[i]
    /\ \E j \in 0 .. Len(Split(s, c)[Len(Split(t, c))]) :
          Split(t, c)[Len(Split(t, c))] = SubSeq(Split(s, c)[Len(Split(t, c))], 1, j)

(* Where the last piece of a beginning of length n starts. *)
LEMMA LastMark ==
    ASSUME NEW S, NEW s \in Seq(S), NEW c, NEW m, NEW g, Marks(g, m, s, c),
           NEW n \in 0 .. Len(s)
    PROVE  \E k \in 1 .. m : g[k] <= n /\ n < g[k + 1]
<1> DEFINE T == {i \in 1 .. m + 1 : n < g[i]}
<1>1. Bounds(g, m, s, c)
  BY MarksBound
<1>2. m \in Nat \ {0} /\ Len(s) \in Nat /\ g[1] = 0 /\ g[m + 1] = Len(s) + 1
      /\ \A i \in 1 .. m + 1 : g[i] \in Int
  BY <1>1 DEF Bounds
<1>3. T \subseteq Nat /\ m + 1 \in T /\ T # {}
  BY <1>2
<1>4. PICK x \in T : \A y \in T : x <= y
  BY Zenon, <1>3, Least
<1>5. x \in 1 .. m + 1 /\ n < g[x] /\ x # 1
  BY <1>2, <1>4
<1>6. x - 1 \in 1 .. m
  BY <1>2, <1>5
<1>7. g[x - 1] <= n
  <2>1. x - 1 \notin T
    <3> HIDE DEF T
    <3> QED
      BY <1>4, <1>5
  <2> QED
    BY <1>2, <1>6, <2>1
<1>8. x - 1 + 1 = x
  BY <1>5
<1> QED
  BY <1>5, <1>6, <1>7, <1>8

(* The pieces between marks, one by one. *)
LEMMA BetweenReads ==
    ASSUME NEW m \in Nat, NEW g, NEW s
    PROVE  /\ Len(Between(g, m, s)) = m
           /\ \A i \in 1 .. m : Between(g, m, s)[i] = SubSeq(s, g[i] + 1, g[i + 1] - 1)
<1>1. DOMAIN Between(g, m, s) = 1 .. m
  BY Zenon DEF Between
<1>2. Len(Between(g, m, s)) = m
  BY <1>1, LenProperties DEF Between
<1> QED
  BY <1>2, Zenon DEF Between

(* A cut leaves the pieces before it as they are, and a beginning of the    *)
(* one it falls in.                                                         *)
LEMMA SplitCut ==
    ASSUME NEW S, NEW s \in Seq(S), NEW c, NEW n \in 0 .. Len(s)
    PROVE  IsCutSplit(SubSeq(s, 1, n), s, c)
<1> DEFINE t == SubSeq(s, 1, n)
<1>1. PICK m \in Nat \ {0} : \E g : Marks(g, m, s, c)
  BY HasMarks
<1>2. PICK g : Marks(g, m, s, c)
  BY <1>1
<1>3. PICK k \in 1 .. m : g[k] <= n /\ n < g[k + 1]
  BY <1>2, LastMark
<1>4. Bounds(g, m, s, c)
  BY <1>2, MarksBound
<1>5. /\ m \in Nat /\ k \in 1 .. m /\ n \in Nat /\ Len(s) \in Nat /\ n <= Len(s)
      /\ \A i \in 1 .. m + 1 : g[i] \in 0 .. Len(s) + 1
      /\ \A i \in 1 .. m : g[i] < g[i + 1]
      /\ DOMAIN s = 1 .. Len(s)
  BY <1>4 DEF Bounds
<1>6. t \in Seq(S) /\ Len(t) = n /\ DOMAIN t = 1 .. n /\ \A p \in 1 .. n : t[p] = s[p]
  BY <1>5
<1> HIDE DEF t
<1> DEFINE h == [i \in 1 .. k + 1 |-> IF i <= k THEN g[i] ELSE n + 1]
<1>7. /\ \A i \in 1 .. k : h[i] = g[i]
      /\ h[k + 1] = n + 1
      /\ DOMAIN h = 1 .. k + 1
  BY <1>5
<1>8. Marks(h, k, t, c)
  <2>1. /\ \A i, j \in 1 .. m + 1 : i < j => g[i] < g[j]
        /\ \A i \in 1 .. m + 1 : g[i] \in Ends(s, c)
        /\ \A e \in Ends(s, c) : \E i \in 1 .. m + 1 : g[i] = e
    BY <1>2 DEF Marks
  <2>2. /\ \A e : e \in Ends(s, c) <=> e = 0 \/ e = Len(s) + 1 \/ (e \in 1 .. Len(s) /\ s[e] = c)
        /\ \A e : e \in Ends(t, c) <=> e = 0 \/ e = n + 1 \/ (e \in 1 .. n /\ t[e] = c)
    BY <1>5, <1>6 DEF Ends
  <2>3. \A i \in 1 .. k : g[i] \in 0 .. n
    <3> TAKE i \in 1 .. k
    <3>1. i = k \/ g[i] < g[k]
      BY <1>5, <2>1
    <3> QED
      BY <1>3, <1>5, <3>1
  <2>4. \A e \in Ends(s, c) : e <= n => e \in Ends(t, c)
    BY <1>5, <1>6, <2>2
  <2>5. \A i \in 1 .. k : g[i] \in Ends(t, c)
    BY <1>5, <2>1, <2>3, <2>4
  <2>6. n + 1 \in Ends(t, c)
    BY <2>2
  <2>7. \A i \in 1 .. k + 1 : h[i] \in Ends(t, c)
    BY <1>5, <1>7, <2>5, <2>6
  <2>8. \A i, j \in 1 .. k + 1 : i < j => h[i] < h[j]
    <3> TAKE i, j \in 1 .. k + 1
    <3> HAVE i < j
    <3>1. i \in 1 .. k /\ i \in 1 .. m + 1 /\ h[i] = g[i] /\ g[i] \in 0 .. n
      BY <1>5, <1>7, <2>3
    <3>2. CASE j = k + 1
      BY <1>7, <3>1, <3>2
    <3>3. CASE j # k + 1
      BY <1>5, <1>7, <2>1, <3>1, <3>3
    <3> QED
      BY <3>2, <3>3
  <2>9. ASSUME NEW e \in Ends(t, c)
        PROVE  \E i \in 1 .. k + 1 : h[i] = e
    <3>1. CASE e = n + 1
      BY <1>5, <1>7, <3>1
    <3>2. CASE e # n + 1
      <4>1. e \in Ends(s, c) /\ e \in 0 .. n
        BY <1>5, <1>6, <2>2, <3>2
      <4>2. PICK i \in 1 .. m + 1 : g[i] = e
        BY <2>1, <4>1
      <4>3. i \in 1 .. k
        <5>1. ~(k + 1 < i) /\ i # k + 1
          BY <1>3, <1>5, <2>1, <4>1, <4>2
        <5> QED
          BY <1>5, <5>1
      <4> QED
        BY <1>5, <1>7, <4>2, <4>3
    <3> QED
      BY <3>1, <3>2
  <2>10. h \in [1 .. k + 1 -> Ends(t, c)]
    BY <2>7
  <2> HIDE DEF h
  <2> QED
    BY <1>5, <2>8, <2>9, <2>10 DEF Marks
<1> HIDE DEF h
<1>9. Split(s, c) = Between(g, m, s) /\ Split(t, c) = Between(h, k, t)
  BY <1>2, <1>6, <1>8, SplitBy
<1>10. /\ Len(Split(s, c)) = m /\ Len(Split(t, c)) = k
       /\ \A i \in 1 .. m : Split(s, c)[i] = SubSeq(s, g[i] + 1, g[i + 1] - 1)
       /\ \A i \in 1 .. k : Split(t, c)[i] = SubSeq(t, h[i] + 1, h[i + 1] - 1)
  BY <1>5, <1>9, BetweenReads
<1>11. ASSUME NEW i \in 1 .. k - 1
       PROVE  Split(t, c)[i] = Split(s, c)[i]
  <2>1. /\ i \in 1 .. k /\ i + 1 \in 1 .. k /\ i \in 1 .. m /\ i \in 1 .. m + 1 /\ i + 1 \in 1 .. m + 1
        /\ g[i] \in 0 .. Len(s) + 1 /\ g[i + 1] \in 0 .. Len(s) + 1
    BY <1>5
  <2>2. g[i + 1] <= n
    <3>1. i + 1 = k \/ g[i + 1] < g[k]
      BY <1>2, <1>5, <2>1 DEF Marks
    <3> QED
      BY <1>3, <1>5, <2>1, <3>1
  <2>3. \A p \in g[i] + 1 .. g[i + 1] - 1 : t[p] = s[p]
    <3>1. \A p \in g[i] + 1 .. g[i + 1] - 1 : p \in 1 .. n
      BY <1>5, <2>1, <2>2
    <3> QED
      BY Zenon, <1>6, <3>1
  <2>4. SubSeq(t, g[i] + 1, g[i + 1] - 1) = SubSeq(s, g[i] + 1, g[i + 1] - 1)
    <3>1. g[i] + 1 \in Int /\ g[i + 1] - 1 \in Int
      BY <1>5, <2>1
    <3> QED
      BY ZenonT(30), <2>3, <3>1, SubSeqAlike
  <2> QED
    BY ZenonT(30), <1>7, <1>10, <2>1, <2>4
<1>12. \E j \in 0 .. Len(Split(s, c)[k]) : Split(t, c)[k] = SubSeq(Split(s, c)[k], 1, j)
  <2> DEFINE a == g[k]
             b == g[k + 1]
             q == SubSeq(s, a + 1, b - 1)
             j == n - a
  <2>1. /\ a \in 0 .. n /\ b \in n + 1 .. Len(s) + 1 /\ j \in Nat
        /\ k \in 1 .. m + 1 /\ k + 1 \in 1 .. m + 1
    BY <1>3, <1>5
  <2>2. Split(s, c)[k] = q /\ Split(t, c)[k] = SubSeq(t, a + 1, n)
    <3>1. h[k + 1] - 1 = n /\ h[k] = a /\ k \in 1 .. k
      BY <1>5, <1>7
    <3> QED
      BY Zenon, <1>5, <1>10, <3>1
  <2> HIDE DEF a, b
  <2>3. Len(q) = b - 1 - a /\ \A p \in 1 .. b - 1 - a : q[p] = s[a + p]
    BY <1>5, <2>1
  <2> HIDE DEF q
  <2>4. SubSeq(t, a + 1, n) = SubSeq(q, 1, j)
    <3>1. \A p \in 1 .. j : SubSeq(t, a + 1, n)[p] = t[a + p] /\ SubSeq(q, 1, j)[p] = q[p]
      BY <1>5, <2>1
    <3>2. \A p \in 1 .. j : t[a + p] = q[p]
      BY <1>5, <1>6, <2>1, <2>3
    <3>3. SubSeq(t, a + 1, n) = [p \in 1 .. j |-> t[a + p]]
      BY <1>5, <2>1
    <3>4. SubSeq(q, 1, j) = [p \in 1 .. j |-> q[p]]
      BY <1>5, <2>1
    <3> QED
      BY Zenon, <3>2, <3>3, <3>4
  <2>5. j \in 0 .. Len(q)
    BY <1>5, <2>1, <2>3
  <2> QED
    BY Zenon, <2>2, <2>4, <2>5
<1> QED
  BY Zenon, <1>5, <1>10, <1>11, <1>12 DEF IsCutSplit, t

(* The beginning of length j of a text has its first j tokens. *)
LEMMA CutReads ==
    ASSUME NEW S, NEW s \in Seq(S), NEW j \in 0 .. Len(s)
    PROVE  /\ SubSeq(s, 1, j) \in Seq(S) /\ Len(SubSeq(s, 1, j)) = j
           /\ DOMAIN SubSeq(s, 1, j) = 1 .. j
           /\ \A p \in 1 .. j : SubSeq(s, 1, j)[p] = s[p]
OBVIOUS

(* A trimmed text that is cut, and trimmed again, is a beginning of it. *)
LEMMA CutTrim ==
    ASSUME NEW S, NEW s \in Seq(S), IsTrimmed(s), NEW j \in 0 .. Len(s)
    PROVE  \E k \in 0 .. Len(s) : Trim(SubSeq(s, 1, j)) = SubSeq(s, 1, k)
<1> DEFINE t == SubSeq(s, 1, j)
           ink == {i \in DOMAIN t : t[i] \notin White}
<1>1. Len(s) \in Nat /\ j \in Nat /\ j <= Len(s)
  OBVIOUS
<1>2. t \in Seq(S) /\ Len(t) = j /\ DOMAIN t = 1 .. j /\ \A p \in 1 .. j : t[p] = s[p]
  BY CutReads
<1>3. Trim(t) = IF ink = {} THEN <<>> ELSE SubSeq(t, Min(ink), Max(ink))
  BY Zenon DEF Trim
<1> HIDE DEF t
<1>4. CASE ink = {}
  <2>1. Trim(t) = <<>> /\ SubSeq(s, 1, 0) = <<>>
    BY <1>3, <1>4
  <2>2. 0 \in 0 .. Len(s)
    BY <1>1
  <2> QED
    BY <2>1, <2>2, Zenon DEF t
<1>5. CASE ink # {}
  <2>1. ink \subseteq 0 .. j /\ ink \subseteq 1 .. j
    BY <1>1, <1>2
  <2>2. 1 \in ink
    <3>1. j # 0
      BY <1>2, <1>5
    <3>2. s # <<>> /\ 1 \in 1 .. j
      BY <1>1, <3>1
    <3>3. s[1] \notin White
      BY <3>2 DEF IsTrimmed
    <3> QED
      BY <1>2, <3>2, <3>3
  <2> HIDE DEF ink
  <2>3. Min(ink) \in ink /\ (\A i \in ink : Min(ink) <= i) /\ Max(ink) \in ink
    BY Zenon, <1>1, <1>5, <2>1, MinMax
  <2>4. Min(ink) \in 1 .. j /\ Max(ink) \in 1 .. j /\ Min(ink) <= 1
    BY ZenonT(30), <2>1, <2>2, <2>3
  <2>5. Min(ink) = 1
    BY <1>1, <2>4
  <2> DEFINE k == Max(ink)
  <2>6. k \in 1 .. j /\ Trim(t) = SubSeq(t, 1, k)
    BY <1>3, <1>5, <2>4, <2>5
  <2> HIDE DEF k
  <2>7. \A p \in 1 .. k : t[p] = s[p]
    BY <1>1, <1>2, <2>6
  <2>8. SubSeq(t, 1, k) = SubSeq(s, 1, k)
    BY <2>6, <2>7, SubSeqAlike
  <2>9. k \in 0 .. Len(s)
    BY <1>1, <2>6
  <2> QED
    BY <2>6, <2>8, <2>9 DEF t
<1> QED
  BY <1>4, <1>5

(* A text and a beginning of it that is not blank begin alike. *)
LEMMA CutFirst ==
    ASSUME NEW S, NEW s \in Seq(S), NEW j \in 0 .. Len(s), Trim(SubSeq(s, 1, j)) # <<>>
    PROVE  Trim(s) # <<>> /\ Trim(s)[1] = Trim(SubSeq(s, 1, j))[1]
<1> DEFINE t == SubSeq(s, 1, j)
           I == {i \in DOMAIN t : t[i] \notin White}
           J == {i \in DOMAIN s : s[i] \notin White}
<1>1. Len(s) \in Nat /\ j \in Nat /\ j <= Len(s) /\ DOMAIN s = 1 .. Len(s)
  OBVIOUS
<1>2. t \in Seq(S) /\ Len(t) = j /\ DOMAIN t = 1 .. j /\ \A p \in 1 .. j : t[p] = s[p]
  BY CutReads
<1>3. /\ Trim(t) = IF I = {} THEN <<>> ELSE SubSeq(t, Min(I), Max(I))
      /\ Trim(s) = IF J = {} THEN <<>> ELSE SubSeq(s, Min(J), Max(J))
  BY Zenon DEF Trim
<1>4. I # {}
  BY <1>3
<1> HIDE DEF t
<1>5. /\ I \subseteq 0 .. j /\ I \subseteq J /\ J \subseteq 0 .. Len(s) /\ J \subseteq 1 .. Len(s) /\ J # {}
      /\ \A i \in J : i <= j => i \in I
  BY <1>1, <1>2, <1>4
<1> HIDE DEF I, J
<1>6. /\ Min(I) \in I /\ \A i \in I : Min(I) <= i
      /\ Max(I) \in I /\ \A i \in I : i <= Max(I)
  BY Zenon, <1>1, <1>4, <1>5, MinMax
<1>7. /\ Min(J) \in J /\ \A i \in J : Min(J) <= i
      /\ Max(J) \in J /\ \A i \in J : i <= Max(J)
  BY Zenon, <1>1, <1>5, MinMax
<1> DEFINE a == Min(I)
           b == Max(I)
           d == Min(J)
           e == Max(J)
<1>8. a \in 0 .. j /\ a \in 1 .. Len(s) /\ b \in 0 .. j /\ a <= b /\ d \in 1 .. Len(s) /\ e \in 1 .. Len(s) /\ d <= e /\ d <= a
  BY Zenon, <1>5, <1>6, <1>7
<1>9. d \in I => a <= d
  BY <1>6
<1>10. d <= j => d \in I
  BY Zenon, <1>5, <1>7
<1>11. Trim(t) = SubSeq(t, a, b) /\ Trim(s) = SubSeq(s, d, e)
  BY Zenon, <1>3, <1>4, <1>5
<1> HIDE DEF a, b, d, e
<1>12. a = d
  BY <1>1, <1>8, <1>9, <1>10
<1>13. SubSeq(t, a, b) # <<>> /\ SubSeq(t, a, b)[1] = t[a]
  BY <1>1, <1>2, <1>8
<1>14. SubSeq(s, d, e) # <<>> /\ SubSeq(s, d, e)[1] = s[d]
  BY <1>1, <1>8
<1>15. t[a] = s[a]
  BY <1>1, <1>2, <1>8
<1> QED
  BY Zenon, <1>11, <1>12, <1>13, <1>14, <1>15 DEF t

(* A cut line that is accepted was accepted whole: the first six columns    *)
(* are the same and the seventh is a beginning of what it was.              *)
LEMMA CutAccepted ==
    ASSUME NEW s \in Text, NEW n \in 0 .. Len(s), Accepted(SubSeq(s, 1, n))
    PROVE  /\ Accepted(s)
           /\ \A i \in 1 .. 6 : Split(SubSeq(s, 1, n), TAB)[i] = Split(s, TAB)[i]
           /\ \E j \in 0 .. Len(Split(s, TAB)[7]) :
                 Split(SubSeq(s, 1, n), TAB)[7] = SubSeq(Split(s, TAB)[7], 1, j)
<1> DEFINE t == SubSeq(s, 1, n)
           A == Split(t, TAB)
           B == Split(s, TAB)
<1>1. /\ Trim(t) # <<>> /\ Trim(t)[1] # "#" /\ Len(A) >= 7
      /\ Trim(A[1]) = <<>> \/ IsTimestamp(Trim(A[1]))
  BY Zenon DEF Accepted
<1>2. Trim(s) # <<>> /\ Trim(s)[1] = Trim(t)[1]
  BY <1>1, CutFirst DEF Text
<1>3. IsCutSplit(t, s, TAB)
  BY SplitCut DEF Text
<1>4. /\ Len(A) \in 1 .. Len(B)
      /\ \A i \in 1 .. Len(A) - 1 : A[i] = B[i]
      /\ \E j \in 0 .. Len(B[Len(A)]) : A[Len(A)] = SubSeq(B[Len(A)], 1, j)
  BY <1>3 DEF IsCutSplit
<1>5. B \in Seq(Text) /\ Len(B) \in Nat
  BY SplitPieces DEF Text
<1> HIDE DEF t, A, B
<1>6. \A i \in 1 .. 6 : A[i] = B[i]
  BY <1>1, <1>4, <1>5
<1>7. \E j \in 0 .. Len(B[7]) : A[7] = SubSeq(B[7], 1, j)
  <2>1. CASE Len(A) = 7
    BY <1>4, <2>1
  <2>2. CASE Len(A) # 7
    <3> DEFINE a == Len(A)
               b == Len(B)
    <3>1. a \in 1 .. b /\ a >= 7 /\ b \in Nat /\ a # 7
      BY <1>1, <1>4, <1>5, <2>2
    <3>2. A[7] = B[7] /\ 7 \in 1 .. Len(B)
      <4> HIDE DEF a, b
      <4>1. 7 \in 1 .. a - 1 /\ 7 \in 1 .. b
        BY <3>1
      <4> QED
        BY <1>4, <4>1 DEF a, b
    <3>3. B[7] \in Text
      BY <1>5, <3>2
    <3>4. Len(B[7]) \in 0 .. Len(B[7]) /\ SubSeq(B[7], 1, Len(B[7])) = B[7]
      BY <3>3, SubSeqFull DEF Text
    <3> QED
      BY <3>2, <3>4
  <2> QED
    BY <2>1, <2>2
<1>8. Len(B) >= 7 /\ A[1] = B[1]
  BY <1>1, <1>4, <1>5, <1>6
<1>9. Accepted(s)
  BY <1>1, <1>2, <1>8 DEF Accepted, B
<1> QED
  BY <1>6, <1>7, <1>9 DEF t, A, B

-------------------------------------------------------------------------------
(* Of every text that parse_tsv_line makes a frame of, to_tsv_line makes a  *)
(* text that parse_tsv_line makes the same frame of, but for the timestamp  *)
(* it adds where there is none and for a flag of the empty key.             *)
THEOREM CodecRoundTrip ==
    ASSUME NEW l \in Text, NEW now \in Range(Stamps), parse_tsv_line(l).result = "frame"
    PROVE  \E f : /\ parse_tsv_line(l) = Parsed("frame", <<f>>)
                  /\ parse_tsv_line(to_tsv_line(f, now)) = Parsed("frame", <<Relayed(f, now)>>)
<1> DEFINE f == ParsedFrame(Split(l, TAB))
           next == to_tsv_line(f, now)
<1>1. Accepted(l)
  <2>1. \A r : Parsed(r, <<>>).result = r
    BY DEF Parsed
  <2> QED
    BY <2>1, ParseIs
<1>2. parse_tsv_line(l) = Parsed("frame", <<f>>)
  BY <1>1, ParseIs, Zenon
<1>3. IsFrame(f)
  BY <1>1, ParsedIsFrame, Zenon
<1> HIDE DEF f
<1>4. /\ next \in Text /\ Accepted(next) /\ Split(next, TAB) = Row(f, now)
      /\ ParsedFrame(Row(f, now)) = Relayed(f, now)
  BY <1>3, FrameRoundTrip, Zenon
<1> HIDE DEF next
<1>5. parse_tsv_line(next) = Parsed("frame", <<Relayed(f, now)>>)
  BY <1>4, ParseIs, Zenon
<1> QED
  BY <1>2, <1>5, Zenon DEF next
===============================================================================
