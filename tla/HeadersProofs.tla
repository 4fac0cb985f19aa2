---------------------------- MODULE HeadersProofs ----------------------------
(***************************************************************************)
(* What leaves is what came in, changed as the rules say, for any rules,   *)
(* recipients and headers of a client.                                     *)
(*                                                                         *)
(* The loops of messageGetMutableHeaders are followed round by round:      *)
(* ExpandedCount and DroppedCount say how many headers of a key and a      *)
(* value a list has after each, and MadeFacts what the rules come to.  The *)
(* invariant HInv then says which of the client's headers the MTA has      *)
(* left, in which order (InOrder, Deleted), and that what has been added   *)
(* and what has yet to be are together what was promised (Accounted).      *)
(***************************************************************************)
EXTENDS Headers, FiniteSetTheorems, SequenceTheorems, TLAPS

LEMMA Induction ==
  ASSUME NEW n \in Nat, NEW T, 0 \in T, \A m \in 0 .. n - 1 : m \in T => m + 1 \in T
  PROVE  0 .. n \subseteq T
<1> DEFINE B == {m \in 0 .. n : m \notin T}
           U == {1 .. m : m \in B}
           R == StrictSubsetOrdering(1 .. n)
<1>1. SUFFICES ASSUME B # {} PROVE FALSE
  OBVIOUS
<1>2. IsWellFoundedOn(R, SUBSET (1 .. n))
  <2>1. IsFiniteSet(1 .. n)
    BY FS_Interval
  <2> QED
    BY <2>1, FS_StrictSubsetOrderingWellFounded, FS_FiniteSubsetsOfFinite
<1>3. U \subseteq SUBSET (1 .. n) /\ U # {}
  <2>1. \A m \in B : 1 .. m \in SUBSET (1 .. n)
    OBVIOUS
  <2> QED
    BY <1>1, <2>1
<1>4. PICK L \in U : \A K \in U : <<K, L>> \notin R
  <2> HIDE DEF U, R
  <2> QED
    BY <1>2, <1>3, WFMin
<1>5. PICK m \in B : L = 1 .. m
  OBVIOUS
<1>6. m \in 1 .. n /\ m - 1 \in 0 .. n - 1 /\ (m - 1) + 1 = m /\ m \notin T
  OBVIOUS
<1>7. m - 1 \notin T
  BY <1>6
<1>8. m - 1 \in B
  BY <1>6, <1>7
<1>9. 1 .. m - 1 \subseteq 1 .. m /\ m \in 1 .. m /\ m \notin 1 .. m - 1 /\ 1 .. m \subseteq 1 .. n
  BY <1>6
<1>10. <<1 .. m - 1, 1 .. m>> \in R
  BY <1>9 DEF StrictSubsetOrdering
<1> QED
  BY <1>4, <1>5, <1>8, <1>10

LEMMA Initials ==
  /\ 1 .. 0 = {}
  /\ \A m \in Nat :
       /\ (1 .. m + 1) \ {m + 1} = 1 .. m /\ 1 .. m + 1 # {} /\ Max(1 .. m + 1) = m + 1
       /\ \A s \in SUBSET (1 .. m + 1) : m + 1 \in s =>
            Max(s) = m + 1 /\ s # {} /\ s \ {m + 1} \in SUBSET (1 .. m)
       /\ \A s \in SUBSET (1 .. m + 1) : m + 1 \notin s => s \in SUBSET (1 .. m)
<1>1. 1 .. 0 = {}
  OBVIOUS
<1>2. ASSUME NEW m \in Nat, NEW s \in SUBSET (1 .. m + 1), m + 1 \in s
      PROVE  Max(s) = m + 1 /\ s # {} /\ s \ {m + 1} \in SUBSET (1 .. m)
  <2>1. \A y \in s : y \in Int /\ m + 1 >= y
    BY <1>2
  <2>2. \A x \in s : (\A y \in s : x >= y) => x = m + 1
    BY <1>2, <2>1
  <2>3. Max(s) = m + 1
    BY <1>2, <2>1, <2>2 DEF Max
  <2> QED
    BY <1>2, <2>3
<1>3. ASSUME NEW m \in Nat
      PROVE  (1 .. m + 1) \ {m + 1} = 1 .. m /\ 1 .. m + 1 # {} /\ m + 1 \in 1 .. m + 1
  OBVIOUS
<1>4. ASSUME NEW m \in Nat, NEW s \in SUBSET (1 .. m + 1), m + 1 \notin s
      PROVE  s \in SUBSET (1 .. m)
  BY <1>4
<1>5. ASSUME NEW m \in Nat PROVE Max(1 .. m + 1) = m + 1
  BY <1>2, <1>3
<1> QED
  BY <1>1, <1>2, <1>3, <1>4, <1>5

\* A round of the loop that expands the templates, or of the one that drops.
Round(loop, acc, i, hdrs) ==
  IF loop = "expand" THEN Expand(acc, i, hdrs[i]) ELSE Drop(acc, i)

Rounds(h, loop, n, acc, seq, d) ==
  h = [s \in SUBSET (1 .. n) |->
         IF s = {} THEN acc ELSE Round(loop, h[s \ {Max(s)}], seq[Max(s)], d)]

LEMMA RoundsExist ==
  ASSUME NEW loop, NEW n \in Nat, NEW acc, NEW seq, NEW d
  PROVE  \E h : Rounds(h, loop, n, acc, seq, d)
<1> DEFINE T == {m \in 0 .. n : \E h : Rounds(h, loop, m, acc, seq, d)}
<1>1. 0 \in T
  <2>1. SUBSET (1 .. 0) = {{}}
    BY Initials
  <2>2. Rounds([s \in SUBSET (1 .. 0) |-> acc], loop, 0, acc, seq, d)
    BY <2>1 DEF Rounds
  <2> QED
    BY <2>2
<1>2. ASSUME NEW m \in 0 .. n - 1, m \in T PROVE m + 1 \in T
  <2>1. PICK h : Rounds(h, loop, m, acc, seq, d)
    BY <1>2
  <2>5. \A s \in SUBSET (1 .. m + 1) :
          /\ m + 1 \in s => Max(s) = m + 1 /\ s # {} /\ s \ {m + 1} \in SUBSET (1 .. m)
          /\ m + 1 \notin s => s \in SUBSET (1 .. m)
    <3>1. m \in Nat
      OBVIOUS
    <3> HIDE DEF T
    <3> QED
      BY <3>1, Initials
  <2> DEFINE g == [s \in SUBSET (1 .. m + 1) |->
                     IF m + 1 \in s THEN Round(loop, h[s \ {m + 1}], seq[m + 1], d) ELSE h[s]]
             next == [s \in SUBSET (1 .. m + 1) |->
                        IF s = {} THEN acc ELSE Round(loop, g[s \ {Max(s)}], seq[Max(s)], d)]
  <2>2. ASSUME NEW s \in SUBSET (1 .. m + 1) PROVE g[s] = next[s]
    <3>1. CASE m + 1 \in s
      <4>1. Max(s) = m + 1 /\ s # {} /\ s \ {m + 1} \in SUBSET (1 .. m)
        BY <2>5, <3>1
      <4>2. s \ {m + 1} \in SUBSET (1 .. m + 1) /\ m + 1 \notin s \ {m + 1}
        BY <4>1
      <4>3. g[s \ {m + 1}] = h[s \ {m + 1}]
        BY <4>2
      <4>4. g[s] = Round(loop, h[s \ {m + 1}], seq[m + 1], d)
        BY <3>1
      <4> QED
        BY <4>1, <4>3, <4>4
    <3>2. CASE m + 1 \notin s
      <4>1. s \in SUBSET (1 .. m)
        BY <2>5, <3>2
      <4>2. g[s] = h[s] /\ g[s \ {Max(s)}] = h[s \ {Max(s)}]
        BY <3>2, <4>1
      <4>3. h[s] = IF s = {} THEN acc ELSE Round(loop, h[s \ {Max(s)}], seq[Max(s)], d)
        BY <2>1, <4>1 DEF Rounds
      <4> QED
        BY <4>2, <4>3
    <3> QED
      BY <3>1, <3>2
  <2>3. g = next
    <3>1. g = [s \in SUBSET (1 .. m + 1) |-> g[s]] /\ next = [s \in SUBSET (1 .. m + 1) |-> next[s]]
      OBVIOUS
    <3> HIDE DEF g, next
    <3> QED
      BY <2>2, <3>1
  <2> HIDE DEF g
  <2>4. Rounds(g, loop, m + 1, acc, seq, d)
    BY <2>3 DEF Rounds
  <2> QED
    BY <2>4
<1> HIDE DEF T
<1>3. n \in T
  BY <1>1, <1>2, Induction
<1> QED
  BY <1>3 DEF T

\* Such a function, on the initial segments, is a sequence of rounds.
AreRounds(h, loop, n, acc, seq, d) ==
  /\ h[1 .. 0] = acc
  /\ \A k \in 0 .. n - 1 : h[1 .. k + 1] = Round(loop, h[1 .. k], seq[k + 1], d)

LEMMA RoundValues ==
  ASSUME NEW loop, NEW n \in Nat, NEW acc, NEW seq, NEW d, NEW h,
         Rounds(h, loop, n, acc, seq, d)
  PROVE  AreRounds(h, loop, n, acc, seq, d)
<1>1. h[1 .. 0] = acc
  BY Initials DEF Rounds
<1>2. ASSUME NEW k \in 0 .. n - 1
      PROVE  h[1 .. k + 1] = Round(loop, h[1 .. k], seq[k + 1], d)
  <2>1. 1 .. k + 1 \in SUBSET (1 .. n) /\ k \in Nat
    OBVIOUS
  <2>2. 1 .. k + 1 # {} /\ Max(1 .. k + 1) = k + 1 /\ (1 .. k + 1) \ {k + 1} = 1 .. k
    BY <2>1, Initials
  <2> QED
    BY <2>1, <2>2 DEF Rounds
<1> QED
  BY <1>1, <1>2, Zenon DEF AreRounds

Folded(loop, n, acc, seq, d) == (CHOOSE h : Rounds(h, loop, n, acc, seq, d))[1 .. n]

\* A fold is the last of a sequence of rounds.
IsOfRounds(loop, n, acc, seq, d) ==
  \E v : /\ v[0] = acc
         /\ \A k \in 0 .. n - 1 : v[k + 1] = Round(loop, v[k], seq[k + 1], d)
         /\ Folded(loop, n, acc, seq, d) = v[n]

LEMMA FoldedRounds ==
  ASSUME NEW loop, NEW n \in Nat, NEW acc, NEW seq, NEW d
  PROVE  IsOfRounds(loop, n, acc, seq, d)
<1> DEFINE it == CHOOSE h : Rounds(h, loop, n, acc, seq, d)
<1>1. Rounds(it, loop, n, acc, seq, d)
  BY RoundsExist
<1> HIDE DEF it
<1>2. /\ it[1 .. 0] = acc
      /\ \A k \in 0 .. n - 1 : it[1 .. k + 1] = Round(loop, it[1 .. k], seq[k + 1], d)
  <2>1. AreRounds(it, loop, n, acc, seq, d)
    BY <1>1, RoundValues
  <2> QED
    BY <2>1, Zenon DEF AreRounds
<1> DEFINE v == [k \in 0 .. n |-> it[1 .. k]]
<1>3. /\ v[0] = it[1 .. 0] /\ v[n] = it[1 .. n]
      /\ \A k \in 0 .. n - 1 : v[k] = it[1 .. k] /\ v[k + 1] = it[1 .. k + 1]
  OBVIOUS
<1> HIDE DEF v
<1>4. Folded(loop, n, acc, seq, d) = v[n]
  BY <1>3, Zenon DEF it, Folded
<1>5. \A k \in 0 .. n - 1 : v[k + 1] = Round(loop, v[k], seq[k + 1], d)
  BY <1>2, <1>3
<1> QED
  BY <1>2, <1>3, <1>4, <1>5, Zenon DEF IsOfRounds

LEMMA ExpandedRounds ==
  ASSUME NEW n \in Nat, NEW hdrs, DOMAIN hdrs = 1 .. n
  PROVE  \E v : /\ v[0] = hdrs
                /\ \A k \in 0 .. n - 1 : v[k + 1] = Expand(v[k], k + 1, hdrs[k + 1])
                /\ Expanded(hdrs) = v[n]
<1> DEFINE seq == [i \in DOMAIN hdrs |-> i]
           expand == "expand"
<1>1. Expanded(hdrs) = Folded(expand, n, hdrs, seq, hdrs)
  <2>1. Expanded(hdrs) = (CHOOSE h : Rounds(h, expand, n, hdrs, seq, hdrs))[DOMAIN seq]
    BY DEF Expanded, FoldLeftDomain, FoldLeft, MapThenFoldSet, Rounds, Round
  <2>2. DOMAIN seq = 1 .. n
    OBVIOUS
  <2> QED
    BY <2>1, <2>2, Zenon DEF Folded
<1>2. \A k \in 0 .. n - 1 : seq[k + 1] = k + 1
  OBVIOUS
<1> HIDE DEF seq, expand
<1>3. PICK v : /\ v[0] = hdrs
               /\ \A k \in 0 .. n - 1 : v[k + 1] = Round(expand, v[k], seq[k + 1], hdrs)
               /\ Folded(expand, n, hdrs, seq, hdrs) = v[n]
  <2>1. IsOfRounds(expand, n, hdrs, seq, hdrs)
    BY FoldedRounds
  <2> QED
    BY <2>1, Zenon DEF IsOfRounds
<1> QED
  BY <1>1, <1>2, <1>3 DEF Round, expand

LEMMA DropRounds ==
  ASSUME NEW n \in Nat, NEW hdrs, DOMAIN hdrs = 1 .. n
  PROVE  \E v : /\ v[0] = [left |-> hdrs, deleted |-> 0]
                /\ \A k \in 0 .. n - 1 : v[k + 1] = Drop(v[k], k + 1)
                /\ DropEmpty(hdrs) = v[n].left
<1> DEFINE seq == [i \in DOMAIN hdrs |-> i]
           acc == [left |-> hdrs, deleted |-> 0]
           drop == "drop"
<1>1. DropEmpty(hdrs) = Folded(drop, n, acc, seq, hdrs).left
  <2>1. DropEmpty(hdrs) = (CHOOSE h : Rounds(h, drop, n, acc, seq, hdrs))[DOMAIN seq].left
    BY DEF DropEmpty, FoldLeftDomain, FoldLeft, MapThenFoldSet, Rounds, Round
  <2>2. DOMAIN seq = 1 .. n
    OBVIOUS
  <2> QED
    BY <2>1, <2>2, Zenon DEF Folded
<1>2. \A k \in 0 .. n - 1 : seq[k + 1] = k + 1
  OBVIOUS
<1> HIDE DEF seq, drop, acc
<1>3. PICK v : /\ v[0] = acc
               /\ \A k \in 0 .. n - 1 : v[k + 1] = Round(drop, v[k], seq[k + 1], hdrs)
               /\ Folded(drop, n, acc, seq, hdrs) = v[n]
  <2>1. IsOfRounds(drop, n, acc, seq, hdrs)
    BY FoldedRounds
  <2> QED
    BY <2>1, Zenon DEF IsOfRounds
<1>4. \A k \in 0 .. n - 1 : v[k + 1] = Drop(v[k], k + 1)
  BY <1>2, <1>3 DEF Round, drop
<1> QED
  BY <1>1, <1>3, <1>4 DEF acc
-----------------------------------------------------------------------------
(* Sequences, and sets of numbers.                                         *)

LEMMA RemoveAtFacts ==
  ASSUME NEW S, NEW s \in Seq(S), NEW k \in 1 .. Len(s)
  PROVE  /\ RemoveAt(s, k) \in Seq(S) /\ Len(RemoveAt(s, k)) = Len(s) - 1
         /\ \A p \in 1 .. Len(s) - 1 :
              RemoveAt(s, k)[p] = IF p < k THEN s[p] ELSE s[p + 1]
<1> DEFINE a == SubSeq(s, 1, k - 1)
           b == SubSeq(s, k + 1, Len(s))
<1>1. Len(s) \in Nat /\ \A i \in 1 .. Len(s) : s[i] \in S
  OBVIOUS
<1>2. /\ a \in Seq(S) /\ Len(a) = k - 1
      /\ \A i \in 1 .. k - 1 : a[i] = s[i]
  <2>1. \A i \in 1 .. k - 1 : s[i] \in S
    BY <1>1
  <2>2. a \in Seq(S) /\ Len(a) = (IF 1 <= k - 1 THEN k - 1 ELSE 0)
        /\ \A i \in 1 .. k - 1 : a[i] = s[1 + i - 1]
    BY <1>1, <2>1, SubSeqProperties
  <2> HIDE DEF a
  <2> QED
    BY <1>1, <2>2
<1>3. /\ b \in Seq(S) /\ Len(b) = Len(s) - k
      /\ \A i \in 1 .. Len(s) - k : b[i] = s[k + i]
  <2>1. \A i \in k + 1 .. Len(s) : s[i] \in S
    BY <1>1
  <2>2. /\ b \in Seq(S) /\ Len(b) = (IF k + 1 <= Len(s) THEN Len(s) - (k + 1) + 1 ELSE 0)
        /\ \A i \in 1 .. Len(s) - (k + 1) + 1 : b[i] = s[k + 1 + i - 1]
    BY <1>1, <2>1, SubSeqProperties
  <2> HIDE DEF b
  <2>3. Len(b) = Len(s) - k
    BY <1>1, <2>2
  <2>4. ASSUME NEW i \in 1 .. Len(s) - k PROVE b[i] = s[k + i]
    <3>1. i \in 1 .. Len(s) - (k + 1) + 1 /\ k + 1 + i - 1 = k + i
      BY <1>1
    <3> QED
      BY <2>2, <3>1
  <2> QED
    BY <2>2, <2>3, <2>4
<1>4. RemoveAt(s, k) = a \o b
  BY DEF RemoveAt
<1> HIDE DEF a, b
<1>5. /\ a \o b \in Seq(S) /\ Len(a \o b) = Len(a) + Len(b)
      /\ \A i \in 1 .. Len(a) + Len(b) : (a \o b)[i] = IF i <= Len(a) THEN a[i] ELSE b[i - Len(a)]
  BY <1>2, <1>3, ConcatProperties
<1>6. ASSUME NEW p \in 1 .. Len(s) - 1
      PROVE  (a \o b)[p] = IF p < k THEN s[p] ELSE s[p + 1]
  <2>1. p \in 1 .. Len(a) + Len(b)
    BY <1>1, <1>2, <1>3
  <2>2. CASE p < k
    <3>1. p <= Len(a) /\ p \in 1 .. k - 1
      BY <1>1, <1>2, <2>2
    <3> QED
      BY <1>2, <1>5, <2>1, <2>2, <3>1
  <2>3. CASE ~(p < k)
    <3>1. ~(p <= Len(a)) /\ p - Len(a) \in 1 .. Len(s) - k /\ k + (p - Len(a)) = p + 1
      BY <1>1, <1>2, <2>3
    <3> QED
      BY <1>3, <1>5, <2>1, <2>3, <3>1
  <2> QED
    BY <2>2, <2>3
<1> QED
  BY <1>1, <1>2, <1>3, <1>4, <1>5, <1>6

LEMMA MinFacts ==
  ASSUME NEW S \in SUBSET Nat, S # {}
  PROVE  Min(S) \in S /\ \A x \in S : Min(S) <= x
<1>1. PICK n : n \in S
  OBVIOUS
<1> DEFINE T == {m \in 0 .. n : \A j \in 0 .. m : j \notin S}
<1>2. ASSUME \A x \in S : \E y \in S : y < x PROVE FALSE
  <2>1. 0 \in T
    <3>1. 0 \notin S
      BY <1>2
    <3>2. 0 \in 0 .. n /\ \A j \in 0 .. 0 : j = 0
      BY <1>1
    <3> QED
      BY <3>1, <3>2
  <2>2. ASSUME NEW m \in 0 .. n - 1, m \in T PROVE m + 1 \in T
    <3>1. \A j \in 0 .. m + 1 : j \in 0 .. m \/ j = m + 1
      OBVIOUS
    <3>2. m + 1 \notin S
      BY <1>2, <2>2
    <3> QED
      BY <1>1, <2>2, <3>1, <3>2
  <2>3. n \in Nat
    BY <1>1
  <2>4. n \in T
    <3> HIDE DEF T
    <3>1. \A m \in 0 .. n - 1 : m \in T => m + 1 \in T
      BY <2>2
    <3>2. 0 .. n \subseteq T
      BY ONLY <2>1, <2>3, <3>1, Induction
    <3> QED
      BY <2>3, <3>2
  <2> QED
    BY <1>1, <2>3, <2>4
<1>3. \E x \in S : \A y \in S : x <= y
  BY <1>2
<1> QED
  BY <1>3 DEF Min

LEMMA MaxFacts ==
  ASSUME NEW n \in Nat, NEW S \in SUBSET (1 .. n), S # {}
  PROVE  Max(S) \in S /\ \A x \in S : x <= Max(S)
<1> DEFINE B == {m \in 0 .. n : \A x \in S : x <= m}
<1>1. B \in SUBSET Nat /\ n \in B
  OBVIOUS
<1>2. Min(B) \in B /\ \A m \in B : Min(B) <= m
  <2> HIDE DEF B
  <2> QED
    BY <1>1, MinFacts
<1>3. Min(B) \in S
  <2>1. PICK y : y \in S
    OBVIOUS
  <2>2. Min(B) \in Nat /\ Min(B) >= y /\ y \in 1 .. n
    BY <1>2, <2>1
  <2>3. ASSUME Min(B) \notin S PROVE FALSE
    <3> DEFINE b == Min(B)
    <3>1. b - 1 \in 0 .. n /\ \A x \in S : x <= b - 1
      BY <1>2, <2>2, <2>3
    <3> HIDE DEF b
    <3>2. b - 1 \in B
      BY <3>1
    <3> QED
      BY <1>2, <2>2, <3>2 DEF b
  <2> QED
    BY <2>3
<1>4. \A x \in S : x <= Min(B) /\ x \in Int
  BY <1>2
<1> QED
  BY <1>3, <1>4 DEF Max

\* A set that can be counted by another one.
LEMMA CountedBy ==
  ASSUME NEW S, NEW T, IsFiniteSet(S), NEW f \in [S -> T],
         \A x, y \in S : f[x] = f[y] => x = y,
         \A z \in T : \E x \in S : f[x] = z
  PROVE  Cardinality(T) = Cardinality(S) /\ IsFiniteSet(T)
<1>1. f \in Bijection(S, T)
  BY DEF Bijection, Injection, Surjection, IsInjective
<1> QED
  BY <1>1, FS_Bijection DEF ExistsBijection
-----------------------------------------------------------------------------
(* Headers to be added, and how many there are of a key and a value.       *)

AddHdr ==
  {h \in [key : Keys, value : Values, unique : BOOLEAN] :
     h.value = "signature" => h.key = DkimSignature}

Matching(s, k, v) == {i \in DOMAIN s : s[i].key = k /\ s[i].value = v}
Count(s, k, v) == Cardinality(Matching(s, k, v))

LEMMA CountType ==
  ASSUME NEW S, NEW s \in Seq(S), NEW k, NEW v
  PROVE  IsFiniteSet(Matching(s, k, v)) /\ Count(s, k, v) \in Nat
<1>1. DOMAIN s = 1 .. Len(s) /\ Len(s) \in Nat
  OBVIOUS
<1>2. IsFiniteSet(DOMAIN s)
  BY <1>1, FS_Interval
<1>3. Matching(s, k, v) \in SUBSET DOMAIN s
  BY DEF Matching
<1>4. IsFiniteSet(Matching(s, k, v))
  BY <1>2, <1>3, FS_Subset
<1> QED
  BY <1>4, FS_CardinalityType DEF Count

LEMMA CountAppend ==
  ASSUME NEW S, NEW s \in Seq(S), NEW e \in S, NEW k, NEW v
  PROVE  Count(Append(s, e), k, v) =
           Count(s, k, v) + (IF e.key = k /\ e.value = v THEN 1 ELSE 0)
<1> DEFINE n == Len(s) + 1
<1>1. /\ DOMAIN Append(s, e) = DOMAIN s \cup {n} /\ n \notin DOMAIN s
      /\ Append(s, e)[n] = e /\ \A i \in DOMAIN s : Append(s, e)[i] = s[i]
  OBVIOUS
<1>2. IsFiniteSet(Matching(s, k, v)) /\ Count(s, k, v) \in Nat /\ n \notin Matching(s, k, v)
  BY <1>1, CountType DEF Matching
<1> HIDE DEF n
<1>3. CASE e.key = k /\ e.value = v
  <2>1. Matching(Append(s, e), k, v) = Matching(s, k, v) \cup {n}
    BY <1>1, <1>3 DEF Matching
  <2>2. Cardinality(Matching(s, k, v) \cup {n}) = Cardinality(Matching(s, k, v)) + 1
    BY <1>2, FS_AddElement
  <2> QED
    BY <1>3, <2>1, <2>2 DEF Count
<1>4. CASE ~(e.key = k /\ e.value = v)
  <2>1. Matching(Append(s, e), k, v) = Matching(s, k, v)
    BY <1>1, <1>4 DEF Matching
  <2> QED
    BY <1>2, <1>4, <2>1 DEF Count
<1> QED
  BY <1>3, <1>4

LEMMA CountTail ==
  ASSUME NEW S, NEW s \in Seq(S), s # <<>>, NEW k, NEW v
  PROVE  Count(s, k, v) =
           Count(Tail(s), k, v) + (IF Head(s).key = k /\ Head(s).value = v THEN 1 ELSE 0)
<1> DEFINE T == Matching(Tail(s), k, v)
           M == Matching(s, k, v)
           f == [i \in T |-> i + 1]
<1>1. /\ Tail(s) \in Seq(S) /\ Len(Tail(s)) = Len(s) - 1 /\ Len(s) \in Nat
      /\ DOMAIN s = 1 .. Len(s) /\ DOMAIN Tail(s) = 1 .. Len(s) - 1
      /\ \A i \in DOMAIN Tail(s) : Tail(s)[i] = s[i + 1]
      /\ Head(s) = s[1]
  BY HeadTailProperties
<1>2. IsFiniteSet(T) /\ Count(Tail(s), k, v) \in Nat
  BY <1>1, CountType
<1>3. IsFiniteSet(M)
  BY CountType
<1>4. f \in [T -> M \ {1}]
  <2>1. ASSUME NEW i \in T PROVE i + 1 \in M \ {1}
    BY <1>1 DEF Matching
  <2> QED
    BY <2>1
<1>5. \A x, y \in T : f[x] = f[y] => x = y
  <2>1. \A x \in T : x \in Int
    BY <1>1 DEF Matching
  <2> QED
    BY <2>1
<1>6. ASSUME NEW z \in M \ {1} PROVE \E x \in T : f[x] = z
  <2>1. z - 1 \in T /\ (z - 1) + 1 = z
    BY <1>1 DEF Matching
  <2> QED
    BY <2>1
<1>7. Cardinality(M \ {1}) = Cardinality(T)
  <2> HIDE DEF f, M, T
  <2> QED
    BY <1>2, <1>4, <1>5, <1>6, CountedBy
<1>8. 1 \in M <=> Head(s).key = k /\ Head(s).value = v
  <2>1. 1 \in DOMAIN s
    BY <1>1
  <2> QED
    BY <1>1, <2>1 DEF Matching
<1>9. Cardinality(M \ {1}) = IF 1 \in M THEN Cardinality(M) - 1 ELSE Cardinality(M)
  <2> HIDE DEF M
  <2> QED
    BY <1>3, FS_RemoveElement
<1>10. Cardinality(M) \in Nat
  BY <1>3, FS_CardinalityType
<1> HIDE DEF M, T
<1>11. Cardinality(M) = Cardinality(T) + (IF 1 \in M THEN 1 ELSE 0)
  BY <1>2, <1>7, <1>9, <1>10 DEF Count, T
<1> QED
  BY <1>8, <1>11 DEF Count, M, T
-----------------------------------------------------------------------------
(* The loop that expands the templates.  After n rounds there is a header  *)
(* for every part of every one of hdrs: the header itself, or one for each *)
(* of the recipients.                                                      *)

Parts(n, hdrs) ==
  {p \in (DOMAIN hdrs) \X (0 .. Len(rcpts)) :
     p[2] = 0 <=> ~(p[1] <= n /\ IsTemplate(hdrs[p[1]]))}

PartValue(hdrs, p) == IF p[2] = 0 THEN hdrs[p[1]].value ELSE rcpts[p[2]]

\* Which part it is, g says.
ExpandedIs(acc, g, hdrs, n) ==
  /\ acc \in Seq(AddHdr) /\ Len(acc) >= Len(hdrs)
  /\ g \in [DOMAIN acc -> Parts(n, hdrs)]
  /\ \A i, j \in DOMAIN acc : g[i] = g[j] => i = j
  /\ \A p \in Parts(n, hdrs) : \E i \in DOMAIN acc : g[i] = p
  /\ \A i \in DOMAIN acc : acc[i].key = hdrs[g[i][1]].key /\ acc[i].value = PartValue(hdrs, g[i])
  /\ \A i \in DOMAIN hdrs : g[i][1] = i /\ acc[i].unique = hdrs[i].unique
  /\ \A i \in DOMAIN acc : i > Len(hdrs) => ~acc[i].unique

LEMMA RcptFacts ==
  \A s \in Seq(Rcpts) : \A j \in DOMAIN s : s[j] \in Rcpts /\ s[j] \in Values /\ s[j] \notin Sources
BY HeadersAssumption DEF Values

LEMMA ExpandFacts ==
  ASSUME rcpts \in Seq(Rcpts), rcpts # <<>>, NEW acc \in Seq(AddHdr), NEW i \in DOMAIN acc,
         NEW hdr \in AddHdr, IsTemplate(hdr)
  PROVE  /\ Expand(acc, i, hdr) \in Seq(AddHdr)
         /\ Len(Expand(acc, i, hdr)) = Len(acc) + Len(rcpts) - 1
         /\ \A x \in 1 .. Len(acc) + Len(rcpts) - 1 :
              Expand(acc, i, hdr)[x] =
                IF x = i THEN [acc[i] EXCEPT !.value = rcpts[1]]
                ELSE IF x <= Len(acc) THEN acc[x]
                ELSE [key |-> hdr.key, value |-> rcpts[x - Len(acc) + 1], unique |-> FALSE]
<1> DEFINE R == Len(rcpts)
           a == [acc EXCEPT ![i].value = rcpts[1]]
           b == [j \in 1 .. R - 1 |-> [key |-> hdr.key, value |-> rcpts[j + 1], unique |-> FALSE]]
<1>1. R \in Nat /\ R >= 1 /\ DOMAIN rcpts = 1 .. R
  OBVIOUS
<1>2. \A j \in 1 .. R : rcpts[j] \in Values /\ rcpts[j] # "signature"
  BY <1>1, RcptFacts DEF Sources
<1>3. a \in Seq(AddHdr) /\ Len(a) = Len(acc) /\ Len(acc) \in Nat
      /\ \A x \in 1 .. Len(acc) : a[x] = IF x = i THEN [acc[i] EXCEPT !.value = rcpts[1]] ELSE acc[x]
  <2>1. acc[i] \in AddHdr /\ rcpts[1] \in Values /\ rcpts[1] # "signature"
    BY <1>1, <1>2
  <2>2. [acc[i] EXCEPT !.value = rcpts[1]] \in AddHdr
    BY <2>1 DEF AddHdr
  <2>3. a = [acc EXCEPT ![i] = [acc[i] EXCEPT !.value = rcpts[1]]]
    OBVIOUS
  <2> HIDE DEF a
  <2> QED
    BY <2>2, <2>3
<1>4. b \in Seq(AddHdr) /\ Len(b) = R - 1
  <2>1. ASSUME NEW j \in 1 .. R - 1
        PROVE  [key |-> hdr.key, value |-> rcpts[j + 1], unique |-> FALSE] \in AddHdr
    <3>1. j + 1 \in 1 .. R
      BY <1>1
    <3>2. rcpts[j + 1] \in Values /\ rcpts[j + 1] # "signature" /\ hdr.key \in Keys
      BY <1>2, <3>1 DEF AddHdr
    <3> QED
      BY <3>2 DEF AddHdr
  <2>2. R - 1 \in Nat
    BY <1>1
  <2>3. b \in [1 .. R - 1 -> AddHdr]
    BY <2>1
  <2> HIDE DEF R, b
  <2> QED
    BY <2>2, <2>3
<1>5. \A j \in 1 .. R - 1 : b[j] = [key |-> hdr.key, value |-> rcpts[j + 1], unique |-> FALSE]
  OBVIOUS
<1>6. Expand(acc, i, hdr) = a \o b
  BY DEF Expand
<1> HIDE DEF a, b, R
<1>7. /\ a \o b \in Seq(AddHdr) /\ Len(a \o b) = Len(acc) + R - 1
      /\ \A x \in 1 .. Len(a) + Len(b) : (a \o b)[x] = IF x <= Len(a) THEN a[x] ELSE b[x - Len(a)]
  <2>1. /\ a \o b \in Seq(AddHdr) /\ Len(a \o b) = Len(a) + Len(b)
        /\ \A x \in 1 .. Len(a) + Len(b) : (a \o b)[x] = IF x <= Len(a) THEN a[x] ELSE b[x - Len(a)]
    <3>1. a \in Seq(AddHdr) /\ b \in Seq(AddHdr)
      BY <1>3, <1>4
    <3> QED
      BY ONLY <3>1, ConcatProperties
  <2> QED
    BY <1>1, <1>3, <1>4, <2>1
<1>8. ASSUME NEW x \in 1 .. Len(acc) + R - 1
      PROVE  (a \o b)[x] =
                IF x = i THEN [acc[i] EXCEPT !.value = rcpts[1]]
                ELSE IF x <= Len(acc) THEN acc[x]
                ELSE [key |-> hdr.key, value |-> rcpts[x - Len(acc) + 1], unique |-> FALSE]
  <2>1. x \in 1 .. Len(a) + Len(b) /\ i \in 1 .. Len(acc)
    BY <1>1, <1>3, <1>4
  <2>2. CASE x <= Len(acc)
    <3>1. x \in 1 .. Len(acc) /\ (a \o b)[x] = a[x]
      BY <1>3, <1>7, <2>1, <2>2
    <3> QED
      BY <1>3, <2>2, <3>1
  <2>3. CASE ~(x <= Len(acc))
    <3>1. x # i /\ x - Len(acc) \in 1 .. R - 1 /\ (a \o b)[x] = b[x - Len(acc)]
      BY <1>1, <1>3, <1>7, <2>1, <2>3
    <3> QED
      BY <1>5, <2>3, <3>1
  <2> QED
    BY <2>2, <2>3
<1> QED
  BY <1>6, <1>7, <1>8 DEF R

LEMMA ExpandStep ==
  ASSUME rcpts \in Seq(Rcpts), NEW hdrs \in Seq(AddHdr), NEW n \in 0 .. Len(hdrs) - 1,
         NEW acc, NEW g, ExpandedIs(acc, g, hdrs, n),
         rcpts # <<>> \/ ~IsTemplate(hdrs[n + 1])
  PROVE  \E h : ExpandedIs(Expand(acc, n + 1, hdrs[n + 1]), h, hdrs, n + 1)
<1> DEFINE i == n + 1
           hdr == hdrs[i]
           R == Len(rcpts)
           L == Len(acc)
<1>1. /\ i \in DOMAIN hdrs /\ i \in Nat /\ DOMAIN hdrs = 1 .. Len(hdrs) /\ hdr \in AddHdr
      /\ \A x \in DOMAIN hdrs : x <= i <=> x <= n \/ x = i
      /\ ~(i <= n) /\ DOMAIN hdrs \subseteq Nat
  OBVIOUS
<1>2. CASE ~IsTemplate(hdr)
  <2>1. Expand(acc, i, hdr) = acc
    BY <1>2 DEF Expand
  <2>2. Parts(i, hdrs) = Parts(n, hdrs)
    <3>1. \A x \in DOMAIN hdrs : x <= i /\ IsTemplate(hdrs[x]) <=> x <= n /\ IsTemplate(hdrs[x])
      BY <1>1, <1>2
    <3> HIDE DEF i
    <3> QED
      BY <3>1 DEF Parts
  <2>3. ExpandedIs(acc, g, hdrs, i)
    BY <2>2 DEF ExpandedIs
  <2> QED
    BY <2>1, <2>3
<1>3. CASE IsTemplate(hdr)
  <2>1. /\ acc \in Seq(AddHdr) /\ L >= Len(hdrs) /\ L \in Nat /\ DOMAIN acc = 1 .. L
        /\ g \in [DOMAIN acc -> Parts(n, hdrs)]
        /\ \A x, y \in DOMAIN acc : g[x] = g[y] => x = y
        /\ \A p \in Parts(n, hdrs) : \E x \in DOMAIN acc : g[x] = p
    BY DEF ExpandedIs
  <2>2. \A x \in DOMAIN acc : acc[x].key = hdrs[g[x][1]].key /\ acc[x].value = PartValue(hdrs, g[x])
    BY DEF ExpandedIs
  <2>3. /\ \A x \in DOMAIN hdrs : g[x][1] = x /\ acc[x].unique = hdrs[x].unique
        /\ \A x \in DOMAIN acc : x > Len(hdrs) => ~acc[x].unique
    BY DEF ExpandedIs
  <2>4. R \in Nat /\ R >= 1 /\ DOMAIN rcpts = 1 .. R /\ rcpts # <<>>
    BY <1>3
  <2>5. i \in DOMAIN acc /\ i \in 1 .. L /\ i <= Len(hdrs)
    BY <1>1, <2>1
  <2>6. g[i] = <<i, 0>>
    <3>1. g[i] \in Parts(n, hdrs) /\ g[i][1] = i
      BY <1>1, <2>1, <2>3, <2>5
    <3> HIDE DEF i
    <3>2. g[i] = <<g[i][1], g[i][2]>> /\ g[i][2] = 0
      BY <1>1, <3>1 DEF Parts
    <3> QED
      BY <3>1, <3>2
  <2> DEFINE new == Expand(acc, i, hdr)
             h == [x \in 1 .. L + R - 1 |->
                     IF x = i THEN <<i, 1>> ELSE IF x <= L THEN g[x] ELSE <<i, x - L + 1>>]
  <2>7. /\ new \in Seq(AddHdr) /\ Len(new) = L + R - 1
        /\ \A x \in 1 .. L + R - 1 :
             /\ x = i => new[x] = [acc[i] EXCEPT !.value = rcpts[1]]
             /\ x # i /\ x <= L => new[x] = acc[x]
             /\ x # i /\ ~(x <= L) =>
                  new[x] = [key |-> hdr.key, value |-> rcpts[x - L + 1], unique |-> FALSE]
    <3>1. acc \in Seq(AddHdr) /\ i \in DOMAIN acc /\ hdr \in AddHdr
      BY <1>1, <2>1, <2>5
    <3>2. rcpts # <<>> /\ IsTemplate(hdr)
      BY <1>3, <2>4
    <3> HIDE DEF i, hdr, new
    <3>3. /\ Expand(acc, i, hdr) \in Seq(AddHdr)
          /\ Len(Expand(acc, i, hdr)) = Len(acc) + Len(rcpts) - 1
          /\ \A x \in 1 .. Len(acc) + Len(rcpts) - 1 :
               Expand(acc, i, hdr)[x] =
                 IF x = i THEN [acc[i] EXCEPT !.value = rcpts[1]]
                 ELSE IF x <= Len(acc) THEN acc[x]
                 ELSE [key |-> hdr.key, value |-> rcpts[x - Len(acc) + 1], unique |-> FALSE]
      BY <3>1, <3>2, ExpandFacts
    <3> HIDE DEF L, R
    <3> QED
      BY <3>3, Zenon DEF new, L, R
  <2>8. DOMAIN new = 1 .. L + R - 1 /\ L + R - 1 \in Nat /\ L + R - 1 >= L
    BY <2>1, <2>4, <2>7
  <2> HIDE DEF new
  <2>9. \A p \in Parts(i, hdrs) : p = <<p[1], p[2]>> /\ p[1] \in DOMAIN hdrs /\ p[2] \in 0 .. R
    BY DEF Parts
  <2>10. \A j \in 1 .. R : <<i, j>> \in Parts(i, hdrs)
    <3> HIDE DEF i
    <3> QED
      BY <1>1, <1>3, <2>4 DEF Parts, hdr
  <2>11. \A p : p[1] # i => (p \in Parts(i, hdrs) <=> p \in Parts(n, hdrs))
    <3> HIDE DEF i
    <3> QED
      BY <1>1 DEF Parts
  <2>12. \A x \in 1 .. L : x # i => g[x][1] # i
    <3>1. ASSUME NEW x \in 1 .. L, x # i, g[x][1] = i PROVE FALSE
      <4>1. g[x] \in Parts(n, hdrs)
        BY <2>1
      <4> HIDE DEF i
      <4>2. g[x] = <<i, 0>>
        BY <1>1, <3>1, <4>1 DEF Parts
      <4> QED
        BY <2>1, <2>5, <2>6, <3>1, <4>2
    <3> QED
      BY <3>1
  <2>13. ASSUME NEW x \in 1 .. L + R - 1
         PROVE  /\ h[x] \in Parts(i, hdrs)
                /\ x # i /\ x <= L => h[x] = g[x] /\ h[x][1] # i
                /\ x = i => h[x] = <<i, 1>>
                /\ x > L => h[x] = <<i, x - L + 1>> /\ x - L + 1 \in 2 .. R /\ x # i
    <3>1. h[x] = IF x = i THEN <<i, 1>> ELSE IF x <= L THEN g[x] ELSE <<i, x - L + 1>>
      BY Zenon
    <3> HIDE DEF h, i
    <3>2. CASE x = i
      BY <2>1, <2>4, <2>5, <2>10, <3>1, <3>2
    <3>3. CASE x # i /\ x <= L
      <4>1. x \in 1 .. L /\ h[x] = g[x] /\ g[x] \in Parts(n, hdrs)
        BY <2>1, <3>1, <3>3
      <4>2. g[x][1] # i
        BY <2>12, <3>3, <4>1
      <4> QED
        BY <2>1, <2>11, <3>3, <4>1, <4>2
    <3>4. CASE x > L
      <4>1. x # i /\ ~(x <= L) /\ x - L + 1 \in 2 .. R /\ x - L + 1 \in 1 .. R
        BY <2>1, <2>4, <2>5, <3>4
      <4> QED
        BY <2>10, <3>1, <3>4, <4>1
    <3> QED
      BY <2>1, <3>2, <3>3, <3>4
  <2>14. h \in [DOMAIN new -> Parts(i, hdrs)]
    <3>1. h = [x \in 1 .. L + R - 1 |-> h[x]]
      OBVIOUS
    <3> HIDE DEF h, i
    <3> QED
      BY <2>8, <2>13, <3>1
  <2> HIDE DEF h
  <2>15. ASSUME NEW x \in DOMAIN new, NEW y \in DOMAIN new, h[x] = h[y] PROVE x = y
    <3> HIDE DEF i
    <3>1. \A a, b, c : <<a, b>> = <<i, c>> => b = c
      OBVIOUS
    <3>2. \A c : <<i, c>>[1] = i
      OBVIOUS
    <3>3. x \in 1 .. L + R - 1 /\ y \in 1 .. L + R - 1
      BY <2>8
    <3>4. CASE x # i /\ x <= L
      <4>1. y # i /\ y <= L
        <5>1. h[x][1] # i /\ h[y][1] # i
          BY <2>13, <2>15, <3>3, <3>4
        <5>2. y # i
          BY <2>13, <3>2, <3>3, <5>1
        <5>3. ~(y > L)
          BY <2>13, <3>2, <3>3, <5>1
        <5> QED
          BY <2>1, <3>3, <5>2, <5>3
      <4>2. x \in 1 .. L /\ y \in 1 .. L /\ h[x] = g[x] /\ h[y] = g[y]
        BY <2>13, <2>1, <2>8, <3>3, <3>4, <4>1
      <4> QED
        BY <2>1, <2>15, <4>2
    <3>5. CASE y # i /\ y <= L
      <4>1. x # i /\ x <= L
        <5>1. h[x][1] # i /\ h[y][1] # i
          BY <2>13, <2>15, <3>3, <3>5
        <5>2. x # i
          BY <2>13, <3>2, <3>3, <5>1
        <5>3. ~(x > L)
          BY <2>13, <3>2, <3>3, <5>1
        <5> QED
          BY <2>1, <3>3, <5>2, <5>3
      <4> QED
        BY <3>4, <4>1
    <3>6. CASE x = i \/ x > L
      <4>1. y = i \/ y > L
        BY <2>1, <2>8, <3>3, <3>5, <3>6
      <4>2. (x = i => h[x] = <<i, 1>>) /\ (x > L => h[x] = <<i, x - L + 1>> /\ x - L + 1 \in 2 .. R)
        BY <2>13, <3>3
      <4>3. (y = i => h[y] = <<i, 1>>) /\ (y > L => h[y] = <<i, y - L + 1>> /\ y - L + 1 \in 2 .. R)
        BY <2>13, <3>3
      <4> QED
        BY <2>1, <2>15, <3>1, <3>3, <3>6, <4>1, <4>2, <4>3
    <3> QED
      BY <2>1, <3>3, <3>4, <3>6
  <2>16. ASSUME NEW p \in Parts(i, hdrs) PROVE \E x \in DOMAIN new : h[x] = p
    <3>1. CASE p[1] # i
      <4>1. p \in Parts(n, hdrs)
        BY <2>11, <3>1
      <4>2. PICK x \in 1 .. L : g[x] = p
        BY <2>1, <4>1
      <4>3. x # i
        <5>1. <<i, 0>>[1] = i
          OBVIOUS
        <5> HIDE DEF i
        <5> QED
          BY <2>6, <3>1, <4>2, <5>1
      <4>4. x \in 1 .. L + R - 1 /\ x <= L
        BY <2>1, <2>8
      <4> HIDE DEF i
      <4> QED
        BY <2>8, <2>13, <4>2, <4>3, <4>4
    <3>2. CASE p[1] = i
      <4>1. p = <<i, p[2]>> /\ p[2] \in 1 .. R
        <5> HIDE DEF i
        <5>1. p[2] # 0
          BY <1>1, <1>3, <3>2 DEF Parts, hdr
        <5> QED
          BY <2>4, <2>9, <3>2, <5>1
      <4>2. CASE p[2] = 1
        <5>1. i \in 1 .. L + R - 1
          BY <2>5, <2>8, <2>1
        <5> HIDE DEF i
        <5> QED
          BY <2>8, <2>13, <4>1, <4>2, <5>1
      <4>3. CASE p[2] # 1
        <5> DEFINE x == L + p[2] - 1
        <5>1. x \in 1 .. L + R - 1 /\ x > L /\ x - L + 1 = p[2]
          BY <2>1, <2>4, <4>1, <4>3
        <5> HIDE DEF i, x
        <5>2. h[x] = <<i, x - L + 1>> /\ x \in DOMAIN new
          BY <2>8, <2>13, <5>1
        <5>3. h[x] = p
          BY <4>1, <5>1, <5>2, Zenon
        <5> QED
          BY <5>2, <5>3
      <4> QED
        BY <4>2, <4>3
    <3> QED
      BY <3>1, <3>2
  <2>17. ASSUME NEW x \in DOMAIN new
         PROVE  new[x].key = hdrs[h[x][1]].key /\ new[x].value = PartValue(hdrs, h[x])
    <3>1. x \in 1 .. L + R - 1
      BY <2>8
    <3> HIDE DEF i
    <3>2. CASE x # i /\ x <= L
      <4>1. x \in DOMAIN acc /\ h[x] = g[x] /\ new[x] = acc[x]
        <5>1. x \in 1 .. L
          BY <2>1, <2>8, <3>1, <3>2
        <5> QED
          BY <2>1, <2>7, <2>13, <3>1, <3>2, <5>1
      <4> QED
        BY <2>2, <4>1
    <3>3. CASE x = i
      <4>1. h[x] = <<i, 1>> /\ new[x] = [acc[i] EXCEPT !.value = rcpts[1]]
        BY <2>7, <2>13, <3>1, <3>3
      <4>2. acc[i].key = hdrs[i].key /\ acc[i] \in AddHdr
        BY <2>1, <2>2, <2>5, <2>6
      <4>3. new[x].key = acc[i].key /\ new[x].value = rcpts[1]
        BY <4>1, <4>2 DEF AddHdr
      <4> QED
        BY <4>1, <4>2, <4>3 DEF PartValue
    <3>4. CASE x > L
      <4>1. /\ h[x] = <<i, x - L + 1>> /\ x - L + 1 \in 2 .. R
            /\ new[x] = [key |-> hdr.key, value |-> rcpts[x - L + 1], unique |-> FALSE]
        <5>1. x # i /\ ~(x <= L)
          BY <2>1, <2>13, <3>1, <3>4
        <5> QED
          BY <2>7, <2>13, <3>1, <3>4, <5>1
      <4>2. x - L + 1 # 0
        BY <2>4, <4>1
      <4> QED
        BY <4>1, <4>2 DEF PartValue
    <3> QED
      BY <2>1, <3>1, <3>2, <3>3, <3>4
  <2>18. ASSUME NEW x \in DOMAIN hdrs PROVE h[x][1] = x /\ new[x].unique = hdrs[x].unique
    <3>1. x \in 1 .. L /\ x <= L /\ x \in 1 .. L + R - 1
      BY <1>1, <2>1, <2>8
    <3> HIDE DEF i
    <3>2. CASE x # i
      <4>1. h[x] = g[x] /\ new[x] = acc[x]
        BY <2>7, <2>13, <3>1, <3>2
      <4> QED
        BY <2>3, <4>1
    <3>3. CASE x = i
      <4>1. h[x] = <<i, 1>> /\ new[x] = [acc[i] EXCEPT !.value = rcpts[1]]
        BY <2>7, <2>13, <3>1, <3>3
      <4>2. acc[i] \in AddHdr
        BY <2>1, <2>5
      <4>3. new[x].unique = acc[i].unique
        BY <4>1, <4>2 DEF AddHdr
      <4> QED
        BY <2>3, <3>3, <4>1, <4>3
    <3> QED
      BY <3>2, <3>3
  <2>19. ASSUME NEW x \in DOMAIN new, x > Len(hdrs) PROVE ~new[x].unique
    <3>1. x \in 1 .. L + R - 1 /\ x # i
      BY <2>5, <2>8, <2>19
    <3> HIDE DEF i
    <3>2. CASE x <= L
      <4>1. new[x] = acc[x] /\ x \in DOMAIN acc
        <5>1. x \in 1 .. L
          BY <2>1, <2>8, <3>1, <3>2
        <5> QED
          BY <2>1, <2>7, <3>1, <3>2, <5>1
      <4> QED
        BY <2>3, <2>19, <4>1
    <3>3. CASE ~(x <= L)
      <4>1. new[x] = [key |-> hdr.key, value |-> rcpts[x - L + 1], unique |-> FALSE]
        BY <2>7, <3>1, <3>3
      <4> QED
        BY <4>1
    <3> QED
      BY <3>2, <3>3
  <2>20. Len(new) >= Len(hdrs)
    BY <2>1, <2>7, <2>8
  <2> HIDE DEF i
  <2>21. ExpandedIs(new, h, hdrs, i)
    BY <2>7, <2>14, <2>15, <2>16, <2>17, <2>18, <2>19, <2>20 DEF ExpandedIs
  <2> QED
    BY <2>21 DEF new, i, hdr
<1> QED
  BY <1>2, <1>3

LEMMA ExpandedFacts ==
  ASSUME rcpts \in Seq(Rcpts), NEW hdrs \in Seq(AddHdr),
         rcpts # <<>> \/ \A i \in DOMAIN hdrs : ~IsTemplate(hdrs[i])
  PROVE  \E g : ExpandedIs(Expanded(hdrs), g, hdrs, Len(hdrs))
<1> DEFINE N == Len(hdrs)
<1>1. N \in Nat /\ DOMAIN hdrs = 1 .. N
  OBVIOUS
<1>2. PICK v : /\ v[0] = hdrs
               /\ \A k \in 0 .. N - 1 : v[k + 1] = Expand(v[k], k + 1, hdrs[k + 1])
               /\ Expanded(hdrs) = v[N]
  <2> HIDE DEF N
  <2> QED
    BY <1>1, ExpandedRounds
<1> DEFINE T == {k \in 0 .. N : \E g : ExpandedIs(v[k], g, hdrs, k)}
<1>3. 0 \in T
  <2> DEFINE g == [i \in DOMAIN hdrs |-> <<i, 0>>]
  <2>1. \A i \in DOMAIN hdrs : ~(i <= 0) /\ Len(rcpts) \in Nat /\ 0 \in 0 .. Len(rcpts)
    OBVIOUS
  <2>2. Parts(0, hdrs) = {p \in (DOMAIN hdrs) \X (0 .. Len(rcpts)) : p[2] = 0}
    BY <2>1 DEF Parts
  <2>3. \A i \in DOMAIN hdrs : <<i, 0>> \in Parts(0, hdrs)
    BY <2>1, <2>2
  <2>4. g \in [DOMAIN hdrs -> Parts(0, hdrs)]
    BY <2>3
  <2>5. \A i \in DOMAIN hdrs : g[i] = <<i, 0>>
    OBVIOUS
  <2> HIDE DEF g
  <2>6. \A i, j \in DOMAIN hdrs : g[i] = g[j] => i = j
    BY <2>5
  <2>7. ASSUME NEW p \in Parts(0, hdrs) PROVE \E i \in DOMAIN hdrs : g[i] = p
    <3>1. p = <<p[1], 0>> /\ p[1] \in DOMAIN hdrs
      BY <2>2
    <3> QED
      BY <2>5, <3>1
  <2>8. \A i \in DOMAIN hdrs : hdrs[i].key = hdrs[g[i][1]].key /\ hdrs[i].value = PartValue(hdrs, g[i])
                               /\ g[i][1] = i
    BY <2>5 DEF PartValue
  <2>9. \A i \in DOMAIN hdrs : ~(i > Len(hdrs))
    BY <1>1
  <2>10. Len(hdrs) >= Len(hdrs)
    BY <1>1
  <2>11. ExpandedIs(hdrs, g, hdrs, 0)
    BY <2>4, <2>6, <2>7, <2>8, <2>9, <2>10 DEF ExpandedIs
  <2>12. ExpandedIs(v[0], g, hdrs, 0) /\ 0 \in 0 .. N
    BY <1>1, <1>2, <2>11
  <2> QED
    BY <2>12
<1>4. ASSUME NEW k \in 0 .. N - 1, k \in T PROVE k + 1 \in T
  <2>1. PICK g : ExpandedIs(v[k], g, hdrs, k)
    BY <1>4
  <2>2. k + 1 \in DOMAIN hdrs /\ k + 1 \in 0 .. N
    BY <1>1
  <2>3. rcpts # <<>> \/ ~IsTemplate(hdrs[k + 1])
    BY <2>2
  <2>4. \E h : ExpandedIs(Expand(v[k], k + 1, hdrs[k + 1]), h, hdrs, k + 1)
    <3>1. k \in 0 .. Len(hdrs) - 1
      OBVIOUS
    <3> QED
      BY <2>1, <2>3, <3>1, ExpandStep
  <2>5. v[k + 1] = Expand(v[k], k + 1, hdrs[k + 1])
    BY <1>2
  <2> QED
    BY <2>2, <2>4, <2>5
<1>5. N \in T
  <2>1. \A k \in 0 .. N - 1 : k \in T => k + 1 \in T
    BY <1>4
  <2> HIDE DEF T, N
  <2>2. 0 .. N \subseteq T
    BY ONLY <1>1, <1>3, <2>1, Induction
  <2> QED
    BY <1>1, <2>2
<1> QED
  BY <1>2, <1>5

\* The part of what is promised that comes from rules, or others.
Pairs(hdrs, k, v) ==
  {p \in (DOMAIN hdrs) \X (0 .. Len(rcpts)) :
    /\ hdrs[p[1]].key = k
    /\ IF p[2] = 0 THEN hdrs[p[1]].value = v /\ v \notin {"", Template}
       ELSE hdrs[p[1]].value = Template /\ rcpts[p[2]] = v}

LEMMA ExpandedCount ==
  ASSUME rcpts \in Seq(Rcpts), NEW hdrs \in Seq(AddHdr),
         rcpts # <<>> \/ \A i \in DOMAIN hdrs : ~IsTemplate(hdrs[i]),
         NEW k, NEW v, v # ""
  PROVE  Count(Expanded(hdrs), k, v) = Cardinality(Pairs(hdrs, k, v))
<1> DEFINE N == Len(hdrs)
           all == Expanded(hdrs)
           M == Matching(all, k, v)
<1>1. PICK g : ExpandedIs(all, g, hdrs, N)
  BY ExpandedFacts
<1>12. \A i \in DOMAIN hdrs : i <= N
  <2>1. N \in Nat /\ DOMAIN hdrs = 1 .. N
    BY ONLY hdrs \in Seq(AddHdr)
  <2> HIDE DEF N
  <2> QED
    BY ONLY <2>1
<1>2. /\ all \in Seq(AddHdr) /\ g \in [DOMAIN all -> Parts(N, hdrs)]
      /\ \A i, j \in DOMAIN all : g[i] = g[j] => i = j
      /\ \A p \in Parts(N, hdrs) : \E i \in DOMAIN all : g[i] = p
      /\ \A i \in DOMAIN all : all[i].key = hdrs[g[i][1]].key /\ all[i].value = PartValue(hdrs, g[i])
  BY <1>1 DEF ExpandedIs
<1>3. IsFiniteSet(M)
  BY <1>2, CountType
<1>4. ASSUME NEW p \in Parts(N, hdrs)
      PROVE  p \in Pairs(hdrs, k, v) <=> hdrs[p[1]].key = k /\ PartValue(hdrs, p) = v
  <2>1. p \in (DOMAIN hdrs) \X (0 .. Len(rcpts)) /\ (p[2] = 0 <=> ~IsTemplate(hdrs[p[1]]))
    <3> HIDE DEF N
    <3> QED
      BY <1>12 DEF Parts
  <2> QED
    BY <2>1 DEF Pairs, PartValue, IsTemplate
<1>5. Pairs(hdrs, k, v) \subseteq Parts(N, hdrs)
  <2>1. ASSUME NEW p \in Pairs(hdrs, k, v)
        PROVE  p \in (DOMAIN hdrs) \X (0 .. Len(rcpts)) /\ (p[2] = 0 <=> ~IsTemplate(hdrs[p[1]]))
    BY DEF Pairs, IsTemplate
  <2> HIDE DEF N
  <2> QED
    BY <1>12, <2>1 DEF Parts
<1> DEFINE f == [i \in M |-> g[i]]
<1>6. M \subseteq DOMAIN all /\ \A i \in DOMAIN all : i \in M <=> all[i].key = k /\ all[i].value = v
  BY DEF Matching
<1> HIDE DEF all, M, N
<1>7. \A i \in DOMAIN all : i \in M <=> g[i] \in Pairs(hdrs, k, v)
  BY <1>2, <1>4, <1>6
<1>8. f \in [M -> Pairs(hdrs, k, v)] /\ \A x \in M : f[x] = g[x]
  BY <1>6, <1>7
<1> HIDE DEF f
<1>9. \A x, y \in M : f[x] = f[y] => x = y
  BY <1>2, <1>6, <1>8
<1>10. ASSUME NEW p \in Pairs(hdrs, k, v) PROVE \E x \in M : f[x] = p
  <2>1. PICK x \in DOMAIN all : g[x] = p
    BY <1>2, <1>5
  <2>2. x \in M
    BY <1>7, <2>1
  <2> QED
    BY <1>8, <2>1, <2>2
<1>11. Cardinality(Pairs(hdrs, k, v)) = Cardinality(M)
  BY <1>3, <1>8, <1>9, <1>10, CountedBy
<1> QED
  BY <1>11 DEF Count, M, all
-----------------------------------------------------------------------------
(* The loop that drops the headers without a value.  After n rounds the    *)
(* first n are gone that have none, and f says which ones are left.        *)

LeftIs(acc, f, hdrs, n) ==
  /\ acc.left \in Seq(AddHdr) /\ acc.deleted \in 0 .. n
  /\ Len(acc.left) = Len(hdrs) - acc.deleted
  /\ f \in [DOMAIN acc.left -> DOMAIN hdrs]
  /\ \A i, j \in DOMAIN acc.left : f[i] = f[j] => i = j
  /\ \A i \in DOMAIN acc.left : acc.left[i] = hdrs[f[i]]
  /\ \A i \in DOMAIN acc.left : i <= n - acc.deleted => hdrs[f[i]].value # ""
  /\ \A i \in DOMAIN acc.left : i > n - acc.deleted => f[i] = i + acc.deleted
  /\ \A q \in DOMAIN hdrs : hdrs[q].value # "" => \E i \in DOMAIN acc.left : f[i] = q

LEMMA DropStep ==
  ASSUME NEW hdrs \in Seq(AddHdr), NEW n \in 0 .. Len(hdrs) - 1,
         NEW acc, NEW f, LeftIs(acc, f, hdrs, n)
  PROVE  \E h : LeftIs(Drop(acc, n + 1), h, hdrs, n + 1)
<1> DEFINE d == acc.deleted
           s == acc.left
           L == Len(s)
           k == (n + 1) - d
<1>1. /\ s \in Seq(AddHdr) /\ d \in 0 .. n /\ L = Len(hdrs) - d /\ L \in Nat /\ DOMAIN s = 1 .. L
      /\ f \in [1 .. L -> DOMAIN hdrs]
      /\ \A i, j \in 1 .. L : f[i] = f[j] => i = j
      /\ \A i \in 1 .. L : s[i] = hdrs[f[i]]
  <2>1. s \in Seq(AddHdr) /\ d \in 0 .. n /\ L = Len(hdrs) - d
    BY DEF LeftIs
  <2>2. L \in Nat /\ DOMAIN s = 1 .. L
    BY <2>1
  <2>3. /\ f \in [DOMAIN s -> DOMAIN hdrs] /\ \A i, j \in DOMAIN s : f[i] = f[j] => i = j
        /\ \A i \in DOMAIN s : s[i] = hdrs[f[i]]
    BY DEF LeftIs
  <2> HIDE DEF s, L, d
  <2> QED
    BY <2>1, <2>2, <2>3
<1>2. /\ \A i \in 1 .. L : i <= n - d => hdrs[f[i]].value # ""
      /\ \A i \in 1 .. L : i > n - d => f[i] = i + d
      /\ \A q \in DOMAIN hdrs : hdrs[q].value # "" => \E i \in 1 .. L : f[i] = q
  BY <1>1 DEF LeftIs
<1>3. n \in Nat /\ d \in Nat /\ Len(hdrs) \in Nat
  BY <1>1
<1>4. k \in 1 .. L /\ k > n - d /\ \A i \in 1 .. L : (i <= (n + 1) - d <=> i <= n - d \/ i = k)
  BY <1>1, <1>3
<1>5. CASE s[k].value # ""
  <2>1. Drop(acc, n + 1) = acc
    BY <1>5 DEF Drop
  <2>2. \A i \in 1 .. L : i <= (n + 1) - d => hdrs[f[i]].value # ""
    BY <1>1, <1>2, <1>4, <1>5
  <2>3. \A i \in 1 .. L : i > (n + 1) - d => i > n - d
    BY <1>3
  <2>4. d \in 0 .. n + 1
    BY <1>1, <1>3
  <2> HIDE DEF L, k
  <2>5. LeftIs(acc, f, hdrs, n + 1)
    BY <1>1, <1>2, <2>2, <2>3, <2>4 DEF LeftIs, L
  <2> QED
    BY <2>1, <2>5
<1>6. CASE s[k].value = ""
  <2> DEFINE t == RemoveAt(s, k)
             g == [i \in 1 .. L - 1 |-> IF i < k THEN f[i] ELSE f[i + 1]]
             new == [left |-> t, deleted |-> d + 1]
  <2>1. Drop(acc, n + 1) = new
    BY <1>6 DEF Drop
  <2>2. /\ t \in Seq(AddHdr) /\ Len(t) = L - 1
        /\ \A p \in 1 .. L - 1 : t[p] = IF p < k THEN s[p] ELSE s[p + 1]
    <3>1. k \in 1 .. Len(s) /\ s \in Seq(AddHdr)
      BY <1>1, <1>4
    <3> HIDE DEF k, s
    <3> QED
      BY ONLY <3>1, RemoveAtFacts
  <2>3. DOMAIN t = 1 .. L - 1 /\ L - 1 \in Nat
    BY <1>1, <1>4, <2>2
  <2> DEFINE at(i) == IF i < k THEN i ELSE i + 1
  <2>4. ASSUME NEW i \in 1 .. L - 1
        PROVE  at(i) \in 1 .. L /\ at(i) # k /\ g[i] = f[at(i)] /\ t[i] = s[at(i)]
    <3>1. k \in Int /\ L \in Int
      BY <1>1, <1>4
    <3>2. t[i] = IF i < k THEN s[i] ELSE s[i + 1]
      BY <2>2
    <3>3. g[i] = IF i < k THEN f[i] ELSE f[i + 1]
      OBVIOUS
    <3> HIDE DEF k, L, t, g
    <3> QED
      BY <3>1, <3>2, <3>3
  <2>5. \A i, j \in 1 .. L - 1 : at(i) = at(j) => i = j
    <3>1. k \in Int /\ L \in Int
      BY <1>1, <1>4
    <3> HIDE DEF k, L
    <3> QED
      BY <3>1
  <2>6. \A x \in 1 .. L : x # k => \E i \in 1 .. L - 1 : at(i) = x
    <3>1. k \in Int /\ L \in Int /\ k \in 1 .. L
      BY <1>1, <1>4
    <3> HIDE DEF k, L
    <3>2. ASSUME NEW x \in 1 .. L, x < k PROVE x \in 1 .. L - 1 /\ at(x) = x
      BY <3>1, <3>2
    <3>3. ASSUME NEW x \in 1 .. L, x > k PROVE x - 1 \in 1 .. L - 1 /\ at(x - 1) = x
      BY <3>1, <3>3
    <3> HIDE DEF at
    <3> QED
      BY <3>1, <3>2, <3>3
  <2>7. \A i \in 1 .. L - 1 : (i <= (n + 1) - (d + 1) => at(i) <= n - d)
                           /\ (i > (n + 1) - (d + 1) => at(i) = i + 1 /\ at(i) > n - d)
    BY <1>1, <1>3, <1>4
  <2>8. g \in [1 .. L - 1 -> DOMAIN hdrs]
    <3>1. g = [i \in 1 .. L - 1 |-> g[i]]
      OBVIOUS
    <3> HIDE DEF g, at, L
    <3>2. \A x \in 1 .. L : f[x] \in DOMAIN hdrs
      BY <1>1
    <3>3. \A i \in 1 .. L - 1 : g[i] \in DOMAIN hdrs
      BY <2>4, <3>2
    <3> QED
      BY <3>1, <3>3
  <2>9. d + 1 \in 0 .. n + 1 /\ L - 1 = Len(hdrs) - (d + 1)
    BY <1>1, <1>3
  <2>10. f[k] = n + 1 /\ hdrs[n + 1].value = ""
    <3>1. k \in 1 .. L /\ k > n - d /\ k + d = n + 1
      BY <1>3, <1>4
    <3> HIDE DEF k, L, d, s
    <3>2. f[k] = k + d
      BY <1>2, <3>1
    <3>3. s[k] = hdrs[f[k]]
      BY <1>1, <3>1
    <3> QED
      BY <1>6, <3>1, <3>2, <3>3
  <2> HIDE DEF g, at, t, L, k
  <2>11. \A i, j \in 1 .. L - 1 : g[i] = g[j] => i = j
    BY <1>1, <2>4, <2>5
  <2>12. ASSUME NEW i \in 1 .. L - 1 PROVE t[i] = hdrs[g[i]]
    <3>1. at(i) \in 1 .. L /\ g[i] = f[at(i)] /\ t[i] = s[at(i)]
      BY <2>4
    <3> QED
      BY <1>1, <3>1
  <2>13. \A i \in 1 .. L - 1 : i <= (n + 1) - (d + 1) => hdrs[g[i]].value # ""
    BY <1>2, <2>4, <2>7
  <2>14. ASSUME NEW i \in 1 .. L - 1, i > (n + 1) - (d + 1) PROVE g[i] = i + (d + 1)
    <3>1. g[i] = (i + 1) + d
      BY <1>2, <2>4, <2>7, <2>14
    <3> QED
      BY <1>3, <3>1
  <2>15. ASSUME NEW q \in DOMAIN hdrs, hdrs[q].value # "" PROVE \E i \in 1 .. L - 1 : g[i] = q
    <3>1. PICK x \in 1 .. L : f[x] = q
      BY <1>2, <2>15
    <3>2. x # k
      BY <2>10, <2>15, <3>1
    <3> QED
      BY <2>4, <2>6, <3>1, <3>2
  <2>16. new.left = t /\ new.deleted = d + 1
    OBVIOUS
  <2> HIDE DEF new
  <2>17. LeftIs(new, g, hdrs, n + 1)
    BY <2>2, <2>3, <2>8, <2>9, <2>11, <2>12, <2>13, <2>14, <2>15, <2>16 DEF LeftIs
  <2> QED
    BY <2>1, <2>17
<1> QED
  BY <1>5, <1>6

LEMMA DroppedFacts ==
  ASSUME NEW hdrs \in Seq(AddHdr)
  PROVE  \E acc : \E f : DropEmpty(hdrs) = acc.left /\ LeftIs(acc, f, hdrs, Len(hdrs))
<1> DEFINE N == Len(hdrs)
           start == [left |-> hdrs, deleted |-> 0]
<1>1. N \in Nat /\ DOMAIN hdrs = 1 .. N
  OBVIOUS
<1>2. PICK v : /\ v[0] = start
               /\ \A k \in 0 .. N - 1 : v[k + 1] = Drop(v[k], k + 1)
               /\ DropEmpty(hdrs) = v[N].left
  <2> HIDE DEF N
  <2> QED
    BY <1>1, DropRounds
<1> DEFINE T == {k \in 0 .. N : \E f : LeftIs(v[k], f, hdrs, k)}
<1>3. 0 \in T
  <2> DEFINE f == [i \in DOMAIN hdrs |-> i]
  <2>1. start.left = hdrs /\ start.deleted = 0
    OBVIOUS
  <2>2. f \in [DOMAIN hdrs -> DOMAIN hdrs] /\ \A i \in DOMAIN hdrs : f[i] = i
    OBVIOUS
  <2> HIDE DEF f, start
  <2>3. \A i \in DOMAIN hdrs : ~(i <= 0 - 0) /\ i + 0 = i
    BY <1>1
  <2>4. 0 \in 0 .. 0 /\ Len(hdrs) = Len(hdrs) - 0
    BY <1>1
  <2>5. LeftIs(start, f, hdrs, 0)
    BY <2>1, <2>2, <2>3, <2>4 DEF LeftIs
  <2>6. LeftIs(v[0], f, hdrs, 0) /\ 0 \in 0 .. N
    BY <1>1, <1>2, <2>5
  <2> QED
    BY <2>6
<1>4. ASSUME NEW k \in 0 .. N - 1, k \in T PROVE k + 1 \in T
  <2>1. PICK f : LeftIs(v[k], f, hdrs, k)
    BY <1>4
  <2>2. \E h : LeftIs(Drop(v[k], k + 1), h, hdrs, k + 1)
    <3>1. k \in 0 .. Len(hdrs) - 1
      OBVIOUS
    <3> QED
      BY <2>1, <3>1, DropStep
  <2>3. v[k + 1] = Drop(v[k], k + 1) /\ k + 1 \in 0 .. N
    BY <1>1, <1>2
  <2> QED
    BY <2>2, <2>3
<1>5. N \in T
  <2>1. \A k \in 0 .. N - 1 : k \in T => k + 1 \in T
    BY <1>4
  <2> HIDE DEF T, N
  <2>2. 0 .. N \subseteq T
    BY ONLY <1>1, <1>3, <2>1, Induction
  <2> QED
    BY <1>1, <2>2
<1> QED
  BY <1>2, <1>5

LEMMA Positions ==
  ASSUME NEW S, NEW s \in Seq(S)
  PROVE  /\ Len(s) \in Nat /\ DOMAIN s = 1 .. Len(s)
         /\ \A i \in DOMAIN s : i \in Nat /\ 1 <= i /\ i <= Len(s)
OBVIOUS

LEMMA DroppedCount ==
  ASSUME NEW hdrs \in Seq(AddHdr), NEW k, NEW v
  PROVE  /\ DropEmpty(hdrs) \in Seq(AddHdr)
         /\ Count(DropEmpty(hdrs), k, v) = IF v = "" THEN 0 ELSE Count(hdrs, k, v)
<1> DEFINE N == Len(hdrs)
           s == DropEmpty(hdrs)
           M == Matching(s, k, v)
           P == Matching(hdrs, k, v)
<1>1. PICK acc : \E f : s = acc.left /\ LeftIs(acc, f, hdrs, N)
  BY DroppedFacts
<1>2. PICK f : s = acc.left /\ LeftIs(acc, f, hdrs, N)
  BY <1>1
<1>3. /\ s \in Seq(AddHdr) /\ f \in [DOMAIN s -> DOMAIN hdrs]
      /\ \A i, j \in DOMAIN s : f[i] = f[j] => i = j
      /\ \A i \in DOMAIN s : s[i] = hdrs[f[i]]
      /\ \A q \in DOMAIN hdrs : hdrs[q].value # "" => \E i \in DOMAIN s : f[i] = q
  BY <1>2 DEF LeftIs
<1>4. \A i \in DOMAIN s : s[i].value # ""
  <2>1. /\ Len(s) = N - acc.deleted
        /\ \A i \in DOMAIN s : i <= N - acc.deleted => hdrs[f[i]].value # ""
    BY <1>2 DEF LeftIs
  <2>2. \A i \in DOMAIN s : i <= Len(s)
    <3>1. s \in Seq(AddHdr)
      BY <1>3
    <3> QED
      BY ONLY <3>1, Positions
  <2> HIDE DEF s
  <2>3. \A i \in DOMAIN s : hdrs[f[i]].value # ""
    BY <2>1, <2>2
  <2> QED
    BY <1>3, <2>3
<1>5. /\ M \subseteq DOMAIN s /\ \A i \in DOMAIN s : i \in M <=> s[i].key = k /\ s[i].value = v
      /\ P \subseteq DOMAIN hdrs /\ \A i \in DOMAIN hdrs : i \in P <=> hdrs[i].key = k /\ hdrs[i].value = v
  BY DEF Matching
<1>6. IsFiniteSet(M)
  BY <1>3, CountType
<1> HIDE DEF s, M, P, N
<1>7. CASE v = ""
  <2>1. M = {}
    BY <1>4, <1>5, <1>7
  <2> QED
    BY <1>3, <1>7, <2>1, FS_EmptySet DEF Count, M, s
<1>8. CASE v # ""
  <2> DEFINE h == [i \in M |-> f[i]]
  <2>1. ASSUME NEW i \in DOMAIN s PROVE i \in M <=> f[i] \in P
    <3>1. s[i] = hdrs[f[i]] /\ f[i] \in DOMAIN hdrs
      BY <1>3
    <3> QED
      BY <1>5, <3>1
  <2>2. h \in [M -> P] /\ \A i \in M : h[i] = f[i]
    BY <1>5, <2>1
  <2> HIDE DEF h
  <2>3. \A i, j \in M : h[i] = h[j] => i = j
    BY <1>3, <1>5, <2>2
  <2>4. ASSUME NEW q \in P PROVE \E i \in M : h[i] = q
    <3>1. PICK i \in DOMAIN s : f[i] = q
      BY <1>3, <1>5, <1>8
    <3>2. i \in M
      BY <2>1, <3>1
    <3> QED
      BY <2>2, <3>1, <3>2
  <2>5. Cardinality(P) = Cardinality(M)
    BY <1>6, <2>2, <2>3, <2>4, CountedBy
  <2> QED
    BY <1>3, <1>8, <2>5 DEF Count, M, P, s
<1> QED
  BY <1>7, <1>8
-----------------------------------------------------------------------------
(* What messageGetMutableHeaders makes of the rules and of the signature.  *)

Signature == [key |-> DkimSignature, value |-> "signature", unique |-> FALSE]

\* The rules, and the signature if there is one.
AsConfigured ==
  /\ signed = "no" => addHeaders = rules
  /\ signed # "no" => addHeaders = Append(rules, Signature)

LEMMA RuleFacts ==
  /\ Rule \subseteq AddHdr /\ Signature \in AddHdr /\ Configs \subseteq Seq(AddHdr)
  /\ \A s \in Configs : \A i \in DOMAIN s : s[i] \in Rule
<1>1. Rule \subseteq AddHdr
  BY DEF Rule, AddHdr, Values, Sources, Template
<1>2. Signature \in AddHdr
  BY HeadersAssumption DEF Signature, AddHdr, Values, Sources
<1>3. Configs \subseteq Seq(Rule)
  BY HeadersAssumption
<1>4. ASSUME NEW s \in Configs PROVE s \in Seq(AddHdr) /\ \A i \in DOMAIN s : s[i] \in Rule
  <2>1. s \in Seq(Rule)
    BY <1>3
  <2> QED
    BY <1>1, <2>1
<1> QED
  BY <1>1, <1>2, <1>4

\* Without the signature, there is one pair less.
LEMMA PairsOf ==
  ASSUME rules \in Configs, rcpts \in Seq(Rcpts), NEW k, NEW v
  PROVE  /\ IsFiniteSet(Pairs(rules, k, v))
         /\ v = "signature" => Pairs(rules, k, v) = {}
         /\ Pairs(Append(rules, Signature), k, v) =
              IF k = DkimSignature /\ v = "signature" THEN {<<Len(rules) + 1, 0>>}
              ELSE Pairs(rules, k, v)
<1> DEFINE n == Len(rules) + 1
           s == Append(rules, Signature)
           R == 0 .. Len(rcpts)
<1>1. rules \in Seq(AddHdr) /\ \A i \in DOMAIN rules : rules[i] \in Rule
  BY RuleFacts
<1>2. /\ DOMAIN s = DOMAIN rules \cup {n} /\ n \notin DOMAIN rules /\ DOMAIN rules = 1 .. Len(rules)
      /\ s[n] = Signature /\ \A i \in DOMAIN rules : s[i] = rules[i]
  BY <1>1
<1>3. Len(rules) \in Nat /\ Len(rcpts) \in Nat /\ 0 \in R
  BY <1>1
<1>4. \A j \in R : j # 0 => rcpts[j] \notin Sources
  <2>1. \A j \in R : j # 0 => j \in DOMAIN rcpts
    BY <1>3
  <2> HIDE DEF R
  <2> QED
    BY <2>1, RcptFacts
<1>5. \A i \in DOMAIN rules : rules[i].value # "signature"
  BY <1>1 DEF Rule, Template
<1>6. Signature.value = "signature" /\ Signature.key = DkimSignature
  BY DEF Signature
<1>7. IsFiniteSet(Pairs(rules, k, v))
  <2>1. IsFiniteSet(DOMAIN rules) /\ IsFiniteSet(R)
    BY <1>2, <1>3, FS_Interval
  <2>2. IsFiniteSet((DOMAIN rules) \X R)
    BY <2>1, FS_Product
  <2>3. Pairs(rules, k, v) \in SUBSET ((DOMAIN rules) \X R)
    BY DEF Pairs
  <2> QED
    BY <2>2, <2>3, FS_Subset
<1>8. ASSUME v = "signature" PROVE Pairs(rules, k, v) = {}
  <2>1. \A p \in Pairs(rules, k, v) :
          /\ p[1] \in DOMAIN rules /\ p[2] \in R
          /\ p[2] = 0 => rules[p[1]].value = v
          /\ p[2] # 0 => rcpts[p[2]] = v
    BY DEF Pairs
  <2> HIDE DEF R
  <2> QED
    BY <1>4, <1>5, <1>8, <2>1 DEF Sources
<1> HIDE DEF n, s
<1>9. ASSUME NEW p \in (DOMAIN s) \X R, p[1] # n
      PROVE  p \in Pairs(s, k, v) <=> p \in Pairs(rules, k, v)
  <2>1. p[1] \in DOMAIN rules /\ s[p[1]] = rules[p[1]] /\ p \in (DOMAIN rules) \X R
    BY <1>2, <1>9
  <2> QED
    BY <2>1 DEF Pairs
<1>10. ASSUME NEW p \in (DOMAIN s) \X R, p[1] = n
       PROVE  p \in Pairs(s, k, v) <=> p[2] = 0 /\ k = DkimSignature /\ v = "signature"
  <2>1. s[p[1]] = Signature
    BY <1>2, <1>10
  <2>2. p \in Pairs(s, k, v) <=>
          /\ Signature.key = k
          /\ IF p[2] = 0 THEN Signature.value = v /\ v \notin {"", Template}
             ELSE Signature.value = Template /\ rcpts[p[2]] = v
    BY <2>1 DEF Pairs
  <2> QED
    BY <1>6, <2>2 DEF Template
<1>11. Pairs(s, k, v) \subseteq (DOMAIN s) \X R /\ Pairs(rules, k, v) \subseteq (DOMAIN rules) \X R
  BY DEF Pairs
<1>12. CASE k = DkimSignature /\ v = "signature"
  <2>1. <<n, 0>> \in (DOMAIN s) \X R /\ <<n, 0>>[1] = n /\ <<n, 0>>[2] = 0
    BY <1>2, <1>3
  <2>2. <<n, 0>> \in Pairs(s, k, v)
    BY <1>10, <1>12, <2>1
  <2>3. ASSUME NEW p \in Pairs(s, k, v) PROVE p = <<n, 0>>
    <3>1. p \in (DOMAIN s) \X R /\ p = <<p[1], p[2]>>
      BY <1>11
    <3>2. p[1] = n
      BY <1>8, <1>9, <1>12, <3>1
    <3>3. p[2] = 0
      BY <1>10, <3>1, <3>2
    <3> QED
      BY <3>1, <3>2, <3>3
  <2>4. Pairs(s, k, v) = {<<n, 0>>}
    BY <2>2, <2>3
  <2> QED
    BY <1>7, <1>8, <1>12, <2>4 DEF n, s
<1>13. CASE ~(k = DkimSignature /\ v = "signature")
  <2>1. ASSUME NEW p PROVE p \in Pairs(s, k, v) <=> p \in Pairs(rules, k, v)
    <3>1. ASSUME p \in Pairs(s, k, v) PROVE p \in Pairs(rules, k, v)
      <4>1. p \in (DOMAIN s) \X R /\ p[1] # n
        BY <1>10, <1>11, <1>13, <3>1
      <4> QED
        BY <1>9, <3>1, <4>1
    <3>2. ASSUME p \in Pairs(rules, k, v) PROVE p \in Pairs(s, k, v)
      <4>1. p \in (DOMAIN rules) \X R
        BY <1>11, <3>2
      <4>2. p \in (DOMAIN s) \X R /\ p[1] # n
        BY <1>2, <4>1
      <4> QED
        BY <1>9, <3>2, <4>2
    <3> QED
      BY <3>1, <3>2
  <2>2. Pairs(s, k, v) = Pairs(rules, k, v)
    BY <2>1
  <2> QED
    BY <1>7, <1>8, <1>13, <2>2 DEF s
<1> QED
  BY <1>12, <1>13
-----------------------------------------------------------------------------
(* The invariant                                                           *)

ClientHdr == [key : Keys, value : {"sent", "generated"}, n : Nat, milterIdx : Nat]
MtaHdr == [key : Keys, value : Values, n : Nat]

HTypes ==
  /\ rules \in Configs /\ rcpts \in RcptLists /\ insertMissing \in BOOLEAN
  /\ headers \in Seq(ClientHdr) /\ mta \in Seq(MtaHdr) /\ adds \in Seq(AddHdr)
  /\ injected \in {None, Generated} /\ signed \in {"no", "heard", "late"}
  /\ deletes \in SUBSET (Nat \X DOMAIN headers)
  /\ pc \in {"headers", "checks", "judged", "saved", "deleting", "done", "panicked"}

\* What the client sent is numbered; what was made up, for want of a
\* Message-Id, is not.
AsSent ==
  /\ \A i \in DOMAIN headers :
       /\ headers[i].n # 0 => headers[i].n = i /\ headers[i].value = "sent"
       /\ headers[i].n = 0 => headers[i].key = MessageId /\ headers[i].value = "generated"
                              /\ injected = Generated
  /\ \A i \in GetHeader(MessageId) : injected = Generated => headers[i].n = 0
  /\ pc \in {"headers", "checks"} => injected = None
  /\ pc \notin {"headers", "checks"} => GetHeader(MessageId) # {}
  /\ pc = "headers" => Len(mta) = Len(headers)

\* The first one of a key has the number 1.
FirstIsOne ==
  \A i \in DOMAIN headers :
    headers[i].n # 0 /\ (\A j \in DOMAIN headers : j < i => headers[j].key # headers[i].key)
      => headers[i].milterIdx = 1

\* Until the rules apply, nothing has been asked of the MTA.
Before ==
  pc \notin {"deleting", "done"} =>
    AsConfigured /\ deletes = {} /\ adds = <<>> /\ \A p \in DOMAIN mta : mta[p].n # 0

(* What the MTA has left of the client's headers is in their order, and    *)
(* before all that was added.                                              *)
InOrder ==
  /\ \A p \in DOMAIN mta : mta[p].n # 0 =>
       /\ mta[p].n \in DOMAIN headers /\ headers[mta[p].n].n # 0
       /\ mta[p].key = headers[mta[p].n].key /\ mta[p].value = "sent"
  /\ \A p, q \in DOMAIN mta : p < q /\ mta[q].n # 0 => mta[p].n # 0 /\ mta[p].n < mta[q].n
  /\ \A p \in DOMAIN mta : mta[p].value = "signature" => mta[p].key = DkimSignature

Gone(i) == \A p \in DOMAIN mta : mta[p].n # i

\* The only one of its key that the client sent.
Single(i) ==
  headers[i].n # 0 /\
  \A j \in DOMAIN headers : headers[j].key = headers[i].key /\ headers[j].n # 0 => j = i

Deleted ==
  /\ \A d \in deletes : headers[d[2]].key \in UniqueKeys
  /\ deletes # {} => \A p \in DOMAIN mta : mta[p].n # 0
  /\ \A i \in DOMAIN headers : headers[i].n # 0 /\ headers[i].key \notin UniqueKeys => ~Gone(i)
  /\ pc \in {"deleting", "done"} =>
       \A i \in DOMAIN headers : Single(i) /\ headers[i].key \in UniqueKeys =>
         Gone(i) \/ \E d \in deletes : d[2] = i
  /\ pc = "done" => deletes = {} /\ adds = <<>>

\* What has been added, with what is still to be.
Accounted ==
  pc \in {"deleting", "done"} =>
    /\ \A k \in Keys : \A v \in Values \ {"signature"} :
         Added(k, v) + Count(adds, k, v) = Promised(k, v)
    /\ signed = "heard" =>
         Added(DkimSignature, "signature") + Count(adds, DkimSignature, "signature") = 1
    /\ signed = "no" =>
         Added(DkimSignature, "signature") + Count(adds, DkimSignature, "signature") = 0

Cached == pc \in {"saved", "deleting", "done"} => cachedAs = GetMessageId

HInv ==
  HTypes /\ AsSent /\ FirstIsOne /\ Before /\ InOrder /\ Deleted /\ Accounted /\ Cached
-----------------------------------------------------------------------------
\* What the rules come to: what they promise, and the signature.
LEMMA MadeFacts ==
  ASSUME rules \in Configs, rcpts \in Seq(Rcpts), injected \in {None, Generated}, AsConfigured,
         ~NoRecipient, NEW all, all = WithMessageId(Expanded(addHeaders))
  PROVE  /\ DropEmpty(all) \in Seq(AddHdr)
         /\ \A k \in Keys, v \in Values \ {"signature"} :
              Count(DropEmpty(all), k, v) =
                Cardinality(Pairs(rules, k, v))
                + (IF insertMissing /\ k = MessageId /\ v = "generated" /\ injected = Generated
                   THEN 1 ELSE 0)
         /\ Count(DropEmpty(all), DkimSignature, "signature") = IF signed = "no" THEN 0 ELSE 1
         /\ DOMAIN all \subseteq Nat
         /\ \A i \in DOMAIN all : all[i].unique => all[i].key \in UniqueKeys
         /\ \A k \in UniqueKeys : \E i \in DOMAIN all : all[i].unique /\ all[i].key = k
<1> DEFINE s == Expanded(addHeaders)
           id == [key |-> MessageId, value |-> injected.value, unique |-> FALSE]
<1>1. rules \in Seq(AddHdr) /\ Signature \in AddHdr /\ \A i \in DOMAIN rules : rules[i] \in Rule
  BY RuleFacts
<1>2. addHeaders = rules \/ addHeaders = Append(rules, Signature)
  BY DEF AsConfigured
<1>3. /\ addHeaders \in Seq(AddHdr) /\ Len(rules) <= Len(addHeaders)
      /\ \A i \in DOMAIN rules : i \in DOMAIN addHeaders /\ addHeaders[i] = rules[i]
      /\ \A i \in DOMAIN addHeaders : i \in DOMAIN rules \/ addHeaders[i] = Signature
  BY <1>1, <1>2
<1>4. rcpts # <<>> \/ \A i \in DOMAIN addHeaders : ~IsTemplate(addHeaders[i])
  BY DEF NoRecipient
<1>5. PICK g : ExpandedIs(s, g, addHeaders, Len(addHeaders))
  BY <1>3, <1>4, ExpandedFacts
<1>6. /\ s \in Seq(AddHdr) /\ Len(s) >= Len(addHeaders)
      /\ \A i \in DOMAIN s : s[i].key = addHeaders[g[i][1]].key
      /\ \A i \in DOMAIN addHeaders : g[i][1] = i /\ s[i].unique = addHeaders[i].unique
      /\ \A i \in DOMAIN s : i > Len(addHeaders) => ~s[i].unique
  BY <1>5 DEF ExpandedIs
<1>7. ASSUME NEW k, NEW v, v # "" PROVE Count(s, k, v) = Cardinality(Pairs(addHeaders, k, v))
  BY <1>3, <1>4, <1>7, ExpandedCount
<1>8. None # Generated /\ (injected = Generated => id.value = "generated") /\ id.key = MessageId /\ ~id.unique
  <2>1. None.value # Generated.value
    BY DEF None, Generated
  <2> QED
    BY <2>1 DEF Generated
<1>9. /\ all \in Seq(AddHdr)
      /\ \A k, v : Count(all, k, v) =
           Count(s, k, v) + (IF insertMissing /\ k = MessageId /\ v = "generated" /\ injected = Generated
                             THEN 1 ELSE 0)
      /\ \A i \in DOMAIN s : i \in DOMAIN all /\ all[i] = s[i]
      /\ \A i \in DOMAIN all : i \in DOMAIN s \/ ~all[i].unique
  <2>1. CASE insertMissing /\ injected = Generated
    <3>1. id \in AddHdr
      <4>1. id.value = "generated" /\ MessageId \in Keys /\ "generated" \in Values
        BY <1>8, <2>1, HeadersAssumption DEF Values, Sources
      <4>2. id = [key |-> MessageId, value |-> "generated", unique |-> FALSE]
        BY <2>1 DEF Generated
      <4> HIDE DEF id
      <4> QED
        BY <4>1, <4>2 DEF AddHdr
    <3>2. all = Append(s, id)
      BY <1>8, <2>1 DEF WithMessageId
    <3> HIDE DEF s, id
    <3>3. ASSUME NEW k, NEW v
          PROVE  Count(all, k, v) = Count(s, k, v) + (IF id.key = k /\ id.value = v THEN 1 ELSE 0)
      BY <1>6, <3>1, <3>2, CountAppend
    <3>4. /\ all \in Seq(AddHdr)
          /\ \A i \in DOMAIN s : i \in DOMAIN all /\ all[i] = s[i]
          /\ \A i \in DOMAIN all : i \in DOMAIN s \/ all[i] = id
      BY <1>6, <3>1, <3>2
    <3> QED
      BY <1>8, <2>1, <3>3, <3>4
  <2>2. CASE ~(insertMissing /\ injected = Generated)
    <3>1. all = s
      BY <1>8, <2>2 DEF WithMessageId
    <3> HIDE DEF s
    <3>2. \A k, v : Count(s, k, v) \in Nat
      BY <1>6, CountType
    <3> QED
      BY <1>6, <2>2, <3>1, <3>2
  <2> QED
    BY <2>1, <2>2
<1> HIDE DEF s, id
<1>10. DropEmpty(all) \in Seq(AddHdr)
       /\ \A k, v : Count(DropEmpty(all), k, v) = IF v = "" THEN 0 ELSE Count(all, k, v)
  <2>1. all \in Seq(AddHdr)
    BY <1>9
  <2> QED
    BY ONLY <2>1, DroppedCount
<1>11. ASSUME NEW k \in Keys, NEW v \in Values \ {"signature"}
       PROVE  Count(DropEmpty(all), k, v) =
                Cardinality(Pairs(rules, k, v))
                + (IF insertMissing /\ k = MessageId /\ v = "generated" /\ injected = Generated
                   THEN 1 ELSE 0)
  <2>1. CASE v = ""
    <3>1. \A p \in Pairs(rules, k, v) : p[2] \in 0 .. Len(rcpts) /\ p[2] # 0 /\ rcpts[p[2]] = v
      BY <2>1 DEF Pairs
    <3>2. \A j \in 0 .. Len(rcpts) : j # 0 => rcpts[j] \notin Sources
      <4>1. \A j \in 0 .. Len(rcpts) : j # 0 => j \in DOMAIN rcpts
        OBVIOUS
      <4> QED
        BY <4>1, RcptFacts
    <3>3. Pairs(rules, k, v) = {}
      BY <2>1, <3>1, <3>2 DEF Sources
    <3>4. Cardinality(Pairs(rules, k, v)) = 0
      BY <3>3, FS_EmptySet
    <3>5. Count(DropEmpty(all), k, v) = 0 /\ v # "generated"
      BY <1>10, <2>1
    <3> QED
      BY <3>4, <3>5
  <2>2. CASE v # ""
    <3>1. Pairs(addHeaders, k, v) = Pairs(rules, k, v)
      BY <1>2, PairsOf
    <3>2. Count(DropEmpty(all), k, v) = Count(all, k, v)
      BY <1>10, <2>2
    <3>3. Count(s, k, v) = Cardinality(Pairs(rules, k, v))
      BY <1>7, <2>2, <3>1
    <3> QED
      BY <1>9, <3>2, <3>3
  <2> QED
    BY <2>1, <2>2
<1>12. Count(DropEmpty(all), DkimSignature, "signature") = IF signed = "no" THEN 0 ELSE 1
  <2> DEFINE P == Pairs(addHeaders, DkimSignature, "signature")
  <2>1. Count(all, DkimSignature, "signature") = Count(s, DkimSignature, "signature")
    <3>1. Count(s, DkimSignature, "signature") \in Nat
      BY <1>6, CountType
    <3> QED
      BY <1>9, <3>1
  <2>2. Count(DropEmpty(all), DkimSignature, "signature") = Cardinality(P)
    <3>1. Count(s, DkimSignature, "signature") = Cardinality(P)
      BY <1>7
    <3> QED
      BY <1>10, <2>1, <3>1
  <2>3. CASE signed = "no"
    <3>1. P = {}
      BY <2>3, PairsOf DEF AsConfigured
    <3> QED
      BY <2>2, <2>3, <3>1, FS_EmptySet
  <2>4. CASE signed # "no"
    <3>1. P = {<<Len(rules) + 1, 0>>}
      BY <2>4, PairsOf DEF AsConfigured
    <3> QED
      BY <2>2, <2>4, <3>1, FS_Singleton
  <2> QED
    BY <2>3, <2>4
<1>13. ASSUME NEW i \in DOMAIN all, all[i].unique PROVE all[i].key \in UniqueKeys
  <2>1. i \in DOMAIN s /\ all[i] = s[i] /\ s[i].unique
    BY <1>9, <1>13
  <2>2. i \in DOMAIN addHeaders
    <3>1. i \in Nat /\ i >= 1 /\ ~(i > Len(addHeaders))
      BY <1>6, <2>1
    <3> QED
      BY <1>3, <3>1
  <2>3. g[i][1] = i /\ addHeaders[i].unique /\ s[i].key = addHeaders[i].key
    BY <1>6, <2>1, <2>2
  <2>4. i \in DOMAIN rules /\ addHeaders[i] = rules[i]
    BY <1>3, <2>2, <2>3 DEF Signature
  <2> QED
    BY <2>1, <2>3, <2>4 DEF UniqueKeys
<1>14. ASSUME NEW k \in UniqueKeys PROVE \E i \in DOMAIN all : all[i].unique /\ all[i].key = k
  <2>1. PICK i \in DOMAIN rules : rules[i].unique /\ rules[i].key = k
    BY DEF UniqueKeys
  <2>2. i \in DOMAIN addHeaders /\ addHeaders[i] = rules[i]
    BY <1>3
  <2>3. i \in DOMAIN s
    BY <1>3, <1>6, <2>2
  <2>4. g[i][1] = i /\ s[i].unique /\ s[i].key = k
    BY <1>6, <2>1, <2>2, <2>3
  <2> QED
    BY <1>9, <2>3, <2>4
<1>15. DOMAIN all \subseteq Nat
  BY <1>9
<1> QED
  BY <1>10, <1>11, <1>12, <1>13, <1>14, <1>15

LEMMA ConfigSame ==
  UNCHANGED <<configVars, headers>> =>
    /\ UniqueKeys' = UniqueKeys /\ GetHeader(MessageId)' = GetHeader(MessageId)
    /\ GetMessageId' = GetMessageId
    /\ \A i : Single(i)' = Single(i)
    /\ \A k, v : Promised(k, v)' = Promised(k, v)
BY DEF configVars, UniqueKeys, GetHeader, GetMessageId, Single, Promised, Sent

LEMMA MtaSame ==
  mta' = mta => (\A i : Gone(i)' = Gone(i)) /\ \A k, v : Added(k, v)' = Added(k, v)
BY DEF Gone, Added

LEMMA InitHInv == Init => HInv
<1> SUFFICES ASSUME Init PROVE HInv
  OBVIOUS
<1>1. HTypes
  BY DEF Init, HTypes
<1>2. AsSent /\ FirstIsOne /\ Before /\ InOrder /\ Deleted
  BY DEF Init, AsSent, FirstIsOne, Before, InOrder, Deleted, AsConfigured, GetHeader
<1>3. Accounted /\ Cached
  BY DEF Init, Accounted, Cached
<1> QED
  BY <1>1, <1>2, <1>3 DEF HInv
-----------------------------------------------------------------------------
(* The steps                                                               *)

\* Until the rules apply, all that the MTA has is the client's.
LEMMA Unasked ==
  HInv /\ pc \notin {"deleting", "done"} =>
    deletes = {} /\ adds = <<>> /\ \A p \in DOMAIN mta : mta[p].n # 0
BY DEF HInv, Before

LEMMA HeaderStep ==
  ASSUME NEW k \in Keys PROVE HInv /\ Header(k) => HInv'
<1> SUFFICES ASSUME HInv, Header(k) PROVE HInv'
  OBVIOUS
<1> DEFINE N == Len(headers)
           hdr == Received(k, Cardinality(GetHeader(k)) + 1)
           new == [key |-> k, value |-> "sent", n |-> N + 1]
<1>1. HTypes /\ AsSent /\ FirstIsOne /\ Before /\ InOrder /\ Deleted
  BY DEF HInv
<1>2. /\ pc = "headers" /\ pc' = "headers"
      /\ UNCHANGED <<configVars, addHeaders, injected, cachedAs, signed, eomVars>>
  BY DEF Header
<1>3. headers \in Seq(ClientHdr) /\ mta \in Seq(MtaHdr) /\ Len(mta) = N /\ N \in Nat
      /\ DOMAIN headers = 1 .. N /\ DOMAIN mta = 1 .. N
  BY <1>1, <1>2 DEF HTypes, AsSent
<1>4. headers' = Append(headers, hdr) /\ mta' = Append(mta, new)
  BY <1>3 DEF Header
<1>5. GetHeader(k) \in SUBSET DOMAIN headers /\ Cardinality(GetHeader(k)) \in Nat
  <2>1. GetHeader(k) \in SUBSET (1 .. N)
    BY <1>3 DEF GetHeader
  <2>2. IsFiniteSet(1 .. N)
    BY <1>3, FS_Interval
  <2>3. IsFiniteSet(GetHeader(k))
    BY <2>1, <2>2, FS_Subset
  <2> QED
    BY <1>3, <2>1, <2>3, FS_CardinalityType
<1>6. /\ hdr \in ClientHdr /\ hdr.key = k /\ hdr.value = "sent" /\ hdr.n = N + 1
      /\ hdr.milterIdx = Cardinality(GetHeader(k)) + 1
  BY <1>3, <1>5 DEF Received, ClientHdr
<1>7. new \in MtaHdr /\ new.key = k /\ new.value = "sent" /\ new.n = N + 1
  <2>1. N + 1 \in Nat /\ "sent" \in Values
    BY <1>3 DEF Values, Sources
  <2> HIDE DEF N
  <2> QED
    BY <2>1 DEF MtaHdr
<1> HIDE DEF N, hdr, new
<1>8. /\ headers' \in Seq(ClientHdr) /\ DOMAIN headers' = 1 .. N + 1 /\ Len(headers') = N + 1
      /\ headers'[N + 1] = hdr /\ \A i \in 1 .. N : headers'[i] = headers[i]
  BY <1>3, <1>4, <1>6, AppendProperties DEF N
<1>9. /\ mta' \in Seq(MtaHdr) /\ DOMAIN mta' = 1 .. N + 1 /\ Len(mta') = N + 1
      /\ mta'[N + 1] = new /\ \A i \in 1 .. N : mta'[i] = mta[i]
  BY <1>3, <1>4, <1>7, AppendProperties DEF N
<1>10. 1 .. N + 1 = 1 .. N \cup {N + 1} /\ N + 1 \notin 1 .. N /\ N + 1 # 0 /\ \A i \in 1 .. N : i < N + 1
  BY <1>3
<1>11. injected = None /\ injected # Generated /\ deletes = {} /\ adds = <<>>
       /\ \A p \in 1 .. N : mta[p].n # 0
  <2>1. injected = None
    BY <1>1, <1>2 DEF AsSent
  <2>2. None.value # Generated.value
    BY DEF None, Generated
  <2>3. deletes = {} /\ adds = <<>> /\ \A p \in DOMAIN mta : mta[p].n # 0
    BY <1>2, Unasked
  <2> QED
    BY <1>3, <2>1, <2>2, <2>3
<1>12. HTypes'
  BY <1>1, <1>2, <1>8, <1>9, <1>11 DEF HTypes, configVars, eomVars
<1>13. \A i \in 1 .. N : headers[i].n = i /\ headers[i].value = "sent" /\ headers[i].n # 0
  BY <1>1, <1>3, <1>11 DEF AsSent
<1>14. AsSent'
  BY <1>2, <1>6, <1>8, <1>9, <1>10, <1>11, <1>13 DEF AsSent
<1>15. FirstIsOne'
  <2>1. ASSUME NEW i \in 1 .. N + 1,
               \A j \in 1 .. N + 1 : j < i => headers'[j].key # headers'[i].key,
               headers'[i].n # 0
        PROVE  headers'[i].milterIdx = 1
    <3>1. CASE i \in 1 .. N
      <4>1. \A j \in 1 .. N : j < i => headers[j].key # headers[i].key
        BY <1>8, <1>10, <2>1, <3>1
      <4>2. headers'[i] = headers[i]
        BY <1>8, <3>1
      <4> QED
        BY <1>1, <1>3, <2>1, <3>1, <4>1, <4>2 DEF FirstIsOne
    <3>2. CASE i = N + 1
      <4>1. \A j \in 1 .. N : headers[j].key # k
        BY <1>6, <1>8, <1>10, <2>1, <3>2
      <4>2. GetHeader(k) = {}
        BY <1>3, <4>1 DEF GetHeader
      <4> QED
        BY <1>6, <1>8, <3>2, <4>2, FS_EmptySet
    <3> QED
      BY <1>10, <3>1, <3>2
  <2> QED
    BY <1>8, <2>1 DEF FirstIsOne
<1>16. Before'
  <2>1. AsConfigured'
    BY <1>1, <1>2 DEF Before, AsConfigured, configVars
  <2> QED
    BY <1>2, <1>7, <1>9, <1>10, <1>11, <2>1 DEF Before, eomVars
<1>17. InOrder'
  <2>1. ASSUME NEW p \in 1 .. N + 1
        PROVE  /\ mta'[p].n \in 1 .. N + 1 /\ headers'[mta'[p].n].n # 0
               /\ mta'[p].key = headers'[mta'[p].n].key /\ mta'[p].value = "sent"
               /\ p \in 1 .. N => mta'[p].n \in 1 .. N /\ mta'[p] = mta[p]
    <3>1. CASE p = N + 1
      BY <1>6, <1>7, <1>8, <1>9, <1>10, <3>1
    <3>2. CASE p \in 1 .. N
      <4>1. /\ mta[p].n \in 1 .. N /\ headers[mta[p].n].n # 0
            /\ mta[p].key = headers[mta[p].n].key /\ mta[p].value = "sent"
        BY <1>1, <1>3, <1>11, <3>2 DEF InOrder
      <4> QED
        BY <1>8, <1>9, <1>10, <3>2, <4>1
    <3> QED
      BY <1>10, <3>1, <3>2
  <2>2. ASSUME NEW p \in 1 .. N + 1, NEW q \in 1 .. N + 1, p < q
        PROVE  mta'[p].n # 0 /\ mta'[p].n < mta'[q].n
    <3>1. p \in 1 .. N
      BY <1>3, <2>2
    <3>2. mta'[p].n \in 1 .. N /\ mta'[p] = mta[p] /\ mta'[p].n # 0
      BY <1>3, <2>1, <3>1
    <3>3. CASE q = N + 1
      BY <1>3, <1>7, <1>9, <3>2, <3>3
    <3>4. CASE q \in 1 .. N
      BY <1>1, <1>3, <1>9, <1>11, <2>2, <3>1, <3>2, <3>4 DEF InOrder
    <3> QED
      BY <1>10, <3>3, <3>4
  <2>3. \A p \in 1 .. N + 1 : mta'[p].value # "signature"
    BY <2>1
  <2> QED
    BY <1>9, <1>8, <2>1, <2>2, <2>3 DEF InOrder
<1>18. Deleted'
  <2>1. UniqueKeys' = UniqueKeys
    BY <1>2 DEF UniqueKeys, configVars
  <2>2. ASSUME NEW i \in 1 .. N + 1, headers'[i].key \notin UniqueKeys
        PROVE  \E p \in 1 .. N + 1 : mta'[p].n = i
    <3>1. CASE i = N + 1
      BY <1>7, <1>9, <1>10, <3>1
    <3>2. CASE i \in 1 .. N
      <4>1. headers[i].n # 0 /\ headers[i].key \notin UniqueKeys
        BY <1>8, <1>13, <2>2, <3>2
      <4>2. PICK p \in 1 .. N : mta[p].n = i
        BY <1>1, <1>3, <3>2, <4>1 DEF Deleted, Gone
      <4> QED
        BY <1>9, <1>10, <4>2
    <3> QED
      BY <1>10, <3>1, <3>2
  <2> QED
    BY <1>2, <1>8, <1>9, <1>11, <2>1, <2>2 DEF Deleted, Gone, eomVars
<1>19. Accounted' /\ Cached'
  BY <1>2 DEF Accounted, Cached
<1> QED
  BY <1>12, <1>14, <1>15, <1>16, <1>17, <1>18, <1>19 DEF HInv

LEMMA EnsureHasMessageIdStep == HInv /\ EnsureHasMessageId => HInv'
<1> SUFFICES ASSUME HInv, EnsureHasMessageId PROVE HInv'
  OBVIOUS
<1> DEFINE N == Len(headers)
           hdr == [key |-> MessageId, value |-> GetMessageId.value, n |-> 0, milterIdx |-> 0]
<1>1. HTypes /\ AsSent /\ FirstIsOne /\ Before /\ InOrder /\ Deleted
  BY DEF HInv
<1>2. /\ pc = "checks" /\ pc' = "judged"
      /\ UNCHANGED <<configVars, addHeaders, cachedAs, signed, eomVars, mta>>
  BY DEF EnsureHasMessageId
<1>3. /\ headers \in Seq(ClientHdr) /\ N \in Nat /\ DOMAIN headers = 1 .. N
      /\ deletes = {} /\ adds = <<>>
  BY <1>1, <1>2, Unasked DEF HTypes
<1>4. injected = None /\ injected # Generated /\ \A i \in 1 .. N : headers[i].n # 0
  <2>1. injected = None
    BY <1>1, <1>2 DEF AsSent
  <2>2. None.value # Generated.value
    BY DEF None, Generated
  <2> QED
    BY <1>1, <1>3, <2>1, <2>2 DEF AsSent
<1>5. AsConfigured' /\ UniqueKeys' = UniqueKeys
  BY <1>1, <1>2 DEF Before, AsConfigured, configVars, UniqueKeys
<1>6. Before' /\ Accounted' /\ Cached'
  BY <1>1, <1>2, <1>5 DEF Before, eomVars, Accounted, Cached
<1>7. CASE GetHeader(MessageId) # {}
  <2>1. UNCHANGED <<headers, injected>>
    BY <1>7 DEF EnsureHasMessageId
  <2>2. HTypes'
    BY <1>1, <1>2, <2>1 DEF HTypes, configVars, eomVars
  <2>3. AsSent'
    BY <1>1, <1>2, <1>7, <2>1 DEF AsSent, GetHeader
  <2>4. FirstIsOne' /\ InOrder'
    BY <1>1, <1>2, <2>1 DEF FirstIsOne, InOrder
  <2>5. Deleted'
    BY <1>1, <1>2, <1>3, <1>5, <2>1 DEF Deleted, Gone, eomVars
  <2> QED
    BY <1>6, <2>2, <2>3, <2>4, <2>5 DEF HInv
<1>8. CASE GetHeader(MessageId) = {}
  <2>1. GetMessageId = Generated
    BY <1>8 DEF GetMessageId
  <2>2. injected' = Generated /\ headers' = Append(headers, hdr)
    BY <1>8, <2>1 DEF EnsureHasMessageId
  <2>3. /\ hdr \in ClientHdr /\ hdr.key = MessageId /\ hdr.value = "generated" /\ hdr.n = 0
    BY <2>1, HeadersAssumption DEF Generated, ClientHdr
  <2> HIDE DEF hdr
  <2>4. /\ headers' \in Seq(ClientHdr) /\ DOMAIN headers' = 1 .. N + 1
        /\ headers'[N + 1] = hdr /\ \A i \in 1 .. N : headers'[i] = headers[i]
    <3>1. headers' \in Seq(ClientHdr) /\ Len(headers') = N + 1
          /\ headers'[N + 1] = hdr /\ \A i \in 1 .. N : headers'[i] = headers[i]
      BY <1>3, <2>2, <2>3, AppendProperties
    <3> HIDE DEF N
    <3> QED
      BY <3>1
  <2> HIDE DEF N
  <2>5. 1 .. N + 1 = 1 .. N \cup {N + 1} /\ N + 1 \notin 1 .. N /\ \A i \in 1 .. N : i < N + 1
    BY <1>3
  <2>6. HTypes'
    BY <1>1, <1>2, <1>3, <2>2, <2>4 DEF HTypes, configVars, eomVars
  <2>7. \A i \in 1 .. N : headers[i].key # MessageId
    BY <1>3, <1>8 DEF GetHeader
  <2>8. AsSent'
    <3>1. ASSUME NEW i \in DOMAIN headers'
          PROVE  /\ headers'[i].n # 0 => headers'[i].n = i /\ headers'[i].value = "sent"
                 /\ headers'[i].n = 0 => headers'[i].key = MessageId /\ headers'[i].value = "generated"
      BY <1>1, <1>3, <1>4, <2>3, <2>4, <2>5 DEF AsSent
    <3>2. \A i \in DOMAIN headers' : headers'[i].key = MessageId => headers'[i].n = 0
      BY <2>3, <2>4, <2>5, <2>7
    <3>3. N + 1 \in DOMAIN headers' /\ headers'[N + 1].key = MessageId
      BY <2>3, <2>4, <2>5
    <3> QED
      BY <1>2, <2>2, <3>1, <3>2, <3>3 DEF AsSent, GetHeader
  <2>9. FirstIsOne'
    <3>1. ASSUME NEW i \in 1 .. N + 1, headers'[i].n # 0,
                 \A j \in 1 .. N + 1 : j < i => headers'[j].key # headers'[i].key
          PROVE  headers'[i].milterIdx = 1
      <4>1. i \in 1 .. N /\ headers'[i] = headers[i]
        BY <2>3, <2>4, <2>5, <3>1
      <4>2. \A j \in 1 .. N : j < i => headers[j].key # headers[i].key
        BY <2>4, <2>5, <3>1, <4>1
      <4> QED
        BY <1>1, <1>3, <3>1, <4>1, <4>2 DEF FirstIsOne
    <3> QED
      BY <2>4, <3>1 DEF FirstIsOne
  <2>10. InOrder'
    <3>1. \A p \in DOMAIN mta : mta[p].n # 0 =>
             mta[p].n \in 1 .. N /\ mta[p].n \in 1 .. N + 1 /\ headers'[mta[p].n] = headers[mta[p].n]
      BY <1>1, <1>3, <2>4, <2>5 DEF InOrder
    <3> QED
      BY <1>1, <1>2, <2>4, <3>1 DEF InOrder
  <2>11. Deleted'
    <3>1. \A i \in 1 .. N + 1 : headers'[i].n # 0 => i \in 1 .. N /\ headers'[i] = headers[i]
      BY <2>3, <2>4, <2>5
    <3> QED
      BY <1>1, <1>2, <1>3, <1>5, <2>4, <3>1 DEF Deleted, Gone, eomVars
  <2> QED
    BY <1>6, <2>6, <2>8, <2>9, <2>10, <2>11 DEF HInv
<1> QED
  BY <1>7, <1>8

\* The steps that leave the headers, the rules and the MTA as they are.
LEMMA QuietSteps == HInv /\ (EomStart \/ Save \/ MutableHeadersPanics \/ EomAnswer) => HInv'
<1> SUFFICES ASSUME HInv, EomStart \/ Save \/ MutableHeadersPanics \/ EomAnswer PROVE HInv'
  OBVIOUS
<1>1. /\ UNCHANGED <<configVars, headers, addHeaders, injected, signed, deletes, adds, mta>>
      /\ UniqueKeys' = UniqueKeys /\ GetHeader(MessageId)' = GetHeader(MessageId)
      /\ GetMessageId' = GetMessageId
      /\ \A i : Single(i)' = Single(i) /\ Gone(i)' = Gone(i)
      /\ \A k, v : Promised(k, v)' = Promised(k, v) /\ Added(k, v)' = Added(k, v)
  <2>1. UNCHANGED <<configVars, headers, addHeaders, injected, signed, deletes, adds, mta>>
    BY DEF EomStart, Save, MutableHeadersPanics, EomAnswer, msgVars, eomVars
  <2> QED
    BY <2>1, ConfigSame, MtaSame
<1>2. \/ pc = "headers" /\ pc' = "checks" /\ cachedAs' = cachedAs
      \/ pc = "judged" /\ pc' = "saved" /\ cachedAs' = GetMessageId
      \/ pc = "saved" /\ pc' = "panicked" /\ cachedAs' = cachedAs
      \/ pc = "deleting" /\ pc' = "done" /\ cachedAs' = cachedAs /\ deletes = {} /\ adds = <<>>
  BY DEF EomStart, Save, MutableHeadersPanics, EomAnswer, msgVars
<1>3. HTypes'
  BY <1>1, <1>2 DEF HInv, HTypes, configVars
<1>4. AsSent' /\ FirstIsOne'
  BY <1>1, <1>2 DEF HInv, AsSent, FirstIsOne
<1>5. Before' /\ InOrder'
  BY <1>1, <1>2 DEF HInv, Before, InOrder, AsConfigured, configVars
<1>6. Deleted'
  <2>1. Deleted
    BY DEF HInv
  <2> QED
    BY <1>1, <1>2, <2>1 DEF Deleted
<1>7. Accounted'
  <2>1. Accounted
    BY DEF HInv
  <2>2. \A k, v : Count(adds, k, v)' = Count(adds, k, v)
    BY <1>1 DEF Count, Matching
  <2> QED
    BY <1>1, <1>2, <2>1, <2>2 DEF Accounted
<1>8. Cached'
  BY <1>1, <1>2 DEF HInv, Cached
<1> QED
  BY <1>3, <1>4, <1>5, <1>6, <1>7, <1>8 DEF HInv

LEMMA AddHeaderStep == HInv /\ AddHeader => HInv'
<1> SUFFICES ASSUME HInv, AddHeader PROVE HInv'
  OBVIOUS
<1>1. /\ UNCHANGED <<configVars, headers, injected, cachedAs, deletes, adds, mta, pc>>
      /\ UniqueKeys' = UniqueKeys /\ GetHeader(MessageId)' = GetHeader(MessageId)
      /\ GetMessageId' = GetMessageId
      /\ \A i : Single(i)' = Single(i) /\ Gone(i)' = Gone(i)
      /\ \A k, v : Promised(k, v)' = Promised(k, v) /\ Added(k, v)' = Added(k, v)
  <2>1. UNCHANGED <<configVars, headers, injected, cachedAs, deletes, adds, mta, pc>>
    BY DEF AddHeader, eomVars
  <2> QED
    BY <2>1, ConfigSame, MtaSame
<1>2. /\ signed = "no" /\ addHeaders' = Append(addHeaders, Signature)
      /\ signed' \in {"heard", "late"} /\ (signed' = "heard" => pc = "checks")
      /\ pc \notin {"headers", "done", "panicked"}
  BY DEF AddHeader, Signature
<1>3. HTypes'
  BY <1>1, <1>2 DEF HInv, HTypes, configVars
<1>4. AsSent' /\ FirstIsOne'
  BY <1>1 DEF HInv, AsSent, FirstIsOne
<1>5. Before' /\ InOrder'
  BY <1>1, <1>2 DEF HInv, Before, InOrder, AsConfigured, configVars
<1>6. Deleted'
  <2>1. Deleted
    BY DEF HInv
  <2> QED
    BY <1>1, <2>1 DEF Deleted
<1>7. Accounted'
  <2>1. Accounted
    BY DEF HInv
  <2>2. \A k, v : Count(adds, k, v)' = Count(adds, k, v)
    BY <1>1 DEF Count, Matching
  <2> QED
    BY <1>1, <1>2, <2>1, <2>2 DEF Accounted
<1>8. Cached'
  BY <1>1 DEF HInv, Cached
<1> QED
  BY <1>3, <1>4, <1>5, <1>6, <1>7, <1>8 DEF HInv

\* How many there are in a list of the MTA that were added.
AddedIn(s, k, v) ==
  Cardinality({i \in DOMAIN s : s[i].n = 0 /\ s[i].key = k /\ s[i].value = v})

LEMMA AddedAppend ==
  ASSUME NEW s \in Seq(MtaHdr), NEW e \in MtaHdr, e.n = 0, NEW k, NEW v
  PROVE  /\ AddedIn(s, k, v) \in Nat
         /\ AddedIn(Append(s, e), k, v) =
              AddedIn(s, k, v) + (IF e.key = k /\ e.value = v THEN 1 ELSE 0)
<1> DEFINE n == Len(s) + 1
           t == Append(s, e)
           A == {i \in DOMAIN s : s[i].n = 0 /\ s[i].key = k /\ s[i].value = v}
           B == {i \in DOMAIN t : t[i].n = 0 /\ t[i].key = k /\ t[i].value = v}
<1>1. /\ DOMAIN t = DOMAIN s \cup {n} /\ n \notin DOMAIN s
      /\ t[n] = e /\ \A i \in DOMAIN s : t[i] = s[i]
  OBVIOUS
<1>2. IsFiniteSet(A)
  <2>1. Len(s) \in Nat /\ DOMAIN s = 1 .. Len(s)
    BY Positions
  <2>2. IsFiniteSet(DOMAIN s)
    BY <2>1, FS_Interval
  <2> QED
    BY <2>2, FS_Subset
<1>3. Cardinality(A) \in Nat
  BY <1>2, FS_CardinalityType
<1>6. AddedIn(s, k, v) = Cardinality(A) /\ AddedIn(Append(s, e), k, v) = Cardinality(B)
  BY DEF AddedIn
<1> HIDE DEF t, n
<1>4. CASE e.key = k /\ e.value = v
  <2>1. B = A \cup {n} /\ n \notin A
    BY <1>1, <1>4
  <2>2. Cardinality(A \cup {n}) = Cardinality(A) + 1
    BY <1>2, <2>1, FS_AddElement
  <2> HIDE DEF A, B
  <2> QED
    BY <1>3, <1>6, <1>4, <2>1, <2>2
<1>5. CASE ~(e.key = k /\ e.value = v)
  <2>1. B = A
    BY <1>1, <1>5
  <2> HIDE DEF A, B
  <2> QED
    BY <1>3, <1>6, <1>5, <2>1
<1> QED
  BY <1>4, <1>5

LEMMA AddedNone ==
  ASSUME NEW s, \A p \in DOMAIN s : s[p].n # 0 PROVE \A k, v : AddedIn(s, k, v) = 0
<1> SUFFICES ASSUME NEW k, NEW v PROVE AddedIn(s, k, v) = 0
  OBVIOUS
<1>1. {i \in DOMAIN s : s[i].n = 0 /\ s[i].key = k /\ s[i].value = v} = {}
  OBVIOUS
<1> QED
  BY <1>1, FS_EmptySet DEF AddedIn

\* A Message-Id is made up if and only if the client sent none.
LEMMA SentNone ==
  HInv /\ pc \notin {"headers", "checks"} =>
    (injected = Generated <=> Sent(headers, {MessageId}) = {})
<1> SUFFICES ASSUME HInv, pc \notin {"headers", "checks"}
             PROVE  injected = Generated <=> Sent(headers, {MessageId}) = {}
  OBVIOUS
<1>1. AsSent
  BY DEF HInv
<1>2. CASE injected = Generated
  BY <1>1, <1>2 DEF AsSent, Sent, GetHeader
<1>3. CASE injected # Generated
  <2>1. PICK i \in GetHeader(MessageId) : TRUE
    BY <1>1 DEF AsSent
  <2>2. i \in DOMAIN headers /\ headers[i].key = MessageId /\ headers[i].n # 0
    BY <1>1, <1>3, <2>1 DEF AsSent, GetHeader
  <2> QED
    BY <1>3, <2>2 DEF Sent
<1> QED
  BY <1>2, <1>3

LEMMA MutableHeadersStep == HInv /\ MutableHeaders => HInv'
<1> SUFFICES ASSUME HInv, MutableHeaders PROVE HInv'
  OBVIOUS
<1> DEFINE all == WithMessageId(Expanded(addHeaders))
<1>1. HTypes /\ AsSent /\ FirstIsOne /\ Before /\ InOrder /\ Deleted /\ Cached
  BY DEF HInv
<1>2. /\ pc = "saved" /\ pc' = "deleting" /\ ~NoRecipient
      /\ UNCHANGED <<configVars, headers, injected, cachedAs, signed, mta>>
      /\ deletes' = Deletes(all) /\ adds' = DropEmpty(all)
  BY DEF MutableHeaders
<1>3. /\ UniqueKeys' = UniqueKeys /\ GetHeader(MessageId)' = GetHeader(MessageId)
      /\ GetMessageId' = GetMessageId
      /\ \A i : Single(i)' = Single(i) /\ Gone(i)' = Gone(i)
      /\ \A k, v : Promised(k, v)' = Promised(k, v) /\ Added(k, v)' = Added(k, v)
  BY <1>2, ConfigSame, MtaSame
<1>4. /\ DropEmpty(all) \in Seq(AddHdr)
      /\ \A k \in Keys, v \in Values \ {"signature"} :
           Count(DropEmpty(all), k, v) =
             Cardinality(Pairs(rules, k, v))
             + (IF insertMissing /\ k = MessageId /\ v = "generated" /\ injected = Generated
                THEN 1 ELSE 0)
      /\ Count(DropEmpty(all), DkimSignature, "signature") = IF signed = "no" THEN 0 ELSE 1
      /\ DOMAIN all \subseteq Nat
      /\ \A i \in DOMAIN all : all[i].unique => all[i].key \in UniqueKeys
      /\ \A k \in UniqueKeys : \E i \in DOMAIN all : all[i].unique /\ all[i].key = k
  <2>1. rules \in Configs /\ rcpts \in Seq(Rcpts) /\ injected \in {None, Generated} /\ AsConfigured
    BY <1>1, <1>2, HeadersAssumption DEF HTypes, Before
  <2> HIDE DEF all
  <2>2. all = WithMessageId(Expanded(addHeaders)) /\ ~NoRecipient
    BY <1>2 DEF all
  <2> QED
    BY ONLY <2>1, <2>2, MadeFacts
<1> HIDE DEF all
<1>5. deletes' = {d \in (DOMAIN all) \X (DOMAIN headers) :
                    all[d[1]].unique /\ headers[d[2]].key = all[d[1]].key}
  BY <1>2 DEF Deletes
<1>6. \A p \in DOMAIN mta : mta[p].n # 0
  BY <1>2, Unasked
<1>7. HTypes'
  <2>1. deletes' \in SUBSET (Nat \X DOMAIN headers)
    BY <1>4, <1>5
  <2> QED
    BY <1>1, <1>2, <1>4, <2>1 DEF HTypes, configVars
<1>8. AsSent' /\ FirstIsOne'
  BY <1>1, <1>2, <1>3 DEF AsSent, FirstIsOne
<1>9. Before' /\ InOrder' /\ Cached'
  BY <1>1, <1>2, <1>3 DEF Before, InOrder, Cached
<1>10. Deleted'
  <2>1. \A d \in deletes' : headers'[d[2]].key \in UniqueKeys'
    BY <1>2, <1>3, <1>4, <1>5
  <2>2. \A p \in DOMAIN mta' : mta'[p].n # 0
    BY <1>2, <1>6
  <2>3. \A i \in DOMAIN headers' : headers'[i].n # 0 /\ headers'[i].key \notin UniqueKeys' => ~Gone(i)'
    BY <1>1, <1>2, <1>3 DEF Deleted
  <2>4. ASSUME NEW i \in DOMAIN headers', headers'[i].key \in UniqueKeys'
        PROVE  \E d \in deletes' : d[2] = i
    <3>1. i \in DOMAIN headers /\ headers[i].key \in UniqueKeys
      BY <1>2, <1>3, <2>4
    <3>2. PICK r \in DOMAIN all : all[r].unique /\ all[r].key = headers[i].key
      BY <1>4, <3>1
    <3>3. <<r, i>> \in deletes' /\ <<r, i>>[2] = i
      BY <1>5, <3>1, <3>2
    <3> QED
      BY <3>3
  <2> QED
    BY <1>2, <2>1, <2>2, <2>3, <2>4 DEF Deleted
<1>11. Accounted'
  <2>1. \A k, v : Added(k, v)' = 0
    <3> SUFFICES ASSUME NEW k, NEW v PROVE Added(k, v)' = 0
      OBVIOUS
    <3>1. AddedIn(mta, k, v) = 0
      BY <1>6, AddedNone
    <3>2. Added(k, v) = AddedIn(mta, k, v)
      BY DEF Added, AddedIn
    <3> QED
      BY <1>3, <3>1, <3>2
  <2>2. \A k, v : Count(adds', k, v) \in Nat
    BY <1>2, <1>4, CountType
  <2>3. ASSUME NEW k \in Keys, NEW v \in Values \ {"signature"}
        PROVE  Added(k, v)' + Count(adds', k, v) = Promised(k, v)'
    <3>1. injected = Generated <=> Sent(headers, {MessageId}) = {}
      BY <1>2, SentNone
    <3>2. Promised(k, v) =
            Cardinality(Pairs(rules, k, v))
            + (IF insertMissing /\ k = MessageId /\ v = "generated" /\ injected = Generated
               THEN 1 ELSE 0)
      BY <3>1 DEF Promised, Pairs
    <3>3. Count(adds', k, v) = Promised(k, v)
      BY <1>2, <1>4, <3>2
    <3> QED
      BY <1>3, <2>1, <2>2, <3>3
  <2>4. Count(adds', DkimSignature, "signature") = IF signed = "no" THEN 0 ELSE 1
    BY <1>2, <1>4
  <2>5. (signed' = "heard" => Added(DkimSignature, "signature")' + Count(adds', DkimSignature, "signature") = 1)
        /\ (signed' = "no" => Added(DkimSignature, "signature")' + Count(adds', DkimSignature, "signature") = 0)
    BY <1>2, <2>1, <2>2, <2>4
  <2> QED
    BY <2>3, <2>5 DEF Accounted
<1> QED
  BY <1>7, <1>8, <1>9, <1>10, <1>11 DEF HInv

LEMMA EomAddHeaderStep == HInv /\ EomAddHeader => HInv'
<1> SUFFICES ASSUME HInv, EomAddHeader PROVE HInv'
  OBVIOUS
<1> DEFINE N == Len(mta)
           new == [key |-> Head(adds).key, value |-> Head(adds).value, n |-> 0]
<1>1. HTypes /\ AsSent /\ FirstIsOne /\ InOrder /\ Deleted /\ Cached /\ Accounted
  BY DEF HInv
<1>2. /\ pc = "deleting" /\ deletes = {} /\ adds # <<>>
      /\ UNCHANGED <<configVars, headers, addHeaders, injected, cachedAs, signed, deletes, pc>>
      /\ mta' = Append(mta, new) /\ adds' = Tail(adds)
  BY DEF EomAddHeader, msgVars
<1>3. /\ UniqueKeys' = UniqueKeys /\ GetHeader(MessageId)' = GetHeader(MessageId)
      /\ GetMessageId' = GetMessageId /\ \A i : Single(i)' = Single(i)
      /\ \A k, v : Promised(k, v)' = Promised(k, v)
  BY <1>2, ConfigSame
<1>4. /\ mta \in Seq(MtaHdr) /\ N \in Nat /\ DOMAIN mta = 1 .. N
      /\ adds \in Seq(AddHdr) /\ Head(adds) \in AddHdr /\ Tail(adds) \in Seq(AddHdr)
  BY <1>1, <1>2, HeadTailProperties DEF HTypes
<1>5. /\ new \in MtaHdr /\ new.n = 0 /\ new.key = Head(adds).key /\ new.value = Head(adds).value
      /\ new.value = "signature" => new.key = DkimSignature
  BY <1>4 DEF AddHdr, MtaHdr
<1> HIDE DEF new, N
<1>6. /\ mta' \in Seq(MtaHdr) /\ DOMAIN mta' = 1 .. N + 1
      /\ mta'[N + 1] = new /\ \A p \in 1 .. N : mta'[p] = mta[p]
  <2>1. mta' \in Seq(MtaHdr) /\ Len(mta') = N + 1
        /\ mta'[N + 1] = new /\ \A p \in 1 .. N : mta'[p] = mta[p]
    BY <1>2, <1>4, <1>5, AppendProperties DEF N
  <2> QED
    BY <1>4, <2>1
<1>7. 1 .. N + 1 = 1 .. N \cup {N + 1} /\ N + 1 \notin 1 .. N /\ \A p \in 1 .. N : p \in 1 .. N + 1
  BY <1>4
<1>8. \A p \in 1 .. N + 1 : mta'[p].n # 0 => p \in 1 .. N /\ mta'[p] = mta[p]
  BY <1>5, <1>6, <1>7
<1>9. HTypes'
  BY <1>1, <1>2, <1>4, <1>6 DEF HTypes, configVars
<1>10. AsSent' /\ FirstIsOne' /\ Before' /\ Cached'
  BY <1>1, <1>2, <1>3 DEF AsSent, FirstIsOne, Before, Cached
<1>11. InOrder'
  <2>1. \A p \in 1 .. N + 1 : mta'[p].n # 0 =>
          /\ mta'[p].n \in DOMAIN headers' /\ headers'[mta'[p].n].n # 0
          /\ mta'[p].key = headers'[mta'[p].n].key /\ mta'[p].value = "sent"
    BY <1>1, <1>2, <1>4, <1>8 DEF InOrder
  <2>2. ASSUME NEW p \in 1 .. N + 1, NEW q \in 1 .. N + 1, p < q, mta'[q].n # 0
        PROVE  mta'[p].n # 0 /\ mta'[p].n < mta'[q].n
    <3>1. q \in 1 .. N /\ p \in 1 .. N /\ mta'[q] = mta[q]
      BY <1>4, <1>8, <2>2
    <3>2. mta'[p] = mta[p]
      BY <1>6, <3>1
    <3> QED
      BY <1>1, <1>4, <2>2, <3>1, <3>2 DEF InOrder
  <2>3. \A p \in 1 .. N + 1 : mta'[p].value = "signature" => mta'[p].key = DkimSignature
    BY <1>1, <1>4, <1>5, <1>6, <1>7 DEF InOrder
  <2> QED
    BY <1>6, <2>1, <2>2, <2>3 DEF InOrder
<1>12. Deleted'
  <2>1. \A i \in DOMAIN headers : Gone(i)' <=> Gone(i)
    <3>1. \A i \in DOMAIN headers : i # 0
      BY <1>1 DEF HTypes
    <3> QED
      BY <1>4, <1>5, <1>6, <1>7, <3>1 DEF Gone
  <2> QED
    BY <1>1, <1>2, <1>3, <2>1 DEF Deleted
<1>13. Accounted'
  <2>1. ASSUME NEW k, NEW v
        PROVE  Added(k, v)' + Count(adds', k, v) = Added(k, v) + Count(adds, k, v)
    <3>1. /\ AddedIn(mta, k, v) \in Nat
          /\ AddedIn(mta', k, v) = AddedIn(mta, k, v) + (IF new.key = k /\ new.value = v THEN 1 ELSE 0)
      BY <1>2, <1>4, <1>5, AddedAppend
    <3>2. Count(adds, k, v) =
            Count(adds', k, v) + (IF new.key = k /\ new.value = v THEN 1 ELSE 0)
      BY <1>2, <1>4, <1>5, CountTail
    <3>3. Count(adds', k, v) \in Nat
      BY <1>2, <1>4, CountType
    <3>4. Added(k, v)' = AddedIn(mta', k, v) /\ Added(k, v) = AddedIn(mta, k, v)
      BY DEF Added, AddedIn
    <3> QED
      BY <3>1, <3>2, <3>3, <3>4
  <2> QED
    BY <1>1, <1>2, <1>3, <2>1 DEF Accounted
<1> QED
  BY <1>9, <1>10, <1>11, <1>12, <1>13 DEF HInv


\* A header of the client's that is to be deleted is among those asked for.
LEMMA NextDeleteFacts == HInv /\ deletes # {} => NextDelete \in deletes
<1> SUFFICES ASSUME HInv, deletes # {} PROVE NextDelete \in deletes
  OBVIOUS
<1> DEFINE A == {d[1] : d \in deletes}
           i == Min(A)
           E == {e \in deletes : e[1] = i}
           B == {d[2] : d \in E}
<1>1. deletes \in SUBSET (Nat \X Nat)
  <2>1. headers \in Seq(ClientHdr) /\ deletes \in SUBSET (Nat \X DOMAIN headers)
    BY DEF HInv, HTypes
  <2> QED
    BY <2>1
<1>2. A \in SUBSET Nat /\ A # {}
  BY <1>1
<1>3. i \in A
  BY <1>2, MinFacts
<1> HIDE DEF i
<1>4. B \in SUBSET Nat /\ B # {}
  BY <1>1, <1>3
<1>5. Min(B) \in B
  BY <1>4, MinFacts
<1>6. PICK e \in deletes : e[1] = i /\ e[2] = Min(B)
  BY <1>5
<1>7. NextDelete = <<i, Min(B)>>
  BY DEF NextDelete, i
<1> HIDE DEF A, E, B
<1> QED
  BY <1>1, <1>6, <1>7

LEMMA PositionFacts ==
  ASSUME HInv, NEW key, NEW idx
  PROVE  /\ \/ Position(key, idx) = 0
            \/ Position(key, idx) \in DOMAIN mta /\ mta[Position(key, idx)].key = key
         /\ \A p \in DOMAIN mta :
              idx = 1 /\ mta[p].key = key /\ (\A q \in DOMAIN mta : mta[q].key = key => q = p)
                => Position(key, idx) = p
<1> DEFINE P == {p \in DOMAIN mta :
                   /\ mta[p].key = key
                   /\ Cardinality({q \in 1 .. p : mta[q].key = key}) = idx}
           N == Len(mta)
<1>1. N \in Nat /\ DOMAIN mta = 1 .. N
  <2>1. mta \in Seq(MtaHdr)
    BY DEF HInv, HTypes
  <2> QED
    BY <2>1
<1>2. P \in SUBSET (1 .. N)
  BY <1>1
<1>3. P # {} => Max(P) \in P
  <2> HIDE DEF P, N
  <2> QED
    BY <1>1, <1>2, MaxFacts
<1>4. Position(key, idx) = IF P = {} THEN 0 ELSE Max(P)
  BY DEF Position
<1>5. ASSUME NEW p \in DOMAIN mta, idx = 1, mta[p].key = key,
             \A q \in DOMAIN mta : mta[q].key = key => q = p
      PROVE  P = {p}
  <2>1. {q \in 1 .. p : mta[q].key = key} = {p}
    BY <1>1, <1>5
  <2>2. Cardinality({p}) = 1
    BY FS_Singleton
  <2>3. p \in P
    BY <1>5, <2>1, <2>2
  <2> QED
    BY <1>5, <2>3
<1>6. \A p \in P : p \in DOMAIN mta /\ mta[p].key = key
  OBVIOUS
<1> HIDE DEF P, N
<1> QED
  BY <1>3, <1>4, <1>5, <1>6

\* Where what is left of a list was, when one of it, or none, is removed.
LeftOf(s, k, t) ==
  \E at \in [DOMAIN t -> DOMAIN s] :
    /\ \A p \in DOMAIN t : t[p] = s[at[p]] /\ at[p] # k
    /\ \A p, q \in DOMAIN t : p < q => at[p] < at[q]
    /\ \A q \in DOMAIN s : q # k => \E p \in DOMAIN t : at[p] = q

LEMMA RemovedFacts ==
  ASSUME NEW S, NEW s \in Seq(S), NEW k \in 0 .. Len(s), NEW t,
         t = IF k = 0 THEN s ELSE RemoveAt(s, k)
  PROVE  t \in Seq(S) /\ LeftOf(s, k, t)
<1>1. Len(s) \in Nat /\ DOMAIN s = 1 .. Len(s)
  BY Positions
<1>2. CASE k = 0
  <2> DEFINE at == [p \in DOMAIN s |-> p]
  <2>1. t = s /\ at \in [DOMAIN t -> DOMAIN s]
    BY <1>2
  <2>2. \A p \in DOMAIN t : t[p] = s[at[p]] /\ at[p] # k
    BY <1>1, <1>2, <2>1
  <2>3. \A p, q \in DOMAIN t : p < q => at[p] < at[q]
    BY <2>1
  <2>4. \A q \in DOMAIN s : q # k => \E p \in DOMAIN t : at[p] = q
    BY <2>1
  <2> HIDE DEF at
  <2> QED
    BY <2>1, <2>2, <2>3, <2>4 DEF LeftOf
<1>3. CASE k # 0
  <2> DEFINE n == Len(s) - 1
             at == [p \in 1 .. n |-> IF p < k THEN p ELSE p + 1]
  <2>1. k \in 1 .. Len(s) /\ t = RemoveAt(s, k) /\ n \in Nat
    BY <1>1, <1>3
  <2>2. /\ t \in Seq(S) /\ Len(t) = n
        /\ \A p \in 1 .. n : t[p] = IF p < k THEN s[p] ELSE s[p + 1]
    BY <2>1, RemoveAtFacts
  <2>3. DOMAIN t = 1 .. n
    BY <2>2, Positions
  <2>4. at \in [1 .. n -> 1 .. Len(s)]
    BY <1>1, <2>1
  <2>5. ASSUME NEW p \in 1 .. n PROVE t[p] = s[at[p]] /\ at[p] # k
    <3>1. at[p] = IF p < k THEN p ELSE p + 1
      OBVIOUS
    <3>2. t[p] = IF p < k THEN s[p] ELSE s[p + 1]
      BY <2>2
    <3> HIDE DEF at
    <3>3. at[p] # k
      BY <2>1, <3>1
    <3> QED
      BY <3>1, <3>2, <3>3
  <2>6. \A p, q \in 1 .. n : p < q => at[p] < at[q]
    BY <1>1, <2>1
  <2>7. ASSUME NEW q \in 1 .. Len(s), q # k PROVE \E p \in 1 .. n : at[p] = q
    <3>1. CASE q < k
      BY <1>1, <2>1, <2>7, <3>1
    <3>2. CASE q > k
      <4>1. q - 1 \in 1 .. n /\ at[q - 1] = q
        BY <1>1, <2>1, <2>7, <3>2
      <4> HIDE DEF at, n
      <4> QED
        BY <4>1
    <3> QED
      BY <1>1, <2>1, <2>7, <3>1, <3>2
  <2> HIDE DEF at, n
  <2>8. at \in [DOMAIN t -> DOMAIN s]
    BY <1>1, <2>3, <2>4
  <2>9. \A p \in DOMAIN t : t[p] = s[at[p]] /\ at[p] # k
    BY <2>3, <2>5
  <2>10. \A p, q \in DOMAIN t : p < q => at[p] < at[q]
    BY <2>3, <2>6
  <2>11. \A q \in DOMAIN s : q # k => \E p \in DOMAIN t : at[p] = q
    BY <1>1, <2>3, <2>7
  <2> QED
    BY ONLY <2>2, <2>8, <2>9, <2>10, <2>11 DEF LeftOf
<1> QED
  BY <1>2, <1>3


\* A header that is the only one of its key is the one its number names.
LEMMA SingleIsDeleted ==
  ASSUME HInv, deletes # {}, NEW i \in DOMAIN headers, Single(i),
         NEW p \in DOMAIN mta, mta[p].n = i
  PROVE  /\ Position(headers[i].key, headers[i].milterIdx) = p
         /\ \A q \in DOMAIN mta : mta[q].n = i => q = p
<1> DEFINE K == headers[i].key
<1>1. HTypes /\ AsSent /\ FirstIsOne /\ InOrder /\ Deleted
  BY DEF HInv
<1>2. /\ headers \in Seq(ClientHdr) /\ mta \in Seq(MtaHdr)
      /\ DOMAIN headers = 1 .. Len(headers) /\ DOMAIN mta = 1 .. Len(mta)
      /\ Len(headers) \in Nat /\ Len(mta) \in Nat
  BY <1>1, Positions DEF HTypes
<1>3. headers[i].n # 0 /\ \A j \in DOMAIN headers : headers[j].key = K /\ headers[j].n # 0 => j = i
  BY DEF Single
<1>4. ASSUME NEW j \in DOMAIN headers, j < i, headers[j].key = K PROVE FALSE
  <2>1. headers[j].n = 0
    BY <1>2, <1>3, <1>4
  <2>2. K = MessageId /\ injected = Generated
    BY <1>1, <1>4, <2>1 DEF AsSent
  <2> QED
    BY <1>1, <1>3, <2>2 DEF AsSent, GetHeader
<1>5. headers[i].milterIdx = 1
  BY <1>1, <1>3, <1>4 DEF FirstIsOne
<1>6. ASSUME NEW q \in DOMAIN mta, mta[q].n = i PROVE q = p
  <2>1. mta[q].n # 0 /\ mta[p].n # 0 /\ ~(mta[p].n < mta[q].n) /\ ~(mta[q].n < mta[p].n)
    BY <1>2, <1>6
  <2> QED
    BY <1>1, <1>2, <2>1 DEF InOrder
<1>7. ASSUME NEW q \in DOMAIN mta, mta[q].key = K PROVE q = p
  <2>1. mta[q].n # 0
    BY <1>1, <1>7 DEF Deleted
  <2>2. mta[q].n = i
    BY <1>1, <1>3, <1>7, <2>1 DEF InOrder
  <2> QED
    BY <1>6, <2>2
<1>8. mta[p].key = K
  BY <1>1, <1>2 DEF InOrder
<1> HIDE DEF K
<1>9. Position(K, headers[i].milterIdx) = p
  BY <1>5, <1>7, <1>8, PositionFacts
<1> QED
  BY <1>6, <1>9 DEF K

LEMMA DeleteHeaderStep == HInv /\ DeleteHeader => HInv'
<1> SUFFICES ASSUME HInv, DeleteHeader PROVE HInv'
  OBVIOUS
<1> DEFINE d == NextDelete
           K == headers[d[2]].key
           pos == Position(K, headers[d[2]].milterIdx)
<1>1. HTypes /\ AsSent /\ FirstIsOne /\ InOrder /\ Deleted /\ Cached /\ Accounted
  BY DEF HInv
<1>2. /\ pc = "deleting" /\ deletes # {}
      /\ UNCHANGED <<configVars, headers, addHeaders, injected, cachedAs, signed, adds, pc>>
      /\ deletes' = deletes \ {d} /\ mta' = IF pos = 0 THEN mta ELSE RemoveAt(mta, pos)
  BY DEF DeleteHeader, ChgHeaderDeletes, msgVars
<1>3. /\ UniqueKeys' = UniqueKeys /\ GetHeader(MessageId)' = GetHeader(MessageId)
      /\ GetMessageId' = GetMessageId /\ \A i : Single(i)' = Single(i)
      /\ \A k, v : Promised(k, v)' = Promised(k, v)
  BY <1>2, ConfigSame
<1>4. /\ mta \in Seq(MtaHdr) /\ Len(mta) \in Nat /\ DOMAIN mta = 1 .. Len(mta)
      /\ headers \in Seq(ClientHdr) /\ DOMAIN headers \subseteq Nat
  BY <1>1, Positions DEF HTypes
<1>5. d \in deletes /\ d[2] \in DOMAIN headers /\ K \in UniqueKeys
  <2>1. d \in deletes
    BY <1>2, NextDeleteFacts
  <2> HIDE DEF d
  <2> QED
    BY <1>1, <2>1 DEF HTypes, Deleted
<1> HIDE DEF d
<1>6. pos = 0 \/ (pos \in DOMAIN mta /\ mta[pos].key = K)
  <2> HIDE DEF K
  <2> QED
    BY PositionFacts
<1> HIDE DEF pos
<1>7. mta' \in Seq(MtaHdr) /\ LeftOf(mta, pos, mta')
  <2>1. pos \in 0 .. Len(mta)
    BY <1>4, <1>6
  <2>2. mta \in Seq(MtaHdr) /\ mta' = IF pos = 0 THEN mta ELSE RemoveAt(mta, pos)
    BY <1>2, <1>4
  <2> QED
    BY ONLY <2>1, <2>2, RemovedFacts
<1>8. PICK at \in [DOMAIN mta' -> DOMAIN mta] :
        /\ \A p \in DOMAIN mta' : mta'[p] = mta[at[p]] /\ at[p] # pos
        /\ \A p, q \in DOMAIN mta' : p < q => at[p] < at[q]
        /\ \A q \in DOMAIN mta : q # pos => \E p \in DOMAIN mta' : at[p] = q
  BY <1>7 DEF LeftOf
<1>9. \A p \in DOMAIN mta : mta[p].n # 0
  BY <1>1, <1>2 DEF Deleted
<1>10. \A p \in DOMAIN mta' : at[p] \in DOMAIN mta /\ mta'[p] = mta[at[p]]
  BY <1>8
<1>11. HTypes'
  BY <1>1, <1>2, <1>7 DEF HTypes, configVars
<1>12. AsSent' /\ FirstIsOne' /\ Before' /\ Cached'
  BY <1>1, <1>2, <1>3 DEF AsSent, FirstIsOne, Before, Cached
<1>13. InOrder'
  <2>1. \A p \in DOMAIN mta' : mta'[p].n # 0 =>
          /\ mta'[p].n \in DOMAIN headers' /\ headers'[mta'[p].n].n # 0
          /\ mta'[p].key = headers'[mta'[p].n].key /\ mta'[p].value = "sent"
    BY <1>1, <1>2, <1>10 DEF InOrder
  <2>2. ASSUME NEW p \in DOMAIN mta', NEW q \in DOMAIN mta', p < q, mta'[q].n # 0
        PROVE  mta'[p].n # 0 /\ mta'[p].n < mta'[q].n
    <3>1. at[p] \in DOMAIN mta /\ at[q] \in DOMAIN mta /\ at[p] < at[q]
          /\ mta'[p] = mta[at[p]] /\ mta'[q] = mta[at[q]]
      BY <1>8, <1>10, <2>2
    <3> QED
      BY <1>1, <2>2, <3>1 DEF InOrder
  <2>3. \A p \in DOMAIN mta' : mta'[p].value = "signature" => mta'[p].key = DkimSignature
    BY <1>1, <1>10 DEF InOrder
  <2> QED
    BY <2>1, <2>2, <2>3 DEF InOrder
<1>14. Deleted'
  <2>1. \A e \in deletes' : headers'[e[2]].key \in UniqueKeys'
    BY <1>1, <1>2, <1>3 DEF Deleted
  <2>2. \A p \in DOMAIN mta' : mta'[p].n # 0
    BY <1>9, <1>10
  <2>3. ASSUME NEW i \in DOMAIN headers', headers'[i].n # 0, headers'[i].key \notin UniqueKeys'
        PROVE  ~Gone(i)'
    <3>1. i \in DOMAIN headers /\ headers[i].n # 0 /\ headers[i].key \notin UniqueKeys
      BY <1>2, <1>3, <2>3
    <3>2. PICK q \in DOMAIN mta : mta[q].n = i
      BY <1>1, <3>1 DEF Deleted, Gone
    <3>3. mta[q].key = headers[i].key
      BY <1>1, <1>9, <3>2 DEF InOrder
    <3>4. q # pos
      BY <1>4, <1>5, <1>6, <3>1, <3>2, <3>3
    <3>5. PICK p \in DOMAIN mta' : at[p] = q
      BY <1>8, <3>4
    <3>6. mta'[p].n = i
      BY <1>10, <3>2, <3>5
    <3> QED
      BY <3>5, <3>6 DEF Gone
  <2>4. ASSUME NEW i \in DOMAIN headers, Single(i), headers[i].key \in UniqueKeys,
               \A e \in deletes' : e[2] # i
        PROVE  Gone(i)'
    <3>1. CASE Gone(i)
      BY <1>10, <3>1 DEF Gone
    <3>2. CASE ~Gone(i)
      <4>1. PICK q \in DOMAIN mta : mta[q].n = i
        BY <3>2 DEF Gone
      <4>2. d[2] = i
        BY <1>1, <1>2, <2>4, <3>2 DEF Deleted
      <4>3. pos = q /\ \A r \in DOMAIN mta : mta[r].n = i => r = q
        BY <1>2, <2>4, <4>1, <4>2, SingleIsDeleted DEF pos
      <4> QED
        BY <1>8, <1>10, <4>3 DEF Gone
    <3> QED
      BY <3>1, <3>2
  <2> QED
    BY <1>2, <1>3, <2>1, <2>2, <2>3, <2>4 DEF Deleted
<1>15. Accounted'
  <2>1. ASSUME NEW k, NEW v
        PROVE  Added(k, v)' = Added(k, v) /\ Count(adds, k, v)' = Count(adds, k, v)
    <3>1. \A p \in DOMAIN mta' : mta'[p].n # 0
      BY <1>9, <1>10
    <3>2. AddedIn(mta, k, v) = 0
      BY <1>9, AddedNone
    <3>3. AddedIn(mta', k, v) = 0
      BY <3>1, AddedNone
    <3>4. Added(k, v)' = AddedIn(mta', k, v) /\ Added(k, v) = AddedIn(mta, k, v)
      BY DEF Added, AddedIn
    <3>5. Count(adds, k, v)' = Count(adds, k, v)
      BY <1>2 DEF Count, Matching
    <3> QED
      BY <3>2, <3>3, <3>4, <3>5
  <2> QED
    BY <1>1, <1>2, <1>3, <2>1 DEF Accounted
<1> QED
  BY <1>11, <1>12, <1>13, <1>14, <1>15 DEF HInv

\* The invariant is inductive.
LEMMA StepHInv == HInv /\ [Next]_vars => HInv'
<1> SUFFICES ASSUME HInv, [Next]_vars PROVE HInv'
  OBVIOUS
<1>1. CASE \E k \in Keys : Header(k)
  BY <1>1, HeaderStep
<1>2. CASE AddHeader
  BY <1>2, AddHeaderStep
<1>3. CASE Eom
  BY <1>3, EnsureHasMessageIdStep, QuietSteps, MutableHeadersStep, DeleteHeaderStep,
     EomAddHeaderStep DEF Eom
<1>4. CASE Ended \/ UNCHANGED vars
  <2>1. /\ UNCHANGED <<configVars, headers, addHeaders, injected, cachedAs, signed, deletes,
                       adds, mta, pc>>
        /\ UniqueKeys' = UniqueKeys /\ GetHeader(MessageId)' = GetHeader(MessageId)
        /\ GetMessageId' = GetMessageId
        /\ \A i : Single(i)' = Single(i) /\ Gone(i)' = Gone(i)
        /\ \A k, v : Promised(k, v)' = Promised(k, v) /\ Added(k, v)' = Added(k, v)
    <3>1. UNCHANGED <<configVars, headers, addHeaders, injected, cachedAs, signed, deletes,
                      adds, mta, pc>>
      BY <1>4 DEF Ended, vars, msgVars, eomVars
    <3> QED
      BY <3>1, ConfigSame, MtaSame
  <2>2. HTypes' /\ AsSent' /\ FirstIsOne'
    BY <2>1 DEF HInv, HTypes, AsSent, FirstIsOne, configVars
  <2>3. Before' /\ InOrder' /\ Cached'
    BY <2>1 DEF HInv, Before, InOrder, AsConfigured, Cached, configVars
  <2>4. Deleted'
    <3>1. Deleted
      BY DEF HInv
    <3> QED
      BY <2>1, <3>1 DEF Deleted
  <2>5. Accounted'
    <3>1. Accounted
      BY DEF HInv
    <3>2. \A k, v : Count(adds, k, v)' = Count(adds, k, v)
      BY <2>1 DEF Count, Matching
    <3> QED
      BY <2>1, <3>1, <3>2 DEF Accounted
  <2> QED
    BY <2>2, <2>3, <2>4, <2>5 DEF HInv
<1> QED
  BY <1>1, <1>2, <1>3, <1>4 DEF Next

LEMMA Inductive == Spec => []HInv
BY InitHInv, StepHInv, PTL DEF Spec
-----------------------------------------------------------------------------
(* What the invariant comes to                                             *)

LEMMA AddedType ==
  HInv => \A k, v : /\ Added(k, v) \in Nat
                    /\ Added(k, v) = 0 =>
                         \A p \in DOMAIN mta :
                           ~(mta[p].n = 0 /\ mta[p].key = k /\ mta[p].value = v)
                    /\ Added(k, v) # 0 =>
                         \E p \in DOMAIN mta : mta[p].n = 0 /\ mta[p].key = k /\ mta[p].value = v
<1> SUFFICES ASSUME HInv, NEW k, NEW v
             PROVE  /\ Added(k, v) \in Nat
                    /\ Added(k, v) = 0 =>
                         \A p \in DOMAIN mta :
                           ~(mta[p].n = 0 /\ mta[p].key = k /\ mta[p].value = v)
                    /\ Added(k, v) # 0 =>
                         \E p \in DOMAIN mta : mta[p].n = 0 /\ mta[p].key = k /\ mta[p].value = v
  OBVIOUS
<1> DEFINE A == {i \in DOMAIN mta : mta[i].n = 0 /\ mta[i].key = k /\ mta[i].value = v}
<1>1. Len(mta) \in Nat /\ DOMAIN mta = 1 .. Len(mta)
  <2>1. mta \in Seq(MtaHdr)
    BY DEF HInv, HTypes
  <2> QED
    BY <2>1, Positions
<1>2. IsFiniteSet(DOMAIN mta)
  BY <1>1, FS_Interval
<1>3. IsFiniteSet(A)
  BY <1>2, FS_Subset
<1>4. Cardinality(A) \in Nat /\ (Cardinality(A) = 0 <=> A = {})
  BY <1>3, FS_CardinalityType, FS_EmptySet
<1>5. Added(k, v) = Cardinality(A)
  BY DEF Added
<1>6. A = {} <=> \A p \in DOMAIN mta : ~(mta[p].n = 0 /\ mta[p].key = k /\ mta[p].value = v)
  OBVIOUS
<1> HIDE DEF A
<1> QED
  BY <1>4, <1>5, <1>6

LEMMA AtMostOne ==
  ASSUME NEW S, IsFiniteSet(S), Cardinality(S) <= 1, NEW x \in S, NEW y \in S
  PROVE  x = y
<1> SUFFICES ASSUME x # y PROVE FALSE
  OBVIOUS
<1>1. IsFiniteSet({x}) /\ Cardinality({x}) = 1
  BY FS_Singleton
<1>2. Cardinality({x} \cup {y}) = Cardinality({x}) + 1
  BY <1>1, FS_AddElement
<1>3. ({x} \cup {y}) \in SUBSET S
  OBVIOUS
<1>4. Cardinality({x} \cup {y}) <= Cardinality(S)
  BY <1>3, FS_Subset
<1>5. Cardinality(S) \in Nat
  BY FS_CardinalityType
<1> QED
  BY <1>1, <1>2, <1>4, <1>5

LEMMA AccountedAtEnd ==
  HInv /\ pc = "done" =>
    /\ \A k \in Keys : \A v \in Values \ {"signature"} : Added(k, v) = Promised(k, v)
    /\ signed = "heard" => Added(DkimSignature, "signature") = 1
    /\ signed = "no" => Added(DkimSignature, "signature") = 0
<1> SUFFICES ASSUME HInv, pc = "done"
             PROVE  /\ \A k \in Keys : \A v \in Values \ {"signature"} : Added(k, v) = Promised(k, v)
                    /\ signed = "heard" => Added(DkimSignature, "signature") = 1
                    /\ signed = "no" => Added(DkimSignature, "signature") = 0
  OBVIOUS
<1>1. Accounted /\ adds = <<>>
  BY DEF HInv, Deleted
<1>2. ASSUME NEW k, NEW v PROVE Added(k, v) + Count(adds, k, v) = Added(k, v)
  <2>1. Matching(adds, k, v) = {}
    BY <1>1 DEF Matching
  <2>2. Count(adds, k, v) = 0
    BY <2>1, FS_EmptySet DEF Count
  <2>3. Added(k, v) \in Nat
    BY AddedType
  <2> QED
    BY <2>2, <2>3
<1> QED
  BY <1>1, <1>2 DEF Accounted

LEMMA InvConfigured == HInv => HeadersAsConfigured
<1> SUFFICES ASSUME HInv PROVE HeadersAsConfigured
  OBVIOUS
<1>1. HTypes /\ AsSent /\ InOrder /\ Deleted
  BY DEF HInv
<1>2. headers \in Seq(ClientHdr) /\ mta \in Seq(MtaHdr) /\ DOMAIN headers \subseteq Nat
  BY <1>1 DEF HTypes
<1>3. ASSUME NEW p \in DOMAIN mta, mta[p].n # 0
      PROVE  /\ mta[p].n \in DOMAIN headers /\ headers[mta[p].n].n = mta[p].n
             /\ headers[mta[p].n].key = mta[p].key
  BY <1>1, <1>3 DEF InOrder, AsSent
<1>4. \A i \in DOMAIN headers : headers[i].n # 0 => headers[i].n = i
  BY <1>1 DEF AsSent
<1>5. OthersUntouched
  <2> DEFINE K == Keys \ UniqueKeys
  <2>1. ASSUME NEW x \in Sent(mta, K) PROVE x \in Sent(headers, K)
    <3>1. PICK p \in DOMAIN mta : mta[p].key \in K /\ mta[p].n = x /\ x # 0
      BY DEF Sent
    <3> QED
      BY <1>3, <3>1 DEF Sent
  <2>2. ASSUME NEW x \in Sent(headers, K) PROVE x \in Sent(mta, K)
    <3>1. PICK i \in DOMAIN headers : headers[i].key \in K /\ headers[i].n = x /\ x # 0
      BY DEF Sent
    <3>2. x = i /\ ~Gone(i)
      BY <1>1, <1>4, <3>1 DEF Deleted
    <3>3. PICK p \in DOMAIN mta : mta[p].n = x
      BY <3>2 DEF Gone
    <3>4. mta[p].key \in K
      BY <1>3, <3>1, <3>2, <3>3
    <3> QED
      BY <3>1, <3>3, <3>4 DEF Sent
  <2> HIDE DEF K
  <2>3. Sent(mta, K) = Sent(headers, K)
    BY <2>1, <2>2
  <2> QED
    BY <2>3 DEF OthersUntouched, K
<1>6. SingleIsReplaced
  <2> SUFFICES ASSUME pc = "done", NEW k \in UniqueKeys, Cardinality(Sent(headers, {k})) <= 1,
                      NEW x \in Sent(mta, {k})
               PROVE  FALSE
    BY DEF SingleIsReplaced
  <2>1. PICK p \in DOMAIN mta : mta[p].key = k /\ mta[p].n = x /\ x # 0
    BY DEF Sent
  <2>2. x \in DOMAIN headers /\ headers[x].n = x /\ headers[x].key = k
    BY <1>3, <2>1
  <2>3. IsFiniteSet(Sent(headers, {k}))
    <3>1. IsFiniteSet(DOMAIN headers)
      BY <1>2, Positions, FS_Interval
    <3>2. Sent(headers, {k}) \in SUBSET DOMAIN headers
      BY <1>4 DEF Sent
    <3> QED
      BY <3>1, <3>2, FS_Subset
  <2>4. \A j \in DOMAIN headers : headers[j].key = k /\ headers[j].n # 0 => j \in Sent(headers, {k})
    BY <1>4 DEF Sent
  <2>5. x \in Sent(headers, {k})
    BY <2>1, <2>2, <2>4
  <2>6. \A j \in DOMAIN headers : headers[j].key = k /\ headers[j].n # 0 => j = x
    BY <2>3, <2>4, <2>5, AtMostOne
  <2>7. Gone(x)
    BY <1>1, <2>1, <2>2, <2>6 DEF Deleted, Single
  <2> QED
    BY <2>1, <2>7 DEF Gone
<1>7. AddedAsConfigured
  BY AccountedAtEnd DEF AddedAsConfigured
<1> QED
  BY <1>5, <1>6, <1>7 DEF HeadersAsConfigured

LEMMA InvCached == HInv => LeavesAsCached
<1> SUFFICES ASSUME HInv, pc = "done", insertMissing,
                    \A i \in DOMAIN rules : rules[i].key # MessageId
             PROVE  \E p \in DOMAIN mta :
                      /\ mta[p].key = MessageId /\ IdOf(mta[p]) = cachedAs
                      /\ \A q \in 1 .. p - 1 : mta[q].key # MessageId
  BY DEF LeavesAsCached
<1> DEFINE G == GetHeader(MessageId)
           m == Min(G)
<1>1. HTypes /\ AsSent /\ InOrder /\ Deleted
  BY DEF HInv
<1>2. /\ headers \in Seq(ClientHdr) /\ mta \in Seq(MtaHdr) /\ DOMAIN headers \subseteq Nat
      /\ Len(mta) \in Nat /\ DOMAIN mta = 1 .. Len(mta)
  BY <1>1, Positions DEF HTypes
<1>3. G \in SUBSET Nat /\ G # {}
  BY <1>1, <1>2 DEF GetHeader, AsSent
<1>4. m \in G /\ \A i \in G : m <= i
  <2> HIDE DEF G
  <2> QED
    BY <1>3, MinFacts
<1>5. cachedAs = IdOf(headers[m])
  BY <1>3 DEF HInv, Cached, GetMessageId
<1>6. \A i : i \in G <=> i \in DOMAIN headers /\ headers[i].key = MessageId
  BY DEF GetHeader
<1> HIDE DEF m, G
<1>7. MessageId \notin UniqueKeys
  BY DEF UniqueKeys
<1>8. CASE injected # Generated
  <2>1. headers[m].n = m /\ headers[m].value = "sent" /\ headers[m].n # 0
    BY <1>1, <1>4, <1>6, <1>8 DEF AsSent
  <2>2. PICK p \in DOMAIN mta : mta[p].n = m
    BY <1>1, <1>4, <1>6, <1>7, <2>1 DEF Deleted, Gone
  <2>3. mta[p].key = MessageId /\ mta[p].value = "sent"
    BY <1>1, <1>4, <1>6, <2>1, <2>2 DEF InOrder
  <2>4. ASSUME NEW q \in 1 .. p - 1, mta[q].key = MessageId PROVE FALSE
    <3>1. q \in DOMAIN mta /\ q < p
      BY <1>2
    <3>2. mta[q].n # 0 /\ mta[q].n < m
      BY <1>1, <2>1, <2>2, <3>1 DEF InOrder
    <3>3. mta[q].n \in G
      BY <1>1, <1>6, <2>4, <3>1, <3>2 DEF InOrder
    <3>4. m \in Nat /\ mta[q].n \in Nat
      BY <1>3, <1>4, <3>3
    <3>5. m <= mta[q].n
      BY <1>4, <3>3
    <3> QED
      BY <3>2, <3>4, <3>5
  <2>5. IdOf(mta[p]) = cachedAs
    BY <1>5, <2>1, <2>2, <2>3 DEF IdOf
  <2> QED
    BY <2>3, <2>4, <2>5
<1>9. CASE injected = Generated
  <2>1. headers[m].n = 0 /\ headers[m].value = "generated"
    BY <1>1, <1>4, <1>6, <1>9 DEF AsSent, GetHeader
  <2>2. ASSUME NEW v PROVE Promised(MessageId, v) = IF v = "generated" THEN 1 ELSE 0
    <3> DEFINE X == {p \in (DOMAIN rules) \X (0 .. Len(rcpts)) :
                       /\ rules[p[1]].key = MessageId
                       /\ IF p[2] = 0 THEN rules[p[1]].value = v /\ v \notin {"", Template}
                          ELSE rules[p[1]].value = Template /\ rcpts[p[2]] = v}
    <3>1. Sent(headers, {MessageId}) = {}
      BY <1>9, SentNone
    <3>2. X = {}
      OBVIOUS
    <3>3. Promised(MessageId, v) = Cardinality(X) + (IF v = "generated" THEN 1 ELSE 0)
      BY <3>1 DEF Promised
    <3> HIDE DEF X
    <3>4. Cardinality(X) = 0
      BY <3>2, FS_EmptySet
    <3> QED
      BY <3>3, <3>4
  <2>3. MessageId \in Keys /\ "generated" \in Values \ {"signature"}
    BY HeadersAssumption DEF Values, Sources
  <2>4. \A v \in Values \ {"signature"} : Added(MessageId, v) = IF v = "generated" THEN 1 ELSE 0
    BY <2>2, <2>3, AccountedAtEnd
  <2> DEFINE P == {p \in DOMAIN mta : mta[p].key = MessageId}
  <2>5. P \in SUBSET Nat /\ P # {}
    <3>1. Added(MessageId, "generated") # 0
      BY <2>3, <2>4
    <3>2. \E p \in DOMAIN mta : mta[p].key = MessageId
      BY <3>1, AddedType
    <3> QED
      BY <1>2, <3>2
  <2>6. PICK p \in P : \A q \in P : p <= q
    <3> HIDE DEF P
    <3> QED
      BY <2>5, MinFacts
  <2>7. mta[p].n = 0
    <3>1. SUFFICES ASSUME mta[p].n # 0 PROVE FALSE
      OBVIOUS
    <3>2. mta[p].n \in G /\ headers[mta[p].n].n # 0
      BY <1>1, <1>6, <3>1 DEF InOrder
    <3> QED
      BY <1>1, <1>9, <3>2 DEF AsSent, G
  <2>8. mta[p].value \in Values \ {"signature"}
    <3>1. p \in DOMAIN mta /\ mta[p] \in MtaHdr
      BY <1>2
    <3>2. mta[p].value \in Values
      BY <3>1 DEF MtaHdr
    <3>3. mta[p].key # DkimSignature
      BY DEF MessageId, DkimSignature
    <3>4. mta[p].value # "signature"
      BY <1>1, <3>1, <3>3 DEF InOrder
    <3> QED
      BY <3>2, <3>4
  <2>9. mta[p].value = "generated"
    <3>1. Added(MessageId, mta[p].value) # 0
      BY <2>7, AddedType
    <3> QED
      BY <2>4, <2>8, <3>1
  <2>10. IdOf(mta[p]) = cachedAs
    BY <1>5, <2>1, <2>7, <2>9 DEF IdOf
  <2>11. ASSUME NEW q \in 1 .. p - 1, mta[q].key = MessageId PROVE FALSE
    <3>1. p \in Nat /\ q \in DOMAIN mta /\ q < p
      BY <1>2
    <3> QED
      BY <2>6, <2>11, <3>1
  <2> QED
    BY <2>10, <2>11
<1> QED
  BY <1>8, <1>9
-----------------------------------------------------------------------------
(***************************************************************************)
(* What leaves is what came in, changed as the rules say: the headers of   *)
(* other keys all stay, one that is to be unique and was sent once goes,   *)
(* and each rule adds what it promises, however Eom's deletions shift the  *)
(* numbers the MTA counts by (messageGetMutableHeaders, milter.Eom).       *)
(***************************************************************************)
THEOREM ConfiguredCorrect == Spec => []HeadersAsConfigured
BY Inductive, InvConfigured, PTL

(***************************************************************************)
(* The Message-Id that messageSave hands to the cache is the first one the *)
(* message leaves with, when ones that miss are inserted and no rule names *)
(* that key (messageGetMessageId, messageEnsureHasMessageId).              *)
(***************************************************************************)
THEOREM CachedCorrect == Spec => []LeavesAsCached
BY Inductive, InvCached, PTL
===============================================================================
