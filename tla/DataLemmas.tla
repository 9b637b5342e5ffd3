------------------------------ MODULE DataLemmas ------------------------------
(***************************************************************************)
(* Lemmas about the data the models are built from.  Induction over the     *)
(* naturals is stated for sets instead of predicates, so that a proof can   *)
(* cite it; from it come the functions that recursion along 1 .. N defines, *)
(* and with these what is left of a sequence by a filter, and what is made  *)
(* of a sequence of sequences that is flattened.                            *)
(***************************************************************************)
EXTENDS Filter, FiniteSetsExt, SequencesExt, FiniteSetTheorems, WellFoundedInduction,
        SequenceTheorems, TLAPS

Less == {p \in Nat \X Nat : p[1] < p[2]}

LEMMA LessIsWellFounded == IsWellFoundedOn(Less, Nat)
  BY NatLessThanWellFounded DEF OpToRel, Less

(* A set of naturals that holds 0 and every successor holds them all.       *)
LEMMA SetInduction ==
  ASSUME NEW T \in SUBSET Nat, 0 \in T, \A n \in T : n + 1 \in T
  PROVE  T = Nat
  <1>1. SUFFICES ASSUME Nat \ T # {} PROVE FALSE
    OBVIOUS
  <1>2. PICK m \in Nat \ T : \A n \in Nat \ T : <<n, m>> \notin Less
    <2>1. Nat \ T \subseteq Nat
      OBVIOUS
    <2> QED
      BY <1>1, <2>1, LessIsWellFounded, WFMin
  <1>3. \A n \in Nat \ T : ~(n < m)
    BY <1>2 DEF Less
  <1>4. m # 0 /\ m - 1 \in Nat
    BY <1>2
  <1>5. (m - 1) + 1 \in T
    BY <1>3, <1>4
  <1> QED
    BY <1>2, <1>5

(* A set of naturals has a least element.                                   *)
LEMMA MinIsLeast ==
  ASSUME NEW S \in SUBSET Nat, S # {}
  PROVE  Min(S) \in S /\ \A x \in S : Min(S) <= x
  <1>1. PICK m \in S : \A n \in S : <<n, m>> \notin Less
    BY LessIsWellFounded, WFMin
  <1>2. \A n \in S : m <= n
    <2>1. \A n \in Nat : n < m => <<n, m>> \in Less
      BY DEF Less
    <2>2. \A n \in S : ~(n < m)
      BY <1>1, <2>1
    <2> QED
      BY <2>2
  <1> QED
    BY <1>2 DEF Min

Follows(g, c, step, N) ==
  g[0] = c /\ \A n \in 1 .. N : g[n] = step[<<g[n - 1], n>>]

(* There is a function that starts at c and goes on by step along 1 .. N.   *)
LEMMA Recursion ==
  ASSUME NEW S, NEW c \in S, NEW N \in Nat, NEW step \in [S \X (1 .. N) -> S]
  PROVE  \E g \in [0 .. N -> S] : Follows(g, c, step, N)
  <1> DEFINE Goes(g, m) == g[0] = c /\ \A n \in 1 .. m : g[n] = step[<<g[n - 1], n>>]
             T == {m \in Nat : m <= N => \E g \in [0 .. m -> S] : Goes(g, m)}
  <1>1. 0 \in T
    <2> DEFINE g == [n \in 0 .. 0 |-> c]
    <2>1. g \in [0 .. 0 -> S] /\ Goes(g, 0)
      OBVIOUS
    <2> QED
      BY <2>1
  <1>2. ASSUME NEW m \in T PROVE m + 1 \in T
    <2>1. SUFFICES ASSUME m + 1 <= N PROVE \E g \in [0 .. m + 1 -> S] : Goes(g, m + 1)
      OBVIOUS
    <2>2. m \in Nat /\ m + 1 \in 1 .. N /\ (m + 1) - 1 = m /\ m <= N
      BY <2>1
    <2>3. PICK g \in [0 .. m -> S] : Goes(g, m)
      BY <2>2
    <2> DEFINE h == [n \in 0 .. m + 1 |-> IF n = m + 1 THEN step[<<g[m], m + 1>>] ELSE g[n]]
    <2>4. h \in [0 .. m + 1 -> S]
      BY <2>2
    <2>5. h[0] = c /\ h[m + 1] = step[<<h[m], m + 1>>]
      <3>1. m # m + 1 /\ 0 # m + 1 /\ {0, m, m + 1} \subseteq 0 .. m + 1
        BY <2>2
      <3>2. h[m + 1] = step[<<g[m], m + 1>>] /\ h[m] = g[m] /\ h[0] = g[0]
        BY <3>1
      <3> QED
        BY <2>3, <3>2
    <2>6. \A n \in 1 .. m : n - 1 \in 0 .. m /\ h[n] = g[n] /\ h[n - 1] = g[n - 1]
      BY <2>2
    <2>7. \A n \in 1 .. m : h[n] = step[<<h[n - 1], n>>]
      BY <2>3, <2>6
    <2> HIDE DEF h
    <2>8. \A n \in 1 .. m + 1 : h[n] = step[<<h[n - 1], n>>]
      <3>1. \A n \in 1 .. m + 1 : n \in 1 .. m \/ n = m + 1
        BY <2>2
      <3> QED
        BY <2>2, <2>5, <2>7, <3>1
    <2> QED
      BY <2>4, <2>5, <2>8
  <1>3. T = Nat
    <2>1. T \in SUBSET Nat
      OBVIOUS
    <2> HIDE DEF T
    <2> QED
      BY <1>1, <1>2, <2>1, SetInduction
  <1> QED
    <2>1. N <= N
      OBVIOUS
    <2>2. N \in T
      BY <1>3, Zenon
    <2> QED
      BY <2>1, <2>2 DEF Follows

-----------------------------------------------------------------------------
LEMMA AppendSet ==
  ASSUME NEW S, NEW s \in Seq(S), NEW x \in S
  PROVE  ToSet(Append(s, x)) = ToSet(s) \union {x}
  <1>1. DOMAIN s = 1 .. Len(s) /\ DOMAIN Append(s, x) = 1 .. Len(s) + 1 /\ Len(s) \in Nat
    OBVIOUS
  <1>2. \A i \in 1 .. Len(s) : Append(s, x)[i] = s[i]
    OBVIOUS
  <1>3. Append(s, x)[Len(s) + 1] = x
    OBVIOUS
  <1>4. \A i \in 1 .. Len(s) + 1 : i \in 1 .. Len(s) \/ i = Len(s) + 1
    BY <1>1
  <1>5. 1 .. Len(s) \subseteq 1 .. Len(s) + 1 /\ Len(s) + 1 \in 1 .. Len(s) + 1
    BY <1>1
  <1> QED
    BY <1>1, <1>2, <1>3, <1>4, <1>5 DEF ToSet

(* What is kept of a sequence, element by element                           *)
LEMMA OnlyFollows ==
  ASSUME NEW E, NEW s \in Seq(E), NEW S
  PROVE  \E kept : /\ kept[0] = <<>> /\ Only(s, S) = kept[Len(s)]
                  /\ \A n \in 1 .. Len(s) :
                       kept[n] = IF s[n] \in S THEN Append(kept[n - 1], s[n]) ELSE kept[n - 1]
  <1> DEFINE N == Len(s)
             Kept(g, n) == IF s[n] \in S THEN Append(g[n - 1], s[n])
                           ELSE g[n - 1]
             kept == CHOOSE g : g = [n \in 0 .. N |-> IF n = 0 THEN <<>>
                                                     ELSE IF s[n] \in S THEN Append(g[n - 1], s[n])
                                                     ELSE g[n - 1]]
  <1>1. Only(s, S) = kept[N]
    BY DEF Only
  <1>2. N \in Nat /\ \A n \in 1 .. N : s[n] \in E
    OBVIOUS
  <1>3. \E g : g = [n \in 0 .. N |-> IF n = 0 THEN <<>> ELSE Kept(g, n)]
    <2> DEFINE step == [p \in Seq(E) \X (1 .. N) |->
                          IF s[p[2]] \in S THEN Append(p[1], s[p[2]]) ELSE p[1]]
    <2>1. step \in [Seq(E) \X (1 .. N) -> Seq(E)]
      BY <1>2
    <2>2. <<>> \in Seq(E)
      OBVIOUS
    <2> HIDE DEF N, step
    <2>3. PICK g \in [0 .. N -> Seq(E)] : Follows(g, <<>>, step, N)
      BY <1>2, <2>1, <2>2, Recursion
    <2>4. \A n \in 1 .. N : g[n] = Kept(g, n)
      <3> SUFFICES ASSUME NEW n \in 1 .. N PROVE g[n] = Kept(g, n)
        OBVIOUS
      <3>1. g[n - 1] \in Seq(E)
        BY <1>2
      <3> QED
        BY <2>3, <3>1 DEF step, Follows
    <2>5. \A n \in 0 .. N : g[n] = IF n = 0 THEN <<>> ELSE Kept(g, n)
      <3>1. \A n \in 0 .. N : n = 0 \/ n \in 1 .. N
        BY <1>2
      <3>2. \A n \in 1 .. N : n # 0
        BY <1>2
      <3> HIDE DEF Kept
      <3> QED
        BY <2>3, <2>4, <3>1, <3>2 DEF Follows
    <2> HIDE DEF Kept
    <2>6. g = [n \in 0 .. N |-> g[n]]
      OBVIOUS
    <2>7. g = [n \in 0 .. N |-> IF n = 0 THEN <<>> ELSE Kept(g, n)]
      BY <2>5, <2>6
    <2> QED
      BY <2>7
  <1>4. kept = [n \in 0 .. N |-> IF n = 0 THEN <<>> ELSE Kept(kept, n)]
    BY <1>3
  <1> HIDE DEF kept
  <1>5. kept[0] = <<>> /\ \A n \in 1 .. N : kept[n] = Kept(kept, n)
    <2>1. 0 \in 0 .. N /\ \A n \in 1 .. N : n \in 0 .. N /\ n # 0
      BY <1>2
    <2> HIDE DEF Kept
    <2> QED
      BY <1>4, <2>1
  <1> QED
    BY <1>1, <1>5

(* A filter keeps the elements of its set.                                  *)
LEMMA OnlyKeeps ==
  ASSUME NEW E, NEW s \in Seq(E), NEW S
  PROVE  Only(s, S) \in Seq(E) /\ ToSet(Only(s, S)) = ToSet(s) \intersect S
  <1> DEFINE N == Len(s)
             First(n) == {s[i] : i \in 1 .. n}
  <1>2. N \in Nat /\ \A n \in 1 .. N : s[n] \in E
    OBVIOUS
  <1>3. PICK kept : /\ kept[0] = <<>> /\ Only(s, S) = kept[N]
                    /\ \A n \in 1 .. N : kept[n] = IF s[n] \in S THEN Append(kept[n - 1], s[n])
                                                    ELSE kept[n - 1]
    BY OnlyFollows
  <1> DEFINE Right(n) == kept[n] \in Seq(E) /\ ToSet(kept[n]) = First(n) \intersect S
             T == {n \in Nat : n <= N => Right(n)}
  <1>6. 0 \in T
    <2>1. 1 .. 0 = {}
      OBVIOUS
    <2>2. ToSet(<<>>) = {}
      BY DEF ToSet
    <2>3. First(0) = {}
      BY <2>1
    <2>4. Right(0)
      BY <1>3, <2>2, <2>3
    <2> QED
      BY <2>4
  <1>7. ASSUME NEW m \in T PROVE m + 1 \in T
    <2>1. SUFFICES ASSUME m + 1 <= N PROVE Right(m + 1)
      OBVIOUS
    <2>2. m \in Nat /\ m + 1 \in 1 .. N /\ (m + 1) - 1 = m /\ m <= N
      <3>1. m \in Nat
        OBVIOUS
      <3> HIDE DEF N, T
      <3> QED
        BY <1>2, <2>1, <3>1
    <2>3. Right(m)
      BY <2>2
    <2>4. First(m + 1) = First(m) \union {s[m + 1]}
      BY <2>2
    <2>5. CASE s[m + 1] \notin S
      <3>1. kept[m + 1] = kept[m]
        BY <1>3, <2>2, <2>5
      <3> HIDE DEF First
      <3> QED
        BY <2>3, <2>4, <2>5, <3>1
    <2>6. CASE s[m + 1] \in S
      <3>1. kept[m + 1] = Append(kept[m], s[m + 1])
        BY <1>3, <2>2, <2>6
      <3>2. s[m + 1] \in E
        BY <1>2, <2>2
      <3>3. ToSet(kept[m + 1]) = ToSet(kept[m]) \union {s[m + 1]}
        BY <2>3, <3>1, <3>2, AppendSet
      <3>4. kept[m + 1] \in Seq(E)
        BY <2>3, <3>1, <3>2
      <3> HIDE DEF First
      <3> QED
        BY <2>3, <2>4, <2>6, <3>3, <3>4
    <2> QED
      BY <2>5, <2>6
  <1>8. Right(N)
    <2>1. T \in SUBSET Nat
      OBVIOUS
    <2>2. N <= N
      BY <1>2
    <2>3. N \in T
      <3> HIDE DEF T
      <3> QED
        BY <1>2, <1>6, <1>7, <2>1, SetInduction
    <2> QED
      BY <2>2, <2>3
  <1>9. First(N) = ToSet(s)
    BY DEF ToSet
  <1> QED
    BY <1>3, <1>8, <1>9

(* A first element that is kept stays the first.                            *)
LEMMA FirstIsKept ==
  ASSUME NEW E, NEW s \in Seq(E), NEW S, s # <<>>, s[1] \in S
  PROVE  Only(s, S) # <<>> /\ Only(s, S)[1] = s[1]
  <1> DEFINE N == Len(s)
  <1>1. N \in Nat \ {0} /\ \A n \in 1 .. N : s[n] \in E
    BY EmptySeq
  <1>2. PICK kept : /\ kept[0] = <<>> /\ Only(s, S) = kept[N]
                    /\ \A n \in 1 .. N : kept[n] = IF s[n] \in S THEN Append(kept[n - 1], s[n])
                                                    ELSE kept[n - 1]
    BY OnlyFollows
  <1> HIDE DEF N
  <1> DEFINE Right(n) == kept[n] \in Seq(E) /\ Len(kept[n]) # 0 /\ kept[n][1] = s[1]
             T == {m \in Nat : m + 1 <= N => Right(m + 1)}
  <1>3. 0 \in T
    <2>1. 1 \in 1 .. N /\ 1 - 1 = 0
      BY <1>1
    <2>2. kept[1] = Append(<<>>, s[1]) /\ s[1] \in E
      BY <1>1, <1>2, <2>1
    <2>3. Right(1)
      BY <2>2
    <2> QED
      BY <2>3
  <1>4. ASSUME NEW m \in T PROVE m + 1 \in T
    <2>1. SUFFICES ASSUME (m + 1) + 1 <= N PROVE Right((m + 1) + 1)
      OBVIOUS
    <2>2. m \in Nat /\ m + 2 \in 1 .. N /\ (m + 2) - 1 = m + 1 /\ m + 1 <= N
      <3>1. m \in Nat
        OBVIOUS
      <3> HIDE DEF T
      <3> QED
        BY <1>1, <2>1, <3>1
    <2>3. Right(m + 1)
      BY <2>2
    <2> DEFINE k == kept[m + 1]
    <2>4. kept[m + 2] \in {k, Append(k, s[m + 2])} /\ s[m + 2] \in E
      BY <1>1, <1>2, <2>2
    <2>5. k \in Seq(E) /\ Len(k) # 0 /\ k[1] = s[1]
      BY <2>3
    <2> HIDE DEF k
    <2>6. \A x \in E : Append(k, x) \in Seq(E) /\ Len(Append(k, x)) # 0 /\ Append(k, x)[1] = s[1]
      BY <2>5
    <2>7. Right(m + 2)
      BY <2>4, <2>5, <2>6
    <2> QED
      BY <2>2, <2>7
  <1>5. T = Nat
    <2>1. T \in SUBSET Nat
      OBVIOUS
    <2> HIDE DEF T
    <2> QED
      BY <1>3, <1>4, <2>1, SetInduction
  <1>6. N - 1 \in T /\ (N - 1) + 1 = N
    <2> HIDE DEF T
    <2> QED
      BY <1>1, <1>5
  <1>7. Right(N)
    <2> HIDE DEF Right
    <2> QED
      BY <1>1, <1>6
  <1> QED
    BY <1>2, <1>7, EmptySeq

(* A set of naturals up to a bound has a largest element.                   *)
LEMMA MaxIsLargest ==
  ASSUME NEW n \in Nat, NEW S \in SUBSET (0 .. n), S # {}
  PROVE  Max(S) \in S /\ \A x \in S : x <= Max(S)
  <1> DEFINE D == {k \in 0 .. n : n - k \in S}
  <1>1. D \subseteq Nat
    OBVIOUS
  <1>2. D # {}
    <2>1. PICK x \in S : TRUE
      OBVIOUS
    <2>2. n - x \in 0 .. n /\ n - (n - x) = x
      OBVIOUS
    <2> QED
      BY <2>1, <2>2
  <1>3. PICK m \in D : \A k \in D : <<k, m>> \notin Less
    <2> HIDE DEF D
    <2> QED
      BY <1>1, <1>2, LessIsWellFounded, WFMin
  <1>4. \A k \in D : m <= k
    <2>1. \A k \in Nat : k < m => <<k, m>> \in Less
      BY <1>1 DEF Less
    <2>2. \A k \in D : ~(k < m)
      BY <1>1, <1>3, <2>1
    <2> QED
      BY <1>1, <2>2
  <1>5. n - m \in S /\ \A x \in S : x <= n - m
    <2>1. \A x \in S : n - x \in 0 .. n /\ n - (n - x) = x
      OBVIOUS
    <2>2. \A x \in S : n - x \in D
      BY <2>1
    <2> QED
      BY <1>4, <2>1, <2>2
  <1>6. \E x \in S : \A y \in S : x >= y
    BY <1>5
  <1> QED
    BY <1>6 DEF Max

LEMMA RemoveAtShifts ==
  ASSUME NEW E, NEW s \in Seq(E), NEW i \in 1 .. Len(s)
  PROVE  /\ RemoveAt(s, i) \in Seq(E)
         /\ Len(RemoveAt(s, i)) = Len(s) - 1
         /\ \A k \in 1 .. Len(s) - 1 : RemoveAt(s, i)[k] = IF k < i THEN s[k] ELSE s[k + 1]
  <1> DEFINE a == SubSeq(s, 1, i - 1)
             b == SubSeq(s, i + 1, Len(s))
  <1>1. a \in Seq(E) /\ Len(a) = i - 1 /\ \A k \in 1 .. i - 1 : a[k] = s[k]
    OBVIOUS
  <1>2. b \in Seq(E) /\ Len(b) = Len(s) - i /\ \A k \in 1 .. Len(s) - i : b[k] = s[k + i]
    OBVIOUS
  <1>3. RemoveAt(s, i) = a \o b
    BY DEF RemoveAt
  <1> HIDE DEF a, b
  <1>4. Len(s) \in Nat /\ i - 1 \in Nat /\ Len(s) - i \in Nat
    OBVIOUS
  <1>5. /\ a \o b \in Seq(E) /\ Len(a \o b) = Len(a) + Len(b)
        /\ \A k \in 1 .. Len(a) + Len(b) :
             (a \o b)[k] = IF k <= Len(a) THEN a[k] ELSE b[k - Len(a)]
    BY <1>1, <1>2, ConcatProperties
  <1>6. Len(a) + Len(b) = Len(s) - 1
    BY <1>1, <1>2, <1>4
  <1>7. ASSUME NEW k \in 1 .. Len(s) - 1
        PROVE  (a \o b)[k] = IF k < i THEN s[k] ELSE s[k + 1]
    <2>1. (a \o b)[k] = IF k <= i - 1 THEN a[k] ELSE b[k - (i - 1)]
      BY <1>1, <1>5, <1>6
    <2>2. CASE k < i
      <3>1. k \in 1 .. i - 1
        BY <1>4, <2>2
      <3> QED
        BY <1>1, <2>1, <2>2, <3>1
    <2>3. CASE ~(k < i)
      <3>1. k - (i - 1) \in 1 .. Len(s) - i /\ (k - (i - 1)) + i = k + 1 /\ ~(k <= i - 1)
        BY <1>4, <2>3
      <3> QED
        BY <1>2, <2>1, <2>3, <3>1
    <2> QED
      BY <2>2, <2>3
  <1> QED
    BY <1>3, <1>5, <1>6, <1>7

(* A sequence given element by element                                      *)
LEMMA GivenSeq ==
  ASSUME NEW E, NEW n \in Nat, NEW w, DOMAIN w = 1 .. n, w = [i \in 1 .. n |-> w[i]],
         \A i \in 1 .. n : w[i] \in E
  PROVE  w \in Seq(E) /\ Len(w) = n
  OBVIOUS

-----------------------------------------------------------------------------
(* SetToSeq gives each place a different element of the set.                *)
LEMMA SetToSeqIsInjective ==
  ASSUME NEW S, IsFiniteSet(S)
  PROVE  /\ SetToSeq(S) \in Seq(S)
         /\ \A i, j \in 1 .. Len(SetToSeq(S)) : SetToSeq(S)[i] = SetToSeq(S)[j] => i = j
  <1> DEFINE N == Cardinality(S)
  <1>1. N \in Nat /\ ExistsBijection(1 .. N, S)
    BY FS_CardinalityType
  <1>2. \E f \in [1 .. N -> S] : IsInjective(f)
    BY <1>1 DEF ExistsBijection, Bijection, Injection
  <1>3. SetToSeq(S) \in [1 .. N -> S] /\ IsInjective(SetToSeq(S))
    BY <1>2 DEF SetToSeq
  <1>4. SetToSeq(S) \in Seq(S) /\ DOMAIN SetToSeq(S) = 1 .. Len(SetToSeq(S))
    BY <1>1, <1>3
  <1> QED
    BY <1>3, <1>4 DEF IsInjective

(* The sequence of all elements of one sequence after the other.            *)
LEMMA Flattening ==
  ASSUME NEW E, NEW ss \in Seq(Seq(E)), Len(ss) # 0
  PROVE  \E g \in [1 .. Len(ss) -> Seq(E)] :
           /\ g[1] = ss[1]
           /\ \A i \in 2 .. Len(ss) : g[i] = g[i - 1] \o ss[i]
           /\ FlattenSeq(ss) = g[Len(ss)]
  <1> DEFINE N == Len(ss)
             flatten == CHOOSE f : f = [i \in 1 .. N |-> IF i = 1 THEN ss[i] ELSE f[i - 1] \o ss[i]]
             step == [p \in Seq(E) \X (1 .. N) |-> p[1] \o ss[p[2]]]
  <1>1. N \in Nat /\ N >= 1 /\ \A i \in 1 .. N : ss[i] \in Seq(E)
    OBVIOUS
  <1>2. FlattenSeq(ss) = flatten[N]
    BY <1>1 DEF FlattenSeq
  <1>3. step \in [Seq(E) \X (1 .. N) -> Seq(E)]
    <2>1. \A p \in Seq(E) \X (1 .. N) : p[1] \in Seq(E) /\ ss[p[2]] \in Seq(E)
      BY <1>1
    <2>2. \A a, b \in Seq(E) : a \o b \in Seq(E)
      OBVIOUS
    <2> QED
      BY <2>1, <2>2
  <1>4. <<>> \in Seq(E)
    OBVIOUS
  <1>5. \A a \in Seq(E), n \in 1 .. N : step[<<a, n>>] = a \o ss[n]
    OBVIOUS
  <1> HIDE DEF N, flatten, step
  <1>6. PICK g \in [0 .. N -> Seq(E)] : Follows(g, <<>>, step, N)
    BY <1>1, <1>3, <1>4, Recursion
  <1>7. ASSUME NEW n \in 1 .. N PROVE g[n] = g[n - 1] \o ss[n] /\ g[n - 1] \in Seq(E) /\ g[n] \in Seq(E)
    <2>1. n - 1 \in 0 .. N /\ n \in 0 .. N
      BY <1>1
    <2> QED
      BY <1>5, <1>6, <2>1 DEF Follows
  <1>8. g[1] = ss[1]
    <2>1. 1 \in 1 .. N /\ 1 - 1 = 0
      BY <1>1
    <2>2. g[0] = <<>>
      BY <1>6 DEF Follows
    <2>3. g[1] = <<>> \o ss[1]
      BY <1>7, <2>1, <2>2
    <2> QED
      BY <1>1, <2>1, <2>3
  <1> DEFINE h == [i \in 1 .. N |-> g[i]]
  <1>9. h \in [1 .. N -> Seq(E)] /\ \A i \in 1 .. N : h[i] = IF i = 1 THEN ss[i] ELSE h[i - 1] \o ss[i]
    <2>1. \A i \in 1 .. N : i # 1 => i - 1 \in 1 .. N
      BY <1>1
    <2> QED
      BY <1>7, <1>8, <2>1
  <1>10. h = [i \in 1 .. N |-> IF i = 1 THEN ss[i] ELSE h[i - 1] \o ss[i]]
    <2> DEFINE r == [i \in 1 .. N |-> IF i = 1 THEN ss[i] ELSE h[i - 1] \o ss[i]]
    <2>1. DOMAIN h = 1 .. N /\ DOMAIN r = 1 .. N /\ \A i \in 1 .. N : r[i] = h[i]
      BY <1>9
    <2>2. h = [i \in 1 .. N |-> h[i]] /\ r = [i \in 1 .. N |-> r[i]]
      OBVIOUS
    <2> HIDE DEF r, h
    <2>3. h = r
      BY <2>1, <2>2
    <2> QED
      BY <2>3 DEF r
  <1> HIDE DEF h
  <1>11. flatten = [i \in 1 .. N |-> IF i = 1 THEN ss[i] ELSE flatten[i - 1] \o ss[i]]
    BY <1>10 DEF flatten
  <1>12. flatten \in [1 .. N -> Seq(E)]
    <2> DEFINE T == {n \in Nat : n + 1 \in 1 .. N => flatten[n + 1] \in Seq(E)}
    <2>1. T \in SUBSET Nat
      OBVIOUS
    <2>2. 0 \in T
      BY <1>1, <1>11
    <2>3. ASSUME NEW n \in T PROVE n + 1 \in T
      <3>1. SUFFICES ASSUME n + 2 \in 1 .. N PROVE flatten[n + 2] \in Seq(E)
        BY <2>3
      <3>2. n \in Nat /\ n + 1 \in 1 .. N /\ (n + 2) - 1 = n + 1 /\ n + 2 # 1
        BY <1>1, <3>1
      <3>3. flatten[n + 1] \in Seq(E)
        BY <3>2
      <3>4. flatten[n + 2] = flatten[n + 1] \o ss[n + 2]
        BY <1>11, <3>1, <3>2
      <3>5. ss[n + 2] \in Seq(E)
        BY <1>1, <3>1
      <3> QED
        BY <3>3, <3>4, <3>5
    <2>4. T = Nat
      <3> HIDE DEF T
      <3> QED
        BY <2>1, <2>2, <2>3, SetInduction
    <2>5. \A i \in 1 .. N : i - 1 \in Nat /\ (i - 1) + 1 = i
      BY <1>1
    <2>6. \A i \in 1 .. N : flatten[i] \in Seq(E)
      BY <2>4, <2>5
    <2> QED
      BY <1>11, <2>6
  <1>13. flatten[1] = ss[1]
    BY <1>1, <1>11
  <1>14. \A i \in 2 .. N : flatten[i] = flatten[i - 1] \o ss[i]
    <2>1. \A i \in 2 .. N : i \in 1 .. N /\ i # 1
      BY <1>1
    <2> QED
      BY <1>11, <2>1
  <1> QED
    BY <1>2, <1>12, <1>13, <1>14 DEF N

LEMMA FlattenIsSeq ==
  ASSUME NEW E, NEW ss \in Seq(Seq(E))
  PROVE  FlattenSeq(ss) \in Seq(E) /\ (Len(ss) = 0 => FlattenSeq(ss) = <<>>)
  <1>1. CASE Len(ss) = 0
    <2>1. ss = <<>>
      BY <1>1, EmptySeq
    <2>2. FlattenSeq(ss) = <<>>
      BY <1>1, <2>1 DEF FlattenSeq
    <2> QED
      BY <2>2, EmptySeq
  <1>2. CASE Len(ss) # 0
    <2>1. PICK g \in [1 .. Len(ss) -> Seq(E)] :
            /\ g[1] = ss[1]
            /\ \A i \in 2 .. Len(ss) : g[i] = g[i - 1] \o ss[i]
            /\ FlattenSeq(ss) = g[Len(ss)]
      BY <1>2, Flattening
    <2>2. Len(ss) \in 1 .. Len(ss)
      BY <1>2
    <2> QED
      BY <1>2, <2>1, <2>2
  <1> QED
    BY <1>1, <1>2

(* The first sequence comes before the rest of them.                        *)
LEMMA FlattenFirst ==
  ASSUME NEW E, NEW ss \in Seq(Seq(E)), NEW tt \in Seq(Seq(E)), Len(ss) = Len(tt) + 1,
         \A q \in 1 .. Len(tt) : tt[q] = ss[q + 1]
  PROVE  FlattenSeq(ss) = ss[1] \o FlattenSeq(tt)
  <1>1. Len(tt) \in Nat /\ Len(ss) \in Nat /\ \A q \in 1 .. Len(ss) : ss[q] \in Seq(E)
    OBVIOUS
  <1>2. PICK g \in [1 .. Len(ss) -> Seq(E)] :
           /\ g[1] = ss[1]
           /\ \A i \in 2 .. Len(ss) : g[i] = g[i - 1] \o ss[i]
           /\ FlattenSeq(ss) = g[Len(ss)]
    <2>1. Len(ss) # 0
      BY <1>1
    <2> QED
      BY <2>1, Flattening
  <1> DEFINE first == ss[1]
  <1>3. first \in Seq(E)
    BY <1>1
  <1>4. CASE Len(tt) = 0
    <2>1. FlattenSeq(tt) = <<>>
      BY <1>4, FlattenIsSeq
    <2>2. Len(ss) = 1
      BY <1>4
    <2>3. first \o <<>> = first
      BY <1>3, ConcatEmptySeq
    <2> QED
      BY <1>2, <2>1, <2>2, <2>3
  <1>5. CASE Len(tt) # 0
    <2>1. PICK h \in [1 .. Len(tt) -> Seq(E)] :
             /\ h[1] = tt[1]
             /\ \A i \in 2 .. Len(tt) : h[i] = h[i - 1] \o tt[i]
             /\ FlattenSeq(tt) = h[Len(tt)]
      BY <1>5, Flattening
    <2>2. PICK n \in Nat : n # 0 /\ Len(tt) = n /\ Len(ss) = n + 1
      BY <1>1, <1>5
    <2>3. /\ g[1] = first /\ \A i \in 2 .. n + 1 : g[i] = g[i - 1] \o ss[i]
          /\ FlattenSeq(ss) = g[n + 1]
          /\ h[1] = tt[1] /\ \A i \in 2 .. n : h[i] = h[i - 1] \o tt[i] /\ h[i - 1] \in Seq(E)
          /\ FlattenSeq(tt) = h[n]
          /\ \A q \in 1 .. n : tt[q] = ss[q + 1]
          /\ \A q \in 1 .. n : tt[q] \in Seq(E)
      <3>1. \A q \in 1 .. n : tt[q] \in Seq(E)
        BY <2>2
      <3>2. \A i \in 2 .. n : i - 1 \in 1 .. n
        BY <2>2
      <3> QED
        BY <1>2, <2>1, <2>2, <3>1, <3>2
    <2> DEFINE T == {m \in Nat : m + 1 <= n => g[m + 2] = first \o h[m + 1]}
    <2> HIDE DEF first
    <2>4. 0 \in T
      <3>1. 2 \in 2 .. n + 1 /\ 1 \in 1 .. n /\ 2 - 1 = 1 /\ 1 + 1 = 2
        BY <2>2
      <3>2. g[2] = g[1] \o ss[2]
        BY <2>3, <3>1
      <3>3. g[2] = first \o h[1]
        BY <2>3, <3>1, <3>2
      <3> QED
        BY <3>3
    <2>5. ASSUME NEW m \in Nat, m \in T PROVE m + 1 \in T
      <3>0. m + 1 \in Nat /\ (m + 1) + 1 = m + 2 /\ (m + 1) + 2 = m + 3
        OBVIOUS
      <3>1. SUFFICES ASSUME m + 2 <= n PROVE g[m + 3] = first \o h[m + 2]
        BY <3>0
      <3>2. m + 1 <= n
        BY <2>2, <3>1
      <3>3. g[m + 2] = first \o h[m + 1]
        BY <2>5, <3>2
      <3> HIDE DEF T
      <3>4. /\ m + 3 \in 2 .. n + 1 /\ (m + 3) - 1 = m + 2 /\ m + 2 \in 2 .. n
            /\ (m + 2) - 1 = m + 1 /\ m + 2 \in 1 .. n /\ (m + 2) + 1 = m + 3
        BY <2>2, <3>1
      <3>5. g[m + 3] = g[m + 2] \o ss[m + 3] /\ h[m + 2] = h[m + 1] \o tt[m + 2]
            /\ tt[m + 2] = ss[m + 3] /\ tt[m + 2] \in Seq(E) /\ h[m + 1] \in Seq(E)
        BY <2>3, <3>4
      <3>6. (first \o h[m + 1]) \o tt[m + 2] = first \o (h[m + 1] \o tt[m + 2])
        <4> DEFINE a == h[m + 1]
                   b == tt[m + 2]
        <4>1. a \in Seq(E) /\ b \in Seq(E) /\ first \in Seq(E)
          BY <1>3, <3>5 DEF first
        <4> HIDE DEF a, b
        <4>2. (first \o a) \o b = first \o (a \o b)
          BY <4>1, ConcatAssociative, SMTT(30)
        <4> QED
          BY <4>2 DEF a, b
      <3> QED
        BY <3>3, <3>5, <3>6
    <2>6. T = Nat
      <3>1. T \in SUBSET Nat
        OBVIOUS
      <3> HIDE DEF T
      <3> QED
        BY <2>4, <2>5, <3>1, SetInduction
    <2>7. n - 1 \in Nat /\ (n - 1) + 1 = n /\ (n - 1) + 2 = n + 1 /\ n <= n
      BY <2>2
    <2>8. g[n + 1] = first \o h[n]
      BY <2>6, <2>7, Zenon
    <2> QED
      BY <2>3, <2>8 DEF first
  <1> QED
    BY <1>4, <1>5

(* Threes, one after the other.                                             *)
InThrees(q, i, j) == q[3 * (i - 1) + j]

LEMMA FlattenThrees ==
  ASSUME NEW E, NEW ss \in Seq(Seq(E)), \A i \in 1 .. Len(ss) : Len(ss[i]) = 3
  PROVE  /\ FlattenSeq(ss) \in Seq(E)
         /\ Len(FlattenSeq(ss)) = 3 * Len(ss)
         /\ \A i \in 1 .. Len(ss) : \A j \in 1 .. 3 : InThrees(FlattenSeq(ss), i, j) = ss[i][j]
  <1> DEFINE N == Len(ss)
  <1>1. N \in Nat /\ \A i \in 1 .. N : ss[i] \in Seq(E) /\ Len(ss[i]) = 3
    OBVIOUS
  <1>2. CASE N = 0
    <2>1. FlattenSeq(ss) = <<>>
      BY <1>2 DEF FlattenSeq
    <2> QED
      BY <1>2, <2>1
  <1>3. CASE N # 0
    <2>1. PICK g \in [1 .. N -> Seq(E)] :
           /\ g[1] = ss[1]
           /\ \A i \in 2 .. N : g[i] = g[i - 1] \o ss[i]
           /\ FlattenSeq(ss) = g[N]
      BY <1>3, Flattening
    <2> DEFINE Good(n) == /\ Len(g[n]) = 3 * n
                          /\ \A i \in 1 .. n : \A j \in 1 .. 3 : g[n][3 * (i - 1) + j] = ss[i][j]
               T == {n \in Nat : n + 1 \in 1 .. N => Good(n + 1)}
    <2>2. T \in SUBSET Nat
      OBVIOUS
    <2>3. 0 \in T
      <3>1. Good(1)
        BY <1>1, <1>3, <2>1
      <3> QED
        BY <3>1
    <2>4. ASSUME NEW n \in T PROVE n + 1 \in T
      <3>1. SUFFICES ASSUME n + 2 \in 1 .. N PROVE Good(n + 2)
        BY <2>4
      <3>2. n \in Nat /\ n + 1 \in 1 .. N /\ (n + 2) - 1 = n + 1 /\ n + 2 \in 2 .. N
        BY <1>1, <3>1
      <3>3. Good(n + 1)
        BY <3>2
      <3>4. g[n + 2] = g[n + 1] \o ss[n + 2]
        BY <2>1, <3>2
      <3>5. g[n + 1] \in Seq(E) /\ ss[n + 2] \in Seq(E) /\ Len(ss[n + 2]) = 3 /\ Len(g[n + 1]) = 3 * (n + 1)
        BY <1>1, <2>1, <3>1, <3>2, <3>3
      <3>6. /\ Len(g[n + 2]) = 3 * (n + 1) + 3
            /\ \A p \in 1 .. 3 * (n + 1) + 3 :
                 g[n + 2][p] = IF p <= 3 * (n + 1) THEN g[n + 1][p] ELSE ss[n + 2][p - 3 * (n + 1)]
        <4> DEFINE a == g[n + 1]
                   b == ss[n + 2]
        <4>1. a \in Seq(E) /\ b \in Seq(E) /\ Len(b) = 3 /\ Len(a) = 3 * (n + 1) /\ g[n + 2] = a \o b
          BY <3>4, <3>5
        <4> HIDE DEF a, b
        <4>2. /\ Len(a \o b) = Len(a) + Len(b)
              /\ \A p \in 1 .. Len(a) + Len(b) : (a \o b)[p] = IF p <= Len(a) THEN a[p] ELSE b[p - Len(a)]
          <5>1. a \in Seq(E) /\ b \in Seq(E)
            BY <4>1
          <5> QED
            BY <5>1, ConcatProperties, SMTT(30)
        <4>3. /\ Len(a \o b) = 3 * (n + 1) + 3
              /\ \A p \in 1 .. 3 * (n + 1) + 3 :
                   (a \o b)[p] = IF p <= 3 * (n + 1) THEN a[p] ELSE b[p - 3 * (n + 1)]
          BY <4>1, <4>2
        <4> QED
          BY <4>1, <4>3 DEF a, b
      <3>7. ASSUME NEW i \in 1 .. n + 2, NEW j \in 1 .. 3
            PROVE  g[n + 2][3 * (i - 1) + j] = ss[i][j]
        <4> DEFINE p == 3 * (i - 1) + j
        <4>1. CASE i <= n + 1
          <5>1. i \in 1 .. n + 1 /\ p \in 1 .. 3 * (n + 1)
            BY <3>2, <4>1
          <5>2. p \in 1 .. 3 * (n + 1) + 3 /\ p <= 3 * (n + 1)
            BY <3>2, <5>1
          <5>3. g[n + 1][p] = ss[i][j]
            BY <3>3, <5>1
          <5> HIDE DEF p
          <5>4. g[n + 2][p] = ss[i][j]
            BY <3>6, <5>2, <5>3
          <5> QED
            BY <5>4 DEF p
        <4>2. CASE ~(i <= n + 1)
          <5>1. i = n + 2 /\ p = 3 * (n + 1) + j
            BY <3>2, <4>2
          <5>2. p \in 1 .. 3 * (n + 1) + 3 /\ ~(p <= 3 * (n + 1)) /\ p - 3 * (n + 1) = j
            BY <3>2, <5>1
          <5> HIDE DEF p
          <5>3. g[n + 2][p] = ss[i][j]
            BY <3>6, <5>1, <5>2
          <5> QED
            BY <5>3 DEF p
        <4> QED
          BY <4>1, <4>2
      <3>8. 3 * (n + 1) + 3 = 3 * (n + 2)
        BY <3>2
      <3> QED
        BY <3>6, <3>7, <3>8
    <2>5. T = Nat
      <3> HIDE DEF T
      <3> QED
        BY <2>2, <2>3, <2>4, SetInduction
    <2>6. N - 1 \in Nat /\ (N - 1) + 1 = N /\ N \in 1 .. N
      BY <1>1, <1>3
    <2>7. Good(N)
      BY <2>5, <2>6
    <2>8. g[N] \in Seq(E)
      BY <2>1, <2>6
    <2> QED
      BY <2>1, <2>7, <2>8 DEF InThrees
  <1> QED
    BY <1>2, <1>3
==============================================================================
