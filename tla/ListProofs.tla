----------------------------- MODULE ListProofs ------------------------------
(***************************************************************************)
(* What the operators on lists do that several modules use: taking out one *)
(* entry, by its place or by its value, and folding a list.                *)
(***************************************************************************)
EXTENDS Integers, Sequences, FiniteSets, SequencesExt, FiniteSetTheorems, SequenceTheorems, TLAPS

\* A set of numbers that is not empty has a smallest one.
LEMMA SmallestExists ==
  ASSUME NEW k \in Nat, NEW T \in SUBSET (1..k), T # {}
  PROVE  \E t \in T : \A u \in T : t <= u
<1> DEFINE Below(t) == {u \in T : u <= t}
           F == {Below(t) : t \in T}
<1>1. IsFiniteSet(T)
  <2>1. IsFiniteSet(1..k)
    BY FS_Interval
  <2> QED BY <2>1, FS_Subset, Zenon
<1>2. IsWellFoundedOn(StrictSubsetOrdering(T), FiniteSubsetsOf(T))
  BY FS_StrictSubsetOrderingWellFounded
<1>3. F \subseteq FiniteSubsetsOf(T) /\ F # {}
  <2>1. \A t \in T : IsFiniteSet(Below(t))
    BY <1>1, FS_Subset
  <2> QED BY <2>1 DEF FiniteSubsetsOf
<1>4. PICK X \in F : \A Y \in F : ~ (<<Y, X>> \in StrictSubsetOrdering(T))
  BY <1>2, <1>3, WFMin
<1>5. PICK t \in T : X = Below(t)
  OBVIOUS
<1>6. ASSUME NEW u \in T, ~(t <= u)
      PROVE  FALSE
  <2>1. t \in Int /\ u \in Int /\ u < t /\ \A w \in T : w \in Int
    BY <1>6
  <2>2. /\ \A w \in T : w <= u => w <= t
        /\ t <= t /\ ~(t <= u)
    BY <2>1
  <2>3. Below(u) \subseteq Below(t) /\ t \in Below(t) /\ t \notin Below(u)
    BY <2>2, Zenon
  <2>4. <<Below(u), Below(t)>> \in StrictSubsetOrdering(T)
    BY <2>3 DEF StrictSubsetOrdering
  <2> QED BY <1>4, <1>5, <2>4
<1> QED BY <1>6

\* RemoveAt takes out one place.
LEMMA RemoveAtIs ==
  ASSUME NEW S, NEW s \in Seq(S), NEW i \in DOMAIN s
  PROVE  /\ RemoveAt(s, i) \in Seq(S)
         /\ Len(RemoveAt(s, i)) = Len(s) - 1
         /\ \A j \in 1..(Len(s) - 1) : RemoveAt(s, i)[j] = s[IF j < i THEN j ELSE j + 1]
<1>1. Len(s) \in Nat /\ i \in 1..Len(s) /\ \A j \in 1..Len(s) : s[j] \in S
  OBVIOUS
<1> DEFINE l == SubSeq(s, 1, i - 1)
           r == SubSeq(s, i + 1, Len(s))
<1>2. l \in Seq(S) /\ Len(l) = i - 1 /\ \A j \in 1..(i - 1) : l[j] = s[j]
  BY <1>1
<1>3. r \in Seq(S) /\ Len(r) = Len(s) - i /\ \A j \in 1..(Len(s) - i) : r[j] = s[i + j]
  BY <1>1
<1>4. RemoveAt(s, i) = l \o r
  BY DEF RemoveAt
<1> HIDE DEF l, r
<1>5. /\ l \o r \in Seq(S) /\ Len(l \o r) = Len(l) + Len(r)
      /\ \A j \in 1..(Len(l) + Len(r)) : (l \o r)[j] = IF j <= Len(l) THEN l[j] ELSE r[j - Len(l)]
  BY <1>2, <1>3, ConcatProperties
<1>6. ASSUME NEW j \in 1..(Len(s) - 1)
      PROVE  (l \o r)[j] = s[IF j < i THEN j ELSE j + 1]
  <2>1. CASE j < i
    <3>1. j \in 1..(i - 1) /\ j \in 1..(Len(l) + Len(r)) /\ j <= Len(l)
      BY <2>1, <1>1, <1>2, <1>3
    <3> QED BY <2>1, <3>1, <1>2, <1>5
  <2>2. CASE ~(j < i)
    <3>1. /\ Len(s) \in Nat /\ i \in Nat /\ i <= Len(s)
          /\ j \in Nat /\ j >= 1 /\ j <= Len(s) - 1
      BY <1>1
    <3>2. Len(l) = i - 1 /\ Len(r) = Len(s) - i
      BY <1>2, <1>3
    <3> HIDE DEF l, r
    <3>3. PICK k \in 1..(Len(s) - i) : k = j - (i - 1)
      BY <2>2, <3>1
    <3>4. j \in 1..(Len(l) + Len(r)) /\ ~(j <= Len(l)) /\ j - Len(l) = k /\ i + k = j + 1
      BY <2>2, <3>1, <3>2, <3>3
    <3>5. (l \o r)[j] = r[k]
      BY <3>4, <1>5
    <3>6. r[k] = s[i + k]
      BY <3>3, <1>3
    <3> QED BY <2>2, <3>4, <3>5, <3>6
  <2> QED BY <2>1, <2>2
<1>7. Len(l \o r) = Len(s) - 1
  BY <1>1, <1>2, <1>3, <1>5
<1> QED BY <1>4, <1>5, <1>6, <1>7

\* RemoveFirst takes out one entry of that value, if there is one.
LEMMA RemoveFirstIs ==
  ASSUME NEW S, NEW s \in Seq(S), NEW e
  PROVE  RemoveFirst(s, e) \in Seq(S)
<1> DEFINE I == {i \in 1..Len(s) : s[i] = e}
<1>1. RemoveFirst(s, e) = IF I # {} THEN RemoveAt(s, Min(I)) ELSE s
  <2>1. RemoveFirst(s, e) =
          IF \E i \in 1..Len(s) : s[i] = e
          THEN RemoveAt(s, IF I # {} THEN Min(I) ELSE 0) ELSE s
    BY Zenon DEF RemoveFirst, SelectInSeq
  <2>2. I # {} <=> \E i \in 1..Len(s) : s[i] = e
    OBVIOUS
  <2> QED BY <2>1, <2>2, Zenon
<1>2. CASE I # {}
  <2>1. \E i \in I : \A j \in I : i <= j
    <3>1. Len(s) \in Nat
      OBVIOUS
    <3> QED BY <3>1, <1>2, SmallestExists
  <2>2. Min(I) \in I
    BY <2>1 DEF Min
  <2>3. Min(I) \in DOMAIN s
    BY <2>2
  <2> QED BY <1>1, <1>2, <2>3, RemoveAtIs
<1> QED BY <1>1, <1>2

-----------------------------------------------------------------------------
(* Folds.  FoldLeft and FoldRight are recursive functions on sets of places, *)
(* so what they return is found by induction on those sets.                *)

\* What holds of a finite set's subsets if it holds of each whose strict subsets
\* have it.
LEMMA SubsetInduction ==
  ASSUME NEW S, IsFiniteSet(S), NEW G,
         \A s \in SUBSET S : (\A t \in SUBSET S : t \subseteq s /\ t # s => t \in G) => s \in G
  PROVE  \A s \in SUBSET S : s \in G
<1>1. IsWellFoundedOn(StrictSubsetOrdering(S), FiniteSubsetsOf(S))
  BY FS_StrictSubsetOrderingWellFounded
<1> DEFINE F == (SUBSET S) \ G
<1>2. F \subseteq FiniteSubsetsOf(S)
  BY FS_Subset DEF FiniteSubsetsOf
<1>3. SUFFICES ASSUME F # {} PROVE FALSE
  OBVIOUS
<1>4. PICK s \in F : \A t \in F : ~ (<<t, s>> \in StrictSubsetOrdering(S))
  <2> HIDE DEF F
  <2> QED BY <1>1, <1>2, <1>3, WFMin
<1>5. ASSUME NEW t \in SUBSET S, t \subseteq s, t # s
      PROVE  t \in G
  <2>1. <<t, s>> \in StrictSubsetOrdering(S)
    BY <1>5 DEF StrictSubsetOrdering
  <2> QED BY <1>4, <2>1
<1> QED BY <1>4, <1>5

\* f works from the places of S, the place c[u] of u last.
Works(f, S, c, b, H) ==
  \A u \in SUBSET S : f[u] = IF u = {} THEN b ELSE H[<<c[u], f[u \ {c[u]}]>>]

Within(f, t) == [u \in SUBSET t |-> f[u]]
WorksTo(f, S, c, b, H, B) == f \in [SUBSET S -> B] /\ Works(f, S, c, b, H)

\* A function that works from the places of s works from those of a part of s.
LEMMA WorksWithin ==
  ASSUME NEW S, NEW c, NEW b, NEW H, NEW B, NEW s, s \subseteq S, NEW t, t \subseteq s,
         NEW f, WorksTo(f, s, c, b, H, B), \A u \in SUBSET S : u # {} => c[u] \in u
  PROVE  WorksTo(Within(f, t), t, c, b, H, B)
<1>0. f \in [SUBSET s -> B] /\ Works(f, s, c, b, H)
  BY DEF WorksTo
<1> DEFINE g == Within(f, t)
<1>1. SUBSET t \subseteq SUBSET s
  OBVIOUS
<1>2. g \in [SUBSET t -> B]
  BY <1>0, <1>1 DEF Within
<1>3. ASSUME NEW u \in SUBSET t
      PROVE  g[u] = IF u = {} THEN b ELSE H[<<c[u], g[u \ {c[u]}]>>]
  <2>1. u \in SUBSET s /\ u \ {c[u]} \in SUBSET t
    OBVIOUS
  <2>2. g[u] = f[u] /\ g[u \ {c[u]}] = f[u \ {c[u]}]
    BY <2>1 DEF Within
  <2> QED BY <1>0, <2>1, <2>2 DEF Works
<1>4. Works(g, t, c, b, H)
  BY <1>3 DEF Works
<1> QED BY <1>2, <1>4 DEF WorksTo

\* There is a function that works from the places of a finite set, so that a fold,
\* which is chosen among such functions, is one of them.
LEMMA WorksExists ==
  ASSUME NEW S, IsFiniteSet(S), NEW c, \A u \in SUBSET S : u # {} => c[u] \in u,
         NEW B, NEW b \in B, NEW H \in [S \X B -> B]
  PROVE  \E f \in [SUBSET S -> B] : Works(f, S, c, b, H)
<1> DEFINE Fs(s) == {f \in [SUBSET s -> B] : Works(f, s, c, b, H)}
           G == {s \in SUBSET S : Fs(s) # {} /\ \A f, g \in Fs(s) : f = g}
<1>1. ASSUME NEW s \in SUBSET S, \A t \in SUBSET S : t \subseteq s /\ t # s => t \in G
      PROVE  s \in G
  <2> DEFINE Of(t) == CHOOSE f \in Fs(t) : TRUE
             At(t) == Of(t)[t]
             g == [u \in SUBSET s |-> IF u = {} THEN b ELSE H[<<c[u], At(u \ {c[u]})>>]]
  <2>1. \A t \in SUBSET s : t # s => Of(t) \in Fs(t) /\ \A f \in Fs(t) : f = Of(t)
    BY <1>1
  <2>2. \A u \in SUBSET s : u # {} => /\ u \ {c[u]} \in SUBSET s /\ u \ {c[u]} # s
                                      /\ u \ {c[u]} # u /\ c[u] \in S
    OBVIOUS
  <2>3. ASSUME NEW t \in SUBSET s, t # s
        PROVE  At(t) \in B
    <3>1. Of(t) \in [SUBSET t -> B] /\ t \in SUBSET t
      BY <2>1, <2>3
    <3> HIDE DEF Of
    <3> QED BY <3>1
  <2>4. g \in [SUBSET s -> B]
    <3> HIDE DEF At
    <3> QED BY <2>2, <2>3
  <2>5. ASSUME NEW t \in SUBSET s, t # s, NEW r \in SUBSET t, NEW f \in Fs(t)
        PROVE  f[r] = At(r)
    <3> DEFINE k == Within(f, r)
    <3>1. k \in Fs(r)
      <4>1. WorksTo(f, t, c, b, H, B) /\ t \subseteq S /\ r \subseteq t
        BY <2>5 DEF WorksTo
      <4>2. WorksTo(k, r, c, b, H, B)
        <5> HIDE DEF Fs, G, Of, At, g
        <5> QED BY <4>1, WorksWithin
      <4> HIDE DEF k
      <4> QED BY <4>2 DEF WorksTo
    <3>2. r # s
      BY <2>5
    <3>3. k = Of(r)
      BY <2>1, <3>1, <3>2
    <3>4. k[r] = f[r]
      BY DEF Within
    <3> QED BY <3>3, <3>4
  <2>6. ASSUME NEW t \in SUBSET s, t # s
        PROVE  At(t) = IF t = {} THEN b ELSE H[<<c[t], At(t \ {c[t]})>>]
    <3>1. Of(t) \in Fs(t)
      BY <2>1, <2>6
    <3>2. At(t) = IF t = {} THEN b ELSE H[<<c[t], Of(t)[t \ {c[t]}]>>]
      BY <3>1 DEF Works
    <3>3. t # {} => Of(t)[t \ {c[t]}] = At(t \ {c[t]})
      <4>1. t \ {c[t]} \in SUBSET t
        OBVIOUS
      <4> HIDE DEF At, Of, Fs
      <4> QED BY <2>5, <2>6, <3>1, <4>1
    <3> HIDE DEF At, Of
    <3> QED BY <3>2, <3>3
  <2>7. \A u \in SUBSET s : u # s => g[u] = At(u)
    <3> HIDE DEF At
    <3> QED BY <2>6
  <2>8. Works(g, s, c, b, H)
    <3>1. ASSUME NEW u \in SUBSET s
          PROVE  g[u] = IF u = {} THEN b ELSE H[<<c[u], g[u \ {c[u]}]>>]
      <4> HIDE DEF At
      <4>1. u # {} => g[u \ {c[u]}] = At(u \ {c[u]})
        BY <2>2, <2>7
      <4>2. g[u] = IF u = {} THEN b ELSE H[<<c[u], At(u \ {c[u]})>>]
        OBVIOUS
      <4> HIDE DEF g
      <4> QED BY <4>1, <4>2
    <3> QED BY <3>1 DEF Works
  <2>9. ASSUME NEW f \in Fs(s), NEW k \in Fs(s)
        PROVE  f = k
    <3>1. ASSUME NEW l \in Fs(s), NEW u \in SUBSET s, u # s
          PROVE  l[u] = At(u)
      <4> DEFINE m == Within(l, u)
      <4>1. m \in Fs(u)
        <5>1. WorksTo(l, s, c, b, H, B) /\ s \subseteq S /\ u \subseteq s
          BY <3>1 DEF WorksTo
        <5>2. WorksTo(m, u, c, b, H, B)
          <6> HIDE DEF Fs, G, Of, At, g
          <6> QED BY <5>1, WorksWithin
        <5> HIDE DEF m
        <5> QED BY <5>2 DEF WorksTo
      <4>2. m = Of(u)
        BY <2>1, <3>1, <4>1
      <4> QED BY <4>2 DEF Within
    <3>2. \A l \in Fs(s) : l[s] = IF s = {} THEN b ELSE H[<<c[s], l[s \ {c[s]}]>>]
      BY DEF Works
    <3>3. f[s] = k[s]
      <4>1. s # {} => f[s \ {c[s]}] = k[s \ {c[s]}]
        <5>1. s # {} => s \ {c[s]} \in SUBSET s /\ s \ {c[s]} # s
          BY <2>2
        <5> HIDE DEF At, Fs
        <5> QED BY <2>9, <3>1, <5>1
      <4> HIDE DEF Fs
      <4> QED BY <2>9, <3>2, <4>1
    <3>4. \A u \in SUBSET s : f[u] = k[u]
      <4> HIDE DEF At, Fs
      <4> QED BY <2>9, <3>1, <3>3
    <3>5. f \in [SUBSET s -> B] /\ k \in [SUBSET s -> B]
      OBVIOUS
    <3> HIDE DEF Fs
    <3> QED BY <3>4, <3>5
  <2>10. g \in Fs(s)
    BY <2>4, <2>8
  <2> HIDE DEF g
  <2> QED BY <2>9, <2>10
<1>2. S \in G
  <2> HIDE DEF G
  <2> QED BY <1>1, SubsetInduction
<1> QED BY <1>2

\* What each of its works keeps holds of the whole.
LEMMA WorkedIn ==
  ASSUME NEW S, IsFiniteSet(S), NEW c, \A u \in SUBSET S : u # {} => c[u] \in u,
         NEW B, NEW f, f[{}] \in B,
         \A u \in SUBSET S : u # {} /\ f[u \ {c[u]}] \in B => f[u] \in B
  PROVE  f[S] \in B
<1> DEFINE G == {u \in SUBSET S : f[u] \in B}
<1>1. ASSUME NEW s \in SUBSET S, \A t \in SUBSET S : t \subseteq s /\ t # s => t \in G
      PROVE  s \in G
  <2>1. CASE s = {}
    BY <2>1
  <2>2. CASE s # {}
    <3>1. s \ {c[s]} \in SUBSET S /\ s \ {c[s]} \subseteq s /\ s \ {c[s]} # s
      BY <2>2
    <3>2. s \ {c[s]} \in G
      BY <1>1, <3>1
    <3> QED BY <2>2, <3>2
  <2> QED BY <2>1, <2>2
<1>2. S \in G
  <2> HIDE DEF G
  <2> QED BY <1>1, SubsetInduction
<1> QED BY <1>2

\* Places of a list have a first and a last.
LEMMA PlacesHaveEnds ==
  ASSUME NEW k \in Nat, NEW T \in SUBSET (1..k), T # {}
  PROVE  Max(T) \in T /\ Min(T) \in T
<1>1. \E t \in T : \A u \in T : t <= u
  BY SmallestExists
<1>2. Min(T) \in T
  BY <1>1 DEF Min
<1> DEFINE V == {k + 1 - t : t \in T}
<1>3. V \in SUBSET (1..k) /\ V # {}
  <2>1. \A t \in T : k + 1 - t \in 1..k
    OBVIOUS
  <2> HIDE DEF V
  <2>2. \A t \in T : k + 1 - t \in V
    BY DEF V
  <2> QED BY <2>1, <2>2, Zenon DEF V
<1>4. PICK v \in V : \A w \in V : v <= w
  <2> HIDE DEF V
  <2> QED BY <1>3, SmallestExists
<1>5. PICK t \in T : v = k + 1 - t
  OBVIOUS
<1>6. \A u \in T : t >= u
  <2>1. \A u \in T : k + 1 - u \in V /\ u \in Int /\ t \in Int /\ k \in Int
    OBVIOUS
  <2> HIDE DEF V
  <2>2. \A u \in T : k + 1 - t <= k + 1 - u
    BY <1>4, <1>5, <2>1
  <2> QED BY <2>1, <2>2
<1>7. Max(T) \in T
  BY <1>6 DEF Max
<1> QED BY <1>2, <1>7

\* The places of a list are finite in number, and each set of them has ends.
LEMMA PlacesOf ==
  ASSUME NEW Q, NEW q \in Seq(Q)
  PROVE  /\ IsFiniteSet(DOMAIN q) /\ \A i \in DOMAIN q : q[i] \in Q
         /\ \A u \in SUBSET DOMAIN q : u # {} => Max(u) \in u /\ Min(u) \in u
<1>1. DOMAIN q = 1..Len(q) /\ Len(q) \in Nat /\ \A i \in DOMAIN q : q[i] \in Q
  OBVIOUS
<1>2. \A u \in SUBSET (1..Len(q)) : u # {} => Max(u) \in u /\ Min(u) \in u
  BY <1>1, PlacesHaveEnds
<1>3. IsFiniteSet(1..Len(q))
  BY <1>1, FS_Interval
<1> QED BY <1>1, <1>2, <1>3
=============================================================================
