------------------------ MODULE InterestZoneProofs ------------------------
(***************************************************************************)
(* Theorems about InterestZone, for every value of its constants: the types*)
(* and, as long as the frame numbers have not wrapped, what keeps a peer   *)
(* whose packets come in order from being told about an element it never   *)
(* got, or from keeping one that is gone; and, as long as no value of a    *)
(* field returns, that the basis of a difference is shared and a complete  *)
(* frame shows every element as its owner had it.                          *)
(***************************************************************************)
EXTENDS InterestZone, FiniteSetTheorems, SequenceTheorems, TLAPS

-----------------------------------------------------------------------------
(* The largest of a finite set of numbers.                                 *)

\* A finite set of numbers that is not empty has a largest one.
LEMMA LargestExists ==
  ASSUME NEW T, IsFiniteSet(T), T # {}, T \subseteq Int
  PROVE  \E t \in T : \A u \in T : u <= t
<1> DEFINE Above(t) == {u \in T : t <= u}
           F == {Above(t) : t \in T}
<1>1. IsWellFoundedOn(StrictSubsetOrdering(T), FiniteSubsetsOf(T))
  BY FS_StrictSubsetOrderingWellFounded
<1>2. F \subseteq FiniteSubsetsOf(T) /\ F # {}
  <2>1. \A t \in T : IsFiniteSet(Above(t))
    BY FS_Subset
  <2> QED BY <2>1 DEF FiniteSubsetsOf
<1>3. PICK X \in F : \A Y \in F : ~ (<<Y, X>> \in StrictSubsetOrdering(T))
  BY <1>1, <1>2, WFMin
<1>4. PICK t \in T : X = Above(t)
  OBVIOUS
<1>5. ASSUME NEW u \in T, ~(u <= t)
      PROVE  FALSE
  <2>0. /\ t \in Int /\ u \in Int /\ t < u
        /\ \A w \in T : w \in Int
    BY <1>5
  <2>1. Above(u) \subseteq Above(t) /\ t \in Above(t) /\ t \notin Above(u)
    <3>1. \A w \in T : u <= w => t <= w
      BY <2>0
    <3>2. t <= t /\ ~(u <= t)
      BY <2>0
    <3> QED BY <3>1, <3>2, Zenon
  <2>2. <<Above(u), Above(t)>> \in StrictSubsetOrdering(T)
    BY <2>1 DEF StrictSubsetOrdering
  <2> QED BY <2>2, <1>3, <1>4
<1> QED BY <1>5

\* Latest is what its name says.
LEMMA LatestOf ==
  ASSUME NEW T, T # {}, T \subseteq Time
  PROVE  Latest(T) \in T /\ \A u \in T : u <= Latest(T)
<1>1. IsFiniteSet(T) /\ T \subseteq Int
  <2>0. 0 \in Int /\ TimeMod - 1 \in Int
    BY TimeAssumption
  <2>1. IsFiniteSet(Time)
    BY <2>0, FS_Interval DEF Time
  <2>2. IsFiniteSet(T)
    BY <2>1, FS_Subset, Zenon
  <2> QED BY <2>0, <2>2 DEF Time
<1>2. \E t \in T : \A u \in T : u <= t
  BY <1>1, LargestExists
<1> QED BY <1>2 DEF Latest

\* The latest of one frame, or of two.
LEMMA LatestOfTwo ==
  ASSUME NEW A, NEW t \in Time, A \in {{}} \cup {{u} : u \in Time}
  PROVE  /\ Latest(A \cup {t}) \in Time
         /\ \A u \in A : u <= t => Latest(A \cup {t}) = t
         /\ A = {} => Latest(A \cup {t}) = t
<1>1. A \cup {t} \subseteq Time
  OBVIOUS
<1>2. Latest(A \cup {t}) \in A \cup {t} /\ \A u \in A \cup {t} : u <= Latest(A \cup {t})
  BY <1>1, LatestOf
<1>3. \A u \in Time : u \in Int
  BY DEF Time
<1> QED BY <1>1, <1>2, <1>3

-----------------------------------------------------------------------------
(* Beginnings of a sequence.                                               *)

\* A set of places that with a place has all before it is an interval.
LEMMA Beginning ==
  ASSUME NEW m \in Nat, NEW S, S \subseteq 1..m, \A i \in S : \A j \in 1..i : j \in S
  PROVE  Cardinality(S) \in 0..m /\ S = 1..Cardinality(S)
<1>1. IsFiniteSet(S) /\ S \subseteq Int
  <2>1. IsFiniteSet(1..m)
    BY FS_Interval
  <2>2. IsFiniteSet(S)
    BY <2>1, FS_Subset, Zenon
  <2> QED BY <2>2
<1>2. CASE S = {}
  BY <1>2, FS_EmptySet
<1>3. CASE S # {}
  <2>1. PICK k \in S : \A i \in S : i <= k
    BY <1>1, <1>3, LargestExists
  <2>2. S = 1..k
    <3>1. k \in 1..m /\ \A i \in S : i \in 1..m
      OBVIOUS
    <3>2. \A i \in S : i \in 1..k
      BY <2>1, <3>1
    <3>3. \A i \in 1..k : i \in S
      OBVIOUS
    <3> QED BY <3>2, <3>3
  <2>3. Cardinality(1..k) = k
    BY FS_Interval, <2>1
  <2> QED BY <2>1, <2>2, <2>3
<1> QED BY <1>2, <1>3

\* A part of an interval has at most as many members.
LEMMA PartOfInterval ==
  ASSUME NEW m \in Nat, NEW S, S \subseteq 1..m
  PROVE  Cardinality(S) \in 0..m
<1>1. IsFiniteSet(1..m) /\ Cardinality(1..m) = m
  BY FS_Interval
<1>2. IsFiniteSet(S) /\ Cardinality(S) <= m
  BY <1>1, FS_Subset
<1> QED BY <1>2, FS_CardinalityType

\* What DisposeAttached leaves: the end of the states, after k that are older.
LEMMA DisposedIs ==
  ASSUME NEW S, NEW s \in Seq(S), NEW t
  PROVE  \E k \in 0..Len(s) :
           /\ s # <<>> => k < Len(s)
           /\ Disposed(s, t) = SubSeq(s, k + 1, Len(s))
           /\ \A i \in 1..k : Older(s[i].time, t)
           /\ k + 1 < Len(s) => ~Older(s[k + 1].time, t)
<1> DEFINE stale == {i \in 1..(Len(s) - 1) : \A j \in 1..i : Older(s[j].time, t)}
           k == Cardinality(stale)
<1>0. Len(s) \in Nat /\ (s = <<>> <=> Len(s) = 0)
  OBVIOUS
<1>1. CASE s = <<>>
  <2>1. stale = {} /\ Cardinality(stale) = 0
    <3>1. stale = {}
      BY <1>1, <1>0
    <3> QED BY <3>1, FS_EmptySet
  <2> QED BY <2>1, <1>1, <1>0 DEF Disposed
<1>2. CASE s # <<>>
  <2>1. Len(s) - 1 \in Nat
    BY <1>0, <1>2
  <2>2. \A i \in stale : \A j \in 1..i : j \in stale
    BY <2>1
  <2>3. k \in 0..(Len(s) - 1) /\ stale = 1..k
    <3> HIDE DEF stale
    <3>1. stale \subseteq 1..(Len(s) - 1)
      BY DEF stale
    <3> QED BY <2>1, <2>2, <3>1, Beginning
  <2>4. \A i \in 1..k : Older(s[i].time, t)
    BY <2>3
  <2>5. k + 1 < Len(s) => ~Older(s[k + 1].time, t)
    <3> SUFFICES ASSUME k + 1 < Len(s), Older(s[k + 1].time, t) PROVE FALSE
      OBVIOUS
    <3>0. k \in Nat /\ k + 1 \in 1..(Len(s) - 1)
      BY <2>3, <1>0
    <3>1. \A j \in 1..(k + 1) : j \in 1..k \/ j = k + 1
      BY <3>0
    <3>2. k + 1 \in stale
      BY <2>4, <3>0, <3>1
    <3>3. k + 1 \notin 1..k
      BY <3>0
    <3> QED BY <3>2, <3>3, <2>3
  <2>6. Disposed(s, t) = SubSeq(s, k + 1, Len(s))
    BY Zenon DEF Disposed
  <2>7. k \in 0..Len(s) /\ k < Len(s)
    BY <2>3, <1>0
  <2> HIDE DEF k, stale
  <2> QED BY <2>4, <2>5, <2>6, <2>7
<1> QED BY <1>1, <1>2

-----------------------------------------------------------------------------
(* Types of what the steps compute.                                        *)

OwnEntry == [time : Time, val : [Field -> Value]]
OwnStates == Seq(OwnEntry)
CopyStates == Seq(Entry)
Link == Seq(GameState)
AckLink == Seq(Time)
AckSets == {{}} \cup {{t} : t \in Time}
Masks == SUBSET (0..(MaxFragments - 1))
BitSets == SUBSET AllBits
Removals(S) == [id : S, basis : Time, final : BOOLEAN]

\* TypeOK, with a name for each type.
Typed ==
  /\ tick \in 1..MaxFrame
  /\ elements \subseteq registered /\ registered \subseteq Element
  /\ syncs \in [Element -> OwnStates]
  /\ \A e \in Element : syncs[e] # <<>> <=> e \in elements
  /\ lastSent \in [Element -> Time]
  /\ entities \subseteq Removals(registered \ elements)
  /\ zonePeers \subseteq joined /\ joined \subseteq Peer /\ subscribed \subseteq Peer
  /\ acks \in [Peer -> SUBSET Time]
  /\ ackOut \in [Peer -> AckSets]
  /\ held \in [Peer -> [Element -> CopyStates]]
  /\ toPeer \in [Peer -> Link] /\ toOwner \in [Peer -> AckLink]
  /\ mask \in [Peer -> Masks] /\ expected \in [Peer -> BitSets]
  /\ state \in [Peer -> Time] /\ failed \subseteq Peer

LEMMA TypedIsTypeOK == TypeOK <=> Typed
BY Zenon DEF TypeOK, Typed, OwnEntry, OwnStates, CopyStates, Link, AckLink, AckSets, Masks,
             BitSets, Removals

\* Now, the basis and what Combined holds are frame numbers.
LEMMA NowIsTime ==
  ASSUME tick \in Nat
  PROVE  Now \in Time
BY TimeAssumption DEF Now, Time

LEMMA BasisIsTime ==
  ASSUME tick \in Nat, zonePeers \subseteq Peer, acks \in [Peer -> SUBSET Time]
  PROVE  /\ Basis \in Time
         /\ Combined \subseteq Time
         /\ Basis # Now => Basis \in Combined
         /\ \A p \in zonePeers : Combined \subseteq acks[p]
<1>1. Combined \subseteq Time
  BY DEF Combined
<1>2. Combined # {} => Latest(Combined) \in Combined
  BY <1>1, LatestOf
<1>3. \A p \in zonePeers : Combined \subseteq acks[p]
  BY DEF Combined
<1> QED BY <1>1, <1>2, <1>3, NowIsTime DEF Basis

\* Trimming only takes acknowledgements away.
LEMMA TrimmedIsPart ==
  ASSUME NEW A, A \subseteq Time
  PROVE  Trimmed(A) \subseteq A
BY LatestOf DEF Trimmed

\* Disposing keeps the type, and the last state.
LEMMA DisposedType ==
  ASSUME NEW S, NEW s \in Seq(S), NEW t
  PROVE  /\ Disposed(s, t) \in Seq(S)
         /\ Disposed(s, t) = <<>> <=> s = <<>>
         /\ s # <<>> => Final(Disposed(s, t)) = Final(s)
<1>1. PICK k \in 0..Len(s) : /\ s # <<>> => k < Len(s)
                             /\ Disposed(s, t) = SubSeq(s, k + 1, Len(s))
  BY DisposedIs
<1>2. Len(s) \in Nat /\ (s = <<>> <=> Len(s) = 0) /\ \A i \in 1..Len(s) : s[i] \in S
  OBVIOUS
<1>3. /\ SubSeq(s, k + 1, Len(s)) \in Seq(S)
      /\ Len(SubSeq(s, k + 1, Len(s))) = IF k + 1 <= Len(s) THEN Len(s) - (k + 1) + 1 ELSE 0
      /\ \A i \in 1 .. Len(s) - (k + 1) + 1 : SubSeq(s, k + 1, Len(s))[i] = s[(k + 1) + i - 1]
  <2>1. k + 1 \in Int /\ Len(s) \in Int /\ \A i \in (k + 1)..Len(s) : s[i] \in S
    BY <1>2
  <2> QED BY <2>1, SubSeqProperties
<1>4. Disposed(s, t) \in Seq(S) /\ (Disposed(s, t) = <<>> <=> s = <<>>)
  <2> DEFINE d == Disposed(s, t)
  <2>1. d \in Seq(S) /\ Len(d) = IF k + 1 <= Len(s) THEN Len(s) - (k + 1) + 1 ELSE 0
    BY <1>1, <1>3
  <2> HIDE DEF d
  <2>2. d = <<>> <=> Len(d) = 0
    BY <2>1
  <2>3. Len(d) = 0 <=> Len(s) = 0
    BY <1>1, <1>2, <2>1
  <2> QED BY <1>2, <2>1, <2>2, <2>3 DEF d
<1>5. ASSUME s # <<>> PROVE Final(Disposed(s, t)) = Final(s)
  <2>1. Len(Disposed(s, t)) = Len(s) - k /\ Len(s) - k \in 1 .. Len(s) - (k + 1) + 1
    BY <1>1, <1>2, <1>3, <1>5
  <2>2. Disposed(s, t)[Len(s) - k] = s[Len(s)]
    BY <1>1, <1>2, <1>3, <2>1
  <2> QED BY <2>1, <2>2 DEF Final
<1> QED BY <1>4, <1>5

\* So does inserting a state.
LEMMA InsertedType ==
  ASSUME NEW S, NEW s \in Seq(S), NEW x \in S
  PROVE  Inserted(s, x) \in Seq(S) /\ Inserted(s, x) # <<>>
<1> DEFINE n == Cardinality({i \in DOMAIN s : s[i].time < x.time})
<1>1. Len(s) \in Nat /\ DOMAIN s = 1..Len(s)
  OBVIOUS
<1>2. n \in 0..Len(s)
  BY <1>1, PartOfInterval
<1>3. SubSeq(s, 1, n) \in Seq(S) /\ SubSeq(s, n + 1, Len(s)) \in Seq(S)
  <2> HIDE DEF n
  <2> QED BY <1>1, <1>2
<1>4. Inserted(s, x) = SubSeq(s, 1, n) \o <<x>> \o SubSeq(s, n + 1, Len(s))
  BY DEF Inserted
<1> HIDE DEF n
<1>5. <<x>> \in Seq(S)
  OBVIOUS
<1>6. SubSeq(s, 1, n) \o <<x>> \in Seq(S) /\ Len(SubSeq(s, 1, n) \o <<x>>) > 0
  BY <1>3, <1>5
<1> DEFINE l == SubSeq(s, 1, n) \o <<x>>
           r == SubSeq(s, n + 1, Len(s))
<1>7. l \in Seq(S) /\ r \in Seq(S) /\ Len(l) > 0
  BY <1>3, <1>6
<1> HIDE DEF l, r
<1>8. l \o r \in Seq(S) /\ Len(l \o r) > 0
  BY <1>7
<1> QED BY <1>4, <1>8 DEF l, r

\* A copy stays a copy.
LEMMA UpdatedType ==
  ASSUME NEW s \in CopyStates, NEW pkt, pkt.state \in Time, NEW val, NEW F \in SUBSET Field,
         val \in [F -> Value], NEW cut
  PROVE  Updated(s, pkt, val, cut) \in CopyStates /\ Updated(s, pkt, val, cut) # <<>>
<1> DEFINE rest == Disposed(s, cut)
           base == IF rest = <<>> THEN Blank ELSE BaseOf(rest, pkt)
<1>1. rest \in CopyStates
  BY DisposedType DEF CopyStates
<1>2. Blank \in State
  BY DEF Blank, State
<1>3. rest # <<>> => BaseOf(rest, pkt) \in State
  <2> HIDE DEF rest
  <2> SUFFICES ASSUME rest # <<>> PROVE BaseOf(rest, pkt) \in State
    OBVIOUS
  <2> DEFINE passed == {i \in 2..Len(rest) : \A j \in 2..i : rest[j].time <= pkt.basis}
             c == Cardinality(passed)
  <2>1. Len(rest) \in Nat /\ Len(rest) > 0 /\ \A i \in 1..Len(rest) : rest[i] \in Entry
    BY <1>1 DEF CopyStates
  <2>2. c \in 0..(Len(rest) - 1)
    <3>1. IsFiniteSet(2..Len(rest)) /\ Cardinality(2..Len(rest)) = Len(rest) - 1
      BY <2>1, FS_Interval
    <3>2. IsFiniteSet(passed) /\ c <= Len(rest) - 1
      BY <3>1, FS_Subset
    <3> QED BY <3>2, <2>1, FS_CardinalityType
  <2>3. BaseOf(rest, pkt) = IF pkt.basis >= pkt.state THEN Blank ELSE rest[c + 1].val
    BY DEF BaseOf
  <2> HIDE DEF passed, c
  <2>4. c + 1 \in 1..Len(rest)
    BY <2>1, <2>2
  <2> QED BY <2>1, <2>3, <2>4, <1>2 DEF Entry, State
<1>4. base \in State
  BY <1>2, <1>3
<1>5. Applied(base, val) \in State
  <2> HIDE DEF base
  <2> QED BY <1>4 DEF Applied, State
<1>6. [time |-> pkt.state, val |-> Applied(base, val)] \in Entry
  BY <1>5 DEF Entry, State
<1>7. Updated(s, pkt, val, cut) = Inserted(rest, [time |-> pkt.state, val |-> Applied(base, val)])
  BY DEF Updated
<1> HIDE DEF rest, base
<1> QED BY <1>1, <1>6, <1>7, InsertedType DEF CopyStates

\* What a frame writes of an element are items.
LEMMA WrittenType ==
  ASSUME NEW e \in Element, NEW s \in OwnStates, s # <<>>
  PROVE  Written(e, s) \subseteq Item
<1>1. Final(s).val \in [Field -> Value]
  <2>1. Len(s) \in 1..Len(s) /\ \A i \in 1..Len(s) : s[i] \in OwnEntry
    BY DEF OwnStates
  <2> QED BY <2>1 DEF Final, OwnEntry
<1>2. Changed(s) \in SUBSET Field
  BY DEF Changed
<1>3. [f \in Changed(s) |-> Final(s).val[f]] \in [Changed(s) -> Value]
  BY <1>1, <1>2
<1>4. ASSUME NEW F \in SUBSET Field, NEW v \in [F -> Value], NEW k \in {"full", "delta"}
      PROVE  [kind |-> k, id |-> e, val |-> v] \in Item
  <2>1. v \in UNION {[G -> Value] : G \in SUBSET Field}
    OBVIOUS
  <2> QED BY <2>1 DEF Item
<1>5. [kind |-> "full", id |-> e, val |-> Final(s).val] \in Item
  BY <1>1, <1>4
<1>6. [kind |-> "delta", id |-> e, val |-> [f \in Changed(s) |-> Final(s).val[f]]] \in Item
  BY <1>2, <1>3, <1>4
<1> QED BY <1>5, <1>6, Zenon DEF Written

\* The fragments of a frame.
LEMMA PacketsType ==
  ASSUME NEW body \in SUBSET Item, NEW n \in 1..MaxFragments, NEW w,
         Now \in Time, Basis \in Time, \A x \in entities : x.id \in Element
  PROVE  Packets(body, w, n) \in Link /\ Len(Packets(body, w, n)) = n
<1> DEFINE gone == {[kind |-> "destroy", id |-> x.id, val |-> NoFields] : x \in entities}
           items(i) == {x \in body : w[x] = i - 1} \cup (IF i < n THEN {} ELSE gone)
           pkt(i) == [state |-> Now, seq |-> i - 1, final |-> (i = n), basis |-> Basis,
                      items |-> items(i)]
<1>0. n \in Nat /\ MaxFragments \in Nat /\ n <= MaxFragments
  BY BoundAssumption
<1>1. gone \subseteq Item
  <2>1. NoFields \in [{} -> Value]
    BY DEF NoFields
  <2>2. NoFields \in UNION {[G -> Value] : G \in SUBSET Field}
    BY <2>1
  <2> QED BY <2>2 DEF Item
<1>2. \A i \in 1..n : items(i) \in SUBSET Item
  <2> HIDE DEF gone
  <2> QED BY <1>1
<1>3. \A i \in 1..n : pkt(i) \in GameState
  <2> HIDE DEF items
  <2> QED BY <1>0, <1>2 DEF GameState
<1>4. Packets(body, w, n) = [i \in 1..n |-> pkt(i)]
  BY DEF Packets
<1> HIDE DEF pkt
<1> QED BY <1>0, <1>3, <1>4 DEF Link

LEMMA AnnouncedType ==
  ASSUME NEW S, entities \subseteq Removals(S), Now \in Time
  PROVE  Announced \subseteq Removals(S)
<1>1. \A x \in Removals(S) : [x EXCEPT !.basis = Now, !.final = TRUE] \in Removals(S)
  BY DEF Removals
<1> QED BY <1>1 DEF Announced

\* The states of a frame, before and after the owner disposes of old ones.
LEMMA StatesNowType ==
  ASSUME Typed, NEW change \in [elements -> SUBSET Field], NEW e \in Element
  PROVE  /\ StatesNow(change)[e] \in OwnStates
         /\ StatesNow(change)[e] = <<>> <=> e \notin elements
         /\ e \in elements => \E v \in [Field -> Value] :
                StatesNow(change)[e] = Attached(syncs[e], v)
<1>1. syncs[e] \in OwnStates /\ (syncs[e] # <<>> <=> e \in elements) /\ Now \in Time
  BY NowIsTime, BoundAssumption DEF Typed
<1>2. StatesNow(change)[e] = IF e \in elements
                             THEN Attached(syncs[e], Stepped(Final(syncs[e]).val, change[e]))
                             ELSE syncs[e]
  BY DEF StatesNow
<1>3. ASSUME e \in elements PROVE Stepped(Final(syncs[e]).val, change[e]) \in [Field -> Value]
  <2>1. Final(syncs[e]).val \in [Field -> Value]
    <3>1. Len(syncs[e]) \in 1..Len(syncs[e]) /\ \A i \in 1..Len(syncs[e]) : syncs[e][i] \in OwnEntry
      BY <1>1, <1>3 DEF OwnStates
    <3> QED BY <3>1 DEF Final, OwnEntry
  <2>2. \A k \in Value : k \in Nat /\ (k + 1) % NumValues \in Value
    BY TimeAssumption DEF Value
  <2> QED BY <2>1, <2>2 DEF Stepped
<1>4. ASSUME NEW v \in [Field -> Value]
      PROVE  Attached(syncs[e], v) \in OwnStates /\ Attached(syncs[e], v) # <<>>
  <2>1. [time |-> Now, val |-> v] \in OwnEntry
    BY <1>1 DEF OwnEntry
  <2>2. ASSUME NEW s \in OwnStates, NEW x \in OwnEntry
        PROVE  Append(s, x) \in OwnStates /\ Append(s, x) # <<>>
    BY AppendProperties DEF OwnStates
  <2> QED BY <1>1, <2>1, <2>2 DEF Attached
<1> QED BY <1>1, <1>2, <1>3, <1>4

-----------------------------------------------------------------------------
(* Type correctness, an action at a time.                                  *)

LEMMA TypedInit == Init => Typed
<1> SUFFICES ASSUME Init PROVE Typed
  OBVIOUS
<1>1. 0 \in Time /\ 1 \in 1..MaxFrame
  BY TimeAssumption, BoundAssumption DEF Time
<1>2. <<>> \in OwnStates /\ <<>> \in CopyStates /\ <<>> \in Link /\ <<>> \in AckLink
  BY DEF OwnStates, CopyStates, Link, AckLink
<1>3. {} \in Masks /\ {} \in BitSets /\ {} \in AckSets
  BY DEF Masks, BitSets, AckSets
<1>4. MayJoin \subseteq Peer
  BY BoundAssumption
<1> QED BY <1>1, <1>2, <1>3, <1>4 DEF Init, Typed

LEMMA RegisterTyped ==
  ASSUME Typed, NEW e \in Element, RegisterElement(e)
  PROVE  Typed'
<1>1. Now \in Time
  BY NowIsTime, BoundAssumption DEF Typed
<1> DEFINE first == <<[time |-> Now, val |-> [f \in Field |-> 0]]>>
<1>2. first \in OwnStates /\ first # <<>>
  <2>1. 0 \in Value
    BY TimeAssumption DEF Value
  <2>2. [time |-> Now, val |-> [f \in Field |-> 0]] \in OwnEntry
    BY <1>1, <2>1 DEF OwnEntry
  <2> QED BY <2>2 DEF OwnStates
<1>3. syncs' = [syncs EXCEPT ![e] = first]
  BY DEF RegisterElement
<1> HIDE DEF first
<1>4. syncs' \in [Element -> OwnStates] /\ \A d \in Element : syncs'[d] # <<>> <=> d \in elements'
  BY <1>2, <1>3 DEF Typed, RegisterElement
<1>5. entities' \subseteq Removals(registered' \ elements')
  <2>1. registered' \ elements' = registered \ elements
    BY DEF RegisterElement, Typed
  <2> QED BY <2>1 DEF RegisterElement, Typed
<1>6. lastSent' \in [Element -> Time]
  BY <1>1 DEF RegisterElement, Typed
<1>7. elements' \subseteq registered' /\ registered' \subseteq Element
  BY DEF RegisterElement, Typed
<1> QED BY <1>4, <1>5, <1>6, <1>7 DEF RegisterElement, Typed, ackVars, peerVars, netVars

LEMMA RemoveTyped ==
  ASSUME Typed, NEW e \in Element, RemoveElement(e)
  PROVE  Typed'
<1>1. Now \in Time
  BY NowIsTime, BoundAssumption DEF Typed
<1>2. syncs' \in [Element -> OwnStates] /\ \A d \in Element : syncs'[d] # <<>> <=> d \in elements'
  <2>1. <<>> \in OwnStates
    BY DEF OwnStates
  <2> QED BY <2>1 DEF Typed, RemoveElement
<1>3. entities' \subseteq Removals(registered' \ elements')
  <2>1. registered \ elements \subseteq registered' \ elements' /\ e \in registered' \ elements'
    BY DEF RemoveElement, Typed
  <2>2. Removals(registered \ elements) \subseteq Removals(registered' \ elements')
    BY <2>1 DEF Removals
  <2>3. [id |-> e, basis |-> Now, final |-> FALSE] \in Removals(registered' \ elements')
    BY <1>1, <2>1 DEF Removals
  <2> QED BY <2>2, <2>3 DEF RemoveElement, Typed
<1>4. elements' \subseteq registered'
  BY DEF RemoveElement, Typed
<1> QED BY <1>2, <1>3, <1>4 DEF RemoveElement, Typed, ackVars, peerVars, netVars

LEMMA SkipTyped ==
  ASSUME Typed, SkipGameState
  PROVE  Typed'
<1>1. PICK change \in [elements -> SUBSET Field] :
        /\ tick < MaxFrame /\ tick' = tick + 1
        /\ syncs' = StatesNow(change)
        /\ UNCHANGED <<elements, registered, lastSent, entities, ackVars, subscribed,
                       peerVars, netVars>>
  BY DEF SkipGameState
<1>2. syncs' \in [Element -> OwnStates] /\ \A d \in Element : syncs'[d] # <<>> <=> d \in elements'
  <2>1. \A d \in Element : /\ StatesNow(change)[d] \in OwnStates
                           /\ StatesNow(change)[d] = <<>> <=> d \notin elements
    BY StatesNowType
  <2>2. StatesNow(change) = [d \in Element |-> StatesNow(change)[d]]
    BY DEF StatesNow
  <2> HIDE DEF StatesNow
  <2> QED BY <1>1, <2>1, <2>2
<1>3. tick' \in 1..MaxFrame
  BY <1>1, BoundAssumption DEF Typed
<1> QED BY <1>1, <1>2, <1>3 DEF Typed, ackVars, peerVars, netVars

\* A frame in which the zone sends, in named parts.
Kept(change) == [e \in Element |-> Disposed(StatesNow(change)[e], LastBasis)]
Body(kept) == IF zonePeers = {} THEN {} ELSE UNION {Written(e, kept[e]) : e \in elements}
Frames(kept, n, w) ==
  /\ \A p \in zonePeers : Len(toPeer[p]) + n <= NetCap[p]
  /\ toPeer' = [p \in Peer |-> IF p \in zonePeers
                               THEN toPeer[p] \o Packets(Body(kept), w, n) ELSE toPeer[p]]
Sends(change, n, w) ==
  /\ tick < MaxFrame
  /\ tick' = tick + 1
  /\ syncs' = Kept(change)
  /\ lastSent' = [e \in Element |-> IF \E x \in Body(Kept(change)) : x.id = e
                                    THEN Now ELSE lastSent[e]]
  /\ entities' = IF zonePeers = {} THEN {} ELSE Announced
  /\ acks' = [p \in Peer |-> IF p \in zonePeers THEN Trimmed(acks[p]) ELSE {}]
  /\ Frames(Kept(change), n, w)
  /\ UNCHANGED <<elements, registered, zonePeers, joined, subscribed, peerVars, toOwner>>

LEMMA SendIs ==
  ASSUME SendGameState
  PROVE  \E change \in [elements -> SUBSET Field], n \in 1..MaxFragments :
           \E w \in Splits(Body(Kept(change)), n) : Sends(change, n, w)
<1>1. \E change \in [elements -> SUBSET Field] :
         /\ tick < MaxFrame
         /\ tick' = tick + 1
         /\ syncs' = Kept(change)
         /\ lastSent' = [e \in Element |-> IF \E x \in Body(Kept(change)) : x.id = e
                                           THEN Now ELSE lastSent[e]]
         /\ entities' = IF zonePeers = {} THEN {} ELSE Announced
         /\ acks' = [p \in Peer |-> IF p \in zonePeers THEN Trimmed(acks[p]) ELSE {}]
         /\ \E n \in 1..MaxFragments : \E w \in Splits(Body(Kept(change)), n) :
              Frames(Kept(change), n, w)
         /\ UNCHANGED <<elements, registered, zonePeers, joined, subscribed, peerVars, toOwner>>
  BY Zenon DEF SendGameState, Kept, Body, Frames
<1> QED BY <1>1, Zenon DEF Sends

\* What the owner keeps after a frame.
LEMMA KeptType ==
  ASSUME Typed, NEW change \in [elements -> SUBSET Field]
  PROVE  /\ Kept(change) \in [Element -> OwnStates]
         /\ \A e \in Element : Kept(change)[e] = <<>> <=> e \notin elements
         /\ Body(Kept(change)) \in SUBSET Item
<1> DEFINE kept == Kept(change)
<1>1. \A e \in Element : kept[e] \in OwnStates /\ (kept[e] = <<>> <=> e \notin elements)
  <2> TAKE e \in Element
  <2>1. StatesNow(change)[e] \in OwnStates /\ (StatesNow(change)[e] = <<>> <=> e \notin elements)
    BY StatesNowType
  <2>2. kept[e] = Disposed(StatesNow(change)[e], LastBasis)
    BY DEF Kept
  <2> QED BY <2>1, <2>2, DisposedType DEF OwnStates
<1>2. kept = [e \in Element |-> kept[e]]
  BY DEF Kept
<1> HIDE DEF kept
<1>3. kept \in [Element -> OwnStates]
  BY <1>1, <1>2
<1>4. \A e \in elements : Written(e, kept[e]) \subseteq Item
  BY <1>1, WrittenType DEF Typed
<1>5. Body(kept) \in SUBSET Item
  BY <1>4 DEF Body
<1> QED BY <1>1, <1>3, <1>5 DEF kept

LEMMA SendTyped ==
  ASSUME Typed, SendGameState
  PROVE  Typed'
<1>1. PICK change \in [elements -> SUBSET Field], n \in 1..MaxFragments :
        \E w \in Splits(Body(Kept(change)), n) : Sends(change, n, w)
  BY SendIs
<1>2. PICK w \in Splits(Body(Kept(change)), n) : Sends(change, n, w)
  BY <1>1
<1>3. Now \in Time /\ Basis \in Time
  BY NowIsTime, BasisIsTime, BoundAssumption DEF Typed
<1>4. syncs' \in [Element -> OwnStates] /\ \A d \in Element : syncs'[d] # <<>> <=> d \in elements'
  BY <1>2, KeptType DEF Sends
<1>5. entities' \subseteq Removals(registered' \ elements')
  <2>1. Announced \subseteq Removals(registered \ elements)
    BY <1>3, AnnouncedType DEF Typed
  <2> QED BY <1>2, <2>1 DEF Sends
<1>6. acks' \in [Peer -> SUBSET Time]
  <2>1. \A p \in Peer : Trimmed(acks[p]) \in SUBSET Time
    BY TrimmedIsPart DEF Typed
  <2> QED BY <1>2, <2>1 DEF Sends
<1>7. toPeer' \in [Peer -> Link]
  <2> DEFINE pkts == Packets(Body(Kept(change)), w, n)
  <2>1. pkts \in Link
    <3>1. \A x \in entities : x.id \in Element
      BY DEF Typed, Removals
    <3> QED BY <1>3, <3>1, KeptType, PacketsType
  <2>2. toPeer' = [p \in Peer |-> IF p \in zonePeers THEN toPeer[p] \o pkts ELSE toPeer[p]]
    BY <1>2 DEF Sends, Frames
  <2> HIDE DEF pkts
  <2>3. \A p \in Peer : toPeer[p] \o pkts \in Link
    BY <2>1 DEF Typed, Link
  <2> QED BY <2>2, <2>3 DEF Typed
<1>8. lastSent' \in [Element -> Time]
  BY <1>2, <1>3 DEF Sends, Typed
<1>9. tick' \in 1..MaxFrame
  BY <1>2, BoundAssumption DEF Sends, Typed
<1> QED BY <1>2, <1>4, <1>5, <1>6, <1>7, <1>8, <1>9 DEF Sends, Typed, peerVars

\* The tail of a link.
LEMMA TailOfLink ==
  ASSUME NEW S, NEW s \in Seq(S), s # <<>>
  PROVE  Tail(s) \in Seq(S) /\ Head(s) \in S
OBVIOUS

LEMMA AckStepsTyped ==
  ASSUME Typed, NEW p \in Peer,
         \/ ReceiveAck(p) \/ AddPeer(p) \/ DisconnectPeer(p) \/ Subscribe(p) \/ LoseAck(p)
  PROVE  Typed'
<1>1. toOwner[p] # <<>> => Tail(toOwner[p]) \in AckLink /\ Head(toOwner[p]) \in Time
  BY TailOfLink DEF Typed, AckLink
<1>2. CASE ReceiveAck(p)
  <2>1. toOwner' \in [Peer -> AckLink] /\ acks' \in [Peer -> SUBSET Time]
    BY <1>1, <1>2 DEF ReceiveAck, Typed
  <2> QED BY <1>2, <2>1 DEF ReceiveAck, Typed, ownerVars, peerVars
<1>3. CASE AddPeer(p)
  BY <1>3 DEF AddPeer, Typed, ownerVars, peerVars, netVars
<1>4. CASE DisconnectPeer(p)
  <2>1. acks' \in [Peer -> SUBSET Time]
    BY <1>4 DEF DisconnectPeer, Typed
  <2> QED BY <1>4, <2>1 DEF DisconnectPeer, Typed, ownerVars, peerVars, netVars
<1>5. CASE Subscribe(p)
  BY <1>5 DEF Subscribe, Typed, ownerVars, ackVars, peerVars, netVars
<1>6. CASE LoseAck(p)
  <2>1. toOwner' \in [Peer -> AckLink]
    BY <1>1, <1>6 DEF LoseAck, Typed
  <2> QED BY <1>6, <2>1 DEF LoseAck, Typed, ownerVars, ackVars, peerVars
<1> QED BY <1>2, <1>3, <1>4, <1>5, <1>6

\* A packet taken from a link leaves the others, in their order.
LEMMA WithoutIs ==
  ASSUME NEW S, NEW s \in Seq(S), NEW i \in DOMAIN s
  PROVE  /\ Without(s, i) \in Seq(S)
         /\ Len(Without(s, i)) = Len(s) - 1
         /\ \A j \in 1..(Len(s) - 1) : Without(s, i)[j] = s[IF j < i THEN j ELSE j + 1]
<1>1. Len(s) \in Nat /\ i \in 1..Len(s) /\ \A j \in 1..Len(s) : s[j] \in S
  OBVIOUS
<1> DEFINE l == SubSeq(s, 1, i - 1)
           r == SubSeq(s, i + 1, Len(s))
<1>2. l \in Seq(S) /\ Len(l) = i - 1 /\ \A j \in 1..(i - 1) : l[j] = s[j]
  BY <1>1
<1>3. r \in Seq(S) /\ Len(r) = Len(s) - i /\ \A j \in 1..(Len(s) - i) : r[j] = s[i + j]
  BY <1>1
<1>4. Without(s, i) = l \o r
  BY DEF Without
<1> HIDE DEF l, r
<1>5. /\ l \o r \in Seq(S) /\ Len(l \o r) = Len(l) + Len(r)
      /\ \A j \in 1..(Len(l) + Len(r)) : (l \o r)[j] = IF j <= Len(l) THEN l[j] ELSE r[j - Len(l)]
  BY <1>2, <1>3, ConcatProperties
<1>6. ASSUME NEW j \in 1..(Len(s) - 1)
      PROVE  (l \o r)[j] = s[IF j < i THEN j ELSE j + 1]
  <2>1. CASE j < i
    <3>1. j \in 1..(i - 1) /\ j \in 1..(Len(l) + Len(r)) /\ j <= Len(l)
      BY <2>1, <1>1, <1>2, <1>3
    <3> QED BY <2>1, <3>1, <1>2, <1>5
  <2>2. CASE ~(j < i)
    <3>1. /\ Len(s) \in Nat /\ i \in Nat /\ i <= Len(s)
          /\ j \in Nat /\ j >= 1 /\ j <= Len(s) - 1
      BY <1>1
    <3>2. Len(l) = i - 1 /\ Len(r) = Len(s) - i
      BY <1>2, <1>3
    <3> HIDE DEF l, r
    <3>3. PICK k \in 1..(Len(s) - i) : k = j - (i - 1)
      BY <2>2, <3>1
    <3>4. j \in 1..(Len(l) + Len(r)) /\ ~(j <= Len(l)) /\ j - Len(l) = k /\ i + k = j + 1
      BY <2>2, <3>1, <3>2, <3>3
    <3>5. (l \o r)[j] = r[k]
      BY <3>4, <1>5
    <3>6. r[k] = s[i + k]
      BY <3>3, <1>3
    <3> QED BY <2>2, <3>4, <3>5, <3>6
  <2> QED BY <2>1, <2>2
<1>7. Len(l \o r) = Len(s) - 1
  BY <1>1, <1>2, <1>3, <1>5
<1> QED BY <1>4, <1>5, <1>6, <1>7

LEMMA TakeTyped ==
  ASSUME Typed, NEW p \in Peer, NEW i \in Arriving(p), Take(p, i)
  PROVE  toPeer' \in [Peer -> Link] /\ toPeer[p][i] \in GameState /\ i \in DOMAIN toPeer[p]
<1>1. i \in DOMAIN toPeer[p] /\ toPeer[p] \in Seq(GameState)
  BY DEF Arriving, Typed, Link
<1>2. Without(toPeer[p], i) \in Link
  BY <1>1, WithoutIs, Zenon DEF Link
<1>3. toPeer[p][i] \in GameState
  BY <1>1
<1> QED BY <1>1, <1>2, <1>3 DEF Take, Typed

LEMMA LoseTyped ==
  ASSUME Typed, NEW p \in Peer, LosePacket(p)
  PROVE  Typed'
<1>1. PICK i \in Arriving(p) : Take(p, i)
  BY DEF LosePacket
<1>2. toPeer' \in [Peer -> Link]
  BY <1>1, TakeTyped
<1> QED BY <1>2 DEF LosePacket, Typed, ownerVars, ackVars, peerVars

LEMMA SendAckTyped ==
  ASSUME Typed, NEW p \in Peer, SendAck(p)
  PROVE  Typed'
<1>1. Latest(ackOut[p]) \in Time
  <2>1. ackOut[p] # {} /\ ackOut[p] \subseteq Time
    BY DEF SendAck, Typed, AckSets
  <2> QED BY <2>1, LatestOf
<1>2. toOwner' \in [Peer -> AckLink]
  <2>1. Append(toOwner[p], Latest(ackOut[p])) \in AckLink
    BY <1>1, AppendProperties DEF Typed, AckLink
  <2> QED BY <2>1 DEF SendAck, Typed
<1>3. ackOut' \in [Peer -> AckSets]
  <2>1. {} \in AckSets
    BY DEF AckSets
  <2> QED BY <2>1 DEF SendAck, Typed
<1> QED BY <1>2, <1>3 DEF SendAck, Typed, ownerVars, ackVars

\* The bookkeeping of a packet.
LEMMA BookkeepingTyped ==
  ASSUME Typed, NEW p \in Peer, NEW pkt \in GameState, Bookkeeping(p, pkt)
  PROVE  /\ state' \in [Peer -> Time] /\ mask' \in [Peer -> Masks]
         /\ expected' \in [Peer -> BitSets] /\ AckAfter(p, pkt) \in AckSets
<1>1. pkt.state \in Time /\ pkt.seq \in 0..(MaxFragments - 1)
  BY DEF GameState
<1>2. StateAfter(p, pkt) \in Time
  BY <1>1 DEF StateAfter, Typed
<1>3. MaskBefore(p, pkt) \in Masks /\ MaskAfter(p, pkt) \in Masks
  BY <1>1 DEF MaskAfter, MaskBefore, Typed, Masks
<1>4. 0..pkt.seq \in BitSets /\ AllBits \in BitSets
  BY <1>1, BoundAssumption DEF BitSets, AllBits
<1>5. ExpectedAfter(p, pkt) \in BitSets
  BY <1>4 DEF ExpectedAfter, ExpectedBefore, Typed
<1>6. AckAfter(p, pkt) \in AckSets
  <2>1. Latest(ackOut[p] \cup {pkt.state}) \in Time
    BY <1>1, LatestOfTwo DEF Typed, AckSets
  <2> QED BY <2>1 DEF AckAfter, Typed, AckSets
<1> QED BY <1>2, <1>3, <1>5, <1>6 DEF Bookkeeping, Typed

\* The copies after a packet.
LEMMA CopyAfterType ==
  ASSUME NEW s \in CopyStates, NEW pkt \in GameState, NEW e, NEW cut
  PROVE  CopyAfter(s, pkt, e, cut) \in CopyStates
<1>1. CASE \E x \in pkt.items : x.id = e
  <2> DEFINE x == CHOOSE y \in pkt.items : y.id = e
  <2>1. x \in pkt.items /\ pkt.items \subseteq Item /\ pkt.state \in Time
    BY <1>1 DEF GameState
  <2>2. PICK F \in SUBSET Field : x.val \in [F -> Value]
    BY <2>1 DEF Item
  <2>3. Updated(s, pkt, x.val, cut) \in CopyStates
    BY <2>1, <2>2, UpdatedType
  <2>4. <<>> \in CopyStates
    BY DEF CopyStates
  <2> QED BY <1>1, <2>3, <2>4 DEF CopyAfter
<1>2. CASE ~ \E x \in pkt.items : x.id = e
  BY <1>2 DEF CopyAfter
<1> QED BY <1>1, <1>2

LEMMA ReceiveTyped ==
  ASSUME Typed, NEW p \in Peer, ReceiveGameState(p)
  PROVE  Typed'
<1>1. PICK i \in Arriving(p) : LET pkt == toPeer[p][i] IN
         /\ ~Misreads(p, pkt)
         /\ Take(p, i)
         /\ Bookkeeping(p, pkt)
         /\ failed' = IF Cockup(p, pkt) THEN failed \cup {p} ELSE failed
         /\ IF Cockup(p, pkt) THEN UNCHANGED <<held, ackOut>>
            ELSE /\ \E cut \in Cuts(p, pkt) :
                      held' = [held EXCEPT ![p] =
                                 [e \in Element |-> CopyAfter(@[e], pkt, e, cut)]]
                 /\ ackOut' = [ackOut EXCEPT ![p] = AckAfter(p, pkt)]
  BY DEF ReceiveGameState
<1> DEFINE pkt == toPeer[p][i]
<1>2. toPeer' \in [Peer -> Link] /\ pkt \in GameState
  BY <1>1, TakeTyped
<1>3. /\ state' \in [Peer -> Time] /\ mask' \in [Peer -> Masks]
      /\ expected' \in [Peer -> BitSets] /\ AckAfter(p, pkt) \in AckSets
  BY <1>1, <1>2, BookkeepingTyped
<1>4. held' \in [Peer -> [Element -> CopyStates]] /\ ackOut' \in [Peer -> AckSets]
  <2>1. CASE Cockup(p, pkt)
    BY <1>1, <2>1 DEF Typed
  <2>2. CASE ~Cockup(p, pkt)
    <3>1. PICK cut \in Cuts(p, pkt) :
            held' = [held EXCEPT ![p] = [e \in Element |-> CopyAfter(@[e], pkt, e, cut)]]
      BY <1>1, <2>2
    <3>2. \A e \in Element : CopyAfter(held[p][e], pkt, e, cut) \in CopyStates
      BY <1>2, CopyAfterType DEF Typed
    <3>3. ackOut' = [ackOut EXCEPT ![p] = AckAfter(p, pkt)]
      BY <1>1, <2>2
    <3> HIDE DEF pkt
    <3> QED BY <1>3, <3>1, <3>2, <3>3 DEF Typed
  <2> QED BY <2>1, <2>2
<1>5. failed' \subseteq Peer
  BY <1>1 DEF Typed
<1> QED BY <1>2, <1>3, <1>4, <1>5 DEF ReceiveGameState, Typed, ownerVars, ackVars

LEMMA MisreadTyped ==
  ASSUME Typed, NEW p \in Peer, Misread(p)
  PROVE  Typed'
<1>1. PICK i \in Arriving(p) : LET pkt == toPeer[p][i] IN
         /\ Take(p, i)
         /\ Bookkeeping(p, pkt)
         /\ \/ /\ failed' = failed \cup {p}
               /\ UNCHANGED <<held, ackOut>>
            \/ /\ \E e \in Element :
                    /\ held[p][e] # <<>>
                    /\ held' = [held EXCEPT ![p][e] =
                                  Inserted(@, [time |-> pkt.state, val |-> Blank])]
               /\ ackOut' = [ackOut EXCEPT ![p] = AckAfter(p, pkt)]
               /\ UNCHANGED failed
  BY DEF Misread
<1> DEFINE pkt == toPeer[p][i]
<1>2. toPeer' \in [Peer -> Link] /\ pkt \in GameState
  BY <1>1, TakeTyped
<1>3. /\ state' \in [Peer -> Time] /\ mask' \in [Peer -> Masks]
      /\ expected' \in [Peer -> BitSets] /\ AckAfter(p, pkt) \in AckSets
  BY <1>1, <1>2, BookkeepingTyped
<1>4. /\ held' \in [Peer -> [Element -> CopyStates]] /\ ackOut' \in [Peer -> AckSets]
      /\ failed' \subseteq Peer
  <2>1. CASE failed' = failed \cup {p} /\ UNCHANGED <<held, ackOut>>
    BY <2>1 DEF Typed
  <2>2. CASE /\ \E e \in Element :
                  held' = [held EXCEPT ![p][e] = Inserted(@, [time |-> pkt.state, val |-> Blank])]
             /\ ackOut' = [ackOut EXCEPT ![p] = AckAfter(p, pkt)] /\ UNCHANGED failed
    <3>1. PICK e \in Element :
             held' = [held EXCEPT ![p][e] = Inserted(@, [time |-> pkt.state, val |-> Blank])]
      BY <2>2
    <3>2. [time |-> pkt.state, val |-> Blank] \in Entry
      <4>1. pkt.state \in Time
        BY <1>2 DEF GameState
      <4>2. Blank \in State
        BY DEF Blank, State
      <4> HIDE DEF pkt
      <4> QED BY <4>1, <4>2 DEF Entry
    <3>3. Inserted(held[p][e], [time |-> pkt.state, val |-> Blank]) \in CopyStates
      BY <3>2, InsertedType DEF Typed, CopyStates
    <3> HIDE DEF pkt
    <3> QED BY <1>3, <2>2, <3>1, <3>3 DEF Typed
  <2> QED BY <1>1, <2>1, <2>2
<1> QED BY <1>2, <1>3, <1>4 DEF Misread, Typed, ownerVars, ackVars

\* Every step keeps the types.
LEMMA TypedStep ==
  ASSUME Typed, [Next]_vars
  PROVE  Typed'
<1>1. CASE UNCHANGED vars
  BY <1>1 DEF Typed, vars, ownerVars, ackVars, peerVars, netVars
<1>2. CASE Next
  BY <1>2, RegisterTyped, RemoveTyped, SendTyped, SkipTyped, AckStepsTyped, LoseTyped,
     SendAckTyped, ReceiveTyped, MisreadTyped DEF Next
<1> QED BY <1>1, <1>2

\* Every variable has its type, whatever is lost, reordered or misread: the
\* masks stay within their 32 bits, an element has states exactly while it is
\* in m_vElements, and a peer owes at most one acknowledgement.
THEOREM TypeCorrect == Spec => []TypeOK
<1>1. Init => Typed
  BY TypedInit
<1>2. Typed /\ [Next]_vars => Typed'
  BY TypedStep
<1>3. Typed => TypeOK
  BY TypedIsTypeOK
<1> QED BY <1>1, <1>2, <1>3, PTL DEF Spec

-----------------------------------------------------------------------------
(* The clock.  A frame number has 16 bits; what follows holds of games in  *)
(* which the number has not wrapped, and ZoneWrap shows that it must not.  *)

ClockLasts == MaxFrame < TimeMod

LEMMA SmallMod ==
  ASSUME NEW m \in Nat, m >= 1, NEW d \in Int, -m < d, d < m
  PROVE  d % m = IF d >= 0 THEN d ELSE d + m
OBVIOUS

LEMMA NowIsTick ==
  ASSUME ClockLasts, Typed
  PROVE  Now = tick /\ tick \in Nat /\ tick >= 1 /\ tick < TimeMod
<1>1. tick \in Nat /\ tick >= 1 /\ tick < TimeMod
  BY TimeAssumption, BoundAssumption DEF Typed, ClockLasts
<1>2. tick % TimeMod = tick
  BY <1>1, TimeAssumption, SmallMod
<1> QED BY <1>1, <1>2 DEF Now

\* Which of two frame numbers counts as the older one.
LEMMA OlderIs ==
  ASSUME NEW x \in Time, NEW y \in Time
  PROVE  Older(x, y) <=> IF x >= y THEN 2 * (x - y) >= TimeMod ELSE 2 * (y - x) <= TimeMod
<1> DEFINE d == (x - y) % TimeMod
<1>1. x \in Int /\ y \in Int /\ x >= 0 /\ y >= 0 /\ x < TimeMod /\ y < TimeMod /\ TimeMod \in Nat
      /\ TimeMod >= 4
  BY TimeAssumption DEF Time
<1>2. d = IF x >= y THEN x - y ELSE x - y + TimeMod
  <2>1. x - y \in Int /\ -TimeMod < x - y /\ x - y < TimeMod /\ TimeMod >= 1
    BY <1>1
  <2>2. d = IF x - y >= 0 THEN x - y ELSE x - y + TimeMod
    BY <2>1, <1>1, SmallMod
  <2> HIDE DEF d
  <2> QED BY <2>2, <1>1
<1>3. Distance(x, y) = IF 2 * d < TimeMod THEN d ELSE d - TimeMod
  BY DEF Distance
<1> HIDE DEF d
<1>4. CASE x >= y
  BY <1>1, <1>2, <1>3, <1>4 DEF Older
<1>5. CASE ~(x >= y)
  BY <1>1, <1>2, <1>3, <1>5 DEF Older
<1> QED BY <1>4, <1>5

-----------------------------------------------------------------------------
(* The owner's states: one for every frame since the oldest it keeps.      *)

Unbroken(s) ==
  /\ s[1].time >= 1
  /\ \A i \in DOMAIN s : s[i].time = s[1].time + (i - 1)

OwnerInv ==
  \A e \in elements : Unbroken(syncs[e]) /\ Final(syncs[e]).time \in {tick - 1, tick}

LEMMA StatesAre ==
  ASSUME NEW s \in OwnStates
  PROVE  /\ Len(s) \in Nat /\ DOMAIN s = 1..Len(s) /\ (s # <<>> => Len(s) >= 1)
         /\ \A i \in 1..Len(s) : s[i] \in OwnEntry
         /\ \A i \in 1..Len(s) : s[i].time \in Time
         /\ \A i \in 1..Len(s) : s[i].time \in Int
<1>1. /\ Len(s) \in Nat /\ DOMAIN s = 1..Len(s) /\ (s # <<>> => Len(s) >= 1)
      /\ \A i \in 1..Len(s) : s[i] \in OwnEntry
  BY DEF OwnStates
<1>2. \A i \in 1..Len(s) : s[i].time \in Time
  BY <1>1 DEF OwnEntry
<1>3. \A t \in Time : t \in Int
  BY DEF Time
<1> QED BY <1>1, <1>2, <1>3

\* Attaching a state prolongs them, disposing shortens them from the front.
LEMMA AttachedUnbroken ==
  ASSUME ClockLasts, Typed, NEW s \in OwnStates, s # <<>>, Unbroken(s),
         Final(s).time \in {tick - 1, tick}, NEW v \in [Field -> Value]
  PROVE  /\ Attached(s, v) \in OwnStates /\ Attached(s, v) # <<>>
         /\ Unbroken(Attached(s, v)) /\ Final(Attached(s, v)).time = tick
         /\ Attached(s, v)[1] = s[1]
<1> DEFINE x == [time |-> Now, val |-> v]
<1>1. Now = tick /\ tick \in Nat /\ tick >= 1 /\ Now \in Time /\ x \in OwnEntry
  BY NowIsTick, NowIsTime DEF OwnEntry
<1>2. /\ Len(s) \in Nat /\ Len(s) >= 1 /\ DOMAIN s = 1..Len(s)
      /\ \A i \in 1..Len(s) : s[i] \in OwnEntry
  BY DEF OwnStates
<1>3. Final(s).time \in Time /\ Final(s) = s[Len(s)]
  BY <1>2 DEF Final, OwnEntry
<1>4. CASE Final(s).time = tick
  <2>1. ~Older(Final(s).time, Now)
    <3>1. tick \in Time
      BY <1>1
    <3> QED BY <1>1, <1>4, <3>1, OlderIs, TimeAssumption
  <2> QED BY <2>1, <1>4 DEF Attached
<1>5. CASE Final(s).time = tick - 1
  <2>1. Older(Final(s).time, Now)
    BY <1>1, <1>3, <1>5, OlderIs, TimeAssumption DEF Time
  <2>2. Attached(s, v) = Append(s, x)
    BY <2>1 DEF Attached
  <2> HIDE DEF x
  <2>3. /\ Append(s, x) \in OwnStates /\ Len(Append(s, x)) = Len(s) + 1
        /\ \A i \in 1..Len(s) : Append(s, x)[i] = s[i]
        /\ Append(s, x)[Len(s) + 1] = x
    BY <1>1, <1>2, AppendProperties DEF OwnStates
  <2>4. DOMAIN Append(s, x) = 1..(Len(s) + 1) /\ Append(s, x) # <<>>
    BY <2>3, <1>2 DEF OwnStates
  <2>5. x.time = tick
    BY <1>1 DEF x
  <2>6. s[1].time \in Int /\ s[Len(s)].time = s[1].time + (Len(s) - 1)
    BY <1>2 DEF Unbroken, OwnEntry, Time
  <2>7. Unbroken(Append(s, x))
    <3>1. ASSUME NEW i \in 1..(Len(s) + 1)
          PROVE  Append(s, x)[i].time = s[1].time + (i - 1)
      <4>1. CASE i \in 1..Len(s)
        BY <4>1, <2>3, <1>2 DEF Unbroken
      <4>2. CASE i = Len(s) + 1
        BY <4>2, <2>3, <2>5, <2>6, <1>1, <1>2, <1>3, <1>5
      <4> QED BY <4>1, <4>2, <1>2
    <3> QED BY <3>1, <2>3, <2>4, <1>2 DEF Unbroken
  <2>8. Append(s, x)[1] = s[1]
    BY <2>3, <1>2
  <2> QED BY <2>2, <2>3, <2>4, <2>5, <2>7, <2>8, <1>5 DEF Final
<1> QED BY <1>4, <1>5

LEMMA DisposedUnbroken ==
  ASSUME NEW s \in OwnStates, s # <<>>, Unbroken(s), NEW t
  PROVE  /\ Disposed(s, t) \in OwnStates /\ Disposed(s, t) # <<>>
         /\ Unbroken(Disposed(s, t)) /\ Final(Disposed(s, t)) = Final(s)
         /\ s[1].time <= Disposed(s, t)[1].time
<1>1. PICK k \in 0..Len(s) : k < Len(s) /\ Disposed(s, t) = SubSeq(s, k + 1, Len(s))
  BY DisposedIs DEF OwnStates
<1>2. /\ Len(s) \in Nat /\ Len(s) >= 1 /\ DOMAIN s = 1..Len(s)
      /\ \A i \in 1..Len(s) : s[i] \in OwnEntry /\ s[i].time \in Int
  BY StatesAre
<1> DEFINE d == Disposed(s, t)
<1>3. d \in OwnStates /\ d # <<>> /\ Final(d) = Final(s)
  BY DisposedType DEF OwnStates
<1>4. Len(d) = Len(s) - k /\ \A i \in 1..(Len(s) - k) : d[i] = s[k + i]
  <2>1. /\ Len(SubSeq(s, k + 1, Len(s))) = IF k + 1 <= Len(s) THEN Len(s) - (k + 1) + 1 ELSE 0
        /\ \A i \in 1 .. Len(s) - (k + 1) + 1 : SubSeq(s, k + 1, Len(s))[i] = s[(k + 1) + i - 1]
    <3>1. k + 1 \in Int /\ Len(s) \in Int /\ \A i \in (k + 1)..Len(s) : s[i] \in OwnEntry
      BY <1>1, <1>2
    <3> QED BY <3>1, SubSeqProperties
  <2>2. \A i \in 1..(Len(s) - k) : i \in 1 .. Len(s) - (k + 1) + 1 /\ (k + 1) + i - 1 = k + i
    BY <1>1, <1>2
  <2>3. k + 1 <= Len(s) /\ Len(s) - (k + 1) + 1 = Len(s) - k
    BY <1>1, <1>2
  <2> QED BY <2>1, <2>2, <2>3, <1>1
<1> HIDE DEF d
<1>5. DOMAIN d = 1..(Len(s) - k)
  BY <1>3, <1>4 DEF OwnStates
<1>6. \A i \in 1..(Len(s) - k) : d[i].time = s[1].time + (k + i - 1)
  <2> TAKE i \in 1..(Len(s) - k)
  <2>1. k + i \in DOMAIN s /\ d[i] = s[k + i]
    BY <1>1, <1>2, <1>4
  <2>2. s[k + i].time = s[1].time + (k + i - 1)
    BY <2>1 DEF Unbroken
  <2> QED BY <2>1, <2>2
<1>7. d[1].time = s[1].time + k /\ s[1].time \in Int /\ s[1].time >= 1
  <2>1. 1 \in 1..(Len(s) - k) /\ 1 \in 1..Len(s) /\ k + 1 - 1 = k
    BY <1>1, <1>2
  <2>2. d[1].time = s[1].time + (k + 1 - 1)
    BY <2>1, <1>6
  <2> QED BY <2>1, <2>2, <1>2 DEF Unbroken
<1>8. Unbroken(d)
  <2>1. ASSUME NEW i \in 1..(Len(s) - k)
        PROVE  d[i].time = d[1].time + (i - 1)
    <3>1. d[i].time = s[1].time + (k + i - 1)
      BY <1>6
    <3>2. i \in Int /\ k \in Int
      BY <1>1
    <3> QED BY <3>1, <3>2, <1>7
  <2>2. d[1].time >= 1
    BY <1>1, <1>7
  <2> QED BY <2>1, <2>2, <1>5 DEF Unbroken
<1> QED BY <1>1, <1>3, <1>7, <1>8 DEF d

-----------------------------------------------------------------------------
(* What a step does to the links and to the acknowledgements.              *)

OnLink(p)  == Entries(toPeer[p])
AckedBy(p) == acks[p] \cup Entries(toOwner[p]) \cup ackOut[p]

\* Packets come in the order of the frames, and no two are the same fragment.
InOrder(s) == \A i, j \in DOMAIN s : i < j =>
  /\ s[i].state <= s[j].state
  /\ s[i].state = s[j].state => s[i].seq # s[j].seq

LEMMA EntriesAre ==
  ASSUME NEW S, NEW s \in Seq(S)
  PROVE  /\ Entries(s) \subseteq S
         /\ s # <<>> => Head(s) \in Entries(s) /\ Entries(Tail(s)) \subseteq Entries(s)
         /\ \A x \in S : Entries(Append(s, x)) = Entries(s) \cup {x}
<1>1. Len(s) \in Nat /\ DOMAIN s = 1..Len(s) /\ \A i \in 1..Len(s) : s[i] \in S
  OBVIOUS
<1>2. ASSUME s # <<>>
      PROVE  Head(s) \in Entries(s) /\ Entries(Tail(s)) \subseteq Entries(s)
  <2>1. /\ Len(s) >= 1 /\ Head(s) = s[1] /\ Len(Tail(s)) = Len(s) - 1
        /\ DOMAIN Tail(s) = 1..(Len(s) - 1) /\ \A i \in 1..(Len(s) - 1) : Tail(s)[i] = s[i + 1]
    BY <1>2
  <2>2. \A i \in 1..(Len(s) - 1) : i + 1 \in DOMAIN s
    BY <1>1
  <2>3. 1 \in DOMAIN s
    BY <1>1, <2>1
  <2> QED BY <2>1, <2>2, <2>3 DEF Entries
<1>3. ASSUME NEW x \in S
      PROVE  Entries(Append(s, x)) = Entries(s) \cup {x}
  <2> DEFINE u == Append(s, x)
  <2>1. /\ u \in Seq(S) /\ Len(u) = Len(s) + 1 /\ \A i \in 1..Len(s) : u[i] = s[i]
        /\ u[Len(s) + 1] = x
    BY AppendProperties
  <2> HIDE DEF u
  <2>2. DOMAIN u = 1..(Len(s) + 1)
    BY <2>1, <1>1
  <2>3. \A i \in 1..(Len(s) + 1) : i \in 1..Len(s) \/ i = Len(s) + 1
    BY <1>1
  <2>4. Len(s) + 1 \in 1..(Len(s) + 1) /\ \A i \in 1..Len(s) : i \in 1..(Len(s) + 1)
    BY <1>1
  <2>5. Entries(u) = Entries(s) \cup {x}
    BY <1>1, <2>1, <2>2, <2>3, <2>4 DEF Entries
  <2> QED BY <2>5 DEF u
<1> QED BY <1>1, <1>2, <1>3 DEF Entries

LEMMA PacketIs ==
  ASSUME NEW q \in GameState
  PROVE  /\ q.state \in Time /\ q.state \in Int /\ q.seq \in 0..(MaxFragments - 1)
         /\ q.seq \in Int /\ q.basis \in Time /\ q.items \subseteq Item
<1>1. /\ q.state \in Time /\ q.seq \in 0..(MaxFragments - 1) /\ q.basis \in Time
      /\ q.items \subseteq Item
  BY DEF GameState
<1>2. \A t \in Time : t \in Int
  BY DEF Time
<1> QED BY <1>1, <1>2

\* A packet taken out of a link.
LEMMA WithoutEntries ==
  ASSUME NEW s \in Link, NEW i \in DOMAIN s
  PROVE  /\ Entries(Without(s, i)) \subseteq Entries(s)
         /\ InOrder(s) => InOrder(Without(s, i))
         /\ InOrder(s) /\ (\A j \in 1..i : s[j].state = s[i].state) =>
              \A q \in Entries(Without(s, i)) :
                s[i].state <= q.state /\ (q.state = s[i].state => q.seq # s[i].seq)
<1> DEFINE u == Without(s, i)
           at(j) == IF j < i THEN j ELSE j + 1
<1>1. Len(s) \in Nat /\ DOMAIN s = 1..Len(s) /\ i \in 1..Len(s)
  BY DEF Link
<1>2. u \in Seq(GameState) /\ Len(u) = Len(s) - 1 /\ \A j \in 1..(Len(s) - 1) : u[j] = s[at(j)]
  BY WithoutIs DEF Link
<1> HIDE DEF u
<1>3. DOMAIN u = 1..(Len(s) - 1)
  BY <1>2
<1>4. \A j \in 1..(Len(s) - 1) : at(j) \in 1..Len(s) /\ at(j) # i
  BY <1>1
<1>5. \A j, k \in 1..(Len(s) - 1) : j < k => at(j) < at(k)
  BY <1>1
<1> HIDE DEF at
<1>6. \A q \in Entries(u) : \E j \in DOMAIN s : j # i /\ q = s[j]
  BY <1>1, <1>2, <1>3, <1>4 DEF Entries
<1>7. Entries(u) \subseteq Entries(s)
  BY <1>6 DEF Entries
<1>8. InOrder(s) => InOrder(u)
  BY <1>1, <1>2, <1>3, <1>4, <1>5 DEF InOrder
<1>9. ASSUME InOrder(s), \A j \in 1..i : s[j].state = s[i].state, NEW q \in Entries(u)
      PROVE  s[i].state <= q.state /\ (q.state = s[i].state => q.seq # s[i].seq)
  <2>1. PICK j \in DOMAIN s : j # i /\ q = s[j]
    BY <1>6
  <2>2. j \in Int /\ i \in Int
    BY <1>1
  <2>3. CASE j < i
    <3>1. s[j].state = s[i].state /\ s[j].seq # s[i].seq
      BY <1>1, <1>9, <2>1, <2>2, <2>3 DEF InOrder
    <3>2. s[i].state \in Int
      <4>1. s[i] \in GameState
        BY <1>1 DEF Link
      <4> QED BY <4>1, PacketIs
    <3> QED BY <2>1, <3>1, <3>2
  <2>4. CASE i < j
    BY <1>1, <1>9, <2>1, <2>4 DEF InOrder
  <2> QED BY <2>1, <2>2, <2>3, <2>4
<1> QED BY <1>7, <1>8, <1>9 DEF u

\* A step that at most takes packets and acknowledgements away.
Quiet ==
  /\ UNCHANGED <<tick, elements, registered, syncs, entities, held, state, mask, expected, failed>>
  /\ \A p \in Peer : /\ AckedBy(p)' \subseteq AckedBy(p) /\ ackOut'[p] \subseteq ackOut[p]
                     /\ OnLink(p)' \subseteq OnLink(p)
                     /\ InOrder(toPeer[p]) => InOrder(toPeer[p])'
  /\ joined \subseteq joined' /\ zonePeers' \subseteq zonePeers \cup (joined' \ joined)

LEMMA AckStepsQuiet ==
  ASSUME Typed, NEW p \in Peer,
         \/ ReceiveAck(p) \/ AddPeer(p) \/ DisconnectPeer(p) \/ Subscribe(p) \/ LoseAck(p)
         \/ SendAck(p)
  PROVE  Quiet
<1>1. toOwner[p] # <<>> => /\ Head(toOwner[p]) \in Entries(toOwner[p])
                           /\ Entries(Tail(toOwner[p])) \subseteq Entries(toOwner[p])
  BY EntriesAre DEF Typed, AckLink
<1>2. CASE ReceiveAck(p)
  <2>1. \A q \in Peer : AckedBy(q)' \subseteq AckedBy(q)
    <3>1. \A q \in Peer : acks'[q] = acks[q] \/ (q = p /\ acks'[q] = acks[q] \cup {Head(toOwner[p])})
      BY <1>2 DEF ReceiveAck, Typed
    <3>2. \A q \in Peer : toOwner'[q] = IF q = p THEN Tail(toOwner[p]) ELSE toOwner[q]
      BY <1>2 DEF ReceiveAck, Typed
    <3>3. ackOut' = ackOut /\ toOwner[p] # <<>>
      BY <1>2 DEF ReceiveAck, peerVars
    <3> QED BY <1>1, <3>1, <3>2, <3>3 DEF AckedBy
  <2> QED BY <1>2, <2>1 DEF ReceiveAck, ownerVars, peerVars, Quiet, OnLink, InOrder
<1>3. CASE AddPeer(p)
  BY <1>3 DEF AddPeer, Typed, ownerVars, peerVars, netVars, Quiet, AckedBy, OnLink, InOrder
<1>4. CASE DisconnectPeer(p)
  BY <1>4 DEF DisconnectPeer, Typed, ownerVars, peerVars, netVars, Quiet, AckedBy, OnLink, InOrder
<1>5. CASE Subscribe(p)
  BY <1>5 DEF Subscribe, Typed, ownerVars, ackVars, peerVars, netVars, Quiet, AckedBy, OnLink, InOrder
<1>6. CASE LoseAck(p)
  BY <1>1, <1>6 DEF LoseAck, Typed, ownerVars, ackVars, peerVars, Quiet, AckedBy, OnLink, InOrder
<1>7. CASE SendAck(p)
  <2>1. ackOut[p] # {} /\ ackOut[p] \subseteq Time
    BY <1>7 DEF SendAck, Typed, AckSets
  <2>2. Latest(ackOut[p]) \in ackOut[p]
    BY <2>1, LatestOf
  <2>3. Entries(Append(toOwner[p], Latest(ackOut[p]))) = Entries(toOwner[p]) \cup {Latest(ackOut[p])}
    BY <2>1, <2>2, EntriesAre DEF Typed, AckLink
  <2>4. \A q \in Peer : AckedBy(q)' \subseteq AckedBy(q)
    BY <1>7, <2>2, <2>3 DEF SendAck, Typed, ackVars, AckedBy
  <2>5. \A q \in Peer : ackOut'[q] \subseteq ackOut[q]
    BY <1>7 DEF SendAck, Typed
  <2> QED BY <1>7, <2>4, <2>5 DEF SendAck, ownerVars, ackVars, Quiet, OnLink, InOrder
<1> QED BY <1>2, <1>3, <1>4, <1>5, <1>6, <1>7

\* A step that takes packet pkt from the link to p.
Takes(p, pkt) ==
  /\ pkt \in OnLink(p)
  /\ OnLink(p)' \subseteq OnLink(p)
  /\ InOrder(toPeer[p]) => InOrder(toPeer[p])'
  /\ InOrder(toPeer[p]) /\ p \notin Reordered =>
       \A q \in OnLink(p)' :
         pkt.state <= q.state /\ (q.state = pkt.state => q.seq # pkt.seq)
  /\ \A o \in Peer \ {p} : toPeer'[o] = toPeer[o]

LEMMA TakeTakes ==
  ASSUME Typed, NEW p \in Peer, NEW i \in Arriving(p), Take(p, i)
  PROVE  Takes(p, toPeer[p][i])
<1>1. toPeer[p] \in Link /\ i \in DOMAIN toPeer[p]
  BY DEF Arriving, Typed
<1>2. toPeer'[p] = Without(toPeer[p], i) /\ \A o \in Peer \ {p} : toPeer'[o] = toPeer[o]
  BY DEF Take, Typed
<1>3. p \notin Reordered => \A j \in 1..i : toPeer[p][j].state = toPeer[p][i].state
  BY DEF Arriving
<1>4. toPeer[p][i] \in Entries(toPeer[p])
  BY <1>1 DEF Entries
<1> QED BY <1>1, <1>2, <1>3, <1>4, WithoutEntries DEF Takes, OnLink

LEMMA LoseQuiet ==
  ASSUME Typed, NEW p \in Peer, LosePacket(p)
  PROVE  Quiet
<1>1. PICK i \in Arriving(p) : Take(p, i)
  BY DEF LosePacket
<1>2. Takes(p, toPeer[p][i])
  BY <1>1, TakeTakes
<1>3. UNCHANGED <<ownerVars, ackVars, peerVars, toOwner>>
  BY DEF LosePacket
<1>4. \A o \in Peer : /\ OnLink(o)' \subseteq OnLink(o)
                      /\ InOrder(toPeer[o]) => InOrder(toPeer[o])'
  <2> TAKE o \in Peer
  <2>1. CASE o = p
    BY <1>2, <2>1 DEF Takes
  <2>2. CASE o # p
    BY <1>2, <2>2 DEF Takes, OnLink, InOrder
  <2> QED BY <2>1, <2>2
<1> QED BY <1>3, <1>4 DEF Quiet, ownerVars, ackVars, peerVars, AckedBy

\* A step in which p reads packet pkt.
Shows(p, pkt) ==
  IF Cockup(p, pkt) THEN UNCHANGED <<held, ackOut>>
  ELSE /\ \E cut \in Cuts(p, pkt) :
            held' = [held EXCEPT ![p] = [e \in Element |-> CopyAfter(@[e], pkt, e, cut)]]
       /\ ackOut' = [ackOut EXCEPT ![p] = AckAfter(p, pkt)]
Reads(p, pkt) ==
  /\ ~Misreads(p, pkt) /\ p \notin failed
  /\ Bookkeeping(p, pkt)
  /\ failed' = IF Cockup(p, pkt) THEN failed \cup {p} ELSE failed
  /\ Shows(p, pkt)
  /\ UNCHANGED <<ownerVars, ackVars, subscribed, toOwner>>

LEMMA ReceiveReads ==
  ASSUME Typed, NEW p \in Peer, ReceiveGameState(p)
  PROVE  \E pkt \in GameState : Takes(p, pkt) /\ Reads(p, pkt)
<1>1. PICK i \in Arriving(p) : LET pkt == toPeer[p][i] IN
         /\ ~Misreads(p, pkt)
         /\ Take(p, i)
         /\ Bookkeeping(p, pkt)
         /\ failed' = IF Cockup(p, pkt) THEN failed \cup {p} ELSE failed
         /\ IF Cockup(p, pkt) THEN UNCHANGED <<held, ackOut>>
            ELSE /\ \E cut \in Cuts(p, pkt) :
                      held' = [held EXCEPT ![p] =
                                 [e \in Element |-> CopyAfter(@[e], pkt, e, cut)]]
                 /\ ackOut' = [ackOut EXCEPT ![p] = AckAfter(p, pkt)]
  BY DEF ReceiveGameState
<1>2. toPeer[p][i] \in GameState /\ Takes(p, toPeer[p][i])
  BY <1>1, TakeTyped, TakeTakes
<1>3. Shows(p, toPeer[p][i])
  BY <1>1, Zenon DEF Shows
<1>4. Reads(p, toPeer[p][i])
  BY <1>1, <1>3 DEF Reads, ReceiveGameState
<1> QED BY <1>2, <1>4

LEMMA MisreadTakes ==
  ASSUME Typed, NEW p \in Peer, Misread(p)
  PROVE  \E pkt \in GameState :
           /\ Takes(p, pkt) /\ Bookkeeping(p, pkt) /\ Misreads(p, pkt)
           /\ ackOut' = ackOut \/ ackOut' = [ackOut EXCEPT ![p] = AckAfter(p, pkt)]
           /\ \A o \in Peer \ {p} : held'[o] = held[o]
           /\ failed' \subseteq failed \cup {p}
           /\ UNCHANGED <<ownerVars, ackVars, subscribed, toOwner>>
<1>1. PICK i \in Arriving(p) : LET pkt == toPeer[p][i] IN
         /\ Misreads(p, pkt)
         /\ Take(p, i)
         /\ Bookkeeping(p, pkt)
         /\ \/ /\ failed' = failed \cup {p}
               /\ UNCHANGED <<held, ackOut>>
            \/ /\ \E e \in Element :
                    /\ held[p][e] # <<>>
                    /\ held' = [held EXCEPT ![p][e] =
                                  Inserted(@, [time |-> pkt.state, val |-> Blank])]
               /\ ackOut' = [ackOut EXCEPT ![p] = AckAfter(p, pkt)]
               /\ UNCHANGED failed
  BY DEF Misread
<1> DEFINE pkt == toPeer[p][i]
<1>2. pkt \in GameState /\ Takes(p, pkt)
  BY <1>1, TakeTyped, TakeTakes
<1>3. \A o \in Peer \ {p} : held'[o] = held[o]
  <2>1. CASE UNCHANGED held
    BY <2>1
  <2>2. CASE \E e \in Element :
               held' = [held EXCEPT ![p][e] = Inserted(@, [time |-> pkt.state, val |-> Blank])]
    BY <2>2 DEF Typed
  <2> QED BY <1>1, <2>1, <2>2
<1>4. failed' \subseteq failed \cup {p}
  BY <1>1
<1>5. UNCHANGED <<ownerVars, ackVars, subscribed, toOwner>>
  BY DEF Misread
<1>6. /\ Bookkeeping(p, pkt) /\ Misreads(p, pkt)
      /\ ackOut' = ackOut \/ ackOut' = [ackOut EXCEPT ![p] = AckAfter(p, pkt)]
  BY <1>1
<1> HIDE DEF pkt
<1> QED BY <1>2, <1>3, <1>4, <1>5, <1>6

\* The steps of the system, as the invariants see them.
LEMMA StepIs ==
  ASSUME Typed, [Next]_vars
  PROVE  \/ Quiet
         \/ \E e \in Element : RegisterElement(e) \/ RemoveElement(e)
         \/ SendGameState \/ SkipGameState
         \/ \E p \in Peer : ReceiveGameState(p) \/ Misread(p)
<1>1. CASE UNCHANGED vars
  BY <1>1 DEF Quiet, vars, ownerVars, ackVars, peerVars, netVars, AckedBy, OnLink, InOrder
<1>2. CASE Next
  BY <1>2, AckStepsQuiet, LoseQuiet DEF Next
<1> QED BY <1>1, <1>2

\* A frame goes on the link of every peer of the zone, behind the others.
Fragment(body, w, n, i) == Packets(body, w, n)[i]

LEMMA FragmentIs ==
  ASSUME NEW body, NEW n \in 1..MaxFragments, NEW w, NEW i \in 1..n
  PROVE  /\ Fragment(body, w, n, i).state = Now /\ Fragment(body, w, n, i).seq = i - 1
         /\ Fragment(body, w, n, i).final <=> i = n
         /\ Fragment(body, w, n, i).basis = Basis
BY DEF Fragment, Packets

Destroys == {[kind |-> "destroy", id |-> x.id, val |-> NoFields] : x \in entities}

LEMMA FragmentHolds ==
  ASSUME NEW body, NEW n \in 1..MaxFragments, NEW w, NEW i \in 1..n
  PROVE  Fragment(body, w, n, i).items =
           {x \in body : w[x] = i - 1} \cup (IF i < n THEN {} ELSE Destroys)
BY DEF Fragment, Packets, Destroys

LEMMA JoinedLinks ==
  ASSUME NEW s \in Link, NEW t \in Link
  PROVE  /\ Entries(s \o t) = Entries(s) \cup Entries(t)
         /\ InOrder(s) /\ InOrder(t) /\ (\A q \in Entries(s), r \in Entries(t) : q.state < r.state)
              => InOrder(s \o t)
<1> DEFINE u == s \o t
           at(i) == i - Len(s)
<1>1. /\ Len(s) \in Nat /\ DOMAIN s = 1..Len(s) /\ \A i \in 1..Len(s) : s[i] \in GameState
      /\ Len(t) \in Nat /\ DOMAIN t = 1..Len(t) /\ \A i \in 1..Len(t) : t[i] \in GameState
  BY DEF Link
<1>2. /\ u \in Seq(GameState) /\ Len(u) = Len(s) + Len(t)
      /\ \A i \in 1..(Len(s) + Len(t)) : u[i] = IF i <= Len(s) THEN s[i] ELSE t[i - Len(s)]
  BY ConcatProperties DEF Link
<1> HIDE DEF u
<1>3. DOMAIN u = 1..(Len(s) + Len(t))
  BY <1>2
<1>4. \A i \in DOMAIN s : i \in DOMAIN u /\ u[i] = s[i]
  BY <1>1, <1>2, <1>3
<1>5. \A i \in DOMAIN u : i \notin DOMAIN s => at(i) \in DOMAIN t /\ u[i] = t[at(i)]
  BY <1>1, <1>2, <1>3
<1>6. \A i \in DOMAIN t : \E j \in DOMAIN u : u[j] = t[i]
  <2> TAKE i \in DOMAIN t
  <2>1. Len(s) + i \in 1..(Len(s) + Len(t)) /\ ~(Len(s) + i <= Len(s)) /\ Len(s) + i - Len(s) = i
    BY <1>1
  <2> QED BY <2>1, <1>2, <1>3
<1>7. \A i, j \in DOMAIN u : i < j /\ j \in DOMAIN s => i \in DOMAIN s
  BY <1>1, <1>3
<1>8. \A i, j \in DOMAIN u : i < j => at(i) < at(j)
  BY <1>1, <1>3
<1> HIDE DEF at
<1>9. Entries(u) = Entries(s) \cup Entries(t)
  <2>1. \A x : x \in Entries(u) => x \in Entries(s) \/ x \in Entries(t)
    BY <1>4, <1>5 DEF Entries
  <2>2. \A x : x \in Entries(s) => x \in Entries(u)
    BY <1>4 DEF Entries
  <2>3. \A x : x \in Entries(t) => x \in Entries(u)
    BY <1>6 DEF Entries
  <2> QED BY <2>1, <2>2, <2>3
<1>10. ASSUME InOrder(s), InOrder(t), \A q \in Entries(s), r \in Entries(t) : q.state < r.state
       PROVE  InOrder(u)
  <2> SUFFICES ASSUME NEW i \in DOMAIN u, NEW j \in DOMAIN u, i < j
               PROVE  u[i].state <= u[j].state /\ (u[i].state = u[j].state => u[i].seq # u[j].seq)
    BY DEF InOrder
  <2>1. CASE j \in DOMAIN s
    <3>1. i \in DOMAIN s /\ u[i] = s[i] /\ u[j] = s[j]
      BY <2>1, <1>4, <1>7
    <3>2. s[i].state <= s[j].state /\ (s[i].state = s[j].state => s[i].seq # s[j].seq)
      BY <2>1, <3>1, <1>10 DEF InOrder
    <3> QED BY <3>1, <3>2
  <2>2. CASE i \in DOMAIN s /\ j \notin DOMAIN s
    <3>1. u[i] \in Entries(s) /\ u[j] \in Entries(t)
      BY <2>2, <1>4, <1>5 DEF Entries
    <3>2. u[i].state < u[j].state
      BY <3>1, <1>10
    <3>3. u[i].state \in Int /\ u[j].state \in Int
      <4>1. u[i] \in GameState /\ u[j] \in GameState
        BY <1>2, <1>3
      <4> QED BY <4>1, PacketIs
    <3> QED BY <3>2, <3>3
  <2>3. CASE i \notin DOMAIN s
    <3>1. j \notin DOMAIN s /\ at(i) \in DOMAIN t /\ at(j) \in DOMAIN t /\ at(i) < at(j)
          /\ u[i] = t[at(i)] /\ u[j] = t[at(j)]
      BY <2>3, <1>5, <1>7, <1>8
    <3>2. t[at(i)].state <= t[at(j)].state /\ (t[at(i)].state = t[at(j)].state => t[at(i)].seq # t[at(j)].seq)
      BY <3>1, <1>10 DEF InOrder
    <3> QED BY <3>1, <3>2
  <2> QED BY <2>1, <2>2, <2>3
<1> QED BY <1>9, <1>10 DEF u

LEMMA SendLinks ==
  ASSUME Typed, NEW change \in [elements -> SUBSET Field], NEW n \in 1..MaxFragments, NEW w,
         Sends(change, n, w)
  PROVE  /\ \A p \in zonePeers :
              /\ OnLink(p)' = OnLink(p) \cup {Fragment(Body(Kept(change)), w, n, i) : i \in 1..n}
              /\ InOrder(toPeer[p]) /\ (\A q \in OnLink(p) : q.state < Now) => InOrder(toPeer[p])'
         /\ \A p \in Peer \ zonePeers : toPeer'[p] = toPeer[p]
<1> DEFINE body == Body(Kept(change))
           new == Packets(body, w, n)
<1>1. toPeer' = [p \in Peer |-> IF p \in zonePeers THEN toPeer[p] \o new ELSE toPeer[p]]
  BY DEF Sends, Frames
<1>2. Now \in Time /\ Basis \in Time
  BY NowIsTime, BasisIsTime, BoundAssumption DEF Typed
<1>3. new \in Link /\ Len(new) = n
  <2>1. \A x \in entities : x.id \in Element
    BY DEF Typed, Removals
  <2> QED BY <1>2, <2>1, KeptType, PacketsType
<1>4. n \in Nat /\ Now \in Int
  BY <1>2 DEF Time
<1>5. \A i \in 1..n : new[i] = Fragment(body, w, n, i)
  BY DEF Fragment
<1> HIDE DEF new, body
<1>6. \A i \in 1..n : new[i].state = Now /\ new[i].seq = i - 1
  <2> TAKE i \in 1..n
  <2>1. Fragment(body, w, n, i).state = Now /\ Fragment(body, w, n, i).seq = i - 1
    BY FragmentIs
  <2> QED BY <2>1, <1>5
<1>7. DOMAIN new = 1..n
  BY <1>3 DEF Link
<1>8. Entries(new) = {Fragment(body, w, n, i) : i \in 1..n} /\ \A q \in Entries(new) : q.state = Now
  BY <1>5, <1>6, <1>7 DEF Entries
<1>9. InOrder(new)
  <2>1. \A i \in 1..n : i \in Int
    OBVIOUS
  <2> QED BY <1>4, <1>6, <1>7, <2>1 DEF InOrder
<1>10. ASSUME NEW p \in zonePeers
       PROVE  /\ OnLink(p)' = OnLink(p) \cup {Fragment(body, w, n, i) : i \in 1..n}
              /\ InOrder(toPeer[p]) /\ (\A q \in OnLink(p) : q.state < Now) => InOrder(toPeer[p])'
  <2>1. p \in Peer /\ toPeer[p] \in Link
    BY DEF Typed
  <2>2. toPeer'[p] = toPeer[p] \o new
    BY <1>1, <2>1
  <2>3. Entries(toPeer[p] \o new) = Entries(toPeer[p]) \cup Entries(new)
    BY <2>1, <1>3, JoinedLinks
  <2>4. InOrder(toPeer[p]) /\ (\A q \in Entries(toPeer[p]) : q.state < Now) => InOrder(toPeer[p] \o new)
    BY <2>1, <1>3, <1>8, <1>9, JoinedLinks
  <2>5. InOrder(toPeer[p])' <=> InOrder(toPeer[p] \o new)
    BY <2>2 DEF InOrder
  <2> QED BY <1>8, <2>2, <2>3, <2>4, <2>5 DEF OnLink
<1>11. \A p \in Peer \ zonePeers : toPeer'[p] = toPeer[p]
  BY <1>1
<1> QED BY <1>10, <1>11 DEF body

-----------------------------------------------------------------------------
(* The owner's invariant, a step at a time.                                *)

LEMMA KeptUnbroken ==
  ASSUME ClockLasts, Typed, OwnerInv, NEW change \in [elements -> SUBSET Field],
         NEW e \in elements, NEW s, s \in {StatesNow(change)[e], Kept(change)[e]}
  PROVE  /\ s \in OwnStates /\ s # <<>> /\ Unbroken(s) /\ Final(s).time = tick
         /\ syncs[e][1].time <= s[1].time
<1> DEFINE v == StatesNow(change)[e]
<1>1. syncs[e] \in OwnStates /\ syncs[e] # <<>> /\ e \in Element
  BY DEF Typed
<1>2. PICK val \in [Field -> Value] : v = Attached(syncs[e], val)
  BY <1>1, StatesNowType
<1>3. Unbroken(syncs[e]) /\ Final(syncs[e]).time \in {tick - 1, tick}
  BY DEF OwnerInv
<1>4. /\ v \in OwnStates /\ v # <<>> /\ Unbroken(v) /\ Final(v).time = tick
      /\ v[1] = syncs[e][1]
  BY <1>1, <1>2, <1>3, AttachedUnbroken
<1>5. Kept(change)[e] = Disposed(v, LastBasis)
  BY <1>1 DEF Kept
<1> HIDE DEF v
<1>6. /\ Disposed(v, LastBasis) \in OwnStates /\ Disposed(v, LastBasis) # <<>>
      /\ Unbroken(Disposed(v, LastBasis)) /\ Final(Disposed(v, LastBasis)) = Final(v)
      /\ v[1].time <= Disposed(v, LastBasis)[1].time
  BY <1>4, DisposedUnbroken
<1>7. v[1].time \in Int
  BY <1>4, StatesAre
<1> QED BY <1>4, <1>5, <1>6, <1>7 DEF v

LEMMA OwnerStep ==
  ASSUME ClockLasts, Typed, OwnerInv, [Next]_vars
  PROVE  OwnerInv'
<1>1. tick \in Nat /\ tick >= 1 /\ Now = tick
  BY NowIsTick
<1>2. CASE Quiet
  BY <1>2 DEF Quiet, OwnerInv
<1>3. ASSUME NEW e \in Element, RegisterElement(e)
      PROVE  OwnerInv'
  <2> DEFINE first == <<[time |-> Now, val |-> [f \in Field |-> 0]]>>
  <2>1. Unbroken(first) /\ Final(first).time = tick
    BY <1>1 DEF Unbroken, Final
  <2>2. /\ elements' = elements \cup {e} /\ tick' = tick
        /\ \A d \in Element : syncs'[d] = IF d = e THEN first ELSE syncs[d]
    BY <1>3 DEF RegisterElement, Typed
  <2> HIDE DEF first
  <2> QED BY <2>1, <2>2 DEF OwnerInv, Typed
<1>4. ASSUME NEW e \in Element, RemoveElement(e)
      PROVE  OwnerInv'
  <2>1. /\ elements' = elements \ {e} /\ tick' = tick
        /\ \A d \in Element \ {e} : syncs'[d] = syncs[d]
    BY <1>4 DEF RemoveElement, Typed
  <2> QED BY <2>1 DEF OwnerInv, Typed
<1>5. ASSUME NEW change \in [elements -> SUBSET Field], tick' = tick + 1, elements' = elements,
             syncs' \in {StatesNow(change), Kept(change)}
      PROVE  OwnerInv'
  <2>1. \A e \in elements : Unbroken(syncs'[e]) /\ Final(syncs'[e]).time = tick
    BY <1>5, KeptUnbroken
  <2> QED BY <1>1, <1>5, <2>1 DEF OwnerInv
<1>6. CASE SendGameState
  <2>1. PICK change \in [elements -> SUBSET Field], n \in 1..MaxFragments :
          \E w \in Splits(Body(Kept(change)), n) : Sends(change, n, w)
    BY <1>6, SendIs
  <2> QED BY <1>5, <2>1 DEF Sends
<1>7. CASE SkipGameState
  BY <1>5, <1>7 DEF SkipGameState
<1>8. ASSUME NEW p \in Peer, ReceiveGameState(p) \/ Misread(p)
      PROVE  OwnerInv'
  BY <1>8 DEF ReceiveGameState, Misread, ownerVars, OwnerInv
<1> QED BY <1>2, <1>3, <1>4, <1>6, <1>7, <1>8, StepIs

-----------------------------------------------------------------------------
(* What was sent or acknowledged is of a frame before this one.            *)

PastInv == \A p \in Peer :
  /\ state[p] < tick
  /\ \A t \in AckedBy(p) : 1 <= t /\ t < tick
  /\ \A q \in OnLink(p) : 1 <= q.state /\ q.state < tick

LEMMA Types ==
  ASSUME Typed, NEW p \in Peer
  PROVE  /\ AckedBy(p) \subseteq Time /\ OnLink(p) \subseteq GameState /\ state[p] \in Time
         /\ \A t \in Time : t \in Int
<1>1. OnLink(p) \subseteq GameState
  BY EntriesAre DEF Typed, Link, OnLink
<1>2. Entries(toOwner[p]) \subseteq Time
  BY EntriesAre DEF Typed, AckLink
<1>3. ackOut[p] \subseteq Time
  BY DEF Typed, AckSets
<1> QED BY <1>1, <1>2, <1>3 DEF Typed, AckedBy, Time

\* The acknowledgement a packet leaves is the old one or that of its frame.
LEMMA AckAfterIs ==
  ASSUME Typed, NEW p \in Peer, NEW pkt \in GameState
  PROVE  /\ AckAfter(p, pkt) \subseteq ackOut[p] \cup {pkt.state}
         /\ Complete(p, pkt) /\ (\A t \in ackOut[p] : t <= pkt.state) => AckAfter(p, pkt) = {pkt.state}
         /\ ~Complete(p, pkt) => AckAfter(p, pkt) = ackOut[p]
<1>1. ackOut[p] \in AckSets /\ pkt.state \in Time /\ ackOut[p] \cup {pkt.state} \subseteq Time
  BY PacketIs DEF Typed, AckSets
<1>2. Latest(ackOut[p] \cup {pkt.state}) \in ackOut[p] \cup {pkt.state}
  BY <1>1, LatestOf
<1>3. (\A t \in ackOut[p] : t <= pkt.state) => Latest(ackOut[p] \cup {pkt.state}) = pkt.state
  <2>1. CASE ackOut[p] = {}
    BY <1>1, <2>1, LatestOfTwo DEF AckSets
  <2>2. CASE ackOut[p] # {}
    BY <1>1, <2>2, LatestOfTwo DEF AckSets
  <2> QED BY <2>1, <2>2
<1> QED BY <1>2, <1>3 DEF AckAfter

LEMMA PastStep ==
  ASSUME ClockLasts, Typed, PastInv, [Next]_vars
  PROVE  PastInv'
<1>1. tick \in Nat /\ tick >= 1 /\ Now = tick /\ Typed'
  BY NowIsTick, TypedStep
<1>2. CASE Quiet
  BY <1>2 DEF Quiet, PastInv
<1>3. ASSUME NEW e \in Element, RegisterElement(e) \/ RemoveElement(e)
      PROVE  PastInv'
  BY <1>3 DEF RegisterElement, RemoveElement, ackVars, peerVars, netVars, PastInv, AckedBy, OnLink
<1>4. CASE SkipGameState
  <2>1. /\ tick' = tick + 1 /\ state' = state
        /\ \A p \in Peer : AckedBy(p)' = AckedBy(p) /\ OnLink(p)' = OnLink(p)
    BY <1>4 DEF SkipGameState, ackVars, peerVars, netVars, AckedBy, OnLink
  <2>2. ASSUME NEW p \in Peer
        PROVE  /\ state'[p] < tick + 1
               /\ \A t \in AckedBy(p) : 1 <= t /\ t < tick + 1
               /\ \A q \in OnLink(p) : 1 <= q.state /\ q.state < tick + 1
    <3>1. /\ state[p] \in Int /\ \A t \in AckedBy(p) : t \in Int
          /\ \A q \in OnLink(p) : q.state \in Int
      BY Types, PacketIs
    <3> QED BY <2>1, <3>1, <1>1 DEF PastInv
  <2> QED BY <2>1, <2>2 DEF PastInv
<1>5. CASE SendGameState
  <2>1. PICK change \in [elements -> SUBSET Field], n \in 1..MaxFragments :
          \E w \in Splits(Body(Kept(change)), n) : Sends(change, n, w)
    BY <1>5, SendIs
  <2>2. PICK w \in Splits(Body(Kept(change)), n) : Sends(change, n, w)
    BY <2>1
  <2>3. tick' = tick + 1 /\ state' = state
    BY <2>2 DEF Sends, peerVars
  <2>4. \A p \in Peer : AckedBy(p)' \subseteq AckedBy(p)
    <3>1. /\ ackOut' = ackOut /\ toOwner' = toOwner
          /\ \A p \in Peer : acks'[p] = IF p \in zonePeers THEN Trimmed(acks[p]) ELSE {}
      BY <2>2 DEF Sends, peerVars
    <3>2. \A p \in Peer : Trimmed(acks[p]) \subseteq acks[p]
      BY TrimmedIsPart DEF Typed
    <3> QED BY <3>1, <3>2 DEF AckedBy
  <2>5. ASSUME NEW p \in Peer, NEW q \in OnLink(p)'
        PROVE  q \in OnLink(p) \/ q.state = tick
    <3>1. CASE p \in zonePeers
      <4>1. OnLink(p)' = OnLink(p) \cup {Fragment(Body(Kept(change)), w, n, i) : i \in 1..n}
        BY <2>2, <3>1, SendLinks
      <4>2. \A i \in 1..n : Fragment(Body(Kept(change)), w, n, i).state = tick
        BY <1>1, FragmentIs
      <4> QED BY <4>1, <4>2, <2>5
    <3>2. CASE p \notin zonePeers
      BY <2>2, <2>5, <3>2, SendLinks DEF OnLink
    <3> QED BY <3>1, <3>2
  <2>6. ASSUME NEW p \in Peer
        PROVE  /\ state'[p] < tick + 1
               /\ \A t \in AckedBy(p)' : 1 <= t /\ t < tick + 1
               /\ \A q \in OnLink(p)' : 1 <= q.state /\ q.state < tick + 1
    <3>1. /\ state[p] \in Int /\ \A t \in AckedBy(p) : t \in Int
          /\ \A q \in OnLink(p) : q.state \in Int
      BY Types, PacketIs
    <3> QED BY <2>3, <2>4, <2>5, <3>1, <1>1 DEF PastInv
  <2> QED BY <2>3, <2>6 DEF PastInv
<1>6. ASSUME NEW p \in Peer, NEW pkt \in GameState, Takes(p, pkt), Bookkeeping(p, pkt),
             tick' = tick, UNCHANGED <<acks, toOwner>>,
             ackOut' = ackOut \/ ackOut' = [ackOut EXCEPT ![p] = AckAfter(p, pkt)]
      PROVE  PastInv'
  <2>1. 1 <= pkt.state /\ pkt.state < tick
    BY <1>6 DEF Takes, PastInv
  <2>2. \A o \in Peer : state'[o] = state[o] \/ state'[o] = pkt.state
    BY <1>6 DEF Bookkeeping, StateAfter, Typed
  <2>3. \A o \in Peer : ackOut'[o] = ackOut[o] \/ ackOut'[o] \subseteq ackOut[o] \cup {pkt.state}
    <3>1. AckAfter(p, pkt) \subseteq ackOut[p] \cup {pkt.state}
      BY AckAfterIs
    <3>2. CASE ackOut' = ackOut
      BY <3>2
    <3>3. CASE ackOut' = [ackOut EXCEPT ![p] = AckAfter(p, pkt)]
      <4>1. \A o \in Peer : ackOut'[o] = IF o = p THEN AckAfter(p, pkt) ELSE ackOut[o]
        BY <3>3 DEF Typed
      <4> QED BY <3>1, <4>1
    <3> QED BY <1>6, <3>2, <3>3
  <2>4. \A o \in Peer : AckedBy(o)' \subseteq AckedBy(o) \cup {pkt.state}
    BY <1>6, <2>3 DEF AckedBy
  <2>5. \A o \in Peer : OnLink(o)' \subseteq OnLink(o)
    BY <1>6 DEF Takes, OnLink
  <2> QED BY <1>6, <2>1, <2>2, <2>4, <2>5 DEF PastInv
<1>7. ASSUME NEW p \in Peer, ReceiveGameState(p)
      PROVE  PastInv'
  <2>1. PICK pkt \in GameState : Takes(p, pkt) /\ Reads(p, pkt)
    BY <1>7, ReceiveReads
  <2>2. ackOut' = ackOut \/ ackOut' = [ackOut EXCEPT ![p] = AckAfter(p, pkt)]
    BY <2>1 DEF Reads, Shows
  <2>3. Bookkeeping(p, pkt) /\ tick' = tick /\ UNCHANGED <<acks, toOwner>>
    BY <2>1 DEF Reads, ownerVars, ackVars
  <2> QED BY <1>6, <2>1, <2>2, <2>3
<1>8. ASSUME NEW p \in Peer, Misread(p)
      PROVE  PastInv'
  <2>1. PICK pkt \in GameState :
           /\ Takes(p, pkt) /\ Bookkeeping(p, pkt)
           /\ ackOut' = ackOut \/ ackOut' = [ackOut EXCEPT ![p] = AckAfter(p, pkt)]
           /\ UNCHANGED <<ownerVars, ackVars, toOwner>>
    BY <1>8, MisreadTakes
  <2> QED BY <1>6, <2>1 DEF ownerVars, ackVars
<1> QED BY <1>2, <1>3, <1>4, <1>5, <1>7, <1>8, StepIs

-----------------------------------------------------------------------------
(* The basis.                                                              *)

\* A basis that is older than this frame was acknowledged by every peer; it
\* is a true past frame, less than half the circle ago.
LEMMA BasisIs ==
  ASSUME ClockLasts, Typed, PastInv, Older(Basis, Now)
  PROVE  /\ Basis \in Combined /\ Basis \in Time /\ 1 <= Basis /\ Basis < tick
         /\ 2 * (tick - Basis) <= TimeMod
         /\ \A p \in zonePeers : Basis \in acks[p]
<1>1. /\ tick \in Nat /\ tick >= 1 /\ Now = tick /\ Now \in Time
  BY NowIsTick, NowIsTime
<1>2. /\ Basis \in Time /\ (Basis # Now => Basis \in Combined)
      /\ \A p \in zonePeers : Combined \subseteq acks[p]
  BY <1>1, BasisIsTime DEF Typed
<1>3. Basis # Now
  BY <1>1, OlderIs, TimeAssumption
<1>4. Basis \in Combined
  BY <1>2, <1>3
<1>5. \E p \in zonePeers : Basis \in acks[p]
  BY <1>4 DEF Combined
<1>6. 1 <= Basis /\ Basis < tick
  BY <1>5 DEF PastInv, AckedBy, Typed
<1>7. Basis \in Int /\ tick \in Int
  BY <1>1, <1>2 DEF Time
<1>8. 2 * (tick - Basis) <= TimeMod
  BY <1>1, <1>2, <1>6, <1>7, OlderIs
<1> QED BY <1>2, <1>4, <1>6, <1>8

\* An element that is sent as a delta has a state of the basis.
LEMMA DeltaHasBasis ==
  ASSUME ClockLasts, Typed, PastInv, NEW e \in elements, NEW s \in OwnStates, s # <<>>,
         Unbroken(s), Final(s).time \in {tick - 1, tick}, SendsDelta(e, s)
  PROVE  s[1].time <= Basis /\ HasSyncAt(s, Basis)
<1>1. tick \in Nat /\ tick >= 1 /\ Now = tick /\ Now \in Time
  BY NowIsTick, NowIsTime
<1>2. /\ Len(s) \in Nat /\ DOMAIN s = 1..Len(s) /\ Len(s) >= 1
      /\ s[1].time \in Time /\ s[1].time \in Int
  BY StatesAre
<1>3. Older(Basis, Now) /\ ~Older(Basis, s[1].time)
  BY DEF SendsDelta
<1>4. Basis \in Time /\ Basis \in Int /\ 1 <= Basis /\ Basis < tick /\ 2 * (tick - Basis) <= TimeMod
  BY <1>3, BasisIs DEF Time
<1>5. \A i \in 1..Len(s) : s[i].time = s[1].time + (i - 1)
  BY <1>2 DEF Unbroken
<1>6. s[1].time + (Len(s) - 1) \in {tick - 1, tick}
  BY <1>2, <1>5 DEF Final
<1>7. s[1].time <= Basis
  <2> SUFFICES ASSUME ~(s[1].time <= Basis) PROVE FALSE
    OBVIOUS
  <2>1. s[1].time <= tick
    BY <1>1, <1>2, <1>6
  <2>2. ~(2 * (s[1].time - Basis) <= TimeMod)
    BY <1>2, <1>3, <1>4, OlderIs
  <2>3. TimeMod \in Int
    BY TimeAssumption
  <2> QED BY <2>1, <2>2, <2>3, <1>1, <1>2, <1>4
<1>8. Basis - s[1].time + 1 \in 1..Len(s)
  BY <1>1, <1>2, <1>4, <1>6, <1>7
<1>9. s[Basis - s[1].time + 1].time = Basis
  BY <1>2, <1>4, <1>5, <1>8
<1>10. s[Basis - s[1].time + 1] \in Entries(s)
  BY <1>2, <1>8 DEF Entries
<1> QED BY <1>7, <1>9, <1>10 DEF HasSyncAt

LEMMA OwnerPastInit == Init => OwnerInv /\ PastInv
<1> SUFFICES ASSUME Init PROVE OwnerInv /\ PastInv
  OBVIOUS
<1>1. \A p \in Peer : AckedBy(p) = {} /\ OnLink(p) = {}
  BY DEF Init, AckedBy, OnLink, Entries
<1> QED BY <1>1 DEF Init, OwnerInv, PastInv

\* "sync not found" never fires: as long as the frame number has not wrapped,
\* the owner still keeps the state of the basis of every element it sends as a
\* delta, however far back the acknowledgements of the slowest peer are and
\* whatever was disposed of.
THEOREM BasisStaysKept ==
  ASSUME ClockLasts
  PROVE  Spec => []BasisIsKept
<1>1. Init => Typed /\ OwnerInv /\ PastInv
  BY TypedInit, OwnerPastInit
<1>2. Typed /\ OwnerInv /\ PastInv /\ [Next]_vars => (Typed /\ OwnerInv /\ PastInv)'
  BY TypedStep, OwnerStep, PastStep
<1>3. Typed /\ OwnerInv /\ PastInv => BasisIsKept
  BY DeltaHasBasis DEF Typed, OwnerInv, BasisIsKept
<1> QED BY <1>1, <1>2, <1>3, PTL DEF Spec

-----------------------------------------------------------------------------
(* Links in order: a peer to which packets come in the order of the frames *)
(* reads every fragment for the first time, and never one of a frame that  *)
(* is older than the last it saw.                                          *)

LinkInv ==
  /\ \A p \in Peer : InOrder(toPeer[p])
  /\ \A p \in Peer \ Reordered :
       /\ \A q \in OnLink(p) : /\ state[p] <= q.state
                               /\ q.state = state[p] => q.seq \notin mask[p]
       /\ \A t \in AckedBy(p) : t <= state[p]

LEMMA FirstCopies ==
  ASSUME Typed, LinkInv, NEW p \in Peer \ Reordered, NEW pkt \in OnLink(p)
  PROVE  /\ FirstCopy(p, pkt) /\ ~Misreads(p, pkt)
         /\ StateAfter(p, pkt) = pkt.state /\ state[p] <= pkt.state
         /\ Newer(p, pkt) <=> pkt.state # state[p]
<1>1. pkt \in GameState /\ pkt.state \in Int /\ state[p] \in Int
  BY Types, PacketIs
<1>2. state[p] <= pkt.state /\ (pkt.state = state[p] => pkt.seq \notin mask[p])
  BY DEF LinkInv
<1>3. StateAfter(p, pkt) = pkt.state /\ (Newer(p, pkt) <=> pkt.state # state[p])
  BY <1>1, <1>2 DEF StateAfter, Newer
<1>4. FirstCopy(p, pkt)
  BY <1>1, <1>2, <1>3 DEF FirstCopy, MaskBefore, Newer
<1> QED BY <1>2, <1>3, <1>4 DEF Misreads

\* What the step of a packet does to its peer's bookkeeping.
LEMMA ReadIs ==
  ASSUME Typed, NEW p \in Peer, NEW pkt \in GameState, Reads(p, pkt)
  PROVE  /\ state'[p] = StateAfter(p, pkt) /\ mask'[p] = MaskAfter(p, pkt)
         /\ expected'[p] = ExpectedAfter(p, pkt)
         /\ ackOut'[p] = ackOut[p] \/ ackOut'[p] = AckAfter(p, pkt)
         /\ \A o \in Peer \ {p} : /\ state'[o] = state[o] /\ mask'[o] = mask[o]
                                  /\ expected'[o] = expected[o] /\ ackOut'[o] = ackOut[o]
                                  /\ held'[o] = held[o]
         /\ AckedBy(p)' \subseteq AckedBy(p) \cup {pkt.state}
         /\ \A o \in Peer \ {p} : AckedBy(o)' = AckedBy(o)
         /\ UNCHANGED <<ownerVars, ackVars, subscribed, toOwner>>
<1>1. /\ state'[p] = StateAfter(p, pkt) /\ mask'[p] = MaskAfter(p, pkt)
      /\ expected'[p] = ExpectedAfter(p, pkt)
      /\ \A o \in Peer \ {p} : /\ state'[o] = state[o] /\ mask'[o] = mask[o]
                               /\ expected'[o] = expected[o]
  BY DEF Reads, Bookkeeping, Typed
<1>2. /\ ackOut'[p] = ackOut[p] \/ ackOut'[p] = AckAfter(p, pkt)
      /\ \A o \in Peer \ {p} : ackOut'[o] = ackOut[o]
  <2>1. ackOut' = ackOut \/ ackOut' = [ackOut EXCEPT ![p] = AckAfter(p, pkt)]
    BY DEF Reads, Shows
  <2> QED BY <2>1 DEF Typed
<1>3. \A o \in Peer \ {p} : held'[o] = held[o]
  <2>1. held' = held \/ \E cut : held' = [held EXCEPT ![p] = [e \in Element |-> CopyAfter(@[e], pkt, e, cut)]]
    BY Zenon DEF Reads, Shows
  <2> QED BY <2>1 DEF Typed
<1>4. UNCHANGED <<ownerVars, ackVars, subscribed, toOwner>>
  BY DEF Reads
<1>5. AckedBy(p)' \subseteq AckedBy(p) \cup {pkt.state}
  <2>1. ackOut'[p] \subseteq ackOut[p] \cup {pkt.state}
    BY <1>2, AckAfterIs
  <2> QED BY <2>1, <1>4 DEF AckedBy, ackVars
<1>6. \A o \in Peer \ {p} : AckedBy(o)' = AckedBy(o)
  BY <1>2, <1>4 DEF AckedBy, ackVars
<1> QED BY <1>1, <1>2, <1>3, <1>4, <1>5, <1>6

LEMMA LinkStep ==
  ASSUME ClockLasts, Typed, PastInv, LinkInv, [Next]_vars
  PROVE  LinkInv'
<1>1. tick \in Nat /\ tick >= 1 /\ Now = tick
  BY NowIsTick
<1>2. CASE Quiet
  BY <1>2 DEF Quiet, LinkInv
<1>3. CASE \/ \E e \in Element : RegisterElement(e) \/ RemoveElement(e)
           \/ SkipGameState
  <2>1. UNCHANGED <<ackVars, peerVars, netVars>>
    BY <1>3 DEF RegisterElement, RemoveElement, SkipGameState
  <2> QED BY <2>1 DEF ackVars, peerVars, netVars, LinkInv, AckedBy, OnLink, InOrder
<1>4. CASE SendGameState
  <2>1. PICK change \in [elements -> SUBSET Field], n \in 1..MaxFragments :
          \E w \in Splits(Body(Kept(change)), n) : Sends(change, n, w)
    BY <1>4, SendIs
  <2>2. PICK w \in Splits(Body(Kept(change)), n) : Sends(change, n, w)
    BY <2>1
  <2>3. UNCHANGED <<state, mask, ackOut, toOwner>>
    BY <2>2 DEF Sends, peerVars
  <2>4. \A p \in Peer : AckedBy(p)' \subseteq AckedBy(p)
    <3>1. \A p \in Peer : acks'[p] = IF p \in zonePeers THEN Trimmed(acks[p]) ELSE {}
      BY <2>2 DEF Sends
    <3>2. \A p \in Peer : Trimmed(acks[p]) \subseteq acks[p]
      BY TrimmedIsPart DEF Typed
    <3> QED BY <2>3, <3>1, <3>2 DEF AckedBy
  <2>5. \A p \in Peer : InOrder(toPeer[p])'
    <3> TAKE p \in Peer
    <3>1. CASE p \in zonePeers
      BY <1>1, <2>2, <3>1, SendLinks DEF PastInv, LinkInv
    <3>2. CASE p \notin zonePeers
      <4>1. toPeer'[p] = toPeer[p]
        BY <2>2, <3>2, SendLinks
      <4> QED BY <4>1 DEF LinkInv, InOrder
    <3> QED BY <3>1, <3>2
  <2>6. ASSUME NEW p \in Peer, NEW q \in OnLink(p)'
        PROVE  q \in OnLink(p) \/ q.state = tick
    <3>1. CASE p \in zonePeers
      <4>1. OnLink(p)' = OnLink(p) \cup {Fragment(Body(Kept(change)), w, n, i) : i \in 1..n}
        BY <2>2, <3>1, SendLinks
      <4>2. \A i \in 1..n : Fragment(Body(Kept(change)), w, n, i).state = tick
        BY <1>1, FragmentIs
      <4> QED BY <4>1, <4>2, <2>6
    <3>2. CASE p \notin zonePeers
      BY <2>2, <2>6, <3>2, SendLinks DEF OnLink
    <3> QED BY <3>1, <3>2
  <2>7. \A p \in Peer : state[p] \in Int /\ state[p] < tick
    BY Types DEF PastInv
  <2> QED BY <1>1, <2>3, <2>4, <2>5, <2>6, <2>7 DEF LinkInv
<1>5. ASSUME NEW p \in Peer, ReceiveGameState(p)
      PROVE  LinkInv'
  <2>1. PICK pkt \in GameState : Takes(p, pkt) /\ Reads(p, pkt)
    BY <1>5, ReceiveReads
  <2>2. \A o \in Peer : InOrder(toPeer[o])'
    <3> TAKE o \in Peer
    <3>1. CASE o = p
      BY <2>1, <3>1 DEF Takes, LinkInv
    <3>2. CASE o # p
      BY <2>1, <3>2 DEF Takes, LinkInv, InOrder
    <3> QED BY <3>1, <3>2
  <2>3. ASSUME NEW o \in Peer \ Reordered, o # p
        PROVE  /\ \A q \in OnLink(o)' : /\ state'[o] <= q.state
                                        /\ q.state = state'[o] => q.seq \notin mask'[o]
               /\ \A t \in AckedBy(o)' : t <= state'[o]
    <3>1. OnLink(o)' = OnLink(o) /\ AckedBy(o)' = AckedBy(o) /\ state'[o] = state[o] /\ mask'[o] = mask[o]
      BY <2>1, <2>3, ReadIs DEF Takes, OnLink
    <3> QED BY <3>1 DEF LinkInv
  <2>4. ASSUME p \notin Reordered
        PROVE  /\ \A q \in OnLink(p)' : /\ state'[p] <= q.state
                                        /\ q.state = state'[p] => q.seq \notin mask'[p]
               /\ \A t \in AckedBy(p)' : t <= state'[p]
    <3>1. pkt \in OnLink(p) /\ FirstCopy(p, pkt) /\ StateAfter(p, pkt) = pkt.state
          /\ state[p] <= pkt.state /\ (Newer(p, pkt) <=> pkt.state # state[p])
      BY <2>1, <2>4, FirstCopies DEF Takes
    <3>2. /\ state'[p] = pkt.state /\ mask'[p] = MaskBefore(p, pkt) \cup {pkt.seq}
          /\ AckedBy(p)' \subseteq AckedBy(p) \cup {pkt.state}
      BY <2>1, <3>1, ReadIs DEF MaskAfter
    <3>3. ASSUME NEW q \in OnLink(p)'
          PROVE  pkt.state <= q.state /\ (q.state = pkt.state => q.seq \notin mask'[p])
      <4>1. q \in OnLink(p) /\ pkt.state <= q.state /\ (q.state = pkt.state => q.seq # pkt.seq)
        BY <2>1, <2>4, <3>3 DEF Takes, LinkInv
      <4>2. q.state = pkt.state => q.seq \notin MaskBefore(p, pkt)
        BY <2>4, <3>1, <4>1 DEF LinkInv, MaskBefore
      <4> QED BY <3>2, <4>1, <4>2
    <3>4. \A t \in AckedBy(p) : t <= pkt.state
      <4>1. \A t \in AckedBy(p) : t \in Int /\ t <= state[p]
        BY <2>4, Types DEF LinkInv
      <4>2. state[p] \in Int /\ pkt.state \in Int
        BY Types, PacketIs
      <4> QED BY <3>1, <4>1, <4>2
    <3>5. pkt.state <= pkt.state
      BY PacketIs
    <3> QED BY <3>2, <3>3, <3>4, <3>5
  <2> QED BY <2>2, <2>3, <2>4 DEF LinkInv
<1>6. ASSUME NEW p \in Peer, Misread(p)
      PROVE  LinkInv'
  <2>1. PICK pkt \in GameState :
           /\ Takes(p, pkt) /\ Bookkeeping(p, pkt) /\ Misreads(p, pkt)
           /\ ackOut' = ackOut \/ ackOut' = [ackOut EXCEPT ![p] = AckAfter(p, pkt)]
           /\ UNCHANGED <<ackVars, toOwner>>
    BY <1>6, MisreadTakes
  <2>2. p \in Reordered
    BY <2>1, FirstCopies DEF Takes
  <2>3. \A o \in Peer : InOrder(toPeer[o])'
    <3> TAKE o \in Peer
    <3>1. CASE o = p
      BY <2>1, <3>1 DEF Takes, LinkInv
    <3>2. CASE o # p
      BY <2>1, <3>2 DEF Takes, LinkInv, InOrder
    <3> QED BY <3>1, <3>2
  <2>4. \A o \in Peer \ {p} : /\ state'[o] = state[o] /\ mask'[o] = mask[o] /\ ackOut'[o] = ackOut[o]
                              /\ toPeer'[o] = toPeer[o]
    BY <2>1 DEF Bookkeeping, Takes, Typed
  <2>5. \A o \in Peer \ {p} : AckedBy(o)' = AckedBy(o) /\ OnLink(o)' = OnLink(o)
    BY <2>1, <2>4 DEF AckedBy, OnLink, ackVars
  <2> QED BY <2>2, <2>3, <2>4, <2>5 DEF LinkInv
<1> QED BY <1>2, <1>3, <1>4, <1>5, <1>6, StepIs

LEMMA LinkInit == Init => LinkInv
<1> SUFFICES ASSUME Init PROVE LinkInv
  OBVIOUS
<1>1. \A p \in Peer : AckedBy(p) = {} /\ OnLink(p) = {} /\ InOrder(toPeer[p])
  BY DEF Init, AckedBy, OnLink, Entries, InOrder
<1> QED BY <1>1 DEF LinkInv

LEMMA WholeStep ==
  ASSUME Typed, LinkInv, [Next]_vars, NEW p \in Peer \ Reordered
  PROVE  \/ ackOut'[p] \subseteq ackOut[p]
         \/ ackOut'[p] = {state'[p]} /\ mask'[p] = expected'[p]
<1>1. CASE Quiet
  BY <1>1 DEF Quiet
<1>2. CASE \/ \E e \in Element : RegisterElement(e) \/ RemoveElement(e)
           \/ SkipGameState \/ SendGameState
  BY <1>2 DEF RegisterElement, RemoveElement, SkipGameState, SendGameState, peerVars
<1>3. ASSUME NEW o \in Peer, ReceiveGameState(o)
      PROVE  \/ ackOut'[p] \subseteq ackOut[p]
             \/ ackOut'[p] = {state'[p]} /\ mask'[p] = expected'[p]
  <2>1. PICK pkt \in GameState : Takes(o, pkt) /\ Reads(o, pkt)
    BY <1>3, ReceiveReads
  <2>2. CASE o # p
    BY <2>1, <2>2, ReadIs
  <2>3. CASE o = p
    <3>1. pkt \in OnLink(p) /\ StateAfter(p, pkt) = pkt.state /\ state[p] <= pkt.state
      BY <2>1, <2>3, FirstCopies DEF Takes
    <3>2. /\ state'[p] = pkt.state /\ mask'[p] = MaskAfter(p, pkt)
          /\ expected'[p] = ExpectedAfter(p, pkt)
          /\ ackOut'[p] = ackOut[p] \/ ackOut'[p] = AckAfter(p, pkt)
      BY <2>1, <2>3, <3>1, ReadIs
    <3>3. \A t \in ackOut[p] : t <= pkt.state
      <4>1. \A t \in ackOut[p] : t \in Int /\ t <= state[p]
        BY Types DEF LinkInv, AckedBy
      <4>2. state[p] \in Int /\ pkt.state \in Int
        BY Types, PacketIs
      <4> QED BY <3>1, <4>1, <4>2
    <3> QED BY <3>2, <3>3, AckAfterIs DEF Complete
  <2> QED BY <2>2, <2>3
<1>4. ASSUME NEW o \in Peer, Misread(o)
      PROVE  ackOut'[p] \subseteq ackOut[p]
  <2>1. PICK pkt \in GameState :
           /\ Takes(o, pkt) /\ Misreads(o, pkt)
           /\ ackOut' = ackOut \/ ackOut' = [ackOut EXCEPT ![o] = AckAfter(o, pkt)]
    BY <1>4, MisreadTakes
  <2>2. o # p
    BY <2>1, FirstCopies DEF Takes
  <2> QED BY <2>1, <2>2 DEF Typed
<1> QED BY <1>1, <1>2, <1>3, <1>4, StepIs

\* "all packets received": a peer whose packets come in order takes up the
\* acknowledgement of a frame only when it holds every fragment of that frame.
THEOREM OnlyWholeFramesAcked ==
  ASSUME ClockLasts
  PROVE  Spec => OnlyWholeAcked
<1>1. Init => Typed /\ PastInv /\ LinkInv
  BY TypedInit, OwnerPastInit, LinkInit
<1>2. Typed /\ PastInv /\ LinkInv /\ [Next]_vars => (Typed /\ PastInv /\ LinkInv)'
  BY TypedStep, PastStep, LinkStep
<1> DEFINE Whole(p) == \/ ackOut'[p] \subseteq ackOut[p]
                       \/ ackOut'[p] = {state'[p]} /\ mask'[p] = expected'[p]
<1>3. Typed /\ LinkInv /\ [Next]_vars => [\A p \in Peer \ Reordered : Whole(p)]_vars
  BY WholeStep
<1>4. Typed /\ PastInv /\ LinkInv /\ [Next]_vars =>
        [\A p \in Peer \ Reordered :
           \/ ackOut'[p] \subseteq ackOut[p]
           \/ ackOut'[p] = {state'[p]} /\ mask'[p] = expected'[p]]_vars
  BY <1>3
<1> HIDE DEF Whole
<1> QED BY <1>1, <1>2, <1>4, PTL DEF Spec, OnlyWholeAcked

-----------------------------------------------------------------------------
(* The items under way.                                                    *)

Live(x) == x.kind # "destroy"
Has(q, kind, e) == \E x \in q.items : x.kind = kind /\ x.id = e

\* A packet says one thing of an element.
Single(q) == \A x, y \in q.items : x.id = y.id => x = y

\* A removed element's last states travel in frames before the removal, and
\* its destroy entries after them.
ItemInv == \A p \in Peer : \A q \in OnLink(p) :
  /\ Single(q)
  /\ \A x \in q.items : ~Live(x) => x.id \in registered \ elements
  /\ \A x \in q.items, y \in entities : Live(x) /\ y.id = x.id => q.state < y.basis
  /\ \A r \in OnLink(p) : \A x \in q.items, y \in r.items :
       ~Live(x) /\ Live(y) /\ x.id = y.id => r.state < q.state

\* What a frame says of the elements, and of the removed ones.
LEMMA BodyIs ==
  ASSUME NEW kept
  PROVE  /\ \A x \in Body(kept) : x.id \in elements /\ Live(x) /\ x \in Written(x.id, kept[x.id])
         /\ \A x, y \in Body(kept) : x.id = y.id => x = y
<1>1. ASSUME NEW e, NEW x \in Written(e, kept[e])
      PROVE  x.id = e /\ Live(x)
  BY DEF Written, Live
<1>2. ASSUME NEW e, NEW x \in Written(e, kept[e]), NEW y \in Written(e, kept[e])
      PROVE  x = y
  BY DEF Written
<1>3. ASSUME NEW x \in Body(kept)
      PROVE  \E e \in elements : x \in Written(e, kept[e])
  BY DEF Body
<1>4. \A x \in Body(kept) : x.id \in elements /\ Live(x) /\ x \in Written(x.id, kept[x.id])
  BY <1>1, <1>3
<1> QED BY <1>2, <1>4

LEMMA DestroysAre ==
  ASSUME Typed
  PROVE  /\ \A x \in Destroys : /\ x.kind = "destroy" /\ ~Live(x) /\ x.id \in registered \ elements
                                /\ \E y \in entities : y.id = x.id
         /\ \A x, y \in Destroys : x.id = y.id => x = y
         /\ \A y \in entities : \E x \in Destroys : x.id = y.id
<1>1. \A y \in entities : y.id \in registered \ elements
  BY DEF Typed, Removals
<1>2. ASSUME NEW x \in Destroys
      PROVE  \E y \in entities : x = [kind |-> "destroy", id |-> y.id, val |-> NoFields]
  BY DEF Destroys
<1>3. ASSUME NEW y \in entities
      PROVE  [kind |-> "destroy", id |-> y.id, val |-> NoFields] \in Destroys
  BY DEF Destroys
<1>4. \A x \in Destroys : /\ x.kind = "destroy" /\ ~Live(x) /\ x.id \in registered \ elements
                         /\ \E y \in entities : y.id = x.id
  <2> TAKE x \in Destroys
  <2>1. PICK y \in entities : x = [kind |-> "destroy", id |-> y.id, val |-> NoFields]
    BY <1>2
  <2> QED BY <1>1, <2>1 DEF Live
<1>5. ASSUME NEW x \in Destroys, NEW z \in Destroys, x.id = z.id
      PROVE  x = z
  <2>1. PICK y \in entities : x = [kind |-> "destroy", id |-> y.id, val |-> NoFields]
    BY <1>2
  <2>2. PICK v \in entities : z = [kind |-> "destroy", id |-> v.id, val |-> NoFields]
    BY <1>2
  <2> QED BY <1>5, <2>1, <2>2
<1>6. \A y \in entities : \E x \in Destroys : x.id = y.id
  BY <1>3
<1> QED BY <1>4, <1>5, <1>6

LEMMA FragmentItems ==
  ASSUME Typed, NEW kept, NEW n \in 1..MaxFragments, NEW w, NEW i \in 1..n
  PROVE  /\ \A x \in Fragment(Body(kept), w, n, i).items :
              \/ x \in Body(kept) /\ x.id \in elements /\ Live(x)
              \/ x \in Destroys /\ ~Live(x) /\ x.id \in registered \ elements
         /\ Single(Fragment(Body(kept), w, n, i))
<1> DEFINE q == Fragment(Body(kept), w, n, i)
<1>1. q.items = {x \in Body(kept) : w[x] = i - 1} \cup (IF i < n THEN {} ELSE Destroys)
  BY FragmentHolds
<1>2. \A x \in q.items : x \in Body(kept) \/ x \in Destroys
  <2> HIDE DEF q
  <2> QED BY <1>1
<1> HIDE DEF q
<1>3. \A x \in q.items : \/ x \in Body(kept) /\ x.id \in elements /\ Live(x)
                         \/ x \in Destroys /\ ~Live(x) /\ x.id \in registered \ elements
  BY <1>2, BodyIs, DestroysAre
<1>4. Single(q)
  BY <1>3, BodyIs, DestroysAre DEF Single
<1> QED BY <1>3, <1>4 DEF q

\* The removed elements after a frame.
LEMMA AnnouncedIs ==
  ASSUME Typed, NEW y \in Announced
  PROVE  \E x \in entities :
           /\ x.id = y.id /\ y.final
           /\ y = x \/ y.basis = Now
<1>1. PICK x \in entities : y = IF x.final /\ ~TooOld THEN x
                                ELSE [x EXCEPT !.basis = Now, !.final = TRUE]
  BY DEF Announced
<1>2. x \in Removals(registered \ elements)
  BY DEF Typed
<1>3. CASE x.final /\ ~TooOld
  BY <1>1, <1>3
<1>4. CASE ~(x.final /\ ~TooOld)
  <2>1. y = [x EXCEPT !.basis = Now, !.final = TRUE]
    BY <1>1, <1>4
  <2> QED BY <1>2, <2>1 DEF Removals
<1> QED BY <1>3, <1>4

LEMMA ForgottenWhen ==
  ASSUME Typed, NEW x \in entities, \A y \in Announced : y.id # x.id
  PROVE  x.final /\ ~TooOld /\ Older(Basis, Now) /\ Older(x.basis, Basis)
<1> SUFFICES ASSUME ~x.final \/ TooOld \/ ~(Older(Basis, Now) /\ Older(x.basis, Basis))
             PROVE  FALSE
  OBVIOUS
<1> DEFINE y == IF x.final /\ ~TooOld THEN x ELSE [x EXCEPT !.basis = Now, !.final = TRUE]
<1>1. y \in Announced
  BY DEF Announced
<1>2. x \in Removals(registered \ elements)
  BY DEF Typed
<1>3. y.id = x.id
  BY <1>2 DEF Removals
<1> QED BY <1>1, <1>3

\* The links and the owner's removals after a frame, without their cause.
SentTo(p, q, change, n, w) ==
  p \in zonePeers /\ \E i \in 1..n : q = Fragment(Body(Kept(change)), w, n, i)

LEMMA SentIs ==
  ASSUME Typed, NEW change \in [elements -> SUBSET Field], NEW n \in 1..MaxFragments, NEW w,
         Sends(change, n, w), NEW p \in Peer, NEW q \in OnLink(p)'
  PROVE  q \in OnLink(p) \/ SentTo(p, q, change, n, w)
<1>1. CASE p \in zonePeers
  BY <1>1, SendLinks DEF SentTo
<1>2. CASE p \notin zonePeers
  BY <1>2, SendLinks DEF OnLink
<1> QED BY <1>1, <1>2

LEMMA ItemStep ==
  ASSUME ClockLasts, Typed, PastInv, ItemInv, [Next]_vars
  PROVE  ItemInv'
<1>1. tick \in Nat /\ tick >= 1 /\ Now = tick
  BY NowIsTick
<1>2. ASSUME \A p \in Peer : OnLink(p)' \subseteq OnLink(p),
             registered' \ elements' = registered \ elements, entities' = entities
      PROVE  ItemInv'
  BY <1>2, Zenon DEF ItemInv, Single, Live
<1>3. CASE Quiet
  BY <1>2, <1>3 DEF Quiet
<1>4. ASSUME NEW e \in Element, RegisterElement(e)
      PROVE  ItemInv'
  BY <1>2, <1>4 DEF RegisterElement, netVars, OnLink, Typed
<1>5. ASSUME NEW e \in Element, RemoveElement(e)
      PROVE  ItemInv'
  <2>1. /\ \A p \in Peer : OnLink(p)' = OnLink(p)
        /\ registered \ elements \subseteq registered' \ elements'
        /\ entities' = entities \cup {[id |-> e, basis |-> Now, final |-> FALSE]}
    BY <1>5 DEF RemoveElement, netVars, OnLink
  <2>2. \A p \in Peer : \A q \in OnLink(p) : q.state < Now
    BY <1>1 DEF PastInv
  <2>3. \A y \in entities' : y \in entities \/ y.basis = Now
    BY <2>1
  <2>4. ASSUME NEW p \in Peer, NEW q \in OnLink(p), NEW x \in q.items, NEW y \in entities',
               Live(x), y.id = x.id
        PROVE  q.state < y.basis
    BY <2>2, <2>3, <2>4 DEF ItemInv
  <2>5. ASSUME NEW p \in Peer, NEW q \in OnLink(p)
        PROVE  /\ Single(q)
               /\ \A x \in q.items : ~Live(x) => x.id \in registered' \ elements'
               /\ \A r \in OnLink(p) : \A x \in q.items, y \in r.items :
                    ~Live(x) /\ Live(y) /\ x.id = y.id => r.state < q.state
    BY <2>1 DEF ItemInv
  <2>6. ASSUME NEW p \in Peer, NEW q \in OnLink(p)'
        PROVE  /\ q \in OnLink(p)
               /\ \A r \in OnLink(p)' : r \in OnLink(p)
    BY <2>1, <2>6
  <2>7. ASSUME NEW p \in Peer, NEW q \in OnLink(p)'
        PROVE  /\ Single(q)
               /\ \A x \in q.items : ~Live(x) => x.id \in registered' \ elements'
               /\ \A x \in q.items, y \in entities' : Live(x) /\ y.id = x.id => q.state < y.basis
               /\ \A r \in OnLink(p)' : \A x \in q.items, y \in r.items :
                    ~Live(x) /\ Live(y) /\ x.id = y.id => r.state < q.state
    BY <2>4, <2>5, <2>6, <2>7, Zenon
  <2> QED BY <2>7, Zenon DEF ItemInv, Single, Live
<1>6. CASE SkipGameState
  BY <1>2, <1>6 DEF SkipGameState, netVars, OnLink
<1>7. CASE SendGameState
  <2>1. PICK change \in [elements -> SUBSET Field], n \in 1..MaxFragments :
          \E w \in Splits(Body(Kept(change)), n) : Sends(change, n, w)
    BY <1>7, SendIs
  <2>2. PICK w \in Splits(Body(Kept(change)), n) : Sends(change, n, w)
    BY <2>1
  <2>3. registered' = registered /\ elements' = elements /\ entities' \subseteq Announced
    BY <2>2 DEF Sends
  <2>4. ASSUME NEW p \in Peer, NEW q, SentTo(p, q, change, n, w)
        PROVE  /\ q.state = tick /\ Single(q)
               /\ \A x \in q.items : \/ x.id \in elements /\ Live(x)
                                     \/ ~Live(x) /\ x.id \in registered \ elements
    BY <1>1, <2>4, FragmentIs, FragmentItems DEF SentTo
  <2>5. \A y \in entities' : /\ y.id \in registered \ elements
                             /\ y.basis = Now \/ y \in entities
    <3> TAKE y \in entities'
    <3>1. PICK x \in entities : x.id = y.id /\ (y = x \/ y.basis = Now)
      BY <2>3, AnnouncedIs
    <3> QED BY <3>1 DEF Typed, Removals
  <2>6. \A p \in Peer : \A q \in OnLink(p)' : q \in OnLink(p) \/ SentTo(p, q, change, n, w)
    BY <2>2, SentIs
  <2>7. \A p \in Peer : \A q \in OnLink(p) : q.state < tick
    BY DEF PastInv
  <2>8. ASSUME NEW p \in Peer, NEW q \in OnLink(p)'
        PROVE  /\ Single(q)
               /\ \A x \in q.items : ~Live(x) => x.id \in registered \ elements
    BY <2>4, <2>6 DEF ItemInv
  <2>9. ASSUME NEW p \in Peer, NEW q \in OnLink(p)', NEW x \in q.items, NEW y \in entities',
               Live(x), y.id = x.id
        PROVE  q.state < y.basis
    <3>1. q \in OnLink(p)
      BY <2>4, <2>5, <2>6, <2>9
    <3>2. CASE y.basis = Now
      BY <1>1, <2>7, <3>1, <3>2
    <3>3. CASE y \in entities
      BY <2>9, <3>1, <3>3 DEF ItemInv
    <3> QED BY <2>5, <3>2, <3>3
  <2>10. ASSUME NEW p \in Peer, NEW q \in OnLink(p)', NEW r \in OnLink(p)', NEW x \in q.items,
                NEW y \in r.items, ~Live(x), Live(y), x.id = y.id
         PROVE  r.state < q.state
    <3>1. r \in OnLink(p)
      <4> SUFFICES ASSUME SentTo(p, r, change, n, w) PROVE FALSE
        BY <2>6
      <4>1. y.id \in elements
        BY <2>4, <2>10
      <4> QED BY <2>8, <2>10, <4>1
    <3>2. CASE q \in OnLink(p)
      BY <2>10, <3>1, <3>2 DEF ItemInv
    <3>3. CASE SentTo(p, q, change, n, w)
      BY <2>4, <2>7, <3>1, <3>3
    <3> QED BY <2>6, <3>2, <3>3
  <2> QED BY <2>3, <2>8, <2>9, <2>10, Zenon DEF ItemInv, Single, Live
<1>8. ASSUME NEW p \in Peer, NEW pkt, Takes(p, pkt), UNCHANGED ownerVars
      PROVE  ItemInv'
  BY <1>2, <1>8 DEF Takes, OnLink, ownerVars
<1>9. ASSUME NEW p \in Peer, ReceiveGameState(p) \/ Misread(p)
      PROVE  ItemInv'
  <2>1. PICK pkt : Takes(p, pkt) /\ UNCHANGED ownerVars
    BY <1>9, ReceiveReads, MisreadTakes DEF Reads
  <2> QED BY <1>8, <2>1
<1> QED BY <1>3, <1>4, <1>5, <1>6, <1>7, <1>9, StepIs

LEMMA ItemInit == Init => ItemInv
BY DEF Init, ItemInv, OnLink, Entries

-----------------------------------------------------------------------------
(* What a frame still owes its peer.  If a peer lacks something that frame *)
(* t says, there is a fragment k of t that says it: as long as p has not   *)
(* read it, its mask has a hole at k, and t cannot become complete.        *)

FramesTo(p) == {state[p]} \cup {q.state : q \in OnLink(p)}

Owes(p, t, k, kind, e) ==
  /\ t = state[p] => k \notin mask[p] /\ k \in expected[p]
  /\ \A q \in OnLink(p) : q.state = t =>
       /\ q.seq = k => Has(q, kind, e)
       /\ q.final => k <= q.seq
Pending(p, t, kind, e) == \E k \in 0..(MaxFragments - 1) : Owes(p, t, k, kind, e)

LEMMA PendingShrinks ==
  ASSUME NEW p, NEW t, NEW kind, NEW e, Pending(p, t, kind, e),
         UNCHANGED <<state, mask, expected>>,
         \A q \in OnLink(p)' : q \in OnLink(p) \/ q.state # t
  PROVE  Pending(p, t, kind, e)'
BY DEF Pending, Owes, Has

LEMMA PendingRead ==
  ASSUME Typed, LinkInv, NEW p \in Peer \ Reordered, NEW pkt \in GameState,
         Takes(p, pkt), Reads(p, pkt), NEW t, NEW kind, NEW e, Pending(p, t, kind, e)
  PROVE  \/ t = pkt.state /\ Has(pkt, kind, e)
         \/ t = state[p] /\ t # pkt.state
         \/ Pending(p, t, kind, e)'
<1>1. PICK k \in 0..(MaxFragments - 1) : Owes(p, t, k, kind, e)
  BY DEF Pending
<1>2. /\ pkt \in OnLink(p) /\ OnLink(p)' \subseteq OnLink(p)
      /\ \A q \in OnLink(p)' : q.state = pkt.state => q.seq # pkt.seq
  BY DEF Takes, LinkInv
<1>3. /\ FirstCopy(p, pkt) /\ StateAfter(p, pkt) = pkt.state
      /\ (Newer(p, pkt) <=> pkt.state # state[p])
  BY <1>2, FirstCopies
<1>4. /\ state'[p] = pkt.state
      /\ mask'[p] = MaskBefore(p, pkt) \cup {pkt.seq}
      /\ expected'[p] = IF pkt.final THEN 0..pkt.seq ELSE ExpectedBefore(p, pkt)
  BY <1>3, ReadIs DEF MaskAfter, ExpectedAfter
<1>5. CASE t # pkt.state
  BY <1>1, <1>2, <1>4, <1>5 DEF Pending, Owes, Has
<1>6. CASE t = pkt.state /\ k = pkt.seq
  BY <1>1, <1>2, <1>6 DEF Owes
<1>7. CASE t = pkt.state /\ k # pkt.seq
  <2>1. k \notin MaskBefore(p, pkt)
    BY <1>1, <1>3, <1>7 DEF MaskBefore, Owes
  <2>2. k \in AllBits
    BY BoundAssumption DEF AllBits
  <2>3. k \in ExpectedBefore(p, pkt)
    BY <1>1, <1>3, <1>7, <2>2 DEF ExpectedBefore, Owes
  <2>4. pkt.final => k \in 0..pkt.seq
    <3>1. pkt.seq \in Int
      BY PacketIs
    <3>2. pkt.final => k <= pkt.seq
      BY <1>1, <1>2, <1>7 DEF Owes
    <3> QED BY <3>1, <3>2
  <2>5. k \notin mask'[p] /\ k \in expected'[p]
    BY <1>4, <1>7, <2>1, <2>3, <2>4
  <2>6. \A q \in OnLink(p)' : q.state = t => (q.seq = k => Has(q, kind, e)) /\ (q.final => k <= q.seq)
    BY <1>1, <1>2 DEF Owes
  <2> QED BY <2>5, <2>6 DEF Pending, Owes, Has
<1> QED BY <1>5, <1>6, <1>7

\* What a peer shows after a packet.
LEMMA CopyAfterIs ==
  ASSUME NEW s \in CopyStates, NEW pkt \in GameState, Single(pkt), NEW e, NEW cut
  PROVE  /\ \A x \in pkt.items : x.id = e /\ Live(x) => CopyAfter(s, pkt, e, cut) # <<>>
         /\ \A x \in pkt.items : x.id = e /\ ~Live(x) => CopyAfter(s, pkt, e, cut) = <<>>
         /\ (\A x \in pkt.items : x.id # e) => CopyAfter(s, pkt, e, cut) = s
<1>1. ASSUME NEW x \in pkt.items, x.id = e
      PROVE  CopyAfter(s, pkt, e, cut) =
               IF ~Live(x) THEN <<>> ELSE Updated(s, pkt, x.val, cut)
  <2>1. (CHOOSE y \in pkt.items : y.id = e) = x
    BY <1>1 DEF Single
  <2> QED BY <1>1, <2>1 DEF CopyAfter, Live
<1>2. ASSUME NEW x \in pkt.items
      PROVE  Updated(s, pkt, x.val, cut) # <<>>
  <2>1. x \in Item /\ pkt.state \in Time
    BY PacketIs
  <2>2. PICK F \in SUBSET Field : x.val \in [F -> Value]
    BY <2>1 DEF Item
  <2> QED BY <2>1, <2>2, UpdatedType
<1>3. (\A x \in pkt.items : x.id # e) => CopyAfter(s, pkt, e, cut) = s
  BY DEF CopyAfter
<1> QED BY <1>1, <1>2, <1>3

LEMMA HeldAfter ==
  ASSUME Typed, NEW p \in Peer, NEW pkt \in GameState, Single(pkt),
         Reads(p, pkt), ~Cockup(p, pkt), NEW e \in Element
  PROVE  /\ \A x \in pkt.items : x.id = e /\ Live(x) => held'[p][e] # <<>>
         /\ \A x \in pkt.items : x.id = e /\ ~Live(x) => held'[p][e] = <<>>
         /\ (\A x \in pkt.items : x.id # e) => held'[p][e] = held[p][e]
<1>1. PICK cut : held' = [held EXCEPT ![p] = [d \in Element |-> CopyAfter(@[d], pkt, d, cut)]]
  BY DEF Reads, Shows
<1>2. held'[p][e] = CopyAfter(held[p][e], pkt, e, cut)
  BY <1>1 DEF Typed
<1>3. held[p][e] \in CopyStates
  BY DEF Typed
<1> QED BY <1>2, <1>3, CopyAfterIs

\* An acknowledgement that is new after a packet is of a whole frame.
LEMMA NewAckIs ==
  ASSUME Typed, LinkInv, NEW p \in Peer \ Reordered, NEW pkt \in GameState,
         Takes(p, pkt), Reads(p, pkt), NEW t \in AckedBy(p)', t \notin AckedBy(p)
  PROVE  t = pkt.state /\ state'[p] = t /\ mask'[p] = expected'[p]
<1>1. t = pkt.state /\ state'[p] = t
  BY ReadIs, FirstCopies DEF Takes
<1>2. ackOut'[p] # ackOut[p]
  BY ReadIs DEF AckedBy, ackVars
<1>3. Complete(p, pkt)
  BY <1>2, ReadIs, AckAfterIs
<1> QED BY <1>1, <1>3, ReadIs DEF Complete

-----------------------------------------------------------------------------
(* The copies.                                                             *)

CopyInv == \A p \in Peer \ Reordered :
  /\ p \notin failed
  /\ \A t \in AckedBy(p), e \in elements : syncs[e][1].time <= t => held[p][e] # <<>>
  /\ \A t \in FramesTo(p), e \in elements :
       syncs[e][1].time <= t => held[p][e] # <<>> \/ Pending(p, t, "full", e)
  /\ \A q \in OnLink(p), e \in Element : Has(q, "delta", e) => held[p][e] # <<>>

FirstOf(e) == syncs[e][1].time

LEMMA FirstIs ==
  ASSUME Typed, NEW e \in elements
  PROVE  FirstOf(e) \in Int
<1>1. syncs[e] \in OwnStates /\ syncs[e] # <<>>
  BY DEF Typed
<1> QED BY <1>1, StatesAre DEF FirstOf

LEMMA CopyShrinks ==
  ASSUME Typed, Typed', CopyInv, UNCHANGED <<held, state, mask, expected, failed>>,
         elements' \subseteq elements, \A e \in elements' : FirstOf(e) <= FirstOf(e)',
         \A p \in Peer : AckedBy(p)' \subseteq AckedBy(p) /\ OnLink(p)' \subseteq OnLink(p)
  PROVE  CopyInv'
<1> SUFFICES ASSUME NEW p \in Peer \ Reordered
             PROVE  /\ p \notin failed'
                    /\ \A t \in AckedBy(p)', e \in elements' :
                         FirstOf(e)' <= t => held'[p][e] # <<>>
                    /\ \A t \in FramesTo(p)', e \in elements' :
                         FirstOf(e)' <= t => held'[p][e] # <<>> \/ Pending(p, t, "full", e)'
                    /\ \A q \in OnLink(p)', e \in Element : Has(q, "delta", e) => held'[p][e] # <<>>
  BY Zenon DEF CopyInv, FirstOf, Has
<1>1. \A t : t \in AckedBy(p) \/ t \in FramesTo(p) => t \in Int
  BY Types, PacketIs DEF FramesTo
<1>2. \A e \in elements' : FirstOf(e) \in Int /\ FirstOf(e)' \in Int
  <2>1. \A e \in elements' : FirstOf(e) \in Int
    BY FirstIs
  <2>2. (\A e \in elements : FirstOf(e) \in Int)'
    <3>1. ASSUME NEW e \in elements' PROVE FirstOf(e)' \in Int
      <4>1. syncs'[e] \in OwnStates /\ syncs'[e] # <<>>
        BY <3>1 DEF Typed
      <4> QED BY <4>1, StatesAre DEF FirstOf
    <3> QED BY <3>1
  <2> QED BY <2>1, <2>2
<1>3. FramesTo(p)' \subseteq FramesTo(p)
  BY DEF FramesTo
<1>4. ASSUME NEW t \in AckedBy(p)', NEW e \in elements', FirstOf(e)' <= t
      PROVE  held'[p][e] # <<>>
  <2>1. FirstOf(e) <= t
    BY <1>1, <1>2, <1>4
  <2> QED BY <2>1, <1>4 DEF CopyInv, FirstOf
<1>5. ASSUME NEW t \in FramesTo(p)', NEW e \in elements', FirstOf(e)' <= t
      PROVE  held'[p][e] # <<>> \/ Pending(p, t, "full", e)'
  <2>1. FirstOf(e) <= t
    BY <1>1, <1>2, <1>3, <1>5
  <2>2. held[p][e] # <<>> \/ Pending(p, t, "full", e)
    BY <2>1, <1>3, <1>5 DEF CopyInv, FirstOf
  <2> QED BY <2>2, PendingShrinks
<1>6. \A q \in OnLink(p)', e \in Element : Has(q, "delta", e) => held'[p][e] # <<>>
  BY DEF CopyInv
<1> QED BY <1>4, <1>5, <1>6 DEF CopyInv

\* Registering an element: no frame sent so far is of its time.
LEMMA CopyRegister ==
  ASSUME ClockLasts, Typed, PastInv, CopyInv, NEW d \in Element, RegisterElement(d)
  PROVE  CopyInv'
<1>1. /\ UNCHANGED <<held, state, mask, expected, failed>> /\ elements' = elements \cup {d}
      /\ \A p \in Peer : AckedBy(p)' = AckedBy(p) /\ OnLink(p)' = OnLink(p)
  BY DEF RegisterElement, ackVars, peerVars, netVars, AckedBy, OnLink
<1>2. /\ \A e \in elements : e # d => syncs'[e] = syncs[e]
      /\ syncs'[d][1].time = tick
  BY NowIsTick DEF RegisterElement, Typed
<1> SUFFICES ASSUME NEW p \in Peer \ Reordered
             PROVE  /\ p \notin failed'
                    /\ \A t \in AckedBy(p)', e \in elements' :
                         FirstOf(e)' <= t => held'[p][e] # <<>>
                    /\ \A t \in FramesTo(p)', e \in elements' :
                         FirstOf(e)' <= t => held'[p][e] # <<>> \/ Pending(p, t, "full", e)'
                    /\ \A q \in OnLink(p)', e \in Element : Has(q, "delta", e) => held'[p][e] # <<>>
  BY Zenon DEF CopyInv, FirstOf, Has
<1>3. \A t : t \in AckedBy(p) \/ t \in FramesTo(p) => t \in Int /\ t < tick
  BY Types, PacketIs DEF FramesTo, PastInv
<1>4. tick \in Int
  BY NowIsTick
<1>5. \A t : t \in AckedBy(p) \/ t \in FramesTo(p) => ~(FirstOf(d)' <= t)
  BY <1>2, <1>3, <1>4 DEF FirstOf
<1>6. \A e \in elements : e # d => FirstOf(e)' = FirstOf(e)
  BY <1>2 DEF FirstOf
<1>7. FramesTo(p)' = FramesTo(p)
  BY <1>1 DEF FramesTo
<1>8. ASSUME NEW t \in AckedBy(p)', NEW e \in elements', FirstOf(e)' <= t
      PROVE  held'[p][e] # <<>>
  BY <1>1, <1>5, <1>6, <1>8 DEF CopyInv, FirstOf
<1>9. ASSUME NEW t \in FramesTo(p)', NEW e \in elements', FirstOf(e)' <= t
      PROVE  held'[p][e] # <<>> \/ Pending(p, t, "full", e)'
  <2>1. e \in elements /\ FirstOf(e) <= t
    BY <1>1, <1>5, <1>6, <1>7, <1>9
  <2>2. held[p][e] # <<>> \/ Pending(p, t, "full", e)
    BY <2>1, <1>7, <1>9 DEF CopyInv, FirstOf
  <2> QED BY <2>2, <1>1, PendingShrinks
<1>10. \A q \in OnLink(p)', e \in Element : Has(q, "delta", e) => held'[p][e] # <<>>
  BY <1>1 DEF CopyInv
<1> QED BY <1>1, <1>8, <1>9, <1>10 DEF CopyInv

\* Reading a packet.
LEMMA CopyRead ==
  ASSUME Typed, LinkInv, ItemInv, CopyInv, NEW p \in Peer \ Reordered, NEW pkt \in GameState,
         Takes(p, pkt), Reads(p, pkt)
  PROVE  /\ ~Cockup(p, pkt) /\ failed' = failed
         /\ \A t \in AckedBy(p)', e \in elements : FirstOf(e) <= t => held'[p][e] # <<>>
         /\ \A t \in FramesTo(p)', e \in elements :
              FirstOf(e) <= t => held'[p][e] # <<>> \/ Pending(p, t, "full", e)'
         /\ \A q \in OnLink(p)', e \in Element : Has(q, "delta", e) => held'[p][e] # <<>>
<1>1. /\ pkt \in OnLink(p) /\ OnLink(p)' \subseteq OnLink(p)
      /\ \A q \in OnLink(p)' : pkt.state <= q.state
  BY DEF Takes, LinkInv
<1>2. ~Cockup(p, pkt)
  <2>1. \A x \in pkt.items : x.id \in Element
    BY PacketIs DEF Item
  <2> QED BY <1>1, <2>1 DEF Cockup, CopyInv, Has
<1>3. failed' = failed
  BY <1>2 DEF Reads
<1>4. Single(pkt) /\ \A x \in pkt.items : ~Live(x) => x.id \in registered \ elements
  BY <1>1 DEF ItemInv
<1>5. ASSUME NEW e \in elements
      PROVE  /\ held[p][e] # <<>> => held'[p][e] # <<>>
             /\ Has(pkt, "full", e) => held'[p][e] # <<>>
  <2>1. e \in Element /\ \A x \in pkt.items : x.id = e => Live(x)
    BY <1>4 DEF Typed
  <2>2. (\E x \in pkt.items : x.id = e) => held'[p][e] # <<>>
    BY <1>2, <1>4, <2>1, HeldAfter
  <2>3. (\A x \in pkt.items : x.id # e) => held'[p][e] = held[p][e]
    BY <1>2, <1>4, <2>1, HeldAfter
  <2> QED BY <2>2, <2>3 DEF Has
<1>6. ASSUME NEW t \in FramesTo(p)', NEW e \in elements, FirstOf(e) <= t
      PROVE  held'[p][e] # <<>> \/ Pending(p, t, "full", e)'
  <2>1. state'[p] = pkt.state
    BY <1>1, ReadIs, FirstCopies
  <2>2. t \in FramesTo(p)
    BY <1>1, <1>6, <2>1 DEF FramesTo
  <2>3. held[p][e] # <<>> \/ Pending(p, t, "full", e)
    BY <1>6, <2>2 DEF CopyInv, FirstOf
  <2>4. ~(t = state[p] /\ t # pkt.state)
    <3>1. state[p] <= pkt.state /\ state[p] \in Int /\ pkt.state \in Int
      BY <1>1, FirstCopies, Types, PacketIs
    <3>2. pkt.state <= t
      BY <1>1, <1>6, <2>1, <3>1 DEF FramesTo
    <3> QED BY <3>1, <3>2
  <2> QED BY <1>5, <2>3, <2>4, PendingRead
<1>7. ASSUME NEW t \in AckedBy(p)', NEW e \in elements, FirstOf(e) <= t
      PROVE  held'[p][e] # <<>>
  <2>1. CASE t \in AckedBy(p)
    BY <1>5, <1>7, <2>1 DEF CopyInv, FirstOf
  <2>2. CASE t \notin AckedBy(p)
    <3>1. state'[p] = t /\ mask'[p] = expected'[p]
      BY <1>7, <2>2, NewAckIs
    <3>2. ~Pending(p, t, "full", e)'
      BY <3>1 DEF Pending, Owes
    <3>3. t \in FramesTo(p)'
      BY <3>1 DEF FramesTo
    <3> QED BY <1>6, <1>7, <3>2, <3>3
  <2> QED BY <2>1, <2>2
<1>8. ASSUME NEW q \in OnLink(p)', NEW e \in Element, Has(q, "delta", e)
      PROVE  held'[p][e] # <<>>
  <2>1. q \in OnLink(p) /\ pkt.state <= q.state /\ held[p][e] # <<>>
    BY <1>1, <1>8 DEF CopyInv
  <2>2. PICK y \in q.items : Live(y) /\ y.id = e
    BY <1>8 DEF Has, Live
  <2>3. q.state \in Int /\ pkt.state \in Int
    BY <2>1, Types, PacketIs
  <2>4. \A x \in pkt.items : x.id = e => Live(x)
    <3> SUFFICES ASSUME NEW x \in pkt.items, x.id = e, ~Live(x) PROVE FALSE
      OBVIOUS
    <3>1. q.state < pkt.state
      BY <1>1, <2>1, <2>2 DEF ItemInv
    <3> QED BY <2>1, <2>3, <3>1
  <2> QED BY <1>2, <1>4, <2>1, <2>4, HeldAfter
<1> QED BY <1>2, <1>3, <1>6, <1>7, <1>8

\* What is written of an element, in full or as a delta.
LEMMA WrittenIs ==
  ASSUME NEW kept
  PROVE  /\ \A e \in elements : zonePeers # {} /\ ~SendsDelta(e, kept[e]) =>
              \E x \in Body(kept) : x.kind = "full" /\ x.id = e
         /\ \A x \in Body(kept) : x.kind = "delta" => SendsDelta(x.id, kept[x.id])
<1>1. ASSUME NEW e \in elements, zonePeers # {}, ~SendsDelta(e, kept[e])
      PROVE  \E x \in Body(kept) : x.kind = "full" /\ x.id = e
  <2> DEFINE x == [kind |-> "full", id |-> e, val |-> Final(kept[e]).val]
  <2>1. x \in Written(e, kept[e])
    BY <1>1 DEF Written
  <2>2. x \in Body(kept)
    BY <1>1, <2>1 DEF Body
  <2> QED BY <2>2
<1>2. ASSUME NEW x \in Body(kept), x.kind = "delta", ~SendsDelta(x.id, kept[x.id])
      PROVE  FALSE
  <2>1. x \in Written(x.id, kept[x.id])
    BY BodyIs
  <2> QED BY <1>2, <2>1 DEF Written
<1> QED BY <1>1, <1>2

\* Every item of a frame is in one of its fragments.
LEMMA FragmentOf ==
  ASSUME NEW kept, NEW n \in 1..MaxFragments, NEW w \in Splits(Body(kept), n)
  PROVE  /\ \A x \in Body(kept) : \E i \in 1..n : x \in Fragment(Body(kept), w, n, i).items
         /\ \A x \in Destroys : x \in Fragment(Body(kept), w, n, n).items
<1>1. n \in Int /\ n >= 1 /\ n \in 1..n
  BY BoundAssumption
<1>2. \A x \in Body(kept) : w[x] \in 0..(n - 1)
  BY DEF Splits
<1>3. ASSUME NEW x \in Body(kept)
      PROVE  \E i \in 1..n : x \in Fragment(Body(kept), w, n, i).items
  <2>1. \A v \in 0..(n - 1) : \E i \in 1..n : v = i - 1
    <3> TAKE v \in 0..(n - 1)
    <3>1. v + 1 \in 1..n /\ v = (v + 1) - 1
      BY <1>1
    <3> QED BY <3>1
  <2>2. PICK i \in 1..n : w[x] = i - 1
    BY <1>2, <2>1
  <2> QED BY <2>2, FragmentHolds
<1>4. Destroys \subseteq Fragment(Body(kept), w, n, n).items
  <2>1. ~(n < n)
    BY <1>1
  <2> QED BY <1>1, <2>1, FragmentHolds
<1> QED BY <1>3, <1>4

\* A frame owes its peers what it says, from the moment it is sent.
LEMMA PendingSent ==
  ASSUME ClockLasts, Typed, PastInv, NEW change \in [elements -> SUBSET Field],
         NEW n \in 1..MaxFragments, NEW w, Sends(change, n, w),
         NEW p \in zonePeers, NEW i \in 1..n, NEW kind, NEW e,
         Has(Fragment(Body(Kept(change)), w, n, i), kind, e), NEW t, t = tick
  PROVE  Pending(p, t, kind, e)'
<1>1. Now = tick /\ tick \in Int /\ n \in Int /\ i \in Int /\ i <= n /\ n <= MaxFragments
      /\ MaxFragments \in Int
  BY NowIsTick, BoundAssumption
<1>2. p \in Peer /\ state[p] < tick /\ state[p] \in Int
  BY Types DEF Typed, PastInv
<1>3. state' = state
  BY DEF Sends, peerVars
<1>4. i - 1 \in 0..(MaxFragments - 1)
  BY <1>1
<1>5. ASSUME NEW q \in OnLink(p)', q.state = t
      PROVE  (q.seq = i - 1 => Has(q, kind, e)) /\ (q.final => i - 1 <= q.seq)
  <2>1. q \notin OnLink(p)
    BY <1>1, <1>2, <1>5 DEF PastInv
  <2>2. PICK j \in 1..n : q = Fragment(Body(Kept(change)), w, n, j)
    BY <1>2, <1>5, <2>1, SentIs DEF SentTo
  <2>3. q.seq = j - 1 /\ (q.final <=> j = n)
    BY <2>2, FragmentIs
  <2>4. j \in Int
    OBVIOUS
  <2>5. q.seq = i - 1 => j = i
    BY <1>1, <2>3, <2>4
  <2> QED BY <1>1, <2>2, <2>3, <2>4, <2>5
<1>6. ~(t = state'[p])
  BY <1>1, <1>2, <1>3
<1>7. /\ t = state'[p] => i - 1 \notin mask'[p] /\ i - 1 \in expected'[p]
      /\ \A q \in OnLink(p)' : q.state = t =>
           (q.seq = i - 1 => Has(q, kind, e)) /\ (q.final => i - 1 <= q.seq)
  BY <1>5, <1>6
<1> QED BY <1>4, <1>7, Zenon DEF Pending, Owes, Has

\* Sending a frame.
LEMMA CopySend ==
  ASSUME ClockLasts, Typed, OwnerInv, PastInv, LinkInv, CopyInv, SendGameState
  PROVE  CopyInv'
<1>1. PICK change \in [elements -> SUBSET Field], n \in 1..MaxFragments :
        \E w \in Splits(Body(Kept(change)), n) : Sends(change, n, w)
  BY SendIs
<1>2. PICK w \in Splits(Body(Kept(change)), n) : Sends(change, n, w)
  BY <1>1
<1> DEFINE kept == Kept(change)
<1>3. /\ UNCHANGED <<held, state, mask, expected, failed, elements, ackOut, toOwner>>
      /\ syncs' = kept
  BY <1>2 DEF Sends, peerVars
<1>4. \A p \in Peer : AckedBy(p)' \subseteq AckedBy(p)
  <2>1. \A p \in Peer : acks'[p] = IF p \in zonePeers THEN Trimmed(acks[p]) ELSE {}
    BY <1>2 DEF Sends
  <2>2. \A p \in Peer : Trimmed(acks[p]) \subseteq acks[p]
    BY TrimmedIsPart DEF Typed
  <2> QED BY <1>3, <2>1, <2>2 DEF AckedBy
<1>5. ASSUME NEW e \in elements
      PROVE  /\ kept[e] \in OwnStates /\ kept[e] # <<>> /\ Unbroken(kept[e])
             /\ Final(kept[e]).time = tick /\ FirstOf(e) <= kept[e][1].time
             /\ FirstOf(e) \in Int /\ kept[e][1].time \in Int
  <2>1. /\ kept[e] \in OwnStates /\ kept[e] # <<>> /\ Unbroken(kept[e])
        /\ Final(kept[e]).time = tick /\ FirstOf(e) <= kept[e][1].time
    BY KeptUnbroken DEF FirstOf
  <2> QED BY <2>1, FirstIs, StatesAre
<1> HIDE DEF kept
<1> SUFFICES ASSUME NEW p \in Peer \ Reordered
             PROVE  /\ p \notin failed'
                    /\ \A t \in AckedBy(p)', e \in elements' :
                         FirstOf(e)' <= t => held'[p][e] # <<>>
                    /\ \A t \in FramesTo(p)', e \in elements' :
                         FirstOf(e)' <= t => held'[p][e] # <<>> \/ Pending(p, t, "full", e)'
                    /\ \A q \in OnLink(p)', e \in Element : Has(q, "delta", e) => held'[p][e] # <<>>
  BY Zenon DEF CopyInv, FirstOf, Has
<1>6. \A e \in elements : FirstOf(e)' = kept[e][1].time
  BY <1>3 DEF FirstOf
<1>7. \A t : t \in AckedBy(p) \/ t \in FramesTo(p) => t \in Int /\ t < tick
  BY Types, PacketIs DEF FramesTo, PastInv
<1>8. \A t : \A e \in elements : t \in Int /\ FirstOf(e)' <= t => FirstOf(e) <= t
  BY <1>5, <1>6
<1>9. ASSUME NEW t \in AckedBy(p)', NEW e \in elements', FirstOf(e)' <= t
      PROVE  held'[p][e] # <<>>
  <2>1. e \in elements /\ t \in AckedBy(p) /\ FirstOf(e) <= t
    BY <1>3, <1>4, <1>7, <1>8, <1>9
  <2> QED BY <1>3, <2>1 DEF CopyInv, FirstOf
<1>10. ASSUME p \in zonePeers, NEW e \in elements, SendsDelta(e, kept[e])
       PROVE  held[p][e] # <<>>
  <2>1. kept[e][1].time <= Basis
    BY <1>5, <1>10, DeltaHasBasis
  <2>2. Basis \in acks[p]
    BY <1>10, BasisIs DEF SendsDelta
  <2>3. Basis \in AckedBy(p) /\ Basis \in Int
    BY <1>7, <2>2 DEF AckedBy
  <2>4. FirstOf(e) <= Basis
    BY <1>5, <2>1, <2>3
  <2> QED BY <2>3, <2>4 DEF CopyInv, FirstOf
<1>11. ASSUME NEW q \in OnLink(p)'
       PROVE  q \in OnLink(p) \/ SentTo(p, q, change, n, w)
  BY <1>2, <1>11, SentIs
<1>12. ASSUME NEW q, SentTo(p, q, change, n, w)
       PROVE  /\ q.state = tick /\ p \in zonePeers
              /\ \A x \in q.items : x \in Body(kept) \/ ~Live(x)
  <2>1. PICK i \in 1..n : p \in zonePeers /\ q = Fragment(Body(kept), w, n, i)
    BY <1>12 DEF SentTo, kept
  <2> QED BY <2>1, NowIsTick, FragmentIs, FragmentItems
<1>13. ASSUME NEW t \in FramesTo(p)', NEW e \in elements', FirstOf(e)' <= t
       PROVE  held'[p][e] # <<>> \/ Pending(p, t, "full", e)'
  <2>1. e \in elements
    BY <1>3
  <2>2. CASE t \in FramesTo(p)
    <3>1. FirstOf(e) <= t
      BY <1>7, <1>8, <1>13, <2>1, <2>2
    <3>2. held[p][e] # <<>> \/ Pending(p, t, "full", e)
      BY <2>1, <2>2, <3>1 DEF CopyInv, FirstOf
    <3>3. \A q \in OnLink(p)' : q \in OnLink(p) \/ q.state # t
      BY <1>7, <1>11, <1>12, <2>2
    <3> QED BY <1>3, <3>2, <3>3, PendingShrinks
  <2>3. CASE t \notin FramesTo(p)
    <3>1. PICK q \in OnLink(p)' : t = q.state
      BY <1>3, <1>13, <2>3 DEF FramesTo
    <3>2. q \notin OnLink(p)
      BY <2>3, <3>1 DEF FramesTo
    <3>3. t = tick /\ p \in zonePeers
      BY <1>11, <1>12, <3>1, <3>2
    <3>4. CASE SendsDelta(e, kept[e])
      BY <1>3, <1>10, <2>1, <3>3, <3>4
    <3>5. CASE ~SendsDelta(e, kept[e])
      <4>1. PICK x \in Body(kept) : x.kind = "full" /\ x.id = e
        BY <2>1, <3>3, <3>5, WrittenIs
      <4>2. PICK i \in 1..n : x \in Fragment(Body(kept), w, n, i).items
        BY FragmentOf DEF kept
      <4>3. Has(Fragment(Body(kept), w, n, i), "full", e)
        BY <4>1, <4>2 DEF Has
      <4>4. Pending(p, t, "full", e)'
        BY <1>2, <3>3, <4>3, PendingSent DEF kept
      <4> QED BY <4>4
    <3> QED BY <3>4, <3>5
  <2> QED BY <2>2, <2>3
<1>14. ASSUME NEW q \in OnLink(p)', NEW e \in Element, Has(q, "delta", e)
       PROVE  held'[p][e] # <<>>
  <2>1. CASE q \in OnLink(p)
    BY <1>3, <1>14, <2>1 DEF CopyInv
  <2>2. CASE SentTo(p, q, change, n, w)
    <3>1. PICK x \in q.items : x.kind = "delta" /\ x.id = e
      BY <1>14 DEF Has
    <3>2. x \in Body(kept) /\ p \in zonePeers
      BY <1>12, <2>2, <3>1 DEF Live
    <3>3. SendsDelta(e, kept[e]) /\ e \in elements
      BY <3>1, <3>2, WrittenIs, BodyIs
    <3> QED BY <1>3, <1>10, <3>2, <3>3
  <2> QED BY <1>11, <1>14, <2>1, <2>2
<1> QED BY <1>3, <1>9, <1>13, <1>14 DEF CopyInv

\* A packet for one peer leaves the others as they are.
LEMMA CopyOthers ==
  ASSUME Typed, CopyInv, NEW p \in Peer, NEW o \in Peer \ Reordered, o # p,
         UNCHANGED <<elements, syncs, acks, toOwner>>, toPeer'[o] = toPeer[o],
         held'[o] = held[o], state'[o] = state[o], mask'[o] = mask[o],
         expected'[o] = expected[o], ackOut'[o] = ackOut[o], failed' \subseteq failed \cup {p}
  PROVE  /\ o \notin failed'
         /\ \A t \in AckedBy(o)', e \in elements' : FirstOf(e)' <= t => held'[o][e] # <<>>
         /\ \A t \in FramesTo(o)', e \in elements' :
              FirstOf(e)' <= t => held'[o][e] # <<>> \/ Pending(o, t, "full", e)'
         /\ \A q \in OnLink(o)', e \in Element : Has(q, "delta", e) => held'[o][e] # <<>>
<1>1. OnLink(o)' = OnLink(o) /\ AckedBy(o)' = AckedBy(o) /\ FramesTo(o)' = FramesTo(o)
  BY DEF OnLink, AckedBy, FramesTo
<1>2. \A e : FirstOf(e)' = FirstOf(e)
  BY DEF FirstOf
<1>3. ASSUME NEW t, NEW e, Pending(o, t, "full", e)
      PROVE  Pending(o, t, "full", e)'
  BY <1>1, <1>3 DEF Pending, Owes, Has
<1> QED BY <1>1, <1>2, <1>3 DEF CopyInv, FirstOf

LEMMA CopyStep ==
  ASSUME ClockLasts, Typed, OwnerInv, PastInv, LinkInv, ItemInv, CopyInv, [Next]_vars
  PROVE  CopyInv'
<1>1. Typed'
  BY TypedStep
<1>2. \A e \in elements : FirstOf(e) \in Int /\ FirstOf(e) <= FirstOf(e)
  BY FirstIs
<1>3. CASE Quiet
  <2>1. \A e \in elements' : FirstOf(e) <= FirstOf(e)'
    BY <1>2, <1>3 DEF Quiet, FirstOf
  <2> QED BY <1>1, <1>3, <2>1, CopyShrinks DEF Quiet
<1>4. ASSUME NEW e \in Element, RegisterElement(e)
      PROVE  CopyInv'
  BY <1>4, CopyRegister
<1>5. ASSUME NEW e \in Element, RemoveElement(e)
      PROVE  CopyInv'
  <2>1. \A d \in elements' : FirstOf(d) <= FirstOf(d)'
    BY <1>2, <1>5 DEF RemoveElement, FirstOf, Typed
  <2> QED BY <1>1, <1>5, <2>1, CopyShrinks
         DEF RemoveElement, ackVars, peerVars, netVars, AckedBy, OnLink
<1>6. CASE SkipGameState
  <2>1. PICK change \in [elements -> SUBSET Field] :
          /\ syncs' = StatesNow(change)
          /\ UNCHANGED <<elements, ackVars, peerVars, netVars>>
    BY <1>6 DEF SkipGameState
  <2>2. \A e \in elements' : FirstOf(e) <= FirstOf(e)'
    BY <2>1, KeptUnbroken DEF FirstOf
  <2> QED BY <1>1, <2>1, <2>2, CopyShrinks DEF ackVars, peerVars, netVars, AckedBy, OnLink
<1>7. CASE SendGameState
  BY <1>7, CopySend
<1>8. ASSUME NEW p \in Peer, ReceiveGameState(p)
      PROVE  CopyInv'
  <2>1. PICK pkt \in GameState : Takes(p, pkt) /\ Reads(p, pkt)
    BY <1>8, ReceiveReads
  <2>2. UNCHANGED <<elements, syncs, acks, toOwner>> /\ failed' \subseteq failed \cup {p}
    BY <2>1 DEF Reads, ownerVars, ackVars
  <2>3. ASSUME NEW o \in Peer \ Reordered
        PROVE  /\ o \notin failed'
               /\ \A t \in AckedBy(o)', e \in elements' : FirstOf(e)' <= t => held'[o][e] # <<>>
               /\ \A t \in FramesTo(o)', e \in elements' :
                    FirstOf(e)' <= t => held'[o][e] # <<>> \/ Pending(o, t, "full", e)'
               /\ \A q \in OnLink(o)', e \in Element : Has(q, "delta", e) => held'[o][e] # <<>>
    <3>1. CASE o = p
      <4>1. \A e : FirstOf(e)' = FirstOf(e)
        BY <2>2 DEF FirstOf
      <4>2. o \notin failed
        BY DEF CopyInv
      <4> QED BY <2>1, <2>2, <3>1, <4>1, <4>2, CopyRead
    <3>2. CASE o # p
      <4>1. /\ state'[o] = state[o] /\ mask'[o] = mask[o] /\ expected'[o] = expected[o]
            /\ ackOut'[o] = ackOut[o] /\ held'[o] = held[o] /\ toPeer'[o] = toPeer[o]
        BY <2>1, <3>2, ReadIs DEF Takes
      <4> QED BY <2>2, <3>2, <4>1, CopyOthers
    <3> QED BY <3>1, <3>2
  <2> QED BY <2>3, Zenon DEF CopyInv, FirstOf, Has
<1>9. ASSUME NEW p \in Peer, Misread(p)
      PROVE  CopyInv'
  <2>1. PICK pkt \in GameState :
           /\ Takes(p, pkt) /\ Bookkeeping(p, pkt) /\ Misreads(p, pkt)
           /\ ackOut' = ackOut \/ ackOut' = [ackOut EXCEPT ![p] = AckAfter(p, pkt)]
           /\ \A o \in Peer \ {p} : held'[o] = held[o]
           /\ failed' \subseteq failed \cup {p}
           /\ UNCHANGED <<ownerVars, ackVars, toOwner>>
    BY <1>9, MisreadTakes
  <2>2. p \in Reordered
    BY <2>1, FirstCopies DEF Takes
  <2>3. \A o \in Peer \ {p} : /\ state'[o] = state[o] /\ mask'[o] = mask[o] /\ expected'[o] = expected[o]
                              /\ ackOut'[o] = ackOut[o] /\ held'[o] = held[o] /\ toPeer'[o] = toPeer[o]
    BY <2>1 DEF Bookkeeping, Takes, Typed
  <2>4. UNCHANGED <<elements, syncs, acks, toOwner>> /\ failed' \subseteq failed \cup {p}
    BY <2>1 DEF ownerVars, ackVars
  <2>5. ASSUME NEW o \in Peer \ Reordered
        PROVE  /\ o \notin failed'
               /\ \A t \in AckedBy(o)', e \in elements' : FirstOf(e)' <= t => held'[o][e] # <<>>
               /\ \A t \in FramesTo(o)', e \in elements' :
                    FirstOf(e)' <= t => held'[o][e] # <<>> \/ Pending(o, t, "full", e)'
               /\ \A q \in OnLink(o)', e \in Element : Has(q, "delta", e) => held'[o][e] # <<>>
    BY <2>2, <2>3, <2>4, CopyOthers
  <2> QED BY <2>5, Zenon DEF CopyInv, FirstOf, Has
<1> QED BY <1>3, <1>4, <1>5, <1>6, <1>7, <1>8, <1>9, StepIs

LEMMA CopyInit == Init => CopyInv
<1> SUFFICES ASSUME Init PROVE CopyInv
  OBVIOUS
<1>1. \A p \in Peer : AckedBy(p) = {} /\ OnLink(p) = {}
  BY DEF Init, AckedBy, OnLink, Entries
<1> QED BY <1>1 DEF Init, CopyInv

\* All that keeps the copies right, as long as frame numbers have not wrapped.
ZoneInv == Typed /\ OwnerInv /\ PastInv /\ LinkInv /\ ItemInv /\ CopyInv

LEMMA ZoneInvariant ==
  ASSUME ClockLasts
  PROVE  Spec => []ZoneInv
<1>1. Init => ZoneInv
  BY TypedInit, OwnerPastInit, LinkInit, ItemInit, CopyInit DEF ZoneInv
<1>2. ZoneInv /\ [Next]_vars => ZoneInv'
  BY TypedStep, OwnerStep, PastStep, LinkStep, ItemStep, CopyStep DEF ZoneInv
<1> QED BY <1>1, <1>2, PTL DEF Spec

\* The MULTIPLAYER COCKUP: a peer to which packets come in order is never told
\* what changed in an element it has no copy of, whatever frames and
\* acknowledgements are lost and however the fragments of a frame come in.
THEOREM NoPeerCocksUp ==
  ASSUME ClockLasts
  PROVE  Spec => []NoCockup
<1>1. ZoneInv => NoCockup
  BY DEF ZoneInv, CopyInv, NoCockup, Typed
<1> QED BY <1>1, ZoneInvariant, PTL

-----------------------------------------------------------------------------
(* Removed elements.                                                       *)

\* What is known of removals that have become final, at one peer: a frame of
\* their date or later is not acknowledged, nor complete, while the peer has a
\* copy; and once the owner is silent about an element, no item brings it back.
GoneAt(p) ==
  /\ \A t \in AckedBy(p), x \in entities :
       x.final /\ x.basis <= t => held[p][x.id] = <<>>
  /\ \A t \in FramesTo(p), x \in entities : x.final /\ x.basis <= t =>
       \/ t = state[p] /\ held[p][x.id] = <<>>
       \/ Pending(p, t, "destroy", x.id)
  /\ p \notin joined => OnLink(p) = {} /\ \A e \in Element : held[p][e] = <<>>
  /\ p \in zonePeers => \A e \in registered \ elements : (\A x \in entities : x.id # e) =>
       /\ held[p][e] = <<>>
       /\ \A q \in OnLink(p) : \A x \in q.items : x.id = e => ~Live(x)

GoneInv ==
  /\ \A x \in entities : x.basis <= tick /\ (x.final => x.basis < tick)
  /\ \A p \in Peer \ Reordered : GoneAt(p)

\* A removal as long as it is announced.
LEMMA RemovalIs ==
  ASSUME Typed, NEW x \in entities
  PROVE  x.id \in Element /\ x.id \in registered \ elements /\ x.basis \in Time /\ x.basis \in Int
<1>1. x \in Removals(registered \ elements)
  BY DEF Typed
<1>2. x.id \in registered \ elements /\ x.basis \in Time
  BY <1>1 DEF Removals
<1>3. x.basis \in Int
  BY <1>2 DEF Time
<1> QED BY <1>2, <1>3 DEF Typed

\* A step that takes things away, or brings in a peer that never had any.
LEMMA GoneShrinks ==
  ASSUME Typed, GoneInv, UNCHANGED <<held, state, mask, expected>>,
         \A p \in Peer : AckedBy(p)' \subseteq AckedBy(p) /\ OnLink(p)' \subseteq OnLink(p),
         joined \subseteq joined', zonePeers' \subseteq zonePeers \cup (joined' \ joined),
         \A y \in entities' : y.final => y \in entities,
         \A e \in registered' \ elements' : (\A y \in entities' : y.id # e) =>
             e \in registered \ elements /\ \A x \in entities : x.id # e,
         NEW p \in Peer \ Reordered
  PROVE  GoneAt(p)'
<1>1. GoneAt(p)
  BY DEF GoneInv
<1>2. FramesTo(p)' \subseteq FramesTo(p)
  BY DEF FramesTo
<1>3. ASSUME NEW t \in AckedBy(p)', NEW x \in entities', x.final, x.basis <= t
      PROVE  held'[p][x.id] = <<>>
  BY <1>1, <1>3 DEF GoneAt
<1>4. ASSUME NEW t \in FramesTo(p)', NEW x \in entities', x.final, x.basis <= t
      PROVE  (t = state'[p] /\ held'[p][x.id] = <<>>) \/ Pending(p, t, "destroy", x.id)'
  <2>1. (t = state[p] /\ held[p][x.id] = <<>>) \/ Pending(p, t, "destroy", x.id)
    BY <1>1, <1>2, <1>4 DEF GoneAt
  <2> QED BY <2>1, PendingShrinks
<1>5. p \notin joined => OnLink(p) = {} /\ \A e \in Element : held[p][e] = <<>>
  BY <1>1 DEF GoneAt
<1>6. p \notin joined' => OnLink(p)' = {} /\ \A e \in Element : held'[p][e] = <<>>
  BY <1>5
<1>7. ASSUME p \in zonePeers', NEW e \in registered' \ elements', \A x \in entities' : x.id # e
      PROVE  /\ held'[p][e] = <<>>
             /\ \A q \in OnLink(p)' : \A x \in q.items : x.id = e => ~Live(x)
  <2>1. e \in registered \ elements /\ \A x \in entities : x.id # e
    BY <1>7
  <2>2. e \in Element
    BY <2>1 DEF Typed
  <2>3. CASE p \in zonePeers
    <3>1. /\ held[p][e] = <<>>
          /\ \A q \in OnLink(p) : \A x \in q.items : x.id = e => ~Live(x)
      BY <1>1, <2>1, <2>3 DEF GoneAt
    <3> QED BY <3>1
  <2>4. CASE p \notin joined
    BY <1>5, <2>2, <2>4
  <2> QED BY <1>7, <2>3, <2>4
<1> QED BY <1>3, <1>4, <1>6, <1>7, Zenon DEF GoneAt, Live

\* Sending a frame.
LEMMA GoneSend ==
  ASSUME ClockLasts, ZoneInv, GoneInv, SendGameState, NEW p \in Peer \ Reordered
  PROVE  GoneAt(p)'
<1> USE DEF ZoneInv
<1>1. PICK change \in [elements -> SUBSET Field], n \in 1..MaxFragments :
        \E w \in Splits(Body(Kept(change)), n) : Sends(change, n, w)
  BY SendIs
<1>2. PICK w \in Splits(Body(Kept(change)), n) : Sends(change, n, w)
  BY <1>1
<1>3. /\ UNCHANGED <<held, state, mask, expected, elements, registered, zonePeers, joined, ackOut, toOwner>>
      /\ entities' = IF zonePeers = {} THEN {} ELSE Announced
  BY <1>2 DEF Sends, peerVars
<1>4. AckedBy(p)' \subseteq AckedBy(p)
  <2>1. acks'[p] = IF p \in zonePeers THEN Trimmed(acks[p]) ELSE {}
    BY <1>2 DEF Sends
  <2>2. Trimmed(acks[p]) \subseteq acks[p]
    BY TrimmedIsPart DEF Typed
  <2> QED BY <1>3, <2>1, <2>2 DEF AckedBy
<1>5. GoneAt(p)
  BY DEF GoneInv
<1>6. \A t : t \in AckedBy(p) \/ t \in FramesTo(p) => t \in Int /\ t < tick
  BY Types, PacketIs DEF FramesTo, PastInv
<1>7. Now = tick /\ tick \in Int /\ Now \in Time
  BY NowIsTick, NowIsTime
<1>8. ASSUME NEW y \in entities'
      PROVE  /\ \E x \in entities : x.id = y.id
             /\ y \in entities \/ y.basis = tick
  BY <1>3, <1>7, <1>8, AnnouncedIs
<1>9. ASSUME NEW q \in OnLink(p)'
      PROVE  q \in OnLink(p) \/ SentTo(p, q, change, n, w)
  BY <1>2, <1>9, SentIs
<1>10. ASSUME NEW q, SentTo(p, q, change, n, w)
       PROVE  /\ q.state = tick /\ p \in zonePeers
              /\ \A x \in q.items : x.id \in elements \/ ~Live(x)
  <2>1. PICK i \in 1..n : p \in zonePeers /\ q = Fragment(Body(Kept(change)), w, n, i)
    BY <1>10 DEF SentTo
  <2> QED BY <1>7, <2>1, FragmentIs, FragmentItems
<1>11. ASSUME NEW t \in AckedBy(p)', NEW y \in entities', y.final, y.basis <= t
       PROVE  held'[p][y.id] = <<>>
  <2>1. y \in entities
    BY <1>4, <1>6, <1>7, <1>8, <1>11
  <2> QED BY <1>3, <1>4, <1>5, <1>11, <2>1 DEF GoneAt
<1>12. ASSUME NEW t \in FramesTo(p)', NEW y \in entities', y.final, y.basis <= t
       PROVE  (t = state'[p] /\ held'[p][y.id] = <<>>) \/ Pending(p, t, "destroy", y.id)'
  <2>1. CASE t \in FramesTo(p)
    <3>1. y \in entities
      BY <1>6, <1>7, <1>8, <1>12, <2>1
    <3>2. (t = state[p] /\ held[p][y.id] = <<>>) \/ Pending(p, t, "destroy", y.id)
      BY <1>5, <1>12, <2>1, <3>1 DEF GoneAt
    <3>3. \A q \in OnLink(p)' : q \in OnLink(p) \/ q.state # t
      BY <1>6, <1>7, <1>9, <1>10, <2>1
    <3> QED BY <1>3, <3>2, <3>3, PendingShrinks
  <2>2. CASE t \notin FramesTo(p)
    <3>1. PICK q \in OnLink(p)' : t = q.state
      BY <1>3, <1>12, <2>2 DEF FramesTo
    <3>2. q \notin OnLink(p)
      BY <2>2, <3>1 DEF FramesTo
    <3>3. t = tick /\ p \in zonePeers
      BY <1>9, <1>10, <3>1, <3>2
    <3>4. PICK x \in Destroys : x.kind = "destroy" /\ x.id = y.id
      BY <1>8, <1>12, DestroysAre
    <3>5. x \in Fragment(Body(Kept(change)), w, n, n).items
      BY FragmentOf
    <3>6. Has(Fragment(Body(Kept(change)), w, n, n), "destroy", y.id) /\ n \in 1..n
      BY <3>4, <3>5 DEF Has
    <3> QED BY <1>2, <3>3, <3>6, PendingSent
  <2> QED BY <2>1, <2>2
<1>13. p \notin joined' => OnLink(p)' = {} /\ \A e \in Element : held'[p][e] = <<>>
  <2> SUFFICES ASSUME p \notin joined
               PROVE  OnLink(p)' = {} /\ \A e \in Element : held'[p][e] = <<>>
    BY <1>3
  <2>1. p \notin zonePeers
    BY DEF Typed
  <2>2. OnLink(p)' = {}
    BY <1>5, <1>9, <1>10, <2>1 DEF GoneAt
  <2> QED BY <1>3, <1>5, <2>2 DEF GoneAt
<1>14. ASSUME p \in zonePeers, NEW e \in registered \ elements, \A y \in entities' : y.id # e
       PROVE  /\ held[p][e] = <<>>
              /\ \A q \in OnLink(p) : \A x \in q.items : x.id = e => ~Live(x)
  <2>1. CASE \A x \in entities : x.id # e
    BY <1>5, <1>14, <2>1 DEF GoneAt
  <2>2. ASSUME NEW x \in entities, x.id = e
        PROVE  /\ held[p][e] = <<>>
               /\ \A q \in OnLink(p) : \A z \in q.items : z.id = e => ~Live(z)
    <3>1. x.final /\ Older(Basis, Now) /\ Older(x.basis, Basis)
      BY <1>3, <1>14, <2>2, ForgottenWhen
    <3>2. Basis \in Time /\ Basis \in Int /\ Basis < tick /\ 2 * (tick - Basis) <= TimeMod
          /\ Basis \in acks[p]
      BY <1>6, <1>14, <3>1, BasisIs DEF AckedBy
    <3>3. x.basis \in Time /\ x.basis \in Int /\ x.basis < tick
      BY <3>1, RemovalIs DEF GoneInv
    <3>4. x.basis < Basis
      <4> SUFFICES ASSUME x.basis >= Basis PROVE FALSE
        BY <3>2, <3>3
      <4>1. 2 * (x.basis - Basis) >= TimeMod
        BY <3>1, <3>2, <3>3, OlderIs
      <4> QED BY <1>7, <3>2, <3>3, <4>1, TimeAssumption
    <3>5. held[p][e] = <<>>
      <4>1. Basis \in AckedBy(p) /\ x.basis <= Basis
        BY <3>2, <3>3, <3>4 DEF AckedBy
      <4> QED BY <1>5, <2>2, <3>1, <4>1 DEF GoneAt
    <3>6. ASSUME NEW q \in OnLink(p), NEW z \in q.items, z.id = e, Live(z)
          PROVE  FALSE
      <4>1. q.state < x.basis
        BY <2>2, <3>6 DEF ItemInv
      <4>2. Basis <= state[p] /\ state[p] <= q.state
        BY <3>2, <3>6 DEF LinkInv, AckedBy
      <4>3. q.state \in Int /\ state[p] \in Int
        BY <3>6, Types, PacketIs
      <4> QED BY <3>2, <3>3, <3>4, <4>1, <4>2, <4>3
    <3> QED BY <3>5, <3>6
  <2> QED BY <2>1, <2>2
<1>15. ASSUME p \in zonePeers', NEW e \in registered' \ elements', \A y \in entities' : y.id # e
       PROVE  /\ held'[p][e] = <<>>
              /\ \A q \in OnLink(p)' : \A x \in q.items : x.id = e => ~Live(x)
  <2>1. p \in zonePeers /\ e \in registered \ elements
    BY <1>3, <1>15
  <2>2. /\ held[p][e] = <<>>
        /\ \A q \in OnLink(p) : \A x \in q.items : x.id = e => ~Live(x)
    BY <1>14, <1>15, <2>1
  <2> QED BY <1>3, <1>9, <1>10, <2>1, <2>2
<1> QED BY <1>11, <1>12, <1>13, <1>15, Zenon DEF GoneAt, Live

\* Reading a packet.
LEMMA GoneRead ==
  ASSUME ZoneInv, GoneInv, NEW p \in Peer \ Reordered, NEW pkt \in GameState,
         Takes(p, pkt), Reads(p, pkt)
  PROVE  GoneAt(p)'
<1> USE DEF ZoneInv
<1>1. /\ pkt \in OnLink(p) /\ OnLink(p)' \subseteq OnLink(p)
      /\ \A q \in OnLink(p)' : pkt.state <= q.state
  BY DEF Takes, LinkInv
<1>2. ~Cockup(p, pkt)
  BY CopyRead
<1>3. Single(pkt)
  BY <1>1 DEF ItemInv
<1>4. state'[p] = pkt.state /\ state[p] <= pkt.state /\ state[p] \in Int /\ pkt.state \in Int
  BY <1>1, ReadIs, FirstCopies, Types, PacketIs
<1>5. UNCHANGED <<entities, elements, registered, zonePeers, joined>>
  BY DEF Reads, ownerVars, ackVars
<1>6. GoneAt(p)
  BY DEF GoneInv
<1>7. ASSUME NEW e \in Element, \A x \in pkt.items : x.id = e => ~Live(x)
      PROVE  /\ held[p][e] = <<>> => held'[p][e] = <<>>
             /\ Has(pkt, "destroy", e) => held'[p][e] = <<>>
  <2>1. (\E x \in pkt.items : x.id = e) => held'[p][e] = <<>>
    BY <1>2, <1>3, <1>7, HeldAfter
  <2>2. (\A x \in pkt.items : x.id # e) => held'[p][e] = held[p][e]
    BY <1>2, <1>3, HeldAfter
  <2> QED BY <2>1, <2>2 DEF Has
<1>8. ASSUME NEW x \in entities, x.basis <= pkt.state
      PROVE  \A y \in pkt.items : y.id = x.id => ~Live(y)
  <2>1. x.basis \in Int
    BY RemovalIs
  <2> QED BY <1>1, <1>4, <1>8, <2>1 DEF ItemInv
<1>9. ASSUME NEW t \in FramesTo(p)', NEW x \in entities, x.final, x.basis <= t
      PROVE  (t = state'[p] /\ held'[p][x.id] = <<>>) \/ Pending(p, t, "destroy", x.id)'
  <2>1. t \in FramesTo(p) /\ pkt.state <= t /\ t \in Int
    <3>1. CASE t = pkt.state
      BY <1>1, <1>4, <3>1 DEF FramesTo
    <3>2. CASE t # pkt.state
      <4>1. PICK q \in OnLink(p)' : t = q.state
        BY <1>4, <1>9, <3>2 DEF FramesTo
      <4> QED BY <1>1, <4>1, Types, PacketIs DEF FramesTo
    <3> QED BY <3>1, <3>2
  <2>2. (t = state[p] /\ held[p][x.id] = <<>>) \/ Pending(p, t, "destroy", x.id)
    BY <1>6, <1>9, <2>1 DEF GoneAt
  <2>3. t = pkt.state => \A y \in pkt.items : y.id = x.id => ~Live(y)
    BY <1>8, <1>9
  <2>4. x.id \in Element
    BY RemovalIs
  <2>5. CASE t = state[p] /\ held[p][x.id] = <<>>
    <3>1. t = pkt.state
      BY <1>4, <2>1, <2>5
    <3> QED BY <1>4, <1>7, <2>3, <2>4, <2>5, <3>1
  <2>6. CASE Pending(p, t, "destroy", x.id)
    <3>1. ~(t = state[p] /\ t # pkt.state)
      BY <1>4, <2>1
    <3>2. t = pkt.state /\ Has(pkt, "destroy", x.id) => t = state'[p] /\ held'[p][x.id] = <<>>
      BY <1>4, <1>7, <2>3, <2>4
    <3>3. (t = pkt.state /\ Has(pkt, "destroy", x.id)) \/ Pending(p, t, "destroy", x.id)'
      BY <2>6, <3>1, PendingRead
    <3> QED BY <3>2, <3>3
  <2> QED BY <2>2, <2>5, <2>6
<1>10. ASSUME NEW t \in AckedBy(p)', NEW x \in entities, x.final, x.basis <= t
       PROVE  held'[p][x.id] = <<>>
  <2>1. x.id \in Element /\ x.basis \in Int
    BY RemovalIs
  <2>2. CASE t \in AckedBy(p)
    <3>1. held[p][x.id] = <<>>
      BY <1>6, <1>10, <2>2 DEF GoneAt
    <3>2. x.basis <= pkt.state
      <4>1. t <= state[p] /\ t \in Int
        BY <2>2, Types DEF LinkInv
      <4> QED BY <1>4, <1>10, <2>1, <4>1
    <3> QED BY <1>7, <1>8, <2>1, <3>1, <3>2
  <2>3. CASE t \notin AckedBy(p)
    <3>1. state'[p] = t /\ mask'[p] = expected'[p]
      BY <1>10, <2>3, NewAckIs
    <3>2. ~Pending(p, t, "destroy", x.id)'
      BY <3>1 DEF Pending, Owes
    <3>3. t \in FramesTo(p)'
      BY <3>1 DEF FramesTo
    <3> QED BY <1>9, <1>10, <3>2, <3>3
  <2> QED BY <2>2, <2>3
<1>11. p \in joined
  BY <1>1, <1>6 DEF GoneAt
<1>12. ASSUME p \in zonePeers, NEW e \in registered \ elements, \A x \in entities : x.id # e
       PROVE  /\ held'[p][e] = <<>>
              /\ \A q \in OnLink(p)' : \A x \in q.items : x.id = e => ~Live(x)
  <2>1. /\ held[p][e] = <<>>
        /\ \A q \in OnLink(p) : \A x \in q.items : x.id = e => ~Live(x)
    BY <1>6, <1>12 DEF GoneAt
  <2>2. e \in Element
    BY DEF Typed
  <2> QED BY <1>1, <1>7, <2>1, <2>2
<1> QED BY <1>5, <1>9, <1>10, <1>11, <1>12, Zenon DEF GoneAt, Live

\* A packet for another peer.
LEMMA GoneOthers ==
  ASSUME GoneInv, NEW p \in Peer, NEW o \in Peer \ Reordered, o # p,
         UNCHANGED <<ownerVars, ackVars, toOwner>>, toPeer'[o] = toPeer[o],
         held'[o] = held[o], state'[o] = state[o], mask'[o] = mask[o],
         expected'[o] = expected[o], ackOut'[o] = ackOut[o]
  PROVE  GoneAt(o)'
<1>1. OnLink(o)' = OnLink(o) /\ AckedBy(o)' = AckedBy(o) /\ FramesTo(o)' = FramesTo(o)
  BY DEF OnLink, AckedBy, FramesTo, ackVars
<1>2. UNCHANGED <<entities, elements, registered, zonePeers, joined>>
  BY DEF ownerVars, ackVars
<1>3. ASSUME NEW t, NEW e, Pending(o, t, "destroy", e)
      PROVE  Pending(o, t, "destroy", e)'
  BY <1>1, <1>3 DEF Pending, Owes, Has
<1>4. GoneAt(o)
  BY DEF GoneInv
<1>5. ASSUME NEW t \in FramesTo(o), NEW x \in entities, x.final, x.basis <= t
      PROVE  (t = state'[o] /\ held'[o][x.id] = <<>>) \/ Pending(o, t, "destroy", x.id)'
  BY <1>3, <1>4, <1>5 DEF GoneAt
<1> QED BY <1>1, <1>2, <1>4, <1>5 DEF GoneAt, Live

LEMMA GoneStep ==
  ASSUME ClockLasts, ZoneInv, GoneInv, [Next]_vars
  PROVE  GoneInv'
<1> USE DEF ZoneInv
<1>1. Now = tick /\ tick \in Int
  BY NowIsTick
<1>2. \A x \in entities : x.basis <= tick /\ (x.final => x.basis < tick)
  BY DEF GoneInv
<1>3. ASSUME tick' = tick, entities' = entities
      PROVE  \A x \in entities' : x.basis <= tick' /\ (x.final => x.basis < tick')
  BY <1>2, <1>3
<1>12. ASSUME \A x \in entities' : x.basis <= tick' /\ (x.final => x.basis < tick'),
              \A p \in Peer \ Reordered : GoneAt(p)'
       PROVE  GoneInv'
  BY <1>12, Zenon DEF GoneInv
<1>4. CASE Quiet
  <2>1. ASSUME NEW p \in Peer \ Reordered
        PROVE  GoneAt(p)'
    BY <1>4, GoneShrinks DEF Quiet
  <2> QED BY <1>3, <1>4, <2>1, <1>12 DEF Quiet
<1>5. ASSUME NEW e \in Element, RegisterElement(e)
      PROVE  GoneInv'
  <2>1. registered' \ elements' = registered \ elements
    BY <1>5 DEF RegisterElement, Typed
  <2>2. ASSUME NEW p \in Peer \ Reordered
        PROVE  GoneAt(p)'
    BY <1>5, <2>1, GoneShrinks DEF RegisterElement, ackVars, peerVars, netVars, AckedBy, OnLink
  <2> QED BY <1>3, <1>5, <2>2, <1>12 DEF RegisterElement
<1>6. ASSUME NEW e \in Element, RemoveElement(e)
      PROVE  GoneInv'
  <2> DEFINE r == [id |-> e, basis |-> Now, final |-> FALSE]
  <2>1. entities' = entities \cup {r} /\ registered' = registered /\ elements' = elements \ {e}
        /\ tick' = tick
    BY <1>6 DEF RemoveElement
  <2>2. r.id = e /\ r.basis = tick /\ ~r.final
    BY <1>1
  <2> HIDE DEF r
  <2>3. ASSUME NEW p \in Peer \ Reordered
        PROVE  GoneAt(p)'
    <3>1. \A y \in entities' : y.final => y \in entities
      BY <2>1, <2>2
    <3>2. \A d \in registered' \ elements' : (\A y \in entities' : y.id # d) =>
             d \in registered \ elements /\ \A x \in entities : x.id # d
      BY <2>1, <2>2
    <3> QED BY <1>6, <3>1, <3>2, GoneShrinks
           DEF RemoveElement, ackVars, peerVars, netVars, AckedBy, OnLink
  <2>4. \A x \in entities' : x.basis <= tick' /\ (x.final => x.basis < tick')
    BY <1>1, <1>2, <2>1, <2>2
  <2> QED BY <2>3, <2>4, <1>12
<1>7. \A x \in entities : x.basis \in Int
  BY RemovalIs
<1>8. CASE SkipGameState
  <2>1. /\ tick' = tick + 1
        /\ UNCHANGED <<elements, registered, entities, ackVars, peerVars, netVars>>
    BY <1>8 DEF SkipGameState
  <2>2. ASSUME NEW p \in Peer \ Reordered
        PROVE  GoneAt(p)'
    BY <2>1, GoneShrinks DEF ackVars, peerVars, netVars, AckedBy, OnLink
  <2>3. \A x \in entities' : x.basis <= tick' /\ (x.final => x.basis < tick')
    BY <1>1, <1>2, <1>7, <2>1
  <2> QED BY <2>2, <2>3, <1>12
<1>9. CASE SendGameState
  <2>1. tick' = tick + 1 /\ entities' \subseteq Announced
    BY <1>9 DEF SendGameState
  <2>2. ASSUME NEW y \in entities'
        PROVE  y.basis <= tick' /\ y.basis < tick'
    <3>1. y \in entities \/ y.basis = tick
      BY <1>1, <2>1, AnnouncedIs
    <3> QED BY <1>1, <1>2, <1>7, <2>1, <3>1
  <2>3. ASSUME NEW p \in Peer \ Reordered
        PROVE  GoneAt(p)'
    BY <1>9, GoneSend
  <2> QED BY <2>2, <2>3, <1>12
<1>10. ASSUME NEW p \in Peer, ReceiveGameState(p)
       PROVE  GoneInv'
  <2>1. PICK pkt \in GameState : Takes(p, pkt) /\ Reads(p, pkt)
    BY <1>10, ReceiveReads
  <2>2. UNCHANGED <<ownerVars, ackVars, toOwner>>
    BY <2>1 DEF Reads
  <2>3. ASSUME NEW o \in Peer \ Reordered
        PROVE  GoneAt(o)'
    <3>1. CASE o = p
      BY <2>1, <3>1, GoneRead
    <3>2. CASE o # p
      <4>1. /\ state'[o] = state[o] /\ mask'[o] = mask[o] /\ expected'[o] = expected[o]
            /\ ackOut'[o] = ackOut[o] /\ held'[o] = held[o] /\ toPeer'[o] = toPeer[o]
        BY <2>1, <3>2, ReadIs DEF Takes
      <4> QED BY <2>2, <3>2, <4>1, GoneOthers
    <3> QED BY <3>1, <3>2
  <2> QED BY <1>3, <2>2, <2>3, <1>12 DEF ownerVars
<1>11. ASSUME NEW p \in Peer, Misread(p)
       PROVE  GoneInv'
  <2>1. PICK pkt \in GameState :
           /\ Takes(p, pkt) /\ Bookkeeping(p, pkt) /\ Misreads(p, pkt)
           /\ ackOut' = ackOut \/ ackOut' = [ackOut EXCEPT ![p] = AckAfter(p, pkt)]
           /\ \A o \in Peer \ {p} : held'[o] = held[o]
           /\ UNCHANGED <<ownerVars, ackVars, toOwner>>
    BY <1>11, MisreadTakes
  <2>2. p \in Reordered
    BY <2>1, FirstCopies DEF Takes
  <2>3. \A o \in Peer \ {p} : /\ state'[o] = state[o] /\ mask'[o] = mask[o] /\ expected'[o] = expected[o]
                              /\ ackOut'[o] = ackOut[o] /\ held'[o] = held[o] /\ toPeer'[o] = toPeer[o]
    BY <2>1 DEF Bookkeeping, Takes, Typed
  <2>4. ASSUME NEW o \in Peer \ Reordered
        PROVE  GoneAt(o)'
    BY <2>1, <2>2, <2>3, GoneOthers
  <2> QED BY <1>3, <2>1, <2>4, <1>12 DEF ownerVars
<1> QED BY <1>4, <1>5, <1>6, <1>8, <1>9, <1>10, <1>11, StepIs

LEMMA GoneInit == Init => GoneInv
<1> SUFFICES ASSUME Init PROVE GoneInv
  OBVIOUS
<1>1. \A p \in Peer : AckedBy(p) = {} /\ OnLink(p) = {}
  BY DEF Init, AckedBy, OnLink, Entries
<1> QED BY <1>1 DEF Init, GoneInv, GoneAt

\* When the owner stops announcing a removed element, no peer of the zone has
\* a copy of it, if packets come to that peer in order: the removal was in the
\* last fragment of every frame from its date on, and every peer acknowledged
\* such a frame as a whole.
THEOREM ForgottenAreGone ==
  ASSUME ClockLasts
  PROVE  Spec => []ForgottenIsGone
<1>1. Init => ZoneInv /\ GoneInv
  BY TypedInit, OwnerPastInit, LinkInit, ItemInit, CopyInit, GoneInit DEF ZoneInv
<1>2. ZoneInv /\ [Next]_vars => ZoneInv'
  BY TypedStep, OwnerStep, PastStep, LinkStep, ItemStep, CopyStep DEF ZoneInv
<1>3. ZoneInv /\ GoneInv /\ [Next]_vars => GoneInv'
  BY GoneStep
<1>4. ZoneInv /\ GoneInv => ForgottenIsGone
  BY DEF ZoneInv, Typed, GoneInv, GoneAt, ForgottenIsGone
<1> QED BY <1>1, <1>2, <1>3, <1>4, PTL DEF Spec

-----------------------------------------------------------------------------
(* The values of an element over time.  A copy is judged against the       *)
(* history of the element's values, which the program does not keep: the   *)
(* invariant below says that there is one.  As no value returns, values    *)
(* that are the same at two moments are the same in between.               *)

Growing(g) == \A t, u \in Nat : t <= u => \A f \in Field : g[t][f] <= g[u][f]
History == {g \in [Nat -> [Field -> Value]] : Growing(g)}

LEMMA HistoryIs ==
  ASSUME NEW g \in History
  PROVE  /\ \A t \in Nat : g[t] \in [Field -> Value]
         /\ \A t \in Nat, f \in Field : g[t][f] \in Nat
         /\ \A t, u, v \in Nat : t <= u /\ u <= v =>
              \A f \in Field : g[t][f] = g[v][f] => g[u][f] = g[v][f]
         /\ \A t, u, v \in Nat : t <= u /\ u <= v /\ g[t] = g[v] => g[u] = g[v]
<1>1. g \in [Nat -> [Field -> Value]] /\ Growing(g)
  BY DEF History
<1>2. \A t \in Nat : g[t] \in [Field -> Value]
  BY <1>1
<1>3. \A t \in Nat, f \in Field : g[t][f] \in Nat
  BY <1>2, TimeAssumption DEF Value
<1>4. ASSUME NEW t \in Nat, NEW u \in Nat, NEW v \in Nat, t <= u, u <= v, NEW f \in Field,
             g[t][f] = g[v][f]
      PROVE  g[u][f] = g[v][f]
  <2>1. g[t][f] <= g[u][f] /\ g[u][f] <= g[v][f]
    BY <1>1, <1>4 DEF Growing
  <2>2. g[u][f] \in Int /\ g[v][f] \in Int
    BY <1>3
  <2> QED BY <1>4, <2>1, <2>2
<1>5. ASSUME NEW t \in Nat, NEW u \in Nat, NEW v \in Nat, t <= u, u <= v, g[t] = g[v]
      PROVE  g[u] = g[v]
  <2>1. \A f \in Field : g[u][f] = g[v][f]
    BY <1>4, <1>5
  <2>2. g[u] \in [Field -> Value] /\ g[v] \in [Field -> Value]
    BY <1>2
  <2> QED BY <2>1, <2>2
<1> QED BY <1>2, <1>3, <1>4, <1>5

Sorted(s) == \A i, j \in DOMAIN s : i < j => s[i].time <= s[j].time
Exactly(s, g) == \A i \in DOMAIN s : s[i].val = g[s[i].time]
UpTo(s, t) == \A i \in DOMAIN s : s[i].time <= t

\* The last state of s that is not after c shows the values of c.
LastUpTo(s, i, c) == s[i].time <= c /\ \A j \in DOMAIN s : j > i => ~(s[j].time <= c)
Right(s, c, g) == \A i \in DOMAIN s : LastUpTo(s, i, c) => g[s[i].time] = g[c]

\* A copy whose states are in order and are those of their frames.
Faithful(s, g, t) == Sorted(s) /\ Exactly(s, g) /\ UpTo(s, t)

LEMMA CopyIs ==
  ASSUME NEW s \in CopyStates
  PROVE  /\ Len(s) \in Nat /\ DOMAIN s = 1..Len(s) /\ (s # <<>> <=> Len(s) >= 1)
         /\ \A i \in DOMAIN s : s[i] \in Entry /\ s[i].time \in Nat
<1>1. Len(s) \in Nat /\ DOMAIN s = 1..Len(s) /\ (s # <<>> <=> Len(s) >= 1)
  BY DEF CopyStates
<1>2. \A i \in DOMAIN s : s[i] \in Entry
  BY <1>1 DEF CopyStates
<1>3. \A x \in Entry : x.time \in Nat
  BY TimeAssumption DEF Entry, Time
<1> QED BY <1>1, <1>2, <1>3

\* Disposing of old states leaves the others as they are.
LEMMA DisposedCopy ==
  ASSUME NEW s \in CopyStates, NEW g, NEW t, NEW u, Faithful(s, g, u)
  PROVE  /\ Disposed(s, t) \in CopyStates /\ (Disposed(s, t) = <<>> <=> s = <<>>)
         /\ Faithful(Disposed(s, t), g, u)
         /\ \A c : Right(s, c, g) => Right(Disposed(s, t), c, g)
<1>1. PICK k \in 0..Len(s) : (s # <<>> => k < Len(s)) /\ Disposed(s, t) = SubSeq(s, k + 1, Len(s))
  BY DisposedIs DEF CopyStates
<1>2. /\ Len(s) \in Nat /\ DOMAIN s = 1..Len(s) /\ (s # <<>> <=> Len(s) >= 1)
      /\ \A i \in DOMAIN s : s[i] \in Entry
  BY CopyIs
<1> DEFINE d == Disposed(s, t)
<1>3. d \in CopyStates /\ (d = <<>> <=> s = <<>>)
  BY DisposedType DEF CopyStates
<1>4. Len(d) = Len(s) - k /\ \A i \in 1..(Len(s) - k) : d[i] = s[k + i]
  <2> DEFINE r == SubSeq(s, k + 1, Len(s))
  <2>1. /\ Len(r) = IF k + 1 <= Len(s) THEN Len(s) - (k + 1) + 1 ELSE 0
        /\ \A i \in 1 .. Len(s) - (k + 1) + 1 : r[i] = s[(k + 1) + i - 1]
    <3>1. k + 1 \in Int /\ Len(s) \in Int /\ \A i \in (k + 1)..Len(s) : s[i] \in Entry
      BY <1>1, <1>2
    <3> QED BY <3>1, SubSeqProperties
  <2>2. d = r
    BY <1>1
  <2> HIDE DEF r, d
  <2>3. \A i \in 1..(Len(s) - k) : i \in 1 .. Len(s) - (k + 1) + 1 /\ (k + 1) + i - 1 = k + i
    BY <1>1, <1>2
  <2>4. (IF k + 1 <= Len(s) THEN Len(s) - (k + 1) + 1 ELSE 0) = Len(s) - k
    <3>1. k \in Int /\ Len(s) \in Int /\ k <= Len(s)
      BY <1>1, <1>2
    <3> QED BY <3>1
  <2>5. ASSUME NEW i \in 1..(Len(s) - k)
        PROVE  d[i] = s[k + i]
    <3>1. r[i] = s[(k + 1) + i - 1] /\ (k + 1) + i - 1 = k + i
      BY <2>1, <2>3
    <3> QED BY <2>2, <3>1
  <2> QED BY <2>1, <2>2, <2>4, <2>5
<1> HIDE DEF d
<1>5. DOMAIN d = 1..(Len(s) - k)
  BY <1>3, <1>4, CopyIs
<1>6. \A i \in DOMAIN d : k + i \in DOMAIN s /\ d[i] = s[k + i] /\ i \in Int
  BY <1>1, <1>2, <1>4, <1>5
<1>7. k \in Int
  BY <1>1
<1>8. Faithful(d, g, u)
  <2>1. ASSUME NEW i \in DOMAIN d, NEW j \in DOMAIN d, i < j
        PROVE  d[i].time <= d[j].time
    <3>1. k + i < k + j
      BY <1>6, <1>7, <2>1
    <3> QED BY <1>6, <3>1 DEF Faithful, Sorted
  <2>2. Exactly(d, g) /\ UpTo(d, u)
    BY <1>6 DEF Faithful, Exactly, UpTo
  <2> QED BY <2>1, <2>2 DEF Faithful, Sorted
<1>9. ASSUME NEW c, Right(s, c, g), NEW i \in DOMAIN d, LastUpTo(d, i, c)
      PROVE  g[d[i].time] = g[c]
  <2>1. ASSUME NEW j \in DOMAIN s, j > k + i
        PROVE  ~(s[j].time <= c)
    <3>1. j - k \in DOMAIN d /\ j - k > i /\ k + (j - k) = j
      BY <1>1, <1>2, <1>5, <1>6, <1>7, <2>1
    <3>2. d[j - k] = s[j]
      BY <1>6, <3>1
    <3> QED BY <1>9, <3>1, <3>2 DEF LastUpTo
  <2>2. LastUpTo(s, k + i, c)
    BY <1>6, <1>9, <2>1 DEF LastUpTo
  <2> QED BY <1>6, <1>9, <2>2 DEF Right
<1>10. \A c : Right(s, c, g) => Right(d, c, g)
  BY <1>9 DEF Right
<1> QED BY <1>3, <1>8, <1>10 DEF d

\* Inserting a state that is not older than the others.
LEMMA InsertedCopy ==
  ASSUME NEW g, NEW s \in CopyStates, NEW x \in Entry, Faithful(s, g, x.time), x.val = g[x.time]
  PROVE  /\ Inserted(s, x) \in CopyStates /\ Inserted(s, x) # <<>>
         /\ Faithful(Inserted(s, x), g, x.time)
         /\ \A c \in Nat : c < x.time /\ Right(s, c, g) => Right(Inserted(s, x), c, g)
         /\ \A c \in Nat : x.time <= c /\ g[x.time] = g[c] => Right(Inserted(s, x), c, g)
<1> DEFINE n == Cardinality({i \in DOMAIN s : s[i].time < x.time})
           r == Inserted(s, x)
<1>1. /\ Len(s) \in Nat /\ DOMAIN s = 1..Len(s)
      /\ \A i \in DOMAIN s : s[i] \in Entry /\ s[i].time \in Nat
      /\ x.time \in Nat
  BY CopyIs, TimeAssumption DEF Entry, Time
<1>2. n \in 0..Len(s)
  BY <1>1, PartOfInterval
<1>3. r \in CopyStates /\ r # <<>>
  BY InsertedType DEF CopyStates
<1>4. /\ Len(r) = Len(s) + 1 /\ r[n + 1] = x
      /\ \A i \in 1..n : r[i] = s[i]
      /\ \A i \in (n + 1)..Len(s) : r[i + 1] = s[i]
  <2> DEFINE a == SubSeq(s, 1, n)
             b == SubSeq(s, n + 1, Len(s))
             l == a \o <<x>>
  <2>1. r = l \o b
    BY DEF Inserted
  <2> HIDE DEF n, r
  <2>2. /\ a \in CopyStates /\ Len(a) = n /\ \A i \in 1..n : a[i] = s[i]
    <3>1. 1 \in Int /\ n \in Int /\ \A i \in 1..n : s[i] \in Entry
      BY <1>1, <1>2
    <3>2. /\ a \in Seq(Entry) /\ Len(a) = IF 1 <= n THEN n - 1 + 1 ELSE 0
          /\ \A i \in 1 .. n - 1 + 1 : a[i] = s[1 + i - 1]
      BY <3>1, SubSeqProperties
    <3> HIDE DEF a
    <3>3. (IF 1 <= n THEN n - 1 + 1 ELSE 0) = n
      BY <1>2
    <3>4. \A i \in 1..n : i \in 1 .. n - 1 + 1 /\ 1 + i - 1 = i
      BY <1>2
    <3> QED BY <3>2, <3>3, <3>4 DEF CopyStates
  <2>3. /\ b \in CopyStates /\ Len(b) = Len(s) - n
        /\ \A i \in (n + 1)..Len(s) : b[i - n] = s[i]
    <3>1. n + 1 \in Int /\ Len(s) \in Int /\ \A i \in (n + 1)..Len(s) : s[i] \in Entry
      BY <1>1, <1>2
    <3>2. /\ b \in Seq(Entry) /\ Len(b) = IF n + 1 <= Len(s) THEN Len(s) - (n + 1) + 1 ELSE 0
          /\ \A i \in 1 .. Len(s) - (n + 1) + 1 : b[i] = s[(n + 1) + i - 1]
      BY <3>1, SubSeqProperties
    <3> HIDE DEF b
    <3>3. (IF n + 1 <= Len(s) THEN Len(s) - (n + 1) + 1 ELSE 0) = Len(s) - n
      <4>1. n \in Int /\ Len(s) \in Int /\ n <= Len(s)
        BY <1>1, <1>2
      <4> QED BY <4>1
    <3>4. \A i \in (n + 1)..Len(s) : i - n \in 1 .. Len(s) - (n + 1) + 1 /\ (n + 1) + (i - n) - 1 = i
      BY <1>1, <1>2
    <3> QED BY <3>2, <3>3, <3>4 DEF CopyStates
  <2> HIDE DEF a, b
  <2>4. /\ l \in CopyStates /\ Len(l) = n + 1 /\ l[n + 1] = x /\ \A i \in 1..n : l[i] = s[i]
    <3>1. <<x>> \in Seq(Entry) /\ Len(<<x>>) = 1 /\ <<x>>[1] = x
      OBVIOUS
    <3>2. /\ l \in Seq(Entry) /\ Len(l) = n + 1
          /\ \A i \in 1..(n + 1) : l[i] = IF i <= n THEN a[i] ELSE <<x>>[i - n]
      BY <2>2, <3>1, ConcatProperties DEF CopyStates
    <3> HIDE DEF l
    <3>3. n + 1 \in 1..(n + 1) /\ ~(n + 1 <= n) /\ (n + 1) - n = 1
      BY <1>2
    <3>4. \A i \in 1..n : i \in 1..(n + 1) /\ i <= n
      BY <1>2
    <3> QED BY <2>2, <3>1, <3>2, <3>3, <3>4 DEF CopyStates
  <2> HIDE DEF l
  <2>5. /\ Len(l \o b) = (n + 1) + (Len(s) - n)
        /\ \A i \in 1..((n + 1) + (Len(s) - n)) : (l \o b)[i] = IF i <= n + 1 THEN l[i] ELSE b[i - (n + 1)]
    <3>1. l \in Seq(Entry) /\ b \in Seq(Entry)
      BY <2>3, <2>4 DEF CopyStates
    <3>2. /\ Len(l \o b) = Len(l) + Len(b)
          /\ \A i \in 1..(Len(l) + Len(b)) : (l \o b)[i] = IF i <= Len(l) THEN l[i] ELSE b[i - Len(l)]
      BY <3>1, ConcatProperties
    <3>3. Len(l) = n + 1 /\ Len(b) = Len(s) - n
      BY <2>3, <2>4
    <3> QED BY <3>2, <3>3
  <2>6. (n + 1) + (Len(s) - n) = Len(s) + 1
    BY <1>1, <1>2
  <2>7. r[n + 1] = x
    <3>1. n + 1 \in 1..((n + 1) + (Len(s) - n)) /\ n + 1 <= n + 1
      BY <1>1, <1>2
    <3> QED BY <2>1, <2>4, <2>5, <3>1
  <2>8. \A i \in 1..n : r[i] = s[i]
    <3>1. \A i \in 1..n : i \in 1..((n + 1) + (Len(s) - n)) /\ i <= n + 1
      BY <1>1, <1>2
    <3> QED BY <2>1, <2>4, <2>5, <3>1
  <2>9. \A i \in (n + 1)..Len(s) : r[i + 1] = s[i]
    <3> TAKE i \in (n + 1)..Len(s)
    <3>1. i + 1 \in 1..((n + 1) + (Len(s) - n)) /\ ~(i + 1 <= n + 1) /\ (i + 1) - (n + 1) = i - n
      BY <1>1, <1>2
    <3> QED BY <2>1, <2>3, <2>5, <3>1
  <2> QED BY <2>1, <2>5, <2>6, <2>7, <2>8, <2>9
<1>5. \A i \in DOMAIN s : i <= n <=> s[i].time < x.time
  <2> DEFINE S == {i \in DOMAIN s : s[i].time < x.time}
  <2>1. \A i \in S : \A j \in 1..i : j \in S
    <3> SUFFICES ASSUME NEW i \in S, NEW j \in 1..i PROVE j \in S
      OBVIOUS
    <3>1. j \in DOMAIN s /\ i \in DOMAIN s /\ (j < i \/ j = i) /\ s[i].time < x.time
      BY <1>1
    <3>2. s[j].time <= s[i].time
      BY <1>1, <3>1 DEF Faithful, Sorted
    <3>3. s[j].time \in Int /\ s[i].time \in Int /\ x.time \in Int
      BY <1>1, <3>1
    <3> QED BY <3>1, <3>2, <3>3
  <2>2. S \subseteq 1..Len(s)
    BY <1>1
  <2> HIDE DEF S
  <2>3. S = 1..Cardinality(S)
    BY <1>1, <2>1, <2>2, Beginning
  <2>4. S = 1..n
    BY <2>3 DEF S
  <2> HIDE DEF n
  <2>5. \A i \in DOMAIN s : i \in S <=> i <= n
    BY <1>1, <1>2, <2>4
  <2> QED BY <2>5 DEF S
<1> HIDE DEF n, r
<1>6. DOMAIN r = 1..(Len(s) + 1) /\ \A i \in DOMAIN r : r[i].time \in Nat
  BY <1>3, <1>4, CopyIs
<1> DEFINE at(i) == IF i <= n THEN i ELSE i - 1
           to(j) == IF j <= n THEN j ELSE j + 1
<1>7. \A i \in DOMAIN r : i = n + 1 \/ (i # n + 1 /\ at(i) \in DOMAIN s /\ r[i] = s[at(i)])
  <2> TAKE i \in DOMAIN r
  <2>1. CASE i <= n
    BY <1>1, <1>2, <1>4, <1>6, <2>1
  <2>2. CASE i > n + 1
    <3>1. i - 1 \in (n + 1)..Len(s) /\ (i - 1) + 1 = i /\ ~(i <= n)
      BY <1>1, <1>2, <1>6, <2>2
    <3> QED BY <1>1, <1>2, <1>4, <2>2, <3>1
  <2> QED BY <1>2, <1>6, <2>1, <2>2
<1>8. \A j \in DOMAIN s : to(j) \in DOMAIN r /\ r[to(j)] = s[j] /\ to(j) # n + 1
  <2> TAKE j \in DOMAIN s
  <2>1. CASE j <= n
    BY <1>1, <1>2, <1>4, <1>6, <2>1
  <2>2. CASE ~(j <= n)
    <3>1. j \in (n + 1)..Len(s) /\ j + 1 \in 1..(Len(s) + 1) /\ j + 1 # n + 1
      BY <1>1, <1>2, <2>2
    <3> QED BY <1>4, <1>6, <2>2, <3>1
  <2> QED BY <2>1, <2>2
<1>9. /\ \A i, j \in DOMAIN r : i < j /\ i # n + 1 /\ j # n + 1 => at(i) < at(j)
      /\ \A i \in DOMAIN r : i < n + 1 => at(i) <= n /\ at(i) = i
      /\ \A i \in DOMAIN r : i > n + 1 => ~(at(i) <= n)
      /\ \A i, j \in DOMAIN s : i < j => to(i) < to(j)
      /\ \A i \in DOMAIN s : i <= n => to(i) = i
  BY <1>1, <1>2, <1>6
<1> HIDE DEF at, to
<1>10. Sorted(r)
  <2> SUFFICES ASSUME NEW i \in DOMAIN r, NEW j \in DOMAIN r, i < j
               PROVE  r[i].time <= r[j].time
    BY DEF Sorted
  <2>1. CASE i # n + 1 /\ j # n + 1
    BY <1>7, <1>9, <2>1 DEF Faithful, Sorted
  <2>2. CASE j = n + 1
    <3>1. i # n + 1 /\ at(i) \in DOMAIN s /\ r[i] = s[at(i)] /\ at(i) <= n
      BY <1>2, <1>6, <1>7, <1>9, <2>2
    <3> QED BY <1>1, <1>4, <1>5, <2>2, <3>1
  <2>3. CASE i = n + 1
    <3>1. j # n + 1 /\ at(j) \in DOMAIN s /\ r[j] = s[at(j)] /\ ~(at(j) <= n)
      BY <1>2, <1>6, <1>7, <1>9, <2>3
    <3> QED BY <1>1, <1>4, <1>5, <2>3, <3>1
  <2> QED BY <2>1, <2>2, <2>3
<1>11. Exactly(r, g)
  BY <1>4, <1>7 DEF Exactly, Faithful
<1>12. UpTo(r, x.time)
  BY <1>1, <1>4, <1>7 DEF UpTo, Faithful
<1>13. ASSUME NEW c \in Nat, c < x.time, Right(s, c, g), NEW i \in DOMAIN r, LastUpTo(r, i, c)
       PROVE  g[r[i].time] = g[c]
  <2>1. i # n + 1
    BY <1>1, <1>4, <1>13 DEF LastUpTo
  <2>2. at(i) \in DOMAIN s /\ r[i] = s[at(i)] /\ s[at(i)].time <= c
    BY <1>7, <1>13, <2>1 DEF LastUpTo
  <2>3. s[at(i)].time < x.time
    BY <1>1, <1>13, <2>2
  <2>4. at(i) <= n
    BY <1>5, <2>2, <2>3
  <2>5. at(i) = i
    <3>1. ~(i > n + 1)
      BY <1>9, <2>4
    <3>2. i < n + 1
      BY <1>2, <1>6, <2>1, <3>1
    <3> QED BY <1>9, <3>2
  <2>6. ASSUME NEW j \in DOMAIN s, j > at(i)
        PROVE  ~(s[j].time <= c)
    <3>1. to(at(i)) = i /\ to(at(i)) < to(j)
      BY <1>1, <1>9, <2>2, <2>4, <2>5, <2>6
    <3>2. to(j) \in DOMAIN r /\ to(j) > i /\ r[to(j)] = s[j]
      BY <1>6, <1>8, <3>1
    <3> QED BY <1>13, <3>2 DEF LastUpTo
  <2>7. LastUpTo(s, at(i), c)
    BY <2>2, <2>6 DEF LastUpTo
  <2> QED BY <1>13, <2>2, <2>7 DEF Right
<1>14. ASSUME NEW c \in Nat, x.time <= c, g[x.time] = g[c], NEW i \in DOMAIN r, LastUpTo(r, i, c)
       PROVE  g[r[i].time] = g[c]
  <2>1. n + 1 \in DOMAIN r
    BY <1>1, <1>2, <1>6
  <2>2. ~(n + 1 > i)
    BY <1>4, <1>14, <2>1 DEF LastUpTo
  <2>3. r[n + 1].time <= r[i].time
    <3>1. CASE i = n + 1
      BY <1>6, <3>1
    <3>2. CASE i # n + 1
      <4>1. n + 1 < i
        BY <1>6, <2>1, <2>2, <3>2
      <4> QED BY <1>10, <2>1, <4>1 DEF Sorted
    <3> QED BY <3>1, <3>2
  <2>4. r[i].time = x.time
    BY <1>1, <1>4, <1>6, <1>12, <2>3 DEF UpTo
  <2> QED BY <1>14, <2>4
<1>15. \A c \in Nat : c < x.time /\ Right(s, c, g) => Right(r, c, g)
  BY <1>13 DEF Right
<1>16. \A c \in Nat : x.time <= c /\ g[x.time] = g[c] => Right(r, c, g)
  BY <1>14 DEF Right
<1> QED BY <1>3, <1>10, <1>11, <1>12, <1>15, <1>16 DEF r, Faithful

\* The last state of a copy that shows the values of c has them.
LEMMA RightLast ==
  ASSUME NEW g, NEW s \in CopyStates, s # <<>>, NEW u \in Nat, Faithful(s, g, u),
         NEW c \in Nat, u <= c, Right(s, c, g)
  PROVE  /\ Final(s).val = g[c] /\ Final(s).time \in Nat /\ Final(s).time <= u
         /\ g[Final(s).time] = g[c]
<1>1. /\ Len(s) \in DOMAIN s /\ Final(s) = s[Len(s)]
      /\ \A i \in DOMAIN s : s[i].time \in Nat /\ i \in Nat /\ ~(i > Len(s))
  BY CopyIs DEF Final
<1>2. s[Len(s)].time <= u /\ s[Len(s)].val = g[s[Len(s)].time]
  BY <1>1 DEF Faithful, Exactly, UpTo
<1>3. s[Len(s)].time <= c
  BY <1>1, <1>2
<1>4. LastUpTo(s, Len(s), c)
  BY <1>1, <1>3 DEF LastUpTo
<1> QED BY <1>1, <1>2, <1>4 DEF Right

\* The state a delta is applied to: the last one up to the basis, or the first
\* one where all are younger.
LEMMA BaseIs ==
  ASSUME NEW s \in CopyStates, s # <<>>, Sorted(s), NEW pkt, pkt.basis \in Nat,
         ~(pkt.basis >= pkt.state)
  PROVE  \E m \in DOMAIN s : /\ BaseOf(s, pkt) = s[m].val
                             /\ LastUpTo(s, m, pkt.basis) \/ (m = 1 /\ ~(s[m].time <= pkt.basis))
<1> DEFINE P == {i \in 2..Len(s) : \A j \in 2..i : s[j].time <= pkt.basis}
           Q == P \cup {1}
           m == Cardinality(P) + 1
<1>1. Len(s) \in Nat /\ DOMAIN s = 1..Len(s) /\ Len(s) >= 1 /\ \A i \in DOMAIN s : s[i].time \in Nat
  BY CopyIs
<1>2. BaseOf(s, pkt) = s[m].val
  BY DEF BaseOf
<1>3. P \subseteq 2..Len(s) /\ \A i \in P : \A j \in 2..i : j \in P
  <2>1. ASSUME NEW i \in P, NEW j \in 2..i PROVE j \in P
    <3>1. j \in 2..Len(s) /\ \A k \in 2..j : k \in 2..i
      BY <1>1
    <3> QED BY <3>1
  <2> QED BY <2>1
<1>4. \A i \in 2..Len(s) : i \in P <=> s[i].time <= pkt.basis
  <2>1. ASSUME NEW i \in 2..Len(s), s[i].time <= pkt.basis, NEW j \in 2..i
        PROVE  s[j].time <= pkt.basis
    <3>1. i \in DOMAIN s /\ j \in DOMAIN s /\ (j < i \/ j = i)
      BY <1>1
    <3>2. s[j].time <= s[i].time
      BY <1>1, <3>1 DEF Sorted
    <3> QED BY <1>1, <2>1, <3>1, <3>2
  <2> QED BY <2>1
<1>5. IsFiniteSet(P) /\ 1 \notin P
  <2>1. IsFiniteSet(2..Len(s))
    BY <1>1, FS_Interval
  <2> HIDE DEF P
  <2>2. IsFiniteSet(P)
    BY <1>3, <2>1, FS_Subset
  <2>3. 1 \notin 2..Len(s)
    BY <1>1
  <2> QED BY <1>3, <2>2, <2>3
<1> HIDE DEF P
<1>6. Cardinality(Q) = m
  BY <1>5, FS_AddElement
<1>7. Q \subseteq 1..Len(s) /\ \A i \in Q : \A j \in 1..i : j \in Q
  <2>1. ASSUME NEW i \in Q, NEW j \in 1..i PROVE j \in Q
    <3>1. i = 1 \/ (i \in P /\ i \in 2..Len(s))
      BY <1>3
    <3>2. j = 1 \/ j \in 2..i
      BY <1>1, <3>1
    <3> QED BY <1>3, <3>1, <3>2
  <2> QED BY <1>1, <1>3, <2>1
<1> HIDE DEF Q
<1>8. m \in 0..Len(s) /\ Q = 1..m
  <2>1. Cardinality(Q) \in 0..Len(s) /\ Q = 1..Cardinality(Q)
    BY <1>1, <1>7, Beginning
  <2> QED BY <1>6, <2>1
<1>9. m \in 1..Len(s) /\ \A i \in 1..Len(s) : i > m => i \in 2..Len(s) /\ i \notin P
  <2>1. 1 \in 1..m
    BY <1>8 DEF Q
  <2>2. m \in 1..Len(s)
    BY <1>1, <1>8, <2>1
  <2>3. ASSUME NEW i \in 1..Len(s), i > m PROVE i \in 2..Len(s) /\ i \notin P
    <3>1. i \in 2..Len(s) /\ i \notin 1..m
      BY <1>1, <2>2, <2>3
    <3> QED BY <1>8, <3>1 DEF Q
  <2> QED BY <2>2, <2>3
<1>10. \A i \in DOMAIN s : i > m => ~(s[i].time <= pkt.basis)
  BY <1>1, <1>4, <1>9
<1>11. m = 1 \/ s[m].time <= pkt.basis
  <2>1. m \in 1..m
    BY <1>9
  <2>2. m = 1 \/ m \in P
    BY <1>8, <2>1 DEF Q
  <2> QED BY <1>3, <1>4, <2>2
<1>12. m \in DOMAIN s
  BY <1>1, <1>9
<1> HIDE DEF m
<1> QED BY <1>2, <1>10, <1>11, <1>12 DEF LastUpTo

\* A field that is at v what it was at the basis is right in that state.
LEMMA BaseRight ==
  ASSUME NEW g \in History, NEW s \in CopyStates, s # <<>>, NEW v \in Nat, Faithful(s, g, v),
         NEW pkt, pkt.basis \in Nat, ~(pkt.basis >= pkt.state), pkt.basis <= v,
         Right(s, pkt.basis, g), NEW f \in Field, g[pkt.basis][f] = g[v][f]
  PROVE  BaseOf(s, pkt)[f] = g[v][f]
<1>1. Sorted(s) /\ Exactly(s, g) /\ UpTo(s, v)
  BY DEF Faithful
<1>2. PICK m \in DOMAIN s : /\ BaseOf(s, pkt) = s[m].val
                            /\ LastUpTo(s, m, pkt.basis) \/ (m = 1 /\ ~(s[m].time <= pkt.basis))
  BY <1>1, BaseIs
<1>3. s[m].time \in Nat /\ s[m].time <= v /\ BaseOf(s, pkt) = g[s[m].time]
  BY <1>1, <1>2, CopyIs DEF Exactly, UpTo
<1>4. CASE LastUpTo(s, m, pkt.basis)
  BY <1>3, <1>4 DEF Right
<1>5. CASE ~(s[m].time <= pkt.basis)
  <2>1. pkt.basis <= s[m].time
    BY <1>3, <1>5
  <2> QED BY <1>3, <2>1, HistoryIs
<1> QED BY <1>2, <1>4, <1>5

\* What a packet says of an element is what it was at that frame: the fields
\* the item has, and those of the basis.
Says(g, s, pkt, val) ==
  /\ \A f \in DOMAIN val : val[f] = g[pkt.state][f]
  /\ \/ DOMAIN val = Field
     \/ /\ s # <<>> /\ pkt.basis < pkt.state /\ Right(s, pkt.basis, g)
        /\ \A f \in Field \ DOMAIN val : g[pkt.basis][f] = g[pkt.state][f]

\* A copy that reads what is true of its element stays true, and keeps what it
\* shows of earlier frames.
LEMMA UpdatedCopy ==
  ASSUME NEW g \in History, NEW s \in CopyStates, NEW pkt, pkt.state \in Time, pkt.basis \in Nat,
         NEW F \in SUBSET Field, NEW val \in [F -> Value], NEW cut,
         Faithful(s, g, pkt.state), Says(g, s, pkt, val)
  PROVE  /\ Updated(s, pkt, val, cut) \in CopyStates /\ Updated(s, pkt, val, cut) # <<>>
         /\ Faithful(Updated(s, pkt, val, cut), g, pkt.state)
         /\ Right(Updated(s, pkt, val, cut), pkt.state, g)
         /\ \A c \in Nat : Right(s, c, g) /\ (c <= pkt.state \/ s # <<>>)
                              => Right(Updated(s, pkt, val, cut), c, g)
<1> DEFINE rest == Disposed(s, cut)
           base == IF rest = <<>> THEN Blank ELSE BaseOf(rest, pkt)
           x == [time |-> pkt.state, val |-> Applied(base, val)]
           r == Updated(s, pkt, val, cut)
<1>1. r = Inserted(rest, x)
  BY DEF Updated
<1>2. /\ rest \in CopyStates /\ (rest = <<>> <=> s = <<>>) /\ Faithful(rest, g, pkt.state)
      /\ \A c : Right(s, c, g) => Right(rest, c, g)
  BY DisposedCopy
<1>3. pkt.state \in Nat /\ g[pkt.state] \in [Field -> Value]
  BY TimeAssumption, HistoryIs DEF Time
<1> HIDE DEF rest
<1>4. \A f \in Field : Applied(base, val)[f] = g[pkt.state][f]
  <2> SUFFICES ASSUME NEW f \in Field PROVE Applied(base, val)[f] = g[pkt.state][f]
    OBVIOUS
  <2>1. CASE f \in DOMAIN val
    BY <2>1 DEF Applied, Says
  <2>2. CASE f \notin DOMAIN val
    <3>1. /\ rest # <<>> /\ pkt.basis < pkt.state /\ Right(rest, pkt.basis, g)
          /\ g[pkt.basis][f] = g[pkt.state][f]
      BY <1>2, <2>2 DEF Says
    <3>2. ~(pkt.basis >= pkt.state) /\ pkt.basis <= pkt.state
      BY <1>3, <3>1
    <3>3. BaseOf(rest, pkt)[f] = g[pkt.state][f]
      BY <1>2, <1>3, <3>1, <3>2, BaseRight
    <3> QED BY <2>2, <3>1, <3>3 DEF Applied
  <2> QED BY <2>1, <2>2
<1>5. Applied(base, val) = g[pkt.state]
  <2> HIDE DEF base
  <2>1. DOMAIN Applied(base, val) = Field /\ Applied(base, val) = [f \in Field |-> Applied(base, val)[f]]
    BY DEF Applied
  <2> QED BY <1>3, <1>4, <2>1
<1> HIDE DEF base
<1>6. x \in Entry /\ x.time = pkt.state /\ x.val = g[x.time]
  <2>1. Applied(base, val) \in State
    BY <1>3, <1>5 DEF State
  <2> QED BY <1>5, <2>1 DEF Entry
<1> HIDE DEF x, r
<1>7. /\ r \in CopyStates /\ r # <<>> /\ Faithful(r, g, pkt.state)
      /\ \A c \in Nat : c < pkt.state /\ Right(rest, c, g) => Right(r, c, g)
      /\ \A c \in Nat : pkt.state <= c /\ g[pkt.state] = g[c] => Right(r, c, g)
  BY <1>1, <1>2, <1>6, InsertedCopy
<1>8. Right(r, pkt.state, g)
  BY <1>3, <1>7
<1>9. ASSUME NEW c \in Nat, Right(s, c, g), c <= pkt.state \/ s # <<>>
      PROVE  Right(r, c, g)
  <2>1. CASE c < pkt.state
    BY <1>2, <1>7, <1>9, <2>1
  <2>2. CASE c = pkt.state
    BY <1>8, <2>2
  <2>3. CASE c > pkt.state
    <3>1. s # <<>> /\ pkt.state <= c
      BY <1>3, <1>9, <2>3
    <3>2. Final(s).time \in Nat /\ Final(s).time <= pkt.state /\ g[Final(s).time] = g[c]
      BY <1>3, <1>9, <3>1, RightLast
    <3>3. g[pkt.state] = g[c]
      BY <1>3, <3>1, <3>2, HistoryIs
    <3> QED BY <1>7, <3>1, <3>3
  <2> QED BY <1>3, <2>1, <2>2, <2>3
<1> QED BY <1>7, <1>8, <1>9 DEF r

\* A state that shows a moment shows a later one with the same values.
LEMMA RightLater ==
  ASSUME NEW g \in History, NEW s \in CopyStates, NEW b \in Nat, NEW c \in Nat, b <= c,
         g[b] = g[c], Right(s, b, g)
  PROVE  Right(s, c, g)
<1> SUFFICES ASSUME NEW i \in DOMAIN s, LastUpTo(s, i, c) PROVE g[s[i].time] = g[c]
  BY DEF Right
<1>1. \A j \in DOMAIN s : s[j].time \in Nat
  BY CopyIs
<1>2. CASE s[i].time <= b
  <2>1. ASSUME NEW j \in DOMAIN s, j > i PROVE ~(s[j].time <= b)
    BY <1>1, <2>1 DEF LastUpTo
  <2>2. LastUpTo(s, i, b)
    BY <1>2, <2>1 DEF LastUpTo
  <2> QED BY <2>2 DEF Right
<1>3. CASE ~(s[i].time <= b)
  <2>1. b <= s[i].time /\ s[i].time <= c
    BY <1>1, <1>3 DEF LastUpTo
  <2> QED BY <1>1, <2>1, HistoryIs
<1> QED BY <1>2, <1>3

\* Only what was before T counts for a moment before T.
LEMMA RightAgrees ==
  ASSUME NEW g, NEW k, NEW T \in Nat, \A t \in Nat : t < T => g[t] = k[t],
         NEW s \in CopyStates
  PROVE  /\ \A c \in Nat : c < T /\ Right(s, c, g) => Right(s, c, k)
         /\ \A u \in Nat : u < T /\ Faithful(s, g, u) => Faithful(s, k, u)
<1>1. \A j \in DOMAIN s : s[j].time \in Nat
  BY CopyIs
<1>2. ASSUME NEW c \in Nat, c < T, Right(s, c, g), NEW i \in DOMAIN s, LastUpTo(s, i, c)
      PROVE  k[s[i].time] = k[c]
  <2>1. s[i].time < T
    BY <1>1, <1>2 DEF LastUpTo
  <2>2. g[s[i].time] = g[c]
    BY <1>2 DEF Right
  <2> QED BY <1>1, <1>2, <2>1, <2>2
<1>3. ASSUME NEW u \in Nat, u < T, Faithful(s, g, u)
      PROVE  Faithful(s, k, u)
  <2>1. \A i \in DOMAIN s : s[i].time < T /\ s[i].val = g[s[i].time]
    BY <1>1, <1>3 DEF Faithful, UpTo, Exactly
  <2> QED BY <1>1, <1>3, <2>1 DEF Faithful, Exactly
<1> QED BY <1>2, <1>3 DEF Right

LEMMA FaithfulLater ==
  ASSUME NEW g, NEW s \in CopyStates, NEW u \in Nat, NEW v \in Nat, u <= v, Faithful(s, g, u)
  PROVE  Faithful(s, g, v)
BY CopyIs DEF Faithful, UpTo

\* An empty copy is faithful to everything.
LEMMA NoCopyIs ==
  ASSUME NEW g, NEW t
  PROVE  Faithful(<<>>, g, t) /\ \A c : Right(<<>>, c, g)
BY DEF Faithful, Sorted, Exactly, UpTo, Right

-----------------------------------------------------------------------------
(* The history of the elements.  h[e][t] is the state of e in frame t.     *)

\* No value of a field returns: it goes up by one in a frame at most.
ValuesLast == MaxFrame <= NumValues

\* h is what the owner's elements went through.

OwnerExact(h) ==
  /\ \A e \in elements :
       /\ \A x \in Entries(syncs[e]) : x.val = h[e][x.time]
       /\ \A f \in Field : Final(syncs[e]).val[f] < tick
  /\ \A e \in Element \ registered : \A t \in Nat : h[e][t] = [f \in Field |-> 0]

\* What the owner's states are.
LEMMA OwnIs ==
  ASSUME NEW s \in OwnStates, s # <<>>
  PROVE  /\ Final(s) \in Entries(s) /\ Final(s).val \in [Field -> Value] /\ Final(s).time \in Nat
         /\ \A x \in Entries(s) : x \in OwnEntry /\ x.time \in Nat
         /\ \A f \in Field : Final(s).val[f] \in Nat
<1>1. Len(s) \in DOMAIN s /\ \A i \in DOMAIN s : s[i] \in OwnEntry
  BY StatesAre
<1>2. \A x \in OwnEntry : x.val \in [Field -> Value] /\ x.time \in Nat
  BY TimeAssumption DEF OwnEntry, Time
<1>3. \A v \in Value : v \in Nat
  BY TimeAssumption DEF Value
<1> QED BY <1>1, <1>2, <1>3 DEF Final, Entries

\* Attaching adds at most the new state, disposing adds nothing.
LEMMA AttachedEntries ==
  ASSUME NEW s \in OwnStates, s # <<>>, NEW v
  PROVE  \/ Attached(s, v) = s /\ ~Older(Final(s).time, Now)
         \/ /\ Entries(Attached(s, v)) = Entries(s) \cup {[time |-> Now, val |-> v]}
            /\ Final(Attached(s, v)) = [time |-> Now, val |-> v]
            /\ Older(Final(s).time, Now)
<1> DEFINE x == [time |-> Now, val |-> v]
<1>1. CASE ~Older(Final(s).time, Now)
  BY <1>1 DEF Attached
<1>2. CASE Older(Final(s).time, Now)
  <2>1. Attached(s, v) = Append(s, x)
    BY <1>2 DEF Attached
  <2> HIDE DEF x
  <2>2. Len(s) \in Nat /\ DOMAIN s = 1..Len(s) /\ Len(s) >= 1
    BY StatesAre
  <2>3. /\ Len(Append(s, x)) = Len(s) + 1 /\ DOMAIN Append(s, x) = 1..(Len(s) + 1)
        /\ Append(s, x)[Len(s) + 1] = x
        /\ \A i \in 1..Len(s) : Append(s, x)[i] = s[i]
    BY <2>2 DEF OwnStates
  <2>4. Final(Append(s, x)) = x
    BY <2>3 DEF Final
  <2>5. Entries(Append(s, x)) = Entries(s) \cup {x}
    <3>1. \A i \in 1..(Len(s) + 1) : i = Len(s) + 1 \/ i \in 1..Len(s)
      BY <2>2
    <3>2. \A i \in 1..Len(s) : i \in 1..(Len(s) + 1)
      BY <2>2
    <3>3. Len(s) + 1 \in 1..(Len(s) + 1)
      BY <2>2
    <3>4. \A y \in Entries(Append(s, x)) : y \in Entries(s) \cup {x}
      BY <2>2, <2>3, <3>1 DEF Entries
    <3>5. \A y \in Entries(s) : y \in Entries(Append(s, x))
      BY <2>2, <2>3, <3>2 DEF Entries
    <3>6. x \in Entries(Append(s, x))
      BY <2>3, <3>3 DEF Entries
    <3> QED BY <3>4, <3>5, <3>6
  <2> QED BY <1>2, <2>1, <2>4, <2>5 DEF x
<1> QED BY <1>1, <1>2

LEMMA DisposedEntries ==
  ASSUME NEW S, NEW s \in Seq(S), NEW t
  PROVE  Entries(Disposed(s, t)) \subseteq Entries(s)
<1>1. PICK k \in 0..Len(s) : Disposed(s, t) = SubSeq(s, k + 1, Len(s))
  BY DisposedIs
<1>2. Len(s) \in Nat /\ DOMAIN s = 1..Len(s) /\ \A i \in 1..Len(s) : s[i] \in S
  OBVIOUS
<1> DEFINE r == SubSeq(s, k + 1, Len(s))
<1>3. /\ r \in Seq(S) /\ Len(r) = IF k + 1 <= Len(s) THEN Len(s) - (k + 1) + 1 ELSE 0
      /\ \A i \in 1 .. Len(s) - (k + 1) + 1 : r[i] = s[(k + 1) + i - 1]
  <2>1. k + 1 \in Int /\ Len(s) \in Int /\ \A i \in (k + 1)..Len(s) : s[i] \in S
    BY <1>2
  <2> QED BY <2>1, SubSeqProperties
<1> HIDE DEF r
<1>4. DOMAIN r = 1..Len(r)
  BY <1>3
<1>5. ASSUME NEW i \in DOMAIN r
      PROVE  i \in 1 .. Len(s) - (k + 1) + 1 /\ (k + 1) + i - 1 \in DOMAIN s
  <2>1. i \in Int /\ 1 <= i /\ i <= Len(r) /\ Len(r) \in Nat
    BY <1>3, <1>4
  <2>2. k + 1 <= Len(s) /\ Len(r) = Len(s) - (k + 1) + 1
    BY <1>3, <2>1
  <2> QED BY <1>2, <2>1, <2>2
<1>6. \A i \in DOMAIN r : r[i] \in Entries(s)
  BY <1>3, <1>5 DEF Entries
<1>7. Entries(r) \subseteq Entries(s)
  BY <1>6 DEF Entries
<1> QED BY <1>1, <1>7 DEF r

\* The oldest and the latest of the owner's states.
LEMMA UnbrokenUpTo ==
  ASSUME NEW s \in OwnStates, s # <<>>, Unbroken(s), NEW x \in Entries(s)
  PROVE  s[1].time <= x.time /\ x.time <= Final(s).time
<1>1. /\ Len(s) \in Nat /\ Len(s) >= 1 /\ DOMAIN s = 1..Len(s) /\ s[1].time \in Int
  BY StatesAre
<1>2. PICK i \in 1..Len(s) : x = s[i]
  BY <1>1 DEF Entries
<1>3. x.time = s[1].time + (i - 1) /\ Final(s).time = s[1].time + (Len(s) - 1)
  BY <1>1, <1>2 DEF Unbroken, Final
<1> QED BY <1>1, <1>3

\* A step of a frame goes up by one at most, as the values last.
LEMMA SteppedIs ==
  ASSUME ClockLasts, ValuesLast, Typed, tick < MaxFrame, NEW v \in [Field -> Value],
         \A f \in Field : v[f] < tick, NEW F
  PROVE  /\ Stepped(v, F) \in [Field -> Value]
         /\ \A f \in Field : v[f] <= Stepped(v, F)[f] /\ Stepped(v, F)[f] < tick + 1
<1>1. ASSUME NEW f \in Field
      PROVE  /\ v[f] \in Nat /\ (v[f] + 1) % NumValues = v[f] + 1
             /\ v[f] + 1 \in Value /\ v[f] + 1 < tick + 1
  <2>1. /\ tick \in Nat /\ NumValues \in Nat /\ NumValues >= 1 /\ MaxFrame \in Nat
        /\ MaxFrame <= NumValues
    BY NowIsTick, TimeAssumption, BoundAssumption DEF ValuesLast
  <2>2. v[f] \in Nat
    BY TimeAssumption DEF Value
  <2>3. v[f] < tick
    OBVIOUS
  <2> DEFINE d == v[f] + 1
  <2>4. d \in Int /\ d >= 0 /\ -NumValues < d /\ d < NumValues /\ d < tick + 1
    BY <2>1, <2>2, <2>3
  <2>5. d % NumValues = d
    <3> HIDE DEF d
    <3> QED BY <2>1, <2>4, SmallMod
  <2>6. d \in Value
    BY <2>1, <2>4 DEF Value
  <2> QED BY <2>2, <2>4, <2>5, <2>6
<1>2. \A f \in Field : Stepped(v, F)[f] = IF f \in F THEN v[f] + 1 ELSE v[f]
  BY <1>1 DEF Stepped
<1>3. tick \in Nat
  BY NowIsTick
<1>4. \A f \in Field : v[f] <= Stepped(v, F)[f] /\ Stepped(v, F)[f] < tick + 1
  BY <1>1, <1>2, <1>3
<1>5. Stepped(v, F) = [f \in Field |-> IF f \in F THEN v[f] + 1 ELSE v[f]]
  BY <1>1 DEF Stepped
<1>6. Stepped(v, F) \in [Field -> Value]
  BY <1>1, <1>5
<1> QED BY <1>4, <1>6

\* After a frame there is a history that goes on from the one before.
GoesOn(h, k, change) ==
  /\ \A e \in Element, t \in Nat : t < tick => h[e][t] = k[e][t]
  /\ \A e \in elements : \A s \in {StatesNow(change)[e], Kept(change)[e]} :
       /\ \A x \in Entries(s) : x.val = k[e][x.time]
       /\ \A f \in Field : Final(s).val[f] < tick + 1
  /\ \A e \in Element \ registered : k[e] = h[e]

\* It is the old one up to this frame, and stays at this frame's state from then on.
LEMMA HistoryGoesOn ==
  ASSUME ClockLasts, ValuesLast, Typed, OwnerInv, NEW h \in [Element -> History], OwnerExact(h),
         NEW change \in [elements -> SUBSET Field], tick < MaxFrame
  PROVE  \E k \in [Element -> History] : GoesOn(h, k, change)
<1> DEFINE now(e) == StatesNow(change)[e]
           last(e) == Final(now(e)).val
           path(e) == [t \in Nat |-> IF t < tick THEN h[e][t] ELSE last(e)]
           k == [e \in Element |-> IF e \in elements THEN path(e) ELSE h[e]]
<1>1. Now = tick /\ tick \in Nat /\ tick >= 1 /\ tick \in Time
  BY NowIsTick, NowIsTime
<1>2. ASSUME NEW e \in elements
      PROVE  /\ e \in Element /\ h[e] \in History
             /\ last(e) \in [Field -> Value]
             /\ \A t \in Nat, f \in Field : t < tick => h[e][t][f] <= last(e)[f]
             /\ \A f \in Field : last(e)[f] < tick + 1
             /\ \A x \in Entries(now(e)) : x.time \in Nat /\ x.val = path(e)[x.time]
             /\ \A x \in Entries(Kept(change)[e]) : x \in Entries(now(e))
             /\ Final(Kept(change)[e]) = Final(now(e))
  <2> DEFINE s == syncs[e]
             y == Final(s)
             v == Stepped(y.val, change[e])
  <2>1. e \in Element /\ h[e] \in History /\ s \in OwnStates /\ s # <<>>
    BY DEF Typed
  <2>2. Unbroken(s) /\ y.time \in {tick - 1, tick}
    BY DEF OwnerInv
  <2>3. /\ \A x \in Entries(s) : x.val = h[e][x.time] /\ x.time \in Nat /\ x.time <= y.time
        /\ y \in Entries(s) /\ y.val \in [Field -> Value] /\ y.time \in Nat
        /\ \A f \in Field : y.val[f] < tick
    BY <2>1, <2>2, OwnIs, UnbrokenUpTo DEF OwnerExact
  <2>4. v \in [Field -> Value] /\ \A f \in Field : y.val[f] <= v[f] /\ v[f] < tick + 1
    <3> HIDE DEF y
    <3> QED BY <2>3, SteppedIs
  <2>5. now(e) = Attached(s, v)
    BY <2>1 DEF StatesNow
  <2>6. /\ now(e) \in OwnStates /\ now(e) # <<>>
        /\ Kept(change)[e] = Disposed(now(e), LastBasis)
    BY <2>1, StatesNowType DEF Kept
  <2> HIDE DEF now, s, v
  <2>7. \/ now(e) = s /\ last(e) = y.val
        \/ /\ Entries(now(e)) = Entries(s) \cup {[time |-> Now, val |-> v]}
           /\ last(e) = v /\ y.time < tick
    <3>1. Older(y.time, tick) => y.time < tick
      <4>1. ~Older(tick, tick)
        BY <1>1, OlderIs, TimeAssumption
      <4> QED BY <1>1, <2>2, <2>3, <4>1
    <3> QED BY <1>1, <2>1, <2>5, <3>1, AttachedEntries
  <2>8. /\ last(e) \in [Field -> Value]
        /\ \A f \in Field : /\ y.val[f] <= last(e)[f] /\ last(e)[f] < tick + 1
                            /\ y.val[f] \in Nat /\ last(e)[f] \in Nat
    <3>1. \A f \in Field : y.val[f] \in Nat /\ v[f] \in Nat
      BY <2>3, <2>4, TimeAssumption DEF Value
    <3>2. \A f \in Field : y.val[f] <= y.val[f] /\ y.val[f] < tick + 1
      BY <1>1, <2>3, <3>1
    <3> QED BY <2>3, <2>4, <2>7, <3>1, <3>2
  <2>9. ASSUME NEW t \in Nat, NEW f \in Field, t < tick
        PROVE  h[e][t][f] <= last(e)[f]
    <3>1. t <= y.time
      BY <1>1, <2>2, <2>3, <2>9
    <3>2. h[e][t][f] <= h[e][y.time][f]
      BY <2>1, <2>3, <3>1 DEF History, Growing
    <3>3. h[e][t][f] \in Nat /\ h[e][y.time] = y.val
      BY <2>1, <2>3, HistoryIs
    <3> QED BY <2>8, <3>2, <3>3
  <2>10. ASSUME NEW x \in Entries(now(e))
         PROVE  x.time \in Nat /\ x.val = path(e)[x.time]
    <3> HIDE DEF last
    <3>1. CASE x \in Entries(s) /\ x.time < tick
      BY <2>3, <3>1
    <3>2. CASE x \in Entries(s) /\ ~(x.time < tick)
      <4>1. x.time = y.time /\ y.time = tick
        BY <1>1, <2>2, <2>3, <3>2
      <4>2. last(e) = y.val
        BY <1>1, <2>7, <4>1
      <4> QED BY <1>1, <2>3, <3>2, <4>1, <4>2
    <3>3. CASE x \notin Entries(s)
      <4>1. x = [time |-> Now, val |-> v] /\ last(e) = v
        BY <2>7, <2>10, <3>3
      <4>2. x.time = tick /\ x.val = last(e)
        BY <1>1, <4>1
      <4> QED BY <1>1, <4>2
    <3> QED BY <3>1, <3>2, <3>3
  <2>11. Entries(Kept(change)[e]) \subseteq Entries(now(e)) /\ Final(Kept(change)[e]) = Final(now(e))
    BY <2>6, DisposedEntries, DisposedType DEF OwnStates
  <2> QED BY <2>1, <2>8, <2>9, <2>10, <2>11
<1> HIDE DEF now, last
<1>3. ASSUME NEW e \in elements PROVE path(e) \in History
  <2>1. \A t \in Nat : h[e][t] \in [Field -> Value]
    BY <1>2, HistoryIs
  <2>2. path(e) \in [Nat -> [Field -> Value]]
    BY <1>2, <2>1
  <2>3. ASSUME NEW t \in Nat, NEW u \in Nat, t <= u, NEW f \in Field
        PROVE  path(e)[t][f] <= path(e)[u][f]
    <3>1. last(e)[f] \in Nat
      BY <1>2, TimeAssumption DEF Value
    <3>2. CASE u < tick
      <4>1. t < tick
        BY <1>1, <2>3, <3>2
      <4> QED BY <1>2, <2>3, <3>2, <4>1 DEF History, Growing
    <3>3. CASE t < tick /\ ~(u < tick)
      BY <1>2, <3>3
    <3>4. CASE ~(t < tick)
      <4>1. ~(u < tick)
        BY <1>1, <2>3, <3>4
      <4> QED BY <3>1, <3>4, <4>1
    <3> QED BY <3>2, <3>3, <3>4
  <2> HIDE DEF path
  <2> QED BY <2>2, <2>3 DEF History, Growing
<1>4. /\ \A e \in elements, t \in Nat : t < tick => path(e)[t] = h[e][t]
  OBVIOUS
<1> HIDE DEF path
<1>5. k \in [Element -> History]
  BY <1>3
<1>6. GoesOn(h, k, change)
  <2>1. \A e \in Element, t \in Nat : t < tick => h[e][t] = k[e][t]
    BY <1>4
  <2>2. ASSUME NEW e \in elements, NEW s \in {StatesNow(change)[e], Kept(change)[e]}
        PROVE  /\ \A x \in Entries(s) : x.val = k[e][x.time]
               /\ \A f \in Field : Final(s).val[f] < tick + 1
    <3>1. k[e] = path(e)
      BY <1>2
    <3>2. \A x \in Entries(s) : x.val = path(e)[x.time]
      BY <1>2, <2>2 DEF now
    <3>3. Final(s).val = last(e)
      BY <1>2, <2>2 DEF now, last
    <3> QED BY <1>2, <3>1, <3>2, <3>3
  <2>3. \A e \in Element \ registered : k[e] = h[e]
    BY DEF Typed
  <2> HIDE DEF k
  <2> QED BY <2>1, <2>2, <2>3 DEF GoesOn
<1> QED BY <1>5, <1>6

-----------------------------------------------------------------------------
(* What a peer shows, and what it will.  Its copies are faithful to the    *)
(* history; what is on its way is true of its frame, and a delta's other   *)
(* fields are right in the copy it is for; a frame that is acknowledged is *)
(* shown; and a frame on its way is shown already, or still owes the item  *)
(* that would show it.                                                     *)

\* What an item of packet q says, to the copy p has of the element.
Tells(h, p, q, x) ==
  /\ \A f \in DOMAIN x.val : x.val[f] = h[x.id][q.state][f]
  /\ \/ DOMAIN x.val = Field
     \/ /\ x.kind = "delta" /\ q.basis < q.state /\ q.basis <= state[p]
        /\ Right(held[p][x.id], q.basis, h[x.id])
        /\ \A f \in Field \ DOMAIN x.val : h[x.id][q.basis][f] = h[x.id][q.state][f]

Shown(h, p, t, e) ==
  \/ held[p][e] # <<>> /\ Right(held[p][e], t, h[e])
  \/ Pending(p, t, "full", e)
  \/ Pending(p, t, "delta", e)

PeerExact(h, p) ==
  /\ \A e \in Element : Faithful(held[p][e], h[e], state[p])
  /\ \A q \in OnLink(p) : \A x \in q.items : Live(x) => Tells(h, p, q, x)
  /\ \A t \in AckedBy(p), e \in elements : FirstOf(e) <= t => Right(held[p][e], t, h[e])
  /\ \A t \in FramesTo(p), e \in elements : FirstOf(e) <= t => Shown(h, p, t, e)

ValueInv ==
  \E h \in [Element -> History] : OwnerExact(h) /\ \A p \in Peer \ Reordered : PeerExact(h, p)

LEMMA ItemIs ==
  ASSUME Typed, NEW p \in Peer, NEW q \in OnLink(p), NEW x \in q.items
  PROVE  /\ q.state \in Nat /\ q.basis \in Nat /\ q.state \in Time
         /\ x.id \in Element /\ x.kind \in {"full", "delta", "destroy"}
         /\ DOMAIN x.val \in SUBSET Field /\ x.val \in [DOMAIN x.val -> Value]
<1>1. q \in GameState
  BY Types
<1>2. q.state \in Time /\ q.basis \in Time /\ x \in Item
  BY <1>1 DEF GameState
<1>3. \A t \in Time : t \in Nat
  BY TimeAssumption DEF Time
<1>4. x.id \in Element /\ x.kind \in {"full", "delta", "destroy"}
      /\ \E F \in SUBSET Field : x.val \in [F -> Value]
  BY <1>2 DEF Item
<1> QED BY <1>2, <1>3, <1>4

\* What was sent, acknowledged and shown before stays right in the next frame.
LEMMA PeerGoesOn ==
  ASSUME ClockLasts, Typed, PastInv, NEW h \in [Element -> History], NEW k \in [Element -> History],
         \A e \in Element, t \in Nat : t < tick => h[e][t] = k[e][t],
         NEW p \in Peer \ Reordered, PeerExact(h, p), UNCHANGED <<held, state, mask, expected>>,
         AckedBy(p)' \subseteq AckedBy(p),
         \A q \in OnLink(p)' : q \in OnLink(p) \/ q.state = tick,
         \A e \in elements', t \in AckedBy(p) \cup FramesTo(p) :
            FirstOf(e)' <= t => e \in elements /\ FirstOf(e) <= t
  PROVE  /\ \A e \in Element : Faithful(held'[p][e], k[e], state'[p])
         /\ \A q \in OnLink(p)' : q \in OnLink(p) =>
              \A x \in q.items : Live(x) => Tells(k, p, q, x)'
         /\ \A t \in AckedBy(p)', e \in elements' : FirstOf(e)' <= t => Right(held'[p][e], t, k[e])
         /\ \A t \in FramesTo(p)', e \in elements' :
              t \in FramesTo(p) /\ FirstOf(e)' <= t => Shown(k, p, t, e)'
<1>1. /\ tick \in Nat /\ \A t \in AckedBy(p) \cup FramesTo(p) : t \in Nat /\ t < tick
      /\ state[p] \in Nat
  <2>1. \A t \in Time : t \in Nat
    BY TimeAssumption DEF Time
  <2>2. \A t \in AckedBy(p) \cup FramesTo(p) : t \in Nat
    BY <2>1, Types, PacketIs DEF FramesTo
  <2>3. \A t \in AckedBy(p) \cup FramesTo(p) : t < tick
    BY DEF FramesTo, PastInv
  <2> QED BY <2>2, <2>3, NowIsTick DEF FramesTo
<1>2. ASSUME NEW e \in Element
      PROVE  /\ held[p][e] \in CopyStates
             /\ \A c \in Nat : c < tick /\ Right(held[p][e], c, h[e]) => Right(held[p][e], c, k[e])
             /\ \A u \in Nat : u < tick /\ Faithful(held[p][e], h[e], u) => Faithful(held[p][e], k[e], u)
  <2>1. held[p][e] \in CopyStates
    BY DEF Typed
  <2>2. \A t \in Nat : t < tick => h[e][t] = k[e][t]
    OBVIOUS
  <2> QED BY <1>1, <2>1, <2>2, RightAgrees
<1>3. \A e \in Element : Faithful(held'[p][e], k[e], state'[p])
  BY <1>1, <1>2 DEF PeerExact, FramesTo
<1>4. ASSUME NEW q \in OnLink(p), NEW x \in q.items, Live(x)
      PROVE  Tells(k, p, q, x)'
  <2>1. Tells(h, p, q, x)
    BY <1>4 DEF PeerExact
  <2>2. /\ q.state \in Nat /\ q.state < tick /\ q.basis \in Nat /\ x.id \in Element
    BY <1>1, ItemIs DEF FramesTo
  <2>3. h[x.id][q.state] = k[x.id][q.state]
    BY <2>2
  <2>4. CASE DOMAIN x.val = Field
    BY <2>1, <2>3, <2>4 DEF Tells
  <2>5. CASE DOMAIN x.val # Field
    <3>1. /\ x.kind = "delta" /\ q.basis < q.state /\ q.basis <= state[p]
          /\ Right(held[p][x.id], q.basis, h[x.id])
          /\ \A f \in Field \ DOMAIN x.val : h[x.id][q.basis][f] = h[x.id][q.state][f]
      BY <2>1, <2>5 DEF Tells
    <3>2. q.basis < tick
      BY <1>1, <2>2, <3>1
    <3>3. h[x.id][q.basis] = k[x.id][q.basis] /\ Right(held[p][x.id], q.basis, k[x.id])
      BY <1>2, <2>2, <3>1, <3>2
    <3> QED BY <2>1, <2>3, <3>1, <3>3 DEF Tells
  <2> QED BY <2>4, <2>5
<1>5. ASSUME NEW t \in AckedBy(p)', NEW e \in elements', FirstOf(e)' <= t
      PROVE  Right(held'[p][e], t, k[e])
  <2>1. e \in elements /\ FirstOf(e) <= t /\ t \in AckedBy(p)
    BY <1>5
  <2>2. e \in Element /\ Right(held[p][e], t, h[e])
    BY <2>1 DEF PeerExact, Typed
  <2> QED BY <1>1, <1>2, <2>1, <2>2
<1>6. ASSUME NEW t \in FramesTo(p), NEW e \in elements', FirstOf(e)' <= t
      PROVE  Shown(k, p, t, e)'
  <2>1. e \in elements /\ FirstOf(e) <= t
    BY <1>6
  <2>2. e \in Element /\ Shown(h, p, t, e)
    BY <2>1 DEF PeerExact, Typed
  <2>3. \A q \in OnLink(p)' : q \in OnLink(p) \/ q.state # t
    BY <1>1
  <2>4. \A kind : Pending(p, t, kind, e) => Pending(p, t, kind, e)'
    BY <2>3, PendingShrinks
  <2>5. Right(held[p][e], t, h[e]) => Right(held'[p][e], t, k[e])
    BY <1>1, <1>2, <2>2
  <2> QED BY <2>2, <2>4, <2>5 DEF Shown
<1> QED BY <1>3, <1>4, <1>5, <1>6

\* A step that sends nothing.
LEMMA PeerRests ==
  ASSUME ClockLasts, Typed, PastInv, NEW h \in [Element -> History], NEW k \in [Element -> History],
         \A e \in Element, t \in Nat : t < tick => h[e][t] = k[e][t],
         NEW p \in Peer \ Reordered, PeerExact(h, p), UNCHANGED <<held, state, mask, expected>>,
         AckedBy(p)' \subseteq AckedBy(p), OnLink(p)' \subseteq OnLink(p),
         \A e \in elements', t \in AckedBy(p) \cup FramesTo(p) :
            FirstOf(e)' <= t => e \in elements /\ FirstOf(e) <= t
  PROVE  PeerExact(k, p)'
<1>1. FramesTo(p)' \subseteq FramesTo(p)
  BY DEF FramesTo
<1>2. \A q \in OnLink(p)' : q \in OnLink(p)
  OBVIOUS
<1>3. /\ \A e \in Element : Faithful(held'[p][e], k[e], state'[p])
      /\ \A q \in OnLink(p)' : \A x \in q.items : Live(x) => Tells(k, p, q, x)'
      /\ \A t \in AckedBy(p)', e \in elements' : FirstOf(e)' <= t => Right(held'[p][e], t, k[e])
      /\ \A t \in FramesTo(p)', e \in elements' : FirstOf(e)' <= t => Shown(k, p, t, e)'
  BY <1>1, <1>2, PeerGoesOn
<1> QED BY <1>3, Zenon DEF PeerExact, Live

\* The steps of the owner that are not the send, and those that change nothing
\* of what the values depend on.
LEMMA ValueQuiet ==
  ASSUME ClockLasts, Typed, PastInv, ValueInv, Quiet
  PROVE  ValueInv'
<1>1. PICK h \in [Element -> History] : OwnerExact(h) /\ \A p \in Peer \ Reordered : PeerExact(h, p)
  BY DEF ValueInv
<1>2. OwnerExact(h)'
  BY <1>1 DEF Quiet, OwnerExact
<1>3. ASSUME NEW p \in Peer \ Reordered
      PROVE  PeerExact(h, p)'
  <2>1. \A e \in elements', t \in AckedBy(p) \cup FramesTo(p) :
          FirstOf(e)' <= t => e \in elements /\ FirstOf(e) <= t
    BY DEF Quiet, FirstOf
  <2>2. PeerExact(h, p)
    BY <1>1
  <2>3. UNCHANGED <<held, state, mask, expected>> /\ p \in Peer
        /\ AckedBy(p)' \subseteq AckedBy(p) /\ OnLink(p)' \subseteq OnLink(p)
    BY DEF Quiet
  <2> QED BY <2>1, <2>2, <2>3, PeerRests
<1> QED BY <1>1, <1>2, <1>3 DEF ValueInv

\* A new element: it has no history yet, and no frame so far is of its time.
LEMMA ValueRegister ==
  ASSUME ClockLasts, Typed, PastInv, ValueInv, NEW d \in Element, RegisterElement(d)
  PROVE  ValueInv'
<1>1. PICK h \in [Element -> History] : OwnerExact(h) /\ \A p \in Peer \ Reordered : PeerExact(h, p)
  BY DEF ValueInv
<1>2. Now = tick /\ tick \in Nat /\ tick >= 1 /\ tick \in Int
  BY NowIsTick
<1> DEFINE x == [time |-> Now, val |-> [f \in Field |-> 0]]
<1>3. /\ d \notin registered /\ elements' = elements \cup {d} /\ registered' = registered \cup {d}
      /\ tick' = tick /\ syncs' = [syncs EXCEPT ![d] = <<x>>]
      /\ UNCHANGED <<held, state, mask, expected>>
      /\ \A p \in Peer : AckedBy(p)' = AckedBy(p) /\ OnLink(p)' = OnLink(p)
  BY DEF RegisterElement, ackVars, peerVars, netVars, AckedBy, OnLink
<1>4. x.time = tick /\ x.val = [f \in Field |-> 0]
  BY <1>2
<1> HIDE DEF x
<1>5. \A e \in Element : syncs'[e] = IF e = d THEN <<x>> ELSE syncs[e]
  BY <1>3 DEF Typed
<1>6. Entries(<<x>>) = {x} /\ Final(<<x>>) = x /\ <<x>>[1] = x
  BY DEF Entries, Final
<1>7. OwnerExact(h)'
  <2>1. ASSUME NEW e \in elements'
        PROVE  /\ \A y \in Entries(syncs'[e]) : y.val = h[e][y.time]
               /\ \A f \in Field : Final(syncs'[e]).val[f] < tick'
    <3>1. e \in Element /\ (e = d \/ e \in elements)
      BY <1>3 DEF Typed
    <3>2. CASE e = d
      <4>1. h[e][tick] = [f \in Field |-> 0]
        BY <1>1, <1>2, <1>3, <3>2 DEF OwnerExact
      <4>2. \A f \in Field : x.val[f] < tick
        BY <1>2, <1>4
      <4> QED BY <1>3, <1>4, <1>5, <1>6, <3>1, <3>2, <4>1, <4>2
    <3>3. CASE e # d
      BY <1>1, <1>3, <1>5, <3>1, <3>3 DEF OwnerExact
    <3> QED BY <3>2, <3>3
  <2>2. \A e \in Element \ registered' : \A t \in Nat : h[e][t] = [f \in Field |-> 0]
    BY <1>1, <1>3 DEF OwnerExact
  <2> QED BY <2>1, <2>2 DEF OwnerExact
<1>8. ASSUME NEW p \in Peer \ Reordered
      PROVE  PeerExact(h, p)'
  <2>1. ASSUME NEW e \in elements', NEW t \in AckedBy(p) \cup FramesTo(p), FirstOf(e)' <= t
        PROVE  e \in elements /\ FirstOf(e) <= t
    <3>1. t \in Int /\ t < tick
      BY Types, PacketIs DEF FramesTo, PastInv
    <3>2. e \in Element /\ (e = d \/ e \in elements)
      BY <1>3 DEF Typed
    <3>3. e # d
      BY <1>2, <1>4, <1>5, <1>6, <2>1, <3>1, <3>2 DEF FirstOf
    <3> QED BY <1>5, <2>1, <3>2, <3>3 DEF FirstOf
  <2>2. PeerExact(h, p) /\ p \in Peer
    BY <1>1
  <2>3. AckedBy(p)' \subseteq AckedBy(p) /\ OnLink(p)' \subseteq OnLink(p)
    BY <1>3
  <2> QED BY <1>3, <2>1, <2>2, <2>3, PeerRests
<1> QED BY <1>1, <1>7, <1>8 DEF ValueInv

\* A removed element no longer counts.
LEMMA ValueRemove ==
  ASSUME ClockLasts, Typed, PastInv, ValueInv, NEW d \in Element, RemoveElement(d)
  PROVE  ValueInv'
<1>1. PICK h \in [Element -> History] : OwnerExact(h) /\ \A p \in Peer \ Reordered : PeerExact(h, p)
  BY DEF ValueInv
<1>2. /\ elements' = elements \ {d} /\ registered' = registered /\ tick' = tick
      /\ \A e \in Element \ {d} : syncs'[e] = syncs[e]
      /\ UNCHANGED <<held, state, mask, expected>>
      /\ \A p \in Peer : AckedBy(p)' = AckedBy(p) /\ OnLink(p)' = OnLink(p)
  BY DEF RemoveElement, Typed, ackVars, peerVars, netVars, AckedBy, OnLink
<1>3. \A e \in elements' : e \in elements /\ e \in Element /\ syncs'[e] = syncs[e]
  BY <1>2 DEF Typed
<1>4. OwnerExact(h)'
  BY <1>1, <1>2, <1>3 DEF OwnerExact
<1>5. ASSUME NEW p \in Peer \ Reordered
      PROVE  PeerExact(h, p)'
  <2>1. \A e \in elements', t \in AckedBy(p) \cup FramesTo(p) :
          FirstOf(e)' <= t => e \in elements /\ FirstOf(e) <= t
    BY <1>3 DEF FirstOf
  <2>2. PeerExact(h, p) /\ p \in Peer
    BY <1>1
  <2>3. AckedBy(p)' \subseteq AckedBy(p) /\ OnLink(p)' \subseteq OnLink(p)
    BY <1>2
  <2> QED BY <1>2, <2>1, <2>2, <2>3, PeerRests
<1> QED BY <1>1, <1>4, <1>5 DEF ValueInv

\* The owner's own states after a frame.
LEMMA OwnerGoesOn ==
  ASSUME Typed, NEW h \in [Element -> History], NEW k \in [Element -> History],
         NEW change \in [elements -> SUBSET Field], OwnerExact(h), GoesOn(h, k, change),
         UNCHANGED <<elements, registered>>, tick' = tick + 1,
         syncs' \in {StatesNow(change), Kept(change)}
  PROVE  OwnerExact(k)'
<1>1. ASSUME NEW e \in elements'
      PROVE  /\ \A x \in Entries(syncs'[e]) : x.val = k[e][x.time]
             /\ \A f \in Field : Final(syncs'[e]).val[f] < tick'
  <2>1. e \in elements /\ syncs'[e] \in {StatesNow(change)[e], Kept(change)[e]}
    OBVIOUS
  <2> QED BY <2>1 DEF GoesOn
<1>2. \A e \in Element \ registered' : \A t \in Nat : k[e][t] = [f \in Field |-> 0]
  BY DEF GoesOn, OwnerExact
<1> QED BY <1>1, <1>2 DEF OwnerExact

\* A frame that the rate limiter skips.
LEMMA ValueSkip ==
  ASSUME ClockLasts, ValuesLast, Typed, OwnerInv, PastInv, ValueInv, SkipGameState
  PROVE  ValueInv'
<1>1. PICK h \in [Element -> History] : OwnerExact(h) /\ \A p \in Peer \ Reordered : PeerExact(h, p)
  BY DEF ValueInv
<1>2. PICK change \in [elements -> SUBSET Field] :
        /\ tick < MaxFrame /\ tick' = tick + 1
        /\ syncs' = StatesNow(change)
        /\ UNCHANGED <<elements, registered, ackVars, peerVars, netVars>>
  BY DEF SkipGameState
<1>3. PICK k \in [Element -> History] : GoesOn(h, k, change)
  BY <1>1, <1>2, HistoryGoesOn
<1>4. OwnerExact(k)'
  BY <1>1, <1>2, <1>3, OwnerGoesOn
<1>5. ASSUME NEW p \in Peer \ Reordered
      PROVE  PeerExact(k, p)'
  <2>1. ASSUME NEW e \in elements', NEW t \in AckedBy(p) \cup FramesTo(p), FirstOf(e)' <= t
        PROVE  e \in elements /\ FirstOf(e) <= t
    <3>1. e \in elements /\ FirstOf(e) \in Int /\ t \in Int
      BY <1>2, FirstIs, Types, PacketIs DEF FramesTo
    <3>2. StatesNow(change)[e] \in OwnStates /\ StatesNow(change)[e] # <<>>
          /\ FirstOf(e) <= StatesNow(change)[e][1].time
      BY <3>1, KeptUnbroken DEF FirstOf
    <3>3. FirstOf(e)' = StatesNow(change)[e][1].time /\ FirstOf(e)' \in Int
      BY <1>2, <3>2, StatesAre DEF FirstOf
    <3> QED BY <2>1, <3>1, <3>2, <3>3
  <2>2. PeerExact(h, p) /\ p \in Peer
    BY <1>1
  <2>3. /\ AckedBy(p)' \subseteq AckedBy(p) /\ OnLink(p)' \subseteq OnLink(p)
        /\ UNCHANGED <<held, state, mask, expected>>
    BY <1>2 DEF ackVars, peerVars, netVars, AckedBy, OnLink
  <2>4. \A e \in Element, t \in Nat : t < tick => h[e][t] = k[e][t]
    BY <1>3 DEF GoesOn
  <2> QED BY <2>1, <2>2, <2>3, <2>4, PeerRests
<1> QED BY <1>4, <1>5 DEF ValueInv

\* The state of the basis and the last one, in the history.
LEMMA SyncsAre ==
  ASSUME NEW s \in OwnStates, s # <<>>, NEW g, \A x \in Entries(s) : x.val = g[x.time],
         Final(s).time = tick
  PROVE  /\ Final(s).val = g[tick]
         /\ \A t : HasSyncAt(s, t) => SyncAt(s, t) = g[t]
<1>1. Final(s).val = g[tick]
  BY OwnIs
<1>2. ASSUME NEW t, HasSyncAt(s, t)
      PROVE  SyncAt(s, t) = g[t]
  BY <1>2 DEF HasSyncAt, SyncAt
<1> QED BY <1>1, <1>2

\* An element that a frame sends as a delta: its basis is shown by every peer.
LEMMA DeltaIs ==
  ASSUME ClockLasts, Typed, OwnerInv, PastInv, LinkInv, CopyInv, NEW h \in [Element -> History],
         NEW p \in zonePeers \ Reordered, PeerExact(h, p), NEW e \in elements,
         NEW s \in OwnStates, s # <<>>, Unbroken(s), Final(s).time \in {tick - 1, tick},
         FirstOf(e) <= s[1].time, SendsDelta(e, s)
  PROVE  /\ Basis \in Nat /\ Basis < tick /\ Basis <= state[p] /\ HasSyncAt(s, Basis)
         /\ held[p][e] # <<>> /\ Right(held[p][e], Basis, h[e])
<1>1. s[1].time <= Basis /\ HasSyncAt(s, Basis)
  BY DeltaHasBasis
<1>2. Basis \in Time /\ Basis < tick /\ Basis \in acks[p]
  BY BasisIs DEF SendsDelta
<1>3. p \in Peer \ Reordered /\ Basis \in AckedBy(p) /\ Basis \in Nat
  BY <1>2, TimeAssumption DEF AckedBy, Typed, Time
<1>4. FirstOf(e) <= Basis
  <2>1. FirstOf(e) \in Int /\ s[1].time \in Int
    BY FirstIs, StatesAre
  <2> QED BY <1>1, <1>3, <2>1
<1> QED BY <1>1, <1>2, <1>3, <1>4 DEF LinkInv, CopyInv, PeerExact, FirstOf

\* A frame that is sent: a delta without fields says that the basis still holds,
\* and every peer shows the basis.
LEMMA ValueSend ==
  ASSUME ClockLasts, ValuesLast, Typed, OwnerInv, PastInv, LinkInv, CopyInv, ValueInv, SendGameState
  PROVE  ValueInv'
<1>1. PICK h \in [Element -> History] : OwnerExact(h) /\ \A p \in Peer \ Reordered : PeerExact(h, p)
  BY DEF ValueInv
<1>2. PICK change \in [elements -> SUBSET Field], n \in 1..MaxFragments :
        \E w \in Splits(Body(Kept(change)), n) : Sends(change, n, w)
  BY SendIs
<1>3. PICK w \in Splits(Body(Kept(change)), n) : Sends(change, n, w)
  BY <1>2
<1> DEFINE kept == Kept(change)
<1>4. /\ UNCHANGED <<held, state, mask, expected, elements, registered, ackOut, toOwner>>
      /\ syncs' = kept /\ tick < MaxFrame /\ tick' = tick + 1
  BY <1>3 DEF Sends, peerVars
<1>5. PICK k \in [Element -> History] : GoesOn(h, k, change)
  BY <1>1, <1>4, HistoryGoesOn
<1>6. OwnerExact(k)'
  BY <1>1, <1>4, <1>5, OwnerGoesOn
<1>7. \A p \in Peer : AckedBy(p)' \subseteq AckedBy(p)
  <2>1. \A p \in Peer : acks'[p] = IF p \in zonePeers THEN Trimmed(acks[p]) ELSE {}
    BY <1>3 DEF Sends
  <2>2. \A p \in Peer : Trimmed(acks[p]) \subseteq acks[p]
    BY TrimmedIsPart DEF Typed
  <2> QED BY <1>4, <2>1, <2>2 DEF AckedBy
<1>8. tick \in Nat /\ Now = tick
  BY NowIsTick
<1>9. ASSUME NEW e \in elements
      PROVE  /\ e \in Element /\ kept[e] \in OwnStates /\ kept[e] # <<>> /\ Unbroken(kept[e])
             /\ Final(kept[e]).time = tick /\ FirstOf(e) <= kept[e][1].time
             /\ FirstOf(e) \in Int /\ kept[e][1].time \in Int
             /\ Final(kept[e]).val = k[e][tick] /\ k[e][tick] \in [Field -> Value]
             /\ \A t : HasSyncAt(kept[e], t) => SyncAt(kept[e], t) = k[e][t]
  <2>1. /\ kept[e] \in OwnStates /\ kept[e] # <<>> /\ Unbroken(kept[e])
        /\ Final(kept[e]).time = tick /\ FirstOf(e) <= kept[e][1].time
    BY KeptUnbroken DEF FirstOf
  <2>2. \A x \in Entries(kept[e]) : x.val = k[e][x.time]
    BY <1>5 DEF GoesOn
  <2> HIDE DEF kept
  <2>3. e \in Element /\ k[e][tick] \in [Field -> Value]
    BY <1>8, HistoryIs DEF Typed
  <2> QED BY <2>1, <2>2, <2>3, SyncsAre, FirstIs, StatesAre
<1> HIDE DEF kept
<1>10. \A e \in elements : FirstOf(e)' = kept[e][1].time
  BY <1>4 DEF FirstOf
<1>11. \A e \in Element, t \in Nat : t < tick => h[e][t] = k[e][t]
  BY <1>5 DEF GoesOn
<1>12. ASSUME NEW p \in Peer \ Reordered
       PROVE  PeerExact(k, p)'
  <2>1. PeerExact(h, p) /\ p \in Peer
    BY <1>1
  <2>2. ASSUME NEW q, SentTo(p, q, change, n, w)
        PROVE  /\ q.state = tick /\ q.basis = Basis /\ p \in zonePeers
               /\ \A x \in q.items : Live(x) => x \in Body(kept)
    <3>1. PICK i \in 1..n : p \in zonePeers /\ q = Fragment(Body(kept), w, n, i)
      BY <2>2 DEF SentTo, kept
    <3> QED BY <1>8, <3>1, FragmentIs, FragmentItems
  <2>3. \A q \in OnLink(p)' : q \in OnLink(p) \/ SentTo(p, q, change, n, w)
    BY <1>3, SentIs
  <2>4. \A q \in OnLink(p)' : q \in OnLink(p) \/ q.state = tick
    BY <2>2, <2>3
  <2>5. ASSUME NEW e \in elements', NEW t \in AckedBy(p) \cup FramesTo(p), FirstOf(e)' <= t
        PROVE  e \in elements /\ FirstOf(e) <= t
    <3>1. e \in elements /\ t \in Int
      BY <1>4, Types, PacketIs DEF FramesTo
    <3> QED BY <1>9, <1>10, <2>5, <3>1
  <2>6. /\ \A e \in Element : Faithful(held'[p][e], k[e], state'[p])
        /\ \A q \in OnLink(p)' : q \in OnLink(p) =>
             \A x \in q.items : Live(x) => Tells(k, p, q, x)'
        /\ \A t \in AckedBy(p)', e \in elements' : FirstOf(e)' <= t => Right(held'[p][e], t, k[e])
        /\ \A t \in FramesTo(p)', e \in elements' :
             t \in FramesTo(p) /\ FirstOf(e)' <= t => Shown(k, p, t, e)'
    <3>1. AckedBy(p)' \subseteq AckedBy(p) /\ UNCHANGED <<held, state, mask, expected>>
      BY <1>4, <1>7
    <3> QED BY <1>11, <2>1, <2>4, <2>5, <3>1, PeerGoesOn
  <2>7. ASSUME p \in zonePeers, NEW e \in elements, SendsDelta(e, kept[e])
        PROVE  /\ Basis \in Nat /\ Basis < tick /\ Basis <= state[p]
               /\ held[p][e] # <<>> /\ Right(held[p][e], Basis, k[e]) /\ held[p][e] \in CopyStates
               /\ \A f \in Field : f \in Changed(kept[e]) <=> k[e][Basis][f] # k[e][tick][f]
    <3>1. /\ Basis \in Nat /\ Basis < tick /\ Basis <= state[p] /\ HasSyncAt(kept[e], Basis)
          /\ held[p][e] # <<>> /\ Right(held[p][e], Basis, h[e])
      BY <1>9, <2>1, <2>7, DeltaIs
    <3>2. held[p][e] \in CopyStates /\ \A t \in Nat : t < tick => h[e][t] = k[e][t]
      BY <1>9, <1>11 DEF Typed
    <3>3. Right(held[p][e], Basis, k[e])
      BY <1>8, <3>1, <3>2, RightAgrees
    <3>4. \A f \in Field : f \in Changed(kept[e]) <=> k[e][Basis][f] # k[e][tick][f]
      BY <1>9, <3>1 DEF Changed
    <3> QED BY <3>1, <3>2, <3>3, <3>4
  <2>8. ASSUME NEW q \in OnLink(p)', NEW x \in q.items, Live(x)
        PROVE  Tells(k, p, q, x)'
    <3>1. CASE q \in OnLink(p)
      BY <2>6, <2>8, <3>1
    <3>2. CASE SentTo(p, q, change, n, w)
      <4>1. /\ q.state = tick /\ q.basis = Basis /\ p \in zonePeers /\ x \in Body(kept)
        BY <2>2, <2>8, <3>2
      <4>2. x.id \in elements /\ x \in Written(x.id, kept[x.id])
        BY <4>1, BodyIs
      <4> DEFINE e == x.id
      <4>3. CASE ~SendsDelta(e, kept[e])
        <5>1. x.val = k[e][tick]
          BY <1>9, <4>2, <4>3 DEF Written
        <5>2. DOMAIN x.val = Field
          BY <1>9, <4>2, <5>1
        <5> QED BY <4>1, <5>1, <5>2 DEF Tells
      <4>4. CASE SendsDelta(e, kept[e])
        <5>1. x = [kind |-> "delta", id |-> e, val |-> [f \in Changed(kept[e]) |-> Final(kept[e]).val[f]]]
          BY <4>2, <4>4 DEF Written
        <5>2. /\ x.kind = "delta" /\ DOMAIN x.val = Changed(kept[e])
              /\ \A f \in DOMAIN x.val : x.val[f] = k[e][tick][f]
          <6>1. x.kind = "delta" /\ x.val = [f \in Changed(kept[e]) |-> Final(kept[e]).val[f]]
            BY <5>1
          <6> QED BY <1>9, <4>2, <6>1
        <5>3. /\ Basis < tick /\ Basis <= state[p] /\ Right(held[p][e], Basis, k[e])
              /\ \A f \in Field \ DOMAIN x.val : k[e][Basis][f] = k[e][tick][f]
          BY <2>7, <4>1, <4>2, <4>4, <5>2
        <5> QED BY <1>4, <4>1, <5>2, <5>3 DEF Tells
      <4> QED BY <4>3, <4>4
    <3> QED BY <2>3, <3>1, <3>2
  <2>9. ASSUME NEW t \in FramesTo(p)', NEW e \in elements', FirstOf(e)' <= t
        PROVE  Shown(k, p, t, e)'
    <3>1. e \in elements
      BY <1>4
    <3>2. CASE t \in FramesTo(p)
      BY <2>6, <2>9, <3>2
    <3>3. CASE t \notin FramesTo(p)
      <4>1. PICK q \in OnLink(p)' : t = q.state
        BY <1>4, <2>9, <3>3 DEF FramesTo
      <4>2. q \notin OnLink(p)
        BY <3>3, <4>1 DEF FramesTo
      <4>3. t = tick /\ p \in zonePeers
        BY <2>2, <2>3, <4>1, <4>2
      <4>4. ASSUME NEW x \in Body(kept), x.id = e
            PROVE  Pending(p, t, x.kind, e)'
        <5>1. PICK i \in 1..n : x \in Fragment(Body(kept), w, n, i).items
          BY FragmentOf DEF kept
        <5>2. Has(Fragment(Body(kept), w, n, i), x.kind, e)
          BY <4>4, <5>1 DEF Has
        <5> QED BY <1>3, <4>3, <5>2, PendingSent DEF kept
      <4>5. CASE ~SendsDelta(e, kept[e])
        <5>1. PICK x \in Body(kept) : x.kind = "full" /\ x.id = e
          BY <3>1, <4>3, <4>5, WrittenIs
        <5>2. Pending(p, t, "full", e)'
          BY <4>4, <5>1
        <5> QED BY <5>2 DEF Shown
      <4>6. CASE SendsDelta(e, kept[e]) /\ Changed(kept[e]) # {}
        <5> DEFINE x == [kind |-> "delta", id |-> e, val |-> [f \in Changed(kept[e]) |-> Final(kept[e]).val[f]]]
        <5>1. x \in Written(e, kept[e])
          BY <4>6 DEF Written
        <5>2. x \in Body(kept)
          BY <3>1, <4>3, <5>1 DEF Body
        <5>3. x.id = e /\ x.kind = "delta"
          OBVIOUS
        <5> HIDE DEF x
        <5>4. Pending(p, t, "delta", e)'
          BY <4>4, <5>2, <5>3
        <5> QED BY <5>4 DEF Shown
      <4>7. CASE SendsDelta(e, kept[e]) /\ Changed(kept[e]) = {}
        <5>1. /\ Basis \in Nat /\ Basis < tick /\ held[p][e] # <<>> /\ Right(held[p][e], Basis, k[e])
              /\ held[p][e] \in CopyStates /\ \A f \in Field : k[e][Basis][f] = k[e][tick][f]
          BY <2>7, <3>1, <4>3, <4>7
        <5>2. k[e][Basis] = k[e][tick]
          <6>1. k[e][Basis] \in [Field -> Value] /\ k[e][tick] \in [Field -> Value]
            BY <1>8, <1>9, <3>1, <5>1, HistoryIs
          <6> QED BY <5>1, <6>1
        <5>3. Right(held[p][e], tick, k[e])
          <6>1. k[e] \in History /\ Basis <= tick
            BY <1>8, <1>9, <3>1, <5>1
          <6> QED BY <1>8, <5>1, <5>2, <6>1, RightLater
        <5> QED BY <1>4, <4>3, <5>1, <5>3 DEF Shown
      <4> QED BY <4>5, <4>6, <4>7
    <3> QED BY <3>2, <3>3
  <2> QED BY <2>6, <2>8, <2>9, Zenon DEF PeerExact, Live
<1> QED BY <1>6, <1>12 DEF ValueInv

\* p's copy of e after a packet.
LEMMA CopyBecomes ==
  ASSUME Typed, NEW p \in Peer, NEW pkt \in GameState, Single(pkt),
         Reads(p, pkt), ~Cockup(p, pkt), NEW e \in Element
  PROVE  \/ held'[p][e] = <<>>
         \/ /\ \A x \in pkt.items : x.id # e
            /\ held'[p][e] = held[p][e]
         \/ \E x \in pkt.items : \E cut :
              x.id = e /\ Live(x) /\ held'[p][e] = Updated(held[p][e], pkt, x.val, cut)
<1>1. PICK cut : held' = [held EXCEPT ![p] = [d \in Element |-> CopyAfter(@[d], pkt, d, cut)]]
  BY DEF Reads, Shows
<1>2. held'[p][e] = CopyAfter(held[p][e], pkt, e, cut)
  BY <1>1 DEF Typed
<1>3. CASE \A x \in pkt.items : x.id # e
  BY <1>2, <1>3 DEF CopyAfter
<1>4. ASSUME NEW x \in pkt.items, x.id = e
      PROVE  IF Live(x) THEN held'[p][e] = Updated(held[p][e], pkt, x.val, cut)
                        ELSE held'[p][e] = <<>>
  <2>1. (CHOOSE y \in pkt.items : y.id = e) = x
    BY <1>4 DEF Single
  <2> QED BY <1>2, <1>4, <2>1 DEF CopyAfter, Live
<1> QED BY <1>3, <1>4

\* Reading a packet keeps what the copy shows, and adds what the packet says.
LEMMA CopyGains ==
  ASSUME Typed, LinkInv, ItemInv, CopyInv, NEW h \in [Element -> History],
         NEW p \in Peer \ Reordered, PeerExact(h, p), NEW pkt \in GameState,
         Takes(p, pkt), Reads(p, pkt), NEW e \in Element
  PROVE  /\ Faithful(held'[p][e], h[e], pkt.state)
         /\ \A c \in Nat : Right(held[p][e], c, h[e]) /\ (c <= pkt.state \/ held[p][e] # <<>>)
                              => Right(held'[p][e], c, h[e])
         /\ (\E x \in pkt.items : x.id = e /\ Live(x)) => Right(held'[p][e], pkt.state, h[e])
<1>1. pkt \in OnLink(p) /\ ~Cockup(p, pkt) /\ Single(pkt)
  BY CopyRead DEF Takes, ItemInv
<1>2. /\ pkt.state \in Nat /\ pkt.state \in Time /\ pkt.basis \in Nat
      /\ state[p] \in Nat /\ state[p] <= pkt.state
  <2>1. pkt.state \in Time /\ pkt.basis \in Time /\ state[p] \in Time
    BY PacketIs, Types
  <2> QED BY <1>1, <2>1, FirstCopies, TimeAssumption DEF Time
<1>3. h[e] \in History /\ held[p][e] \in CopyStates
  BY DEF Typed
<1>4. Faithful(held[p][e], h[e], pkt.state)
  <2>1. Faithful(held[p][e], h[e], state[p])
    BY DEF PeerExact
  <2> QED BY <1>2, <1>3, <2>1, FaithfulLater
<1>5. CASE held'[p][e] = <<>>
  <2>1. Faithful(<<>>, h[e], pkt.state) /\ \A c : Right(<<>>, c, h[e])
    BY NoCopyIs
  <2> QED BY <1>5, <2>1
<1>6. CASE (\A x \in pkt.items : x.id # e) /\ held'[p][e] = held[p][e]
  BY <1>4, <1>6
<1>7. ASSUME NEW x \in pkt.items, NEW cut, x.id = e, Live(x),
             held'[p][e] = Updated(held[p][e], pkt, x.val, cut)
      PROVE  /\ Faithful(held'[p][e], h[e], pkt.state)
             /\ \A c \in Nat : Right(held[p][e], c, h[e]) /\ (c <= pkt.state \/ held[p][e] # <<>>)
                                  => Right(held'[p][e], c, h[e])
             /\ Right(held'[p][e], pkt.state, h[e])
  <2>1. Tells(h, p, pkt, x)
    BY <1>1, <1>7 DEF PeerExact
  <2>2. DOMAIN x.val \in SUBSET Field /\ x.val \in [DOMAIN x.val -> Value]
    BY <1>1, ItemIs
  <2>3. x.kind = "delta" => held[p][e] # <<>>
    BY <1>1, <1>7 DEF CopyInv, Has
  <2>4. Says(h[e], held[p][e], pkt, x.val)
    <3>1. /\ \A f \in DOMAIN x.val : x.val[f] = h[e][pkt.state][f]
          /\ \/ DOMAIN x.val = Field
             \/ /\ x.kind = "delta" /\ pkt.basis < pkt.state /\ Right(held[p][e], pkt.basis, h[e])
                /\ \A f \in Field \ DOMAIN x.val : h[e][pkt.basis][f] = h[e][pkt.state][f]
      BY <1>7, <2>1 DEF Tells
    <3> QED BY <2>3, <3>1, Zenon DEF Says
  <2> DEFINE F == DOMAIN x.val
             val == x.val
             r == Updated(held[p][e], pkt, val, cut)
  <2>5. F \in SUBSET Field /\ val \in [F -> Value] /\ Says(h[e], held[p][e], pkt, val)
    BY <2>2, <2>4
  <2>6. held'[p][e] = r
    BY <1>7
  <2> HIDE DEF F, val
  <2>7. /\ Faithful(r, h[e], pkt.state) /\ Right(r, pkt.state, h[e])
        /\ \A c \in Nat : Right(held[p][e], c, h[e]) /\ (c <= pkt.state \/ held[p][e] # <<>>)
                             => Right(r, c, h[e])
    BY <1>2, <1>3, <1>4, <2>5, UpdatedCopy
  <2> HIDE DEF r
  <2> QED BY <2>6, <2>7
<1>8. \/ held'[p][e] = <<>>
      \/ (\A x \in pkt.items : x.id # e) /\ held'[p][e] = held[p][e]
      \/ \E x \in pkt.items : \E cut :
           x.id = e /\ Live(x) /\ held'[p][e] = Updated(held[p][e], pkt, x.val, cut)
  BY <1>1, CopyBecomes
<1> QED BY <1>5, <1>6, <1>7, <1>8

\* Reading a packet, at the peer that reads it.
LEMMA ValueRead ==
  ASSUME Typed, LinkInv, ItemInv, CopyInv, NEW h \in [Element -> History],
         NEW p \in Peer \ Reordered, PeerExact(h, p), NEW pkt \in GameState,
         Takes(p, pkt), Reads(p, pkt)
  PROVE  PeerExact(h, p)'
<1>1. /\ pkt \in OnLink(p) /\ OnLink(p)' \subseteq OnLink(p)
      /\ \A q \in OnLink(p)' : pkt.state <= q.state
  BY DEF Takes, LinkInv
<1>2. /\ state'[p] = pkt.state /\ state[p] <= pkt.state
      /\ pkt.state \in Nat /\ state[p] \in Nat
  <2>1. pkt.state \in Time /\ state[p] \in Time
    BY PacketIs, Types
  <2> QED BY <1>1, <2>1, ReadIs, FirstCopies, TimeAssumption DEF Time
<1>3. UNCHANGED <<elements, syncs>> /\ \A e : FirstOf(e)' = FirstOf(e)
  BY ReadIs DEF ownerVars, FirstOf
<1>4. ASSUME NEW e \in Element
      PROVE  /\ Faithful(held'[p][e], h[e], pkt.state)
             /\ \A c \in Nat : Right(held[p][e], c, h[e]) /\ (c <= pkt.state \/ held[p][e] # <<>>)
                                  => Right(held'[p][e], c, h[e])
             /\ (\E x \in pkt.items : x.id = e /\ Live(x)) => Right(held'[p][e], pkt.state, h[e])
  BY CopyGains
<1>5. ASSUME NEW q \in OnLink(p)', NEW x \in q.items, Live(x)
      PROVE  Tells(h, p, q, x)'
  <2>1. q \in OnLink(p) /\ Tells(h, p, q, x)
    BY <1>1, <1>5 DEF PeerExact
  <2>2. q.basis \in Nat /\ x.id \in Element
    BY <2>1, ItemIs
  <2>3. q.basis <= state[p] => q.basis <= pkt.state
    BY <1>2, <2>2
  <2>4. q.basis <= pkt.state /\ Right(held[p][x.id], q.basis, h[x.id])
          => Right(held'[p][x.id], q.basis, h[x.id])
    BY <1>4, <2>2
  <2> QED BY <1>2, <2>1, <2>3, <2>4 DEF Tells
<1>6. \A t \in AckedBy(p) \cup FramesTo(p) : t \in Nat
  <2>1. \A t \in Time : t \in Nat
    BY TimeAssumption DEF Time
  <2> QED BY <2>1, Types, PacketIs DEF FramesTo
<1>7. ASSUME NEW t \in FramesTo(p)', NEW e \in elements, FirstOf(e) <= t
      PROVE  Shown(h, p, t, e)'
  <2>1. t \in FramesTo(p) /\ e \in Element /\ pkt.state <= t
    BY <1>1, <1>2, <1>7 DEF FramesTo, Typed
  <2>2. Shown(h, p, t, e)
    BY <1>7, <2>1 DEF PeerExact
  <2>3. CASE held[p][e] # <<>> /\ Right(held[p][e], t, h[e])
    <3>1. Right(held'[p][e], t, h[e])
      BY <1>4, <1>6, <2>1, <2>3
    <3>2. held'[p][e] # <<>>
      <4>1. \A x \in pkt.items : x.id = e => Live(x)
        BY <1>1, <1>7 DEF ItemInv
      <4>2. ~Cockup(p, pkt) /\ Single(pkt)
        BY <1>1, CopyRead DEF ItemInv
      <4> QED BY <2>1, <2>3, <4>1, <4>2, HeldAfter
    <3> QED BY <3>1, <3>2 DEF Shown
  <2>4. ASSUME NEW kind \in {"full", "delta"}, Pending(p, t, kind, e)
        PROVE  Shown(h, p, t, e)'
    <3>1. ~(t = state[p] /\ t # pkt.state)
      BY <1>2, <2>1
    <3>2. CASE Pending(p, t, kind, e)'
      BY <3>2 DEF Shown
    <3>3. CASE t = pkt.state /\ Has(pkt, kind, e)
      <4>1. PICK x \in pkt.items : x.id = e /\ Live(x)
        BY <3>3 DEF Has, Live
      <4>2. Right(held'[p][e], t, h[e])
        BY <1>4, <2>1, <3>3, <4>1
      <4>3. held'[p][e] # <<>>
        <5>1. ~Cockup(p, pkt) /\ Single(pkt)
          BY <1>1, CopyRead DEF ItemInv
        <5> QED BY <2>1, <4>1, <5>1, HeldAfter
      <4> QED BY <4>2, <4>3 DEF Shown
    <3> QED BY <2>4, <3>1, <3>2, <3>3, PendingRead
  <2> QED BY <2>2, <2>3, <2>4 DEF Shown
<1>8. ASSUME NEW t \in AckedBy(p)', NEW e \in elements, FirstOf(e) <= t
      PROVE  Right(held'[p][e], t, h[e])
  <2>1. e \in Element
    BY DEF Typed
  <2>2. CASE t \in AckedBy(p)
    <3>1. Right(held[p][e], t, h[e]) /\ t <= state[p] /\ t \in Nat
      BY <1>6, <1>8, <2>2 DEF PeerExact, LinkInv
    <3>2. t <= pkt.state
      BY <1>2, <3>1
    <3> QED BY <1>4, <2>1, <3>1, <3>2
  <2>3. CASE t \notin AckedBy(p)
    <3>1. state'[p] = t /\ mask'[p] = expected'[p]
      BY <1>8, <2>3, NewAckIs
    <3>2. \A kind : ~Pending(p, t, kind, e)'
      BY <3>1 DEF Pending, Owes
    <3>3. t \in FramesTo(p)'
      BY <3>1 DEF FramesTo
    <3>4. Shown(h, p, t, e)'
      BY <1>7, <1>8, <3>3
    <3> QED BY <3>2, <3>4 DEF Shown
  <2> QED BY <2>2, <2>3
<1>9. /\ \A e \in Element : Faithful(held'[p][e], h[e], state'[p])
      /\ \A q \in OnLink(p)' : \A x \in q.items : Live(x) => Tells(h, p, q, x)'
      /\ \A t \in AckedBy(p)', e \in elements' : FirstOf(e)' <= t => Right(held'[p][e], t, h[e])
      /\ \A t \in FramesTo(p)', e \in elements' : FirstOf(e)' <= t => Shown(h, p, t, e)'
  BY <1>2, <1>3, <1>4, <1>5, <1>7, <1>8
<1> QED BY <1>9, Zenon DEF PeerExact, Live

\* A packet for one peer leaves the others as they are.
LEMMA ValueOthers ==
  ASSUME NEW h, NEW o \in Peer, PeerExact(h, o),
         UNCHANGED <<elements, syncs, acks, toOwner>>, toPeer'[o] = toPeer[o],
         held'[o] = held[o], state'[o] = state[o], mask'[o] = mask[o],
         expected'[o] = expected[o], ackOut'[o] = ackOut[o]
  PROVE  PeerExact(h, o)'
<1>1. OnLink(o)' = OnLink(o) /\ AckedBy(o)' = AckedBy(o) /\ FramesTo(o)' = FramesTo(o)
  BY DEF OnLink, AckedBy, FramesTo
<1>2. \A e : FirstOf(e)' = FirstOf(e)
  BY DEF FirstOf
<1>3. ASSUME NEW t, NEW e, Shown(h, o, t, e)
      PROVE  Shown(h, o, t, e)'
  <2>1. \A kind : Pending(o, t, kind, e) => Pending(o, t, kind, e)'
    BY <1>1 DEF Pending, Owes, Has
  <2> QED BY <1>3, <2>1 DEF Shown
<1>4. \A q, x : Tells(h, o, q, x) => Tells(h, o, q, x)'
  BY DEF Tells
<1>5. /\ \A e \in Element : Faithful(held'[o][e], h[e], state'[o])
      /\ \A q \in OnLink(o)' : \A x \in q.items : Live(x) => Tells(h, o, q, x)'
      /\ \A t \in AckedBy(o)', e \in elements' : FirstOf(e)' <= t => Right(held'[o][e], t, h[e])
      /\ \A t \in FramesTo(o)', e \in elements' : FirstOf(e)' <= t => Shown(h, o, t, e)'
  BY <1>1, <1>2, <1>3, <1>4 DEF PeerExact
<1> QED BY <1>5, Zenon DEF PeerExact, Live

\* Reading a packet.
LEMMA ValueReceive ==
  ASSUME Typed, LinkInv, ItemInv, CopyInv, ValueInv,
         NEW p \in Peer, ReceiveGameState(p) \/ Misread(p)
  PROVE  ValueInv'
<1>1. PICK h \in [Element -> History] : OwnerExact(h) /\ \A o \in Peer \ Reordered : PeerExact(h, o)
  BY DEF ValueInv
<1>2. OwnerExact(h)'
  BY <1>1 DEF ReceiveGameState, Misread, ownerVars, OwnerExact
<1>3. CASE ReceiveGameState(p)
  <2>1. PICK pkt \in GameState : Takes(p, pkt) /\ Reads(p, pkt)
    BY <1>3, ReceiveReads
  <2>2. UNCHANGED <<elements, syncs, acks, toOwner>>
    BY <2>1 DEF Reads, ownerVars, ackVars
  <2>3. ASSUME NEW o \in Peer \ Reordered
        PROVE  PeerExact(h, o)'
    <3>1. PeerExact(h, o)
      BY <1>1
    <3>2. CASE o = p
      BY <2>1, <3>1, <3>2, ValueRead
    <3>3. CASE o # p
      <4>1. /\ state'[o] = state[o] /\ mask'[o] = mask[o] /\ expected'[o] = expected[o]
            /\ ackOut'[o] = ackOut[o] /\ held'[o] = held[o] /\ toPeer'[o] = toPeer[o]
        BY <2>1, <3>3, ReadIs DEF Takes
      <4> QED BY <2>2, <3>1, <4>1, ValueOthers
    <3> QED BY <3>2, <3>3
  <2> QED BY <1>2, <2>3 DEF ValueInv
<1>4. CASE Misread(p)
  <2>1. PICK pkt \in GameState :
           /\ Takes(p, pkt) /\ Bookkeeping(p, pkt) /\ Misreads(p, pkt)
           /\ ackOut' = ackOut \/ ackOut' = [ackOut EXCEPT ![p] = AckAfter(p, pkt)]
           /\ \A o \in Peer \ {p} : held'[o] = held[o]
           /\ UNCHANGED <<ownerVars, ackVars, toOwner>>
    BY <1>4, MisreadTakes
  <2>2. p \in Reordered
    BY <2>1, FirstCopies DEF Takes
  <2>3. \A o \in Peer \ {p} : /\ state'[o] = state[o] /\ mask'[o] = mask[o] /\ expected'[o] = expected[o]
                              /\ ackOut'[o] = ackOut[o] /\ held'[o] = held[o] /\ toPeer'[o] = toPeer[o]
    BY <2>1 DEF Bookkeeping, Takes, Typed
  <2>4. UNCHANGED <<elements, syncs, acks, toOwner>>
    BY <2>1 DEF ownerVars, ackVars
  <2>5. \A o \in Peer \ Reordered : PeerExact(h, o)'
    BY <1>1, <2>2, <2>3, <2>4, ValueOthers
  <2> QED BY <1>2, <2>5 DEF ValueInv
<1> QED BY <1>3, <1>4

LEMMA ValueStep ==
  ASSUME ClockLasts, ValuesLast, ZoneInv, ValueInv, [Next]_vars
  PROVE  ValueInv'
<1>1. Typed /\ OwnerInv /\ PastInv /\ LinkInv /\ ItemInv /\ CopyInv
  BY DEF ZoneInv
<1> QED BY <1>1, StepIs, ValueQuiet, ValueRegister, ValueRemove, ValueSend, ValueSkip, ValueReceive

LEMMA ValueInit == Init => ValueInv
<1> SUFFICES ASSUME Init PROVE ValueInv
  OBVIOUS
<1> DEFINE g == [t \in Nat |-> [f \in Field |-> 0]]
           h == [e \in Element |-> g]
<1>1. h \in [Element -> History]
  <2>1. [f \in Field |-> 0] \in [Field -> Value]
    BY TimeAssumption DEF Value
  <2>2. g \in [Nat -> [Field -> Value]]
    BY <2>1
  <2>3. Growing(g)
    BY DEF Growing
  <2> QED BY <2>2, <2>3 DEF History
<1>2. OwnerExact(h)
  BY DEF Init, OwnerExact
<1>3. ASSUME NEW p \in Peer
      PROVE  PeerExact(h, p)
  <2>1. AckedBy(p) = {} /\ OnLink(p) = {} /\ elements = {} /\ \A e \in Element : held[p][e] = <<>>
    BY DEF Init, AckedBy, OnLink, Entries
  <2>2. \A e \in Element : Faithful(held[p][e], h[e], state[p])
    BY <2>1, NoCopyIs
  <2> QED BY <2>1, <2>2 DEF PeerExact
<1> QED BY <1>1, <1>2, <1>3 DEF ValueInv

LEMMA ValueInvariant ==
  ASSUME ClockLasts, ValuesLast
  PROVE  Spec => [](ZoneInv /\ ValueInv)
<1>1. Init => ZoneInv /\ ValueInv
  BY TypedInit, OwnerPastInit, LinkInit, ItemInit, CopyInit, ValueInit DEF ZoneInv
<1>2. ZoneInv /\ ValueInv /\ [Next]_vars => (ZoneInv /\ ValueInv)'
  <2>1. ZoneInv /\ [Next]_vars => ZoneInv'
    BY TypedStep, OwnerStep, PastStep, LinkStep, ItemStep, CopyStep DEF ZoneInv
  <2> QED BY <2>1, ValueStep
<1> QED BY <1>1, <1>2, PTL DEF Spec

\* "has basis for new sync?": one answer serves every peer.  Each of them, at
\* which packets come in order, has a copy of an element that is due for a delta,
\* and the state it would apply the delta to (GetSyncWithTime2) is right in the
\* fields that are left out, even where it is not the state of the basis: frames
\* between were lost, or the old states were disposed of.
THEOREM BasisIsAlwaysShared ==
  ASSUME ClockLasts, ValuesLast
  PROVE  Spec => []BasisIsShared
<1>1. ASSUME ZoneInv, ValueInv, NEW e \in elements, NEW p \in zonePeers \ Reordered,
             SendsDelta(e, syncs[e])
      PROVE  /\ held[p][e] # <<>>
             /\ \A f \in Field \ Changed(syncs[e]) :
                  BaseOf(held[p][e], [basis |-> Basis, state |-> Now])[f] = Final(syncs[e]).val[f]
  <2>1. Typed /\ OwnerInv /\ PastInv /\ LinkInv /\ CopyInv
    BY <1>1 DEF ZoneInv
  <2>2. PICK h \in [Element -> History] : OwnerExact(h) /\ \A o \in Peer \ Reordered : PeerExact(h, o)
    BY <1>1 DEF ValueInv
  <2>3. p \in Peer /\ PeerExact(h, p) /\ e \in Element /\ h[e] \in History
        /\ held[p][e] \in CopyStates /\ syncs[e] \in OwnStates /\ syncs[e] # <<>>
    BY <2>1, <2>2 DEF Typed
  <2> DEFINE s == syncs[e]
             v == Final(s).time
             pkt == [basis |-> Basis, state |-> Now]
  <2>4. /\ Unbroken(s) /\ v \in {tick - 1, tick} /\ FirstOf(e) <= s[1].time
    <3>1. FirstOf(e) \in Int
      BY <2>1, FirstIs
    <3> QED BY <2>1, <3>1 DEF OwnerInv, FirstOf
  <2>5. /\ Basis \in Nat /\ Basis < tick /\ Basis <= state[p] /\ HasSyncAt(s, Basis)
        /\ held[p][e] # <<>> /\ Right(held[p][e], Basis, h[e])
    BY <1>1, <2>1, <2>3, <2>4, DeltaIs
  <2>6. Now = tick /\ tick \in Nat /\ v \in Nat /\ state[p] \in Nat /\ state[p] < tick
    <3>1. state[p] \in Time
      BY <2>1, <2>3, Types
    <3> QED BY <2>1, <2>3, <3>1, NowIsTick, OwnIs, TimeAssumption DEF PastInv, Time
  <2>7. Final(s).val = h[e][v] /\ SyncAt(s, Basis) = h[e][Basis]
    <3>1. \A x \in Entries(s) : x.val = h[e][x.time]
      BY <2>2 DEF OwnerExact
    <3>2. Final(s).val = h[e][v]
      BY <2>3, <3>1, OwnIs
    <3>3. SyncAt(s, Basis) = h[e][Basis]
      BY <2>5, <3>1 DEF HasSyncAt, SyncAt
    <3> QED BY <3>2, <3>3
  <2>8. Faithful(held[p][e], h[e], v)
    <3>1. Faithful(held[p][e], h[e], state[p]) /\ state[p] <= v
      BY <2>3, <2>4, <2>6 DEF PeerExact
    <3> QED BY <2>3, <2>6, <3>1, FaithfulLater
  <2>9. pkt.basis = Basis /\ ~(pkt.basis >= pkt.state) /\ pkt.basis <= v
    BY <2>4, <2>5, <2>6
  <2> HIDE DEF pkt, v, s
  <2>10. ASSUME NEW f \in Field \ Changed(s)
         PROVE  BaseOf(held[p][e], pkt)[f] = Final(s).val[f]
    <3>1. h[e][Basis][f] = h[e][v][f]
      BY <2>7, <2>10 DEF Changed
    <3>2. BaseOf(held[p][e], pkt)[f] = h[e][v][f]
      BY <2>3, <2>5, <2>6, <2>8, <2>9, <3>1, BaseRight DEF v
    <3> QED BY <2>7, <3>2
  <2> QED BY <2>5, <2>10 DEF s, pkt
<1>2. ZoneInv /\ ValueInv => BasisIsShared
  BY <1>1 DEF BasisIsShared
<1> QED BY <1>2, ValueInvariant, PTL

\* A peer that has every fragment of a frame (nSeqBitmask = nExpectedSeqMask) shows
\* each element as the owner has it in that frame, also those the frame passed over,
\* and whatever came in between of frames that never became complete.
THEOREM CompleteFramesAreExact ==
  ASSUME ClockLasts, ValuesLast
  PROVE  Spec => []CompleteIsExact
<1>1. ASSUME ZoneInv, ValueInv, NEW p \in zonePeers \ Reordered, NEW e \in elements,
             mask[p] = expected[p], HasSyncAt(syncs[e], state[p])
      PROVE  /\ held[p][e] # <<>>
             /\ Final(held[p][e]).val = SyncAt(syncs[e], state[p])
  <2>1. Typed /\ OwnerInv /\ PastInv
    BY <1>1 DEF ZoneInv
  <2>2. PICK h \in [Element -> History] : OwnerExact(h) /\ \A o \in Peer \ Reordered : PeerExact(h, o)
    BY <1>1 DEF ValueInv
  <2>3. p \in Peer /\ PeerExact(h, p) /\ e \in Element
        /\ held[p][e] \in CopyStates /\ syncs[e] \in OwnStates /\ syncs[e] # <<>> /\ Unbroken(syncs[e])
    BY <2>1, <2>2 DEF Typed, OwnerInv
  <2>4. state[p] \in Nat
    <3>1. state[p] \in Time
      BY <2>1, <2>3, Types
    <3> QED BY <3>1, TimeAssumption DEF Time
  <2>5. FirstOf(e) <= state[p]
    <3>1. PICK x \in Entries(syncs[e]) : x.time = state[p]
      BY <1>1 DEF HasSyncAt
    <3> QED BY <2>3, <3>1, UnbrokenUpTo DEF FirstOf
  <2>6. \A kind : ~Pending(p, state[p], kind, e)
    BY <1>1 DEF Pending, Owes
  <2>7. Shown(h, p, state[p], e)
    BY <2>3, <2>5 DEF PeerExact, FramesTo
  <2>8. held[p][e] # <<>> /\ Right(held[p][e], state[p], h[e])
    BY <2>6, <2>7 DEF Shown
  <2>9. Final(held[p][e]).val = h[e][state[p]]
    <3>1. Faithful(held[p][e], h[e], state[p]) /\ state[p] <= state[p]
      BY <2>3, <2>4 DEF PeerExact
    <3> QED BY <2>3, <2>4, <2>8, <3>1, RightLast
  <2>10. SyncAt(syncs[e], state[p]) = h[e][state[p]]
    <3>1. \A x \in Entries(syncs[e]) : x.val = h[e][x.time]
      BY <2>2 DEF OwnerExact
    <3> QED BY <1>1, <3>1 DEF HasSyncAt, SyncAt
  <2> QED BY <2>8, <2>9, <2>10
<1>2. ZoneInv /\ ValueInv => CompleteIsExact
  BY <1>1 DEF CompleteIsExact
<1> QED BY <1>2, ValueInvariant, PTL
=============================================================================
