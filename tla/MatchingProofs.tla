--------------------------- MODULE MatchingProofs ---------------------------
(***************************************************************************)
(* Theorems about Matching and about LobbyRoom, which calls it, for any    *)
(* consoles, rooms, calls and losses: a host keeps to the places of its    *)
(* room and lists nobody twice; the tables of both keep their form; and a  *)
(* client that asks when no answer waits is in the room it asked for last. *)
(***************************************************************************)
EXTENDS LobbyRoom, ListProofs

-----------------------------------------------------------------------------
(* Finding an entry of a list.                                             *)

\* FindPeer gives the first entry of m, or 0.
LEMMA FindIs ==
  ASSUME NEW n, NEW m, peers[n] \in Seq(Peer)
  PROVE  /\ FindPeer(n, m) \in 0..Len(peers[n])
         /\ FindPeer(n, m) = 0 => \A i \in DOMAIN peers[n] : peers[n][i].mac # m
         /\ FindPeer(n, m) # 0 => peers[n][FindPeer(n, m)].mac = m
<1> DEFINE l == peers[n]
           I == {i \in 1..Len(l) : l[i].mac = m}
<1>1. FindPeer(n, m) = IF I # {} THEN Min(I) ELSE 0
  BY Zenon DEF FindPeer, SelectInSeq
<1>2. Len(l) \in Nat /\ DOMAIN l = 1..Len(l)
  OBVIOUS
<1>3. CASE I = {}
  BY <1>1, <1>2, <1>3
<1>4. CASE I # {}
  <2>1. \E i \in I : \A j \in I : i <= j
    BY <1>2, <1>4, SmallestExists
  <2>2. Min(I) \in I
    BY <2>1 DEF Min
  <2> QED BY <1>1, <1>2, <1>4, <2>2
<1> QED BY <1>3, <1>4

-----------------------------------------------------------------------------
(* The lists a host can have, and what its handlers make of them.          *)

Once(l) == \A i, j \in DOMAIN l : l[i].mac = l[j].mac => i = j

HostList(l, places) ==
  l \in Seq(Peer) /\ Once(l) /\ Cardinality(Children(l)) <= places - 1

\* The children of a list can be counted.
LEMMA ChildrenFinite ==
  ASSUME NEW l \in Seq(Peer)
  PROVE  IsFiniteSet(Children(l)) /\ Cardinality(Children(l)) \in Nat
<1>1. Children(l) \subseteq 1..Len(l) /\ Len(l) \in Nat
  BY DEF Children
<1>2. IsFiniteSet(1..Len(l))
  BY <1>1, FS_Interval
<1>3. IsFiniteSet(Children(l))
  BY <1>1, <1>2, FS_Subset, Zenon
<1> QED BY <1>3, FS_CardinalityType

LEMMA HostListEmpty ==
  ASSUME NEW places \in Nat, places > 1
  PROVE  HostList(<<>>, places)
<1>1. Children(<<>>) = {}
  BY DEF Children
<1>2. Cardinality({}) = 0
  BY FS_EmptySet
<1> QED BY <1>1, <1>2 DEF HostList, Once

\* An entry is changed in place: it keeps its console and becomes no child.
LEMMA HostListChanged ==
  ASSUME NEW places \in Nat, NEW l, HostList(l, places), NEW i \in DOMAIN l, NEW p \in Peer,
         p.mac = l[i].mac, p.state = "child" => l[i].state = "child"
  PROVE  HostList([l EXCEPT ![i] = p], places)
<1> DEFINE l2 == [l EXCEPT ![i] = p]
<1>1. l \in Seq(Peer) /\ DOMAIN l = 1..Len(l) /\ Len(l) \in Nat
  BY DEF HostList
<1>2. l2 \in Seq(Peer) /\ DOMAIN l2 = DOMAIN l
      /\ \A j \in DOMAIN l : l2[j] = IF j = i THEN p ELSE l[j]
  BY <1>1
<1> HIDE DEF l2
<1>3. Once(l2)
  BY <1>2 DEF HostList, Once
<1>4. Children(l2) \subseteq Children(l)
  BY <1>2 DEF Children
<1>5. Cardinality(Children(l2)) <= Cardinality(Children(l))
  BY <1>1, <1>4, ChildrenFinite, FS_Subset
<1>6. Cardinality(Children(l2)) \in Nat /\ Cardinality(Children(l)) \in Nat
  BY <1>1, <1>2, ChildrenFinite
<1>7. HostList(l2, places)
  BY <1>2, <1>3, <1>5, <1>6 DEF HostList
<1> QED BY <1>7 DEF l2

\* A requester is taken while there is a place.
LEMMA HostListTaken ==
  ASSUME NEW places \in Nat, NEW l, HostList(l, places), NEW i \in DOMAIN l, NEW p \in Peer,
         p.mac = l[i].mac, Cardinality(Children(l)) # places - 1
  PROVE  HostList([l EXCEPT ![i] = p], places)
<1> DEFINE l2 == [l EXCEPT ![i] = p]
<1>1. l \in Seq(Peer) /\ DOMAIN l = 1..Len(l) /\ Len(l) \in Nat
  BY DEF HostList
<1>2. l2 \in Seq(Peer) /\ DOMAIN l2 = DOMAIN l
      /\ \A j \in DOMAIN l : l2[j] = IF j = i THEN p ELSE l[j]
  BY <1>1
<1> HIDE DEF l2
<1>3. Once(l2)
  BY <1>2 DEF HostList, Once
<1>4. Children(l2) \subseteq Children(l) \cup {i}
  BY <1>2 DEF Children
<1>5. IsFiniteSet(Children(l)) /\ Cardinality(Children(l)) \in Nat
  BY <1>1, ChildrenFinite
<1>6. /\ IsFiniteSet(Children(l) \cup {i})
      /\ Cardinality(Children(l) \cup {i}) <= Cardinality(Children(l)) + 1
      /\ Cardinality(Children(l) \cup {i}) \in Nat
  <2> DEFINE T == Children(l)
  <2>1. IsFiniteSet(T) /\ Cardinality(T) \in Nat
    BY <1>5
  <2> HIDE DEF T
  <2>2. /\ IsFiniteSet(T \cup {i})
        /\ Cardinality(T \cup {i}) = IF i \in T THEN Cardinality(T) ELSE Cardinality(T) + 1
    BY <2>1, FS_AddElement
  <2>3. /\ IsFiniteSet(T \cup {i}) /\ Cardinality(T \cup {i}) <= Cardinality(T) + 1
        /\ Cardinality(T \cup {i}) \in Nat
    BY <2>1, <2>2
  <2> QED BY <2>3 DEF T
<1>7. Cardinality(Children(l2)) <= Cardinality(Children(l) \cup {i})
  BY <1>4, <1>6, FS_Subset
<1>8. Cardinality(Children(l2)) \in Nat
  BY <1>2, ChildrenFinite
<1>9. HostList(l2, places)
  BY <1>2, <1>3, <1>5, <1>6, <1>7, <1>8 DEF HostList
<1> QED BY <1>9 DEF l2

\* A console that is not in the list is put at its head.
LEMMA HostListAdded ==
  ASSUME NEW places \in Nat, NEW l, HostList(l, places), NEW m \in Node, NEW s \in PeerState,
         s # "child", \A i \in DOMAIN l : l[i].mac # m
  PROVE  HostList(Added(l, m, s), places)
<1> DEFINE l2 == Added(l, m, s)
           e  == Entry(m, s)
<1>1. l \in Seq(Peer) /\ DOMAIN l = 1..Len(l) /\ Len(l) \in Nat
  BY DEF HostList
<1>2. e \in Peer /\ e.mac = m /\ e.state # "child"
  BY DEF Entry, Peer
<1> HIDE DEF e
<1>3. l2 = <<e>> \o l
  BY DEF Added, e
<1>4. <<e>> \in Seq(Peer) /\ Len(<<e>>) = 1 /\ <<e>>[1] = e
  BY <1>2
<1> HIDE DEF l2
<1>5. l2 \in Seq(Peer) /\ Len(l2) = Len(l) + 1
      /\ \A j \in 1..(Len(l) + 1) : l2[j] = IF j = 1 THEN e ELSE l[j - 1]
  BY <1>1, <1>3, <1>4, ConcatProperties
<1>6. DOMAIN l2 = 1..(Len(l) + 1)
  BY <1>5
<1>7. \A j \in DOMAIN l2 : j = 1 \/ (j - 1 \in DOMAIN l /\ l2[j] = l[j - 1])
  BY <1>1, <1>5, <1>6
<1>8. l2[1] = e
  BY <1>1, <1>5
<1>9. Once(l2)
  <2>1. ASSUME NEW i \in DOMAIN l2, NEW j \in DOMAIN l2, l2[i].mac = l2[j].mac
        PROVE  i = j
    <3>1. i = 1 \/ (i - 1 \in DOMAIN l /\ l2[i] = l[i - 1])
      BY <1>7
    <3>2. j = 1 \/ (j - 1 \in DOMAIN l /\ l2[j] = l[j - 1])
      BY <1>7
    <3>3. i \in Nat /\ j \in Nat
      BY <1>1, <1>6
    <3>4. i - 1 \in DOMAIN l /\ j - 1 \in DOMAIN l /\ l[i - 1].mac = l[j - 1].mac => i - 1 = j - 1
      BY DEF HostList, Once
    <3> QED BY <2>1, <3>1, <3>2, <3>3, <3>4, <1>2, <1>8
  <2> QED BY <2>1 DEF Once
<1>10. Cardinality(Children(l2)) <= Cardinality(Children(l))
  <2> DEFINE f == [j \in Children(l2) |-> j - 1]
  <2>1. \A j \in Children(l2) : j \in Nat /\ j - 1 \in Children(l)
    BY <1>2, <1>6, <1>7, <1>8, <1>1 DEF Children
  <2>2. f \in Injection(Children(l2), Children(l))
    BY <2>1 DEF Injection, IsInjective
  <2> QED BY <2>2, <1>1, ChildrenFinite, FS_Injection
<1>11. Cardinality(Children(l2)) \in Nat /\ Cardinality(Children(l)) \in Nat
  BY <1>1, <1>5, ChildrenFinite
<1>12. HostList(l2, places)
  BY <1>5, <1>9, <1>10, <1>11 DEF HostList
<1> QED BY <1>12 DEF l2

\* An entry is taken out.
LEMMA HostListRemoved ==
  ASSUME NEW places \in Nat, NEW l, HostList(l, places), NEW i \in DOMAIN l
  PROVE  HostList(RemoveAt(l, i), places)
<1> DEFINE l2 == RemoveAt(l, i)
           from(j) == IF j < i THEN j ELSE j + 1
<1>1. l \in Seq(Peer) /\ DOMAIN l = 1..Len(l) /\ Len(l) \in Nat /\ i \in 1..Len(l)
  BY DEF HostList
<1>2. /\ l2 \in Seq(Peer) /\ Len(l2) = Len(l) - 1
      /\ \A j \in 1..(Len(l) - 1) : l2[j] = l[from(j)]
  BY <1>1, RemoveAtIs
<1> HIDE DEF l2
<1>3. DOMAIN l2 = 1..(Len(l) - 1)
  BY <1>2
<1>4. \A j \in DOMAIN l2 : j \in Nat /\ from(j) \in DOMAIN l /\ l2[j] = l[from(j)]
  BY <1>1, <1>2, <1>3
<1>5. \A j, k \in DOMAIN l2 : from(j) = from(k) => j = k
  BY <1>1, <1>3
<1> HIDE DEF from
<1>6. Once(l2)
  BY <1>4, <1>5 DEF HostList, Once
<1>7. Cardinality(Children(l2)) <= Cardinality(Children(l))
  <2> DEFINE f == [j \in Children(l2) |-> from(j)]
  <2>1. \A j \in Children(l2) : j \in DOMAIN l2 /\ from(j) \in Children(l)
    BY <1>4 DEF Children
  <2>2. f \in Injection(Children(l2), Children(l))
    BY <2>1, <1>5 DEF Injection, IsInjective
  <2> QED BY <2>2, <1>1, ChildrenFinite, FS_Injection
<1>8. Cardinality(Children(l2)) \in Nat /\ Cardinality(Children(l)) \in Nat
  BY <1>1, <1>2, ChildrenFinite
<1>9. HostList(l2, places)
  BY <1>2, <1>6, <1>7, <1>8 DEF HostList
<1> QED BY <1>9 DEF l2

-----------------------------------------------------------------------------
(* The inductive invariant.  Nothing is said of the list of a client: it is *)
(* dropped before the console hosts.                                       *)

HostInv(n) == mode[n] = "parent" => HostList(peers[n], MaxPeers[n])

PlacesInv ==
  /\ mode \in [Node -> {"parent", "child", "off"}]
  /\ next \in [Node -> {"none", "parent", "child", "off"}]
  /\ peers = [n \in Node |-> peers[n]]
  /\ \A d \in net : d.from \in Node
  /\ \A n \in Node : HostInv(n)

\* A step that changes one list at most.
LEMMA OneListStopping ==
  ASSUME PlacesInv, NEW n \in Node, NEW l, SetPeers(n, l), UNCHANGED mode,
         next' \in [Node -> {"none", "parent", "child", "off"}],
         mode[n] = "parent" => HostList(l, MaxPeers[n]),
         \A d \in net' : d \in net \/ d.from \in Node
  PROVE  PlacesInv'
<1>1. DOMAIN peers = Node
  BY DEF PlacesInv
<1>2. peers' = [peers EXCEPT ![n] = l]
  BY DEF SetPeers
<1>3. peers'[n] = l /\ \A m \in Node : m # n => peers'[m] = peers[m]
  BY <1>1, <1>2
<1>4. peers' = [m \in Node |-> peers'[m]]
  BY <1>1, <1>2
<1>5. ASSUME NEW m \in Node
      PROVE  HostInv(m)'
  BY <1>3 DEF PlacesInv, HostInv
<1> QED BY <1>4, <1>5 DEF PlacesInv

\* A host that writes its own list keeps the invariant if the new list is one it can have.
LEMMA OneList ==
  ASSUME PlacesInv, NEW n \in Node, NEW l, SetPeers(n, l), UNCHANGED <<mode, next>>,
         mode[n] = "parent" => HostList(l, MaxPeers[n]),
         \A d \in net' : d \in net \/ d.from \in Node
  PROVE  PlacesInv'
<1>1. next' \in [Node -> {"none", "parent", "child", "off"}]
  BY DEF PlacesInv
<1> QED BY <1>1, OneListStopping

\* A step that writes no list keeps it.
LEMMA NoList ==
  ASSUME PlacesInv, UNCHANGED <<mode, next, peers>>,
         \A d \in net' : d \in net \/ d.from \in Node
  PROVE  PlacesInv'
BY DEF PlacesInv, HostInv

\* The list is dropped, and with it what the console was.
LEMMA ListDropped ==
  ASSUME PlacesInv, NEW n \in Node, SetPeers(n, <<>>), next' \in [Node -> {"none", "parent", "child", "off"}],
         NEW v \in {"parent", "child", "off"}, mode' = [mode EXCEPT ![n] = v],
         \A d \in net' : d \in net \/ d.from \in Node
  PROVE  PlacesInv'
<1>1. DOMAIN peers = Node /\ mode \in [Node -> {"parent", "child", "off"}]
  BY DEF PlacesInv
<1>2. peers' = [peers EXCEPT ![n] = <<>>]
  BY DEF SetPeers
<1>3. /\ peers'[n] = <<>> /\ \A m \in Node : m # n => peers'[m] = peers[m] /\ mode'[m] = mode[m]
      /\ mode' \in [Node -> {"parent", "child", "off"}]
  BY <1>1, <1>2
<1>4. peers' = [m \in Node |-> peers'[m]]
  BY <1>1, <1>2
<1>5. ASSUME NEW m \in Node
      PROVE  HostInv(m)'
  BY <1>3, HostListEmpty, MaxPeersAssumption DEF PlacesInv, HostInv
<1> QED BY <1>3, <1>4, <1>5 DEF PlacesInv

\* What a host finds in its list.
LEMMA HostFinds ==
  ASSUME PlacesInv, NEW n \in Node, NEW m, mode[n] = "parent"
  PROVE  /\ HostList(peers[n], MaxPeers[n]) /\ MaxPeers[n] \in Nat
         /\ peers[n] \in Seq(Peer)
         /\ FindPeer(n, m) = 0 => \A i \in DOMAIN peers[n] : peers[n][i].mac # m
         /\ FindPeer(n, m) # 0 => /\ FindPeer(n, m) \in DOMAIN peers[n]
                                  /\ peers[n][FindPeer(n, m)] \in Peer
                                  /\ peers[n][FindPeer(n, m)].mac = m /\ m \in Node
<1>1. HostList(peers[n], MaxPeers[n]) /\ MaxPeers[n] \in Nat
  BY MaxPeersAssumption DEF PlacesInv, HostInv
<1>2. peers[n] \in Seq(Peer) /\ Len(peers[n]) \in Nat /\ DOMAIN peers[n] = 1..Len(peers[n])
  BY <1>1 DEF HostList
<1>3. /\ FindPeer(n, m) \in 0..Len(peers[n])
      /\ FindPeer(n, m) = 0 => \A i \in DOMAIN peers[n] : peers[n][i].mac # m
      /\ FindPeer(n, m) # 0 => peers[n][FindPeer(n, m)].mac = m
  BY <1>2, FindIs
<1>4. ASSUME FindPeer(n, m) # 0
      PROVE  FindPeer(n, m) \in DOMAIN peers[n] /\ peers[n][FindPeer(n, m)] \in Peer
  BY <1>2, <1>3, <1>4
<1>5. \A p \in Peer : p.mac \in Node
  BY DEF Peer
<1> QED BY <1>1, <1>2, <1>3, <1>4, <1>5

\* The entry found is marked, or unmarked.
LEMMA HostMarks ==
  ASSUME PlacesInv, NEW n \in Node, NEW m, mode[n] = "parent", FindPeer(n, m) # 0,
         NEW b \in BOOLEAN
  PROVE  HostList([peers[n] EXCEPT ![FindPeer(n, m)].fresh = b], MaxPeers[n])
<1> DEFINE i == FindPeer(n, m)
           p == [peers[n][i] EXCEPT !.fresh = b]
<1>1. /\ HostList(peers[n], MaxPeers[n]) /\ MaxPeers[n] \in Nat
      /\ i \in DOMAIN peers[n] /\ peers[n][i] \in Peer
  BY HostFinds
<1>2. p \in Peer /\ p.mac = peers[n][i].mac /\ p.state = peers[n][i].state
  BY <1>1 DEF Peer
<1>3. [peers[n] EXCEPT ![i].fresh = b] = [peers[n] EXCEPT ![i] = p]
  OBVIOUS
<1> HIDE DEF p, i
<1>4. HostList([peers[n] EXCEPT ![i] = p], MaxPeers[n])
  BY <1>1, <1>2, HostListChanged
<1> QED BY <1>3, <1>4 DEF i

-----------------------------------------------------------------------------
(* The steps.                                                              *)

LEMMA SelectPlaces ==
  ASSUME PlacesInv, NEW n \in Node, NEW m, SelectTarget(n, m),
         UNCHANGED <<mode, next, net>>
  PROVE  PlacesInv'
<1> DEFINE i == FindPeer(n, m)
           s == IF mode[n] = "parent" THEN "child" ELSE "outgoing"
           l == [peers[n] EXCEPT ![i].state = s]
<1>1. SetPeers(n, l) /\ SelectSucceeds(n, m)
  BY Zenon DEF SelectTarget
<1>2. ASSUME mode[n] = "parent"
      PROVE  HostList(l, MaxPeers[n])
  <2> DEFINE p == [peers[n][i] EXCEPT !.state = "child"]
  <2>1. i # 0 /\ Cardinality(Children(peers[n])) # MaxPeers[n] - 1
    BY <1>1, <1>2 DEF SelectSucceeds, IsIn
  <2>2. /\ HostList(peers[n], MaxPeers[n]) /\ MaxPeers[n] \in Nat
        /\ i \in DOMAIN peers[n] /\ peers[n][i] \in Peer
    BY <1>2, <2>1, HostFinds
  <2>3. p \in Peer /\ p.mac = peers[n][i].mac
    BY <2>2 DEF Peer, PeerState
  <2>4. l = [peers[n] EXCEPT ![i] = p]
    BY <1>2
  <2> HIDE DEF p, i, l
  <2> QED BY <2>1, <2>2, <2>3, <2>4, HostListTaken
<1> HIDE DEF l
<1> QED BY <1>1, <1>2, OneList

LEMMA CancelKeepsList ==
  ASSUME PlacesInv, NEW n \in Node, NEW m, CancelTarget(n, m)
  PROVE  \E l : SetPeers(n, l) /\ (mode[n] = "parent" => HostList(l, MaxPeers[n]))
<1> DEFINE i == FindPeer(n, m)
           p == [mac |-> m, state |-> "cancel", fresh |-> FALSE]
           l == [peers[n] EXCEPT ![i] = p]
<1>1. SetPeers(n, l) /\ i # 0
  BY DEF CancelTarget, CancelConcerns, IsIn
<1>2. ASSUME mode[n] = "parent"
      PROVE  HostList(l, MaxPeers[n])
  <2>1. /\ HostList(peers[n], MaxPeers[n]) /\ MaxPeers[n] \in Nat
        /\ i \in DOMAIN peers[n] /\ peers[n][i].mac = m /\ m \in Node
    BY <1>1, <1>2, HostFinds
  <2>2. p \in Peer /\ p.mac = m /\ p.state # "child"
    BY <2>1 DEF Peer, PeerState
  <2> HIDE DEF p, i
  <2> QED BY <2>1, <2>2, HostListChanged
<1> HIDE DEF l
<1> QED BY <1>1, <1>2

LEMMA CancelPlaces ==
  ASSUME PlacesInv, NEW n \in Node, NEW m, CancelTarget(n, m), UNCHANGED <<mode, next, net>>
  PROVE  PlacesInv'
BY CancelKeepsList, OneList

\* What a console sends names the console.
LEMMA SentByNode ==
  ASSUME NEW n \in Node, NEW ms, Send(ms), \A d \in ms : d.from = n
  PROVE  \A d \in net' : d \in net \/ d.from \in Node
BY DEF Send

LEMMA SendAcceptPlaces ==
  ASSUME PlacesInv, NEW n \in Node, NEW m, SendAccept(n, m), UNCHANGED <<mode, next>>
  PROVE  PlacesInv'
<1>1. UNCHANGED peers
  BY DEF SendAccept, KeepPeers
<1>2. PICK ms : Send(ms) /\ \A d \in ms : d.from = n
  <2>1. CASE IsIn(n, m, {"child"})
    <3>1. PICK others : Send({To(n, "accept", m, others)})
      BY <2>1, Zenon DEF SendAccept
    <3>2. \A d \in {To(n, "accept", m, others)} : d.from = n
      BY DEF To
    <3> QED BY <3>1, <3>2
  <2>2. CASE ~IsIn(n, m, {"child"})
    BY <2>2 DEF SendAccept
  <2> QED BY <2>1, <2>2
<1>3. \A d \in net' : d \in net \/ d.from \in Node
  BY <1>2, SentByNode
<1> QED BY <1>1, <1>3, NoList

LEMMA SendJoinPlaces ==
  ASSUME PlacesInv, NEW n \in Node, NEW m, SendJoin(n, m), UNCHANGED <<mode, next>>
  PROVE  PlacesInv'
<1>1. UNCHANGED peers
  BY DEF SendJoin, KeepPeers
<1>2. PICK ms : Send(ms) /\ \A d \in ms : d.from = n
  BY DEF SendJoin, To
<1>3. \A d \in net' : d \in net \/ d.from \in Node
  BY <1>2, SentByNode
<1> QED BY <1>1, <1>3, NoList

LEMMA SendBirthPlaces ==
  ASSUME PlacesInv, NEW n \in Node, NEW m, SendBirth(n, m), UNCHANGED <<mode, next>>
  PROVE  PlacesInv'
<1>1. UNCHANGED peers
  BY DEF SendBirth, KeepPeers
<1>2. PICK ms : Send(ms) /\ \A d \in ms : d.from = n
  BY DEF SendBirth, To
<1>3. \A d \in net' : d \in net \/ d.from \in Node
  BY <1>2, SentByNode
<1> QED BY <1>1, <1>3, NoList

LEMMA SendCancelPlaces ==
  ASSUME PlacesInv, NEW n \in Node, NEW m, SendCancel(n, m), UNCHANGED <<mode, next>>
  PROVE  PlacesInv'
<1>1. PICK ms : Send(ms) /\ \A d \in ms : d.from = n
  BY DEF SendCancel, To
<1>2. \A d \in net' : d \in net \/ d.from \in Node
  BY <1>1, SentByNode
<1>3. PICK l : /\ SetPeers(n, l)
               /\ l = IF FindPeer(n, m) = 0 THEN peers[n]
                      ELSE IF mode[n] = "child" THEN <<>>
                      ELSE [peers[n] EXCEPT ![FindPeer(n, m)].fresh = TRUE]
  BY Zenon DEF SendCancel
<1>4. ASSUME mode[n] = "parent"
      PROVE  HostList(l, MaxPeers[n])
  <2>1. CASE FindPeer(n, m) = 0
    BY <1>3, <1>4, <2>1, HostFinds
  <2>2. CASE FindPeer(n, m) # 0
    BY <1>3, <1>4, <2>2, HostMarks
  <2> QED BY <2>1, <2>2
<1> QED BY <1>2, <1>3, <1>4, OneList

LEMMA SendDeathPlaces ==
  ASSUME PlacesInv, NEW n \in Node, NEW m, SendDeath(n, m), UNCHANGED <<mode, next>>
  PROVE  PlacesInv'
<1>1. PICK ms : Send(ms) /\ \A d \in ms : d.from = n
  BY DEF SendDeath, To
<1>2. \A d \in net' : d \in net \/ d.from \in Node
  BY <1>1, SentByNode
<1>3. CASE FindPeer(n, m) = 0
  BY <1>2, <1>3, NoList DEF SendDeath, KeepPeers
<1>4. CASE FindPeer(n, m) # 0
  <2> DEFINE l == RemoveAt(peers[n], FindPeer(n, m))
  <2>1. SetPeers(n, l)
    BY <1>4, Zenon DEF SendDeath
  <2>2. mode[n] = "parent" => HostList(l, MaxPeers[n])
    BY <1>4, HostFinds, HostListRemoved
  <2> HIDE DEF l
  <2> QED BY <1>2, <2>1, <2>2, OneList
<1> QED BY <1>3, <1>4

LEMMA DrainPlaces ==
  ASSUME PlacesInv, NEW n \in Node, Drain(n)
  PROVE  PlacesInv'
<1>1. UNCHANGED <<mode, next>>
  BY DEF Drain
<1>2. PICK m : SendAccept(n, m) \/ SendJoin(n, m) \/ SendCancel(n, m) \/ SendBirth(n, m)
               \/ SendDeath(n, m)
  BY Zenon DEF Drain
<1> QED BY <1>1, <1>2, SendAcceptPlaces, SendJoinPlaces, SendCancelPlaces, SendBirthPlaces,
           SendDeathPlaces

\* The byes of a room that ends.
LEMMA StoppedPlaces ==
  ASSUME PlacesInv, NEW n \in Node, Stopped(n)
  PROVE  PlacesInv'
<1>1. PICK ms : Send(ms) /\ \A d \in ms : d.from = n
  BY DEF Stopped, To
<1>2. \A d \in net' : d \in net \/ d.from \in Node
  BY <1>1, SentByNode
<1>3. /\ SetPeers(n, <<>>) /\ mode' = [mode EXCEPT ![n] = next[n]]
      /\ next' = [next EXCEPT ![n] = "none"] /\ next[n] # "none"
  BY DEF Stopped
<1>4. next[n] \in {"parent", "child", "off"}
      /\ next' \in [Node -> {"none", "parent", "child", "off"}]
  BY <1>3 DEF PlacesInv
<1> QED BY <1>2, <1>3, <1>4, ListDropped

LEMMA EndsPlaces ==
  ASSUME PlacesInv, NEW n \in Node, Ends(n), net' \subseteq net
  PROVE  PlacesInv'
<1>1. /\ SetPeers(n, <<>>) /\ mode' = [mode EXCEPT ![n] = "off"]
      /\ next' \in [Node -> {"none", "parent", "child", "off"}]
  BY DEF Ends, PlacesInv
<1> QED BY <1>1, ListDropped

-----------------------------------------------------------------------------
(* What a datagram does to a host.                                         *)

LEMMA JoinPlaces ==
  ASSUME PlacesInv, NEW n \in Node, NEW d \in net, ActOnJoin(n, d), UNCHANGED <<mode, next>>
  PROVE  PlacesInv'
<1> DEFINE i == FindPeer(n, d.from)
<1>1. d.from \in Node /\ mode[n] \in {"parent", "child", "off"}
  BY DEF PlacesInv
<1>2. CASE mode[n] = "child"
  BY <1>2, NoList DEF ActOnJoin, Quiet, KeepPeers, NoAnswer
<1>3. CASE mode[n] = "parent" /\ ~HasPlace(n)
  <2>1. \A c \in net' : c \in net \/ c.from \in Node
    BY <1>3 DEF ActOnJoin, To
  <2>2. PICK l : SetPeers(n, l) /\ l = IF i = 0 THEN peers[n] ELSE [peers[n] EXCEPT ![i].fresh = TRUE]
    BY <1>3 DEF ActOnJoin
  <2>3. HostList(l, MaxPeers[n])
    <3>1. CASE i = 0
      BY <1>3, <2>2, <3>1, HostFinds
    <3>2. CASE i # 0
      BY <1>3, <2>2, <3>2, HostMarks
    <3> QED BY <3>1, <3>2
  <2> QED BY <2>1, <2>2, <2>3, OneList
<1>4. CASE mode[n] = "parent" /\ HasPlace(n) /\ i # 0 /\ peers[n][i].fresh
  BY <1>4, NoList DEF ActOnJoin, Quiet, KeepPeers, NoAnswer
<1>5. CASE mode[n] # "child" /\ ~(mode[n] = "parent" /\ ~HasPlace(n))
           /\ ~(mode[n] = "parent" /\ HasPlace(n) /\ i # 0 /\ peers[n][i].fresh)
  <2> DEFINE l == Requesting(peers[n], i, d.from)
  <2>1. SetPeers(n, l) /\ net' \subseteq net
    BY <1>5 DEF ActOnJoin, NoAnswer
  <2>2. ASSUME mode[n] = "parent"
        PROVE  HostList(l, MaxPeers[n])
    <3>1. CASE i = 0
      <4>1. l = Added(peers[n], d.from, "incoming")
        BY <3>1 DEF Requesting
      <4>2. HostList(peers[n], MaxPeers[n]) /\ MaxPeers[n] \in Nat
            /\ \A j \in DOMAIN peers[n] : peers[n][j].mac # d.from
        BY <2>2, <3>1, HostFinds
      <4> QED BY <1>1, <4>1, <4>2, HostListAdded DEF PeerState
    <3>2. CASE i # 0
      <4> DEFINE p == Entry(d.from, "incoming")
      <4>1. l = [peers[n] EXCEPT ![i] = p]
        BY <3>2 DEF Requesting
      <4>2. /\ HostList(peers[n], MaxPeers[n]) /\ MaxPeers[n] \in Nat
            /\ i \in DOMAIN peers[n] /\ peers[n][i].mac = d.from
        BY <2>2, <3>2, HostFinds
      <4>3. p \in Peer /\ p.mac = d.from /\ p.state # "child"
        BY <1>1 DEF Entry, Peer, PeerState
      <4> HIDE DEF p, i, l
      <4> QED BY <4>1, <4>2, <4>3, HostListChanged
    <3> QED BY <3>1, <3>2
  <2> HIDE DEF l
  <2> QED BY <2>1, <2>2, OneList
<1> QED BY <1>2, <1>3, <1>4, <1>5

LEMMA AcceptPlaces ==
  ASSUME PlacesInv, NEW n \in Node, NEW d \in net, ActOnAccept(n, d), UNCHANGED <<mode, next>>
  PROVE  PlacesInv'
<1>1. net' \subseteq net
  BY DEF ActOnAccept, NoAnswer
<1>2. UNCHANGED peers \/ \E l : mode[n] = "child" /\ SetPeers(n, l)
  BY Zenon DEF ActOnAccept, Quiet, KeepPeers
<1>3. CASE UNCHANGED peers
  BY <1>1, <1>3, NoList
<1>4. CASE \E l : mode[n] = "child" /\ SetPeers(n, l)
  BY <1>1, <1>4, OneList
<1> QED BY <1>2, <1>3, <1>4

LEMMA CancelReadPlaces ==
  ASSUME PlacesInv, NEW n \in Node, NEW d \in net, ActOnCancel(n, d), UNCHANGED <<mode, next>>
  PROVE  PlacesInv'
<1> DEFINE i == FindPeer(n, d.from)
<1>1. net' \subseteq net
  BY DEF ActOnCancel, NoAnswer
<1>2. \/ UNCHANGED peers
      \/ i # 0 /\ SetPeers(n, Marked(peers[n], i))
      \/ mode[n] = "child" /\ SetPeers(n, <<>>)
  BY Zenon DEF ActOnCancel, Quiet, KeepPeers
<1>3. CASE UNCHANGED peers
  BY <1>1, <1>3, NoList
<1>4. CASE i # 0 /\ SetPeers(n, Marked(peers[n], i))
  <2>1. mode[n] = "parent" => HostList(Marked(peers[n], i), MaxPeers[n])
    BY <1>4, HostMarks DEF Marked
  <2> QED BY <1>1, <1>4, <2>1, OneList
<1>5. CASE mode[n] = "child" /\ SetPeers(n, <<>>)
  BY <1>1, <1>5, OneList
<1> QED BY <1>2, <1>3, <1>4, <1>5

LEMMA BirthPlaces ==
  ASSUME PlacesInv, NEW n \in Node, NEW d \in net, ActOnBirth(n, d), UNCHANGED <<mode, next>>
  PROVE  PlacesInv'
<1>1. net' \subseteq net
  BY DEF ActOnBirth, NoAnswer
<1>2. PICK l : SetPeers(n, l) /\ l = IF FromParent(n, d) THEN Added(peers[n], Head(d.arg), "child")
                                     ELSE peers[n]
  BY DEF ActOnBirth
<1>3. mode[n] = "parent" => HostList(l, MaxPeers[n])
  BY <1>2, HostFinds DEF FromParent
<1> QED BY <1>1, <1>2, <1>3, OneList

LEMMA DeathPlaces ==
  ASSUME PlacesInv, NEW n \in Node, NEW d \in net, ActOnDeath(n, d), UNCHANGED <<mode, next>>
  PROVE  PlacesInv'
<1>1. net' \subseteq net
  BY DEF ActOnDeath, NoAnswer
<1>2. UNCHANGED peers \/ \E l : mode[n] = "child" /\ SetPeers(n, l)
  BY Zenon DEF ActOnDeath, Quiet, KeepPeers, FromParent
<1>3. CASE UNCHANGED peers
  BY <1>1, <1>3, NoList
<1>4. CASE \E l : mode[n] = "child" /\ SetPeers(n, l)
  BY <1>1, <1>4, OneList
<1> QED BY <1>2, <1>3, <1>4

LEMMA ByePlaces ==
  ASSUME PlacesInv, NEW n \in Node, NEW d \in net, ActOnBye(n, d), UNCHANGED <<mode, next>>
  PROVE  PlacesInv'
<1> DEFINE l == RemoveAt(peers[n], FindPeer(n, d.from))
<1>1. net' \subseteq net
  BY DEF ActOnBye, NoAnswer
<1>2. \/ UNCHANGED peers
      \/ FindPeer(n, d.from) # 0 /\ SetPeers(n, l)
      \/ mode[n] = "child" /\ SetPeers(n, <<>>)
  BY Zenon DEF ActOnBye, Quiet, KeepPeers, IsIn
<1>3. CASE UNCHANGED peers
  BY <1>1, <1>3, NoList
<1>4. CASE FindPeer(n, d.from) # 0 /\ SetPeers(n, l)
  <2>1. mode[n] = "parent" => HostList(l, MaxPeers[n])
    BY <1>4, HostFinds, HostListRemoved
  <2> HIDE DEF l
  <2> QED BY <1>1, <1>4, <2>1, OneList
<1>5. CASE mode[n] = "child" /\ SetPeers(n, <<>>)
  BY <1>1, <1>5, OneList
<1> QED BY <1>2, <1>3, <1>4, <1>5

LEMMA ReceivePlaces ==
  ASSUME PlacesInv, NEW n \in Node, NEW d \in net, Receive(n, d)
  PROVE  PlacesInv'
<1>1. UNCHANGED <<mode, next>>
  BY DEF Receive
<1>2. \/ ActOnJoin(n, d) \/ ActOnAccept(n, d) \/ ActOnCancel(n, d)
      \/ ActOnBirth(n, d) \/ ActOnDeath(n, d) \/ ActOnBye(n, d)
  BY Zenon DEF Receive
<1> QED BY <1>1, <1>2, JoinPlaces, AcceptPlaces, CancelReadPlaces, BirthPlaces, DeathPlaces,
           ByePlaces

LEMMA PingPlaces ==
  ASSUME PlacesInv, NEW n \in Node, NEW m \in Node, ActOnPing(n, m)
  PROVE  PlacesInv'
<1> DEFINE l == [peers[n] EXCEPT ![FindPeer(n, m)].fresh = TRUE]
<1>1. /\ FindPeer(n, m) # 0 /\ SetPeers(n, l) /\ UNCHANGED <<mode, next, net>>
  BY DEF ActOnPing
<1>2. mode[n] = "parent" => HostList(l, MaxPeers[n])
  BY <1>1, HostMarks
<1> HIDE DEF l
<1> QED BY <1>1, <1>2, OneList

LEMMA HelloPlaces ==
  ASSUME PlacesInv, NEW n \in Node, NEW m \in Node, Hello(n, m)
  PROVE  PlacesInv'
<1>1. PICK l : SetPeers(m, l)
  BY DEF Hello
<1>2. mode[m] = "child" /\ UNCHANGED <<mode, next, net>>
  BY DEF Hello
<1> QED BY <1>1, <1>2, OneList

LEMMA ThreadsPlaces ==
  ASSUME PlacesInv, NEW n \in Node, Threads(n)
  PROVE  PlacesInv'
<1>1. CASE Stopped(n)
  BY <1>1, StoppedPlaces
<1>2. CASE Drain(n)
  BY <1>2, DrainPlaces
<1>3. CASE Dispatch(n)
  BY <1>3, NoList DEF Dispatch
<1>4. ASSUME NEW lost \in SUBSET (Node \ {n}), Poll(n, lost)
      PROVE  PlacesInv'
  BY <1>4, NoList DEF Poll
<1>5. ASSUME NEW m \in Node \ {n}, ActOnPing(n, m) \/ Hello(n, m)
      PROVE  PlacesInv'
  BY <1>5, PingPlaces, HelloPlaces
<1>6. ASSUME NEW d \in net, Receive(n, d)
      PROVE  PlacesInv'
  BY <1>6, ReceivePlaces
<1>7. ASSUME NEW d \in net, ReadNull(n, d)
      PROVE  PlacesInv'
  BY <1>7, EndsPlaces DEF ReadNull, NoAnswer
<1>8. ASSUME NEW d \in net, Lose(d)
      PROVE  PlacesInv'
  BY <1>8, NoList DEF Lose
<1> QED BY <1>1, <1>2, <1>3, <1>4, <1>5, <1>6, <1>7, <1>8, Zenon DEF Threads

LEMMA StopPlaces ==
  ASSUME PlacesInv, NEW n \in Node, NEW to \in {"parent", "child", "off"}, Stop(n, to),
         UNCHANGED <<mode, peers, net>>
  PROVE  PlacesInv'
BY DEF Stop, PlacesInv, HostInv

-----------------------------------------------------------------------------
(* The theorems of the library, under a game that makes any calls.         *)

LEMMA PlacesStep ==
  ASSUME PlacesInv, [MatchingNext]_<<mvars, calls>>
  PROVE  PlacesInv'
<1>1. CASE UNCHANGED <<mvars, calls>>
  BY <1>1, NoList DEF mvars
<1>2. ASSUME NEW n \in Node, Threads(n)
      PROVE  PlacesInv'
  BY <1>2, ThreadsPlaces
<1>3. ASSUME NEW n \in Node, Calls(n)
      PROVE  PlacesInv'
  <2>1. ASSUME NEW m \in Node \ {n}, SelectTarget(n, m) \/ CancelTarget(n, m),
               UNCHANGED <<mode, next, net>>
        PROVE  PlacesInv'
    BY <2>1, SelectPlaces, CancelPlaces
  <2>2. ASSUME NEW to \in {"parent", "child", "off"}, Stop(n, to), UNCHANGED <<mode, peers, net>>
        PROVE  PlacesInv'
    BY <2>2, StopPlaces
  <2>3. CASE Crash(n)
    BY <2>3, EndsPlaces DEF Crash
  <2> QED BY <1>3, <2>1, <2>2, <2>3, Zenon DEF Calls
<1> QED BY <1>1, <1>2, <1>3 DEF MatchingNext

\* A host's list has at most so many children as there are places, and no console
\* twice: what the two theorems below are read off.
THEOREM PlacesInvariant == MatchingSpec => []PlacesInv
<1>1. AloneInit => PlacesInv
  BY HostListEmpty, MaxPeersAssumption DEF AloneInit, MatchingInit, PlacesInv, HostInv
<1> QED BY <1>1, PlacesStep, PTL DEF MatchingSpec

\* A host never takes more members than its room has places, whatever requests,
\* accepts and cancels cross, are lost or come from consoles given up before:
\* SelectTarget counts again what the handler of a join counted.
THEOREM RoomsKeepLimit == MatchingSpec => []RoomLimit
<1>1. PlacesInv => RoomLimit
  BY DEF PlacesInv, HostInv, HostList, RoomLimit
<1> QED BY <1>1, PlacesInvariant, PTL

\* A host has one entry per console, so that the first entry a handler finds is
\* the only one, and a place is counted once.
THEOREM HostsListOnce == MatchingSpec => []HostListsOnce
<1>1. PlacesInv => HostListsOnce
  BY DEF PlacesInv, HostInv, HostList, Once, HostListsOnce
<1> QED BY <1>1, PlacesInvariant, PTL

-----------------------------------------------------------------------------
(* The same under the lobby: what cAdhoc and its pages do is made of calls *)
(* of the library, with whatever the slots of their tables hold.           *)

\* Nothing, or a call of the library that MainReady allows.
CallsLibrary(n) ==
  /\ UNCHANGED <<mode, next, net>>
  /\ UNCHANGED peers \/ \E m : SelectTarget(n, m) \/ CancelTarget(n, m)

LEMMA LibraryPlaces ==
  ASSUME PlacesInv, NEW n \in Node, CallsLibrary(n)
  PROVE  PlacesInv'
BY NoList, SelectPlaces, CancelPlaces DEF CallsLibrary

\* A callback of a host calls the library once at most.
LEMMA OnMatchHostCalls ==
  ASSUME NEW n, NEW e, OnMatchHost(n, e)
  PROVE  UNCHANGED peers \/ \E m : SelectTarget(n, m) \/ CancelTarget(n, m)
<1>1. CASE e.type = "request"
  <2>1. OnJoin(n, e.mac)
    BY <1>1, Zenon DEF OnMatchHost
  <2> QED BY <2>1, Zenon DEF OnJoin
<1>2. CASE e.type # "request"
  BY <1>2 DEF OnMatchHost, OnGone
<1> QED BY <1>1, <1>2

LEMMA CallbackCalls ==
  ASSUME NEW n, MatchingCallback(n)
  PROVE  CallsLibrary(n)
<1> DEFINE e == Head(pending[n])
<1>1. UNCHANGED <<mode, next, net>>
  BY DEF MatchingCallback, MatchingRest
<1>2. UNCHANGED peers \/ OnMatchHost(n, e) \/ OnMatchClient(n, e)
  BY Zenon DEF MatchingCallback
<1>3. OnMatchClient(n, e) => UNCHANGED peers
  BY Zenon DEF OnMatchClient
<1> HIDE DEF e
<1> QED BY <1>1, <1>2, <1>3, OnMatchHostCalls DEF CallsLibrary

LEMMA FrameCalls ==
  ASSUME NEW n, Frame(n)
  PROVE  CallsLibrary(n)
<1>1. UNCHANGED <<mode, next, net>>
  BY DEF Frame, ThreadsRest
<1>2. CancelStrays(n)
  BY Zenon DEF Frame, Update
<1>3. UNCHANGED peers \/ \E m : CancelTarget(n, m)
  BY <1>2, Zenon DEF CancelStrays
<1> QED BY <1>1, <1>3 DEF CallsLibrary

LEMMA SelectServerCalls ==
  ASSUME NEW n, NEW s, SelectServer(n, s)
  PROVE  CallsLibrary(n)
BY Zenon DEF SelectServer, CallsLibrary, ThreadsRest

LEMMA StartHostingPlaces ==
  ASSUME PlacesInv, NEW n \in Node, StartHosting(n)
  PROVE  PlacesInv'
<1>1. Stop(n, "parent") /\ UNCHANGED <<mode, peers, net>>
  BY DEF StartHosting, ThreadsRest
<1> QED BY <1>1, StopPlaces

\* The target is cancelled and the context stopped in one step of the main thread.
LEMMA CancelMatchingPlaces ==
  ASSUME PlacesInv, NEW n \in Node, CancelMatchingTarget(n)
  PROVE  PlacesInv'
<1>1. Stop(n, "child") /\ UNCHANGED <<mode, net>>
  BY Zenon DEF CancelMatchingTarget, StartListening, ThreadsRest
<1>2. UNCHANGED peers \/ \E m : CancelTarget(n, m)
  BY Zenon DEF CancelMatchingTarget
<1>3. CASE UNCHANGED peers
  BY <1>1, <1>3, StopPlaces
<1>4. ASSUME NEW m, CancelTarget(n, m)
      PROVE  PlacesInv'
  <2>1. next' \in [Node -> {"none", "parent", "child", "off"}]
    BY <1>1 DEF Stop, PlacesInv
  <2>2. PICK l : SetPeers(n, l) /\ (mode[n] = "parent" => HostList(l, MaxPeers[n]))
    BY <1>4, CancelKeepsList
  <2> QED BY <1>1, <2>1, <2>2, OneListStopping
<1> QED BY <1>2, <1>3, <1>4

LEMMA SwitchOffPlaces ==
  ASSUME PlacesInv, NEW n \in Node, SwitchOff(n)
  PROVE  PlacesInv'
<1>1. CASE Crash(n)
  BY <1>1, EndsPlaces DEF Crash
<1>2. CASE Stop(n, "off") /\ UNCHANGED <<mode, peers, net>>
  BY <1>2, StopPlaces
<1> QED BY <1>1, <1>2 DEF SwitchOff

LEMMA LobbyPlacesStep ==
  ASSUME PlacesInv, [Next]_vars
  PROVE  PlacesInv'
<1>1. CASE UNCHANGED vars
  BY <1>1, NoList DEF vars, mvars
<1>2. ASSUME NEW n \in Node, Threads(n)
      PROVE  PlacesInv'
  BY <1>2, ThreadsPlaces
<1>3. ASSUME NEW n \in Node, MatchingCallback(n)
      PROVE  PlacesInv'
  BY <1>3, CallbackCalls, LibraryPlaces
<1>4. ASSUME NEW n \in Node, Frame(n)
      PROVE  PlacesInv'
  BY <1>4, FrameCalls, LibraryPlaces
<1>5. ASSUME NEW n \in Node, NEW s \in Slot, SelectServer(n, s)
      PROVE  PlacesInv'
  BY <1>5, SelectServerCalls, LibraryPlaces
<1> QED BY <1>1, <1>2, <1>3, <1>4, <1>5, StartHostingPlaces, CancelMatchingPlaces,
           SwitchOffPlaces DEF Next

LEMMA LobbyPlaces == Spec => []PlacesInv
<1>1. Init => PlacesInv
  BY HostListEmpty, MaxPeersAssumption DEF Init, MatchingInit, PlacesInv, HostInv
<1> QED BY <1>1, LobbyPlacesStep, PTL DEF Spec

\* The game grants a request when its own count of the roster leaves a place,
\* and the roster and its copy of the last frame lag behind the library: they
\* count a member when its "established" is handed out, last in first out.  The
\* room keeps its limit all the same.
THEOREM LobbyKeepsLimit == Spec => []RoomLimit
<1>1. PlacesInv => RoomLimit
  BY DEF PlacesInv, HostInv, HostList, RoomLimit
<1> QED BY <1>1, LobbyPlaces, PTL

\* A host lists a console once, whatever the slots of its tables make it select
\* and cancel: a slot may have been freed and given to another console meanwhile.
THEOREM LobbyListsOnce == Spec => []HostListsOnce
<1>1. PlacesInv => HostListsOnce
  BY DEF PlacesInv, HostInv, HostList, Once, HostListsOnce
<1> QED BY <1>1, LobbyPlaces, PTL

-----------------------------------------------------------------------------
(* What the walks over a list leave of it: the folds work inside the types *)
(* of what they are given.                                                 *)

\* A walk pushes messages.
LEMMA PushForIs ==
  ASSUME NEW P, NEW M, NEW l \in Seq(P), NEW stack \in Seq(M), NEW S, NEW type,
         \A p \in P : p \in S => [type |-> type, mac |-> p.mac] \in M
  PROVE  PushFor(stack, l, S, type) \in Seq(M)
<1> DEFINE D == DOMAIN l
           B == Seq(M)
           Op(acc, p) == IF p \in S THEN Push(acc, type, p.mac) ELSE acc
           Is(it) == it = [u \in SUBSET D |-> IF u = {} THEN stack ELSE Op(it[u \ {Max(u)}], l[Max(u)])]
           it0 == CHOOSE it : Is(it)
           c == [u \in SUBSET D |-> Max(u)]
           H == [x \in D \X B |-> Op(x[2], l[x[1]])]
<1>1. PushFor(stack, l, S, type) = it0[D]
  BY Zenon DEF PushFor, FoldLeft, MapThenFoldSet
<1>2. /\ IsFiniteSet(D) /\ \A i \in D : l[i] \in P
      /\ \A u \in SUBSET D : u # {} => Max(u) \in u
  BY PlacesOf
<1>3. \A acc \in B, p \in P : Op(acc, p) \in B
  BY DEF Push
<1> HIDE DEF Op, D
<1>4. H \in [D \X B -> B]
  BY <1>2, <1>3
<1>5. \A u \in SUBSET D : u # {} => c[u] \in u
  BY <1>2
<1>6. stack \in B
  OBVIOUS
<1> HIDE DEF B
<1>7. PICK f \in [SUBSET D -> B] : Works(f, D, c, stack, H)
  <2> HIDE DEF c, H
  <2> QED BY <1>2, <1>4, <1>5, <1>6, WorksExists
<1>8. Is(f)
  <2>1. ASSUME NEW u \in SUBSET D
        PROVE  f[u] = IF u = {} THEN stack ELSE Op(f[u \ {Max(u)}], l[Max(u)])
    <3>1. u # {} => f[u \ {Max(u)}] \in B /\ Max(u) \in D
      BY <1>2
    <3>2. u # {} => H[<<Max(u), f[u \ {Max(u)}]>>] = Op(f[u \ {Max(u)}], l[Max(u)])
      BY <3>1
    <3>3. c[u] = Max(u)
      OBVIOUS
    <3> HIDE DEF c, H
    <3> QED BY <1>7, <3>2, <3>3 DEF Works
  <2> QED BY <2>1
<1>9. Is(it0)
  <2> HIDE DEF Is
  <2> QED BY <1>8
<1>10. it0[{}] \in B /\ \A u \in SUBSET D : u # {} /\ it0[u \ {c[u]}] \in B => it0[u] \in B
  <2> HIDE DEF it0
  <2>1. it0[{}] = stack
    BY <1>9
  <2>2. ASSUME NEW u \in SUBSET D, u # {}, it0[u \ {c[u]}] \in B
        PROVE  it0[u] \in B
    <3>1. it0[u] = Op(it0[u \ {Max(u)}], l[Max(u)]) /\ c[u] = Max(u) /\ l[Max(u)] \in P
      BY <1>2, <1>9, <2>2
    <3> QED BY <1>3, <2>2, <3>1
  <2> QED BY <1>6, <2>1, <2>2
<1>11. it0[D] \in B
  <2> HIDE DEF it0, c
  <2> QED BY <1>2, <1>5, <1>10, WorkedIn
<1> QED BY <1>1, <1>11 DEF B

\* An accept names consoles.
LEMMA OtherChildrenIs ==
  ASSUME NEW l \in Seq(Peer), NEW m
  PROVE  OtherChildren(l, m) \in Seq(Node)
<1> DEFINE D == DOMAIN l
           B == Seq(Node)
           Op(acc, p) == IF p.state = "child" /\ p.mac # m THEN Append(acc, p.mac) ELSE acc
           Is(it) == it = [u \in SUBSET D |-> IF u = {} THEN <<>> ELSE Op(it[u \ {Max(u)}], l[Max(u)])]
           it0 == CHOOSE it : Is(it)
           c == [u \in SUBSET D |-> Max(u)]
           H == [x \in D \X B |-> Op(x[2], l[x[1]])]
<1>1. OtherChildren(l, m) = it0[D]
  BY Zenon DEF OtherChildren, FoldLeft, MapThenFoldSet
<1>2. /\ IsFiniteSet(D) /\ \A i \in D : l[i] \in Peer
      /\ \A u \in SUBSET D : u # {} => Max(u) \in u
  BY PlacesOf
<1>3. \A acc \in B, p \in Peer : Op(acc, p) \in B
  BY DEF Peer
<1> HIDE DEF Op, D
<1>4. H \in [D \X B -> B]
  BY <1>2, <1>3
<1>5. \A u \in SUBSET D : u # {} => c[u] \in u
  BY <1>2
<1>6. <<>> \in B
  OBVIOUS
<1> HIDE DEF B
<1>7. PICK f \in [SUBSET D -> B] : Works(f, D, c, <<>>, H)
  <2> HIDE DEF c, H
  <2> QED BY <1>2, <1>4, <1>5, <1>6, WorksExists
<1>8. Is(f)
  <2>1. ASSUME NEW u \in SUBSET D
        PROVE  f[u] = IF u = {} THEN <<>> ELSE Op(f[u \ {Max(u)}], l[Max(u)])
    <3>1. u # {} => f[u \ {Max(u)}] \in B /\ Max(u) \in D
      BY <1>2
    <3>2. u # {} => H[<<Max(u), f[u \ {Max(u)}]>>] = Op(f[u \ {Max(u)}], l[Max(u)])
      BY <3>1
    <3>3. c[u] = Max(u)
      OBVIOUS
    <3> HIDE DEF c, H
    <3> QED BY <1>7, <3>2, <3>3 DEF Works
  <2> QED BY <2>1
<1>9. Is(it0)
  <2> HIDE DEF Is
  <2> QED BY <1>8
<1>10. it0[{}] \in B /\ \A u \in SUBSET D : u # {} /\ it0[u \ {c[u]}] \in B => it0[u] \in B
  <2> HIDE DEF it0
  <2>1. it0[{}] = <<>>
    BY <1>9
  <2>2. ASSUME NEW u \in SUBSET D, u # {}, it0[u \ {c[u]}] \in B
        PROVE  it0[u] \in B
    <3>1. it0[u] = Op(it0[u \ {Max(u)}], l[Max(u)]) /\ c[u] = Max(u) /\ l[Max(u)] \in Peer
      BY <1>2, <1>9, <2>2
    <3> QED BY <1>3, <2>2, <3>1
  <2> QED BY <1>6, <2>1, <2>2
<1>11. it0[D] \in B
  <2> HIDE DEF it0, c
  <2> QED BY <1>2, <1>5, <1>10, WorkedIn
<1> QED BY <1>1, <1>11 DEF B

\* An entry is put, or put in its place.
LEMMA PutStateIs ==
  ASSUME NEW Q, NEW l \in Seq(Q), NEW m, NEW s, Entry(m, s) \in Q
  PROVE  PutState(l, m, s) \in Seq(Q)
<1> DEFINE I == {j \in 1..Len(l) : l[j].mac = m}
           i == IF I # {} THEN Min(I) ELSE 0
<1>1. PutState(l, m, s) = IF i = 0 THEN Added(l, m, s) ELSE [l EXCEPT ![i] = Entry(m, s)]
  BY Zenon DEF PutState, SelectInSeq
<1>2. I # {} => Min(I) \in I
  <2>1. Len(l) \in Nat
    OBVIOUS
  <2> QED BY <2>1, PlacesHaveEnds
<1>3. i = 0 \/ i \in DOMAIN l
  BY <1>2
<1> HIDE DEF i
<1>4. Added(l, m, s) \in Seq(Q)
  BY DEF Added
<1>5. i \in DOMAIN l => [l EXCEPT ![i] = Entry(m, s)] \in Seq(Q)
  OBVIOUS
<1> QED BY <1>1, <1>3, <1>4, <1>5

Kin == {p \in Peer : p.state \in {"child", "parent", "self"}}

\* Kin are entries.
LEMMA KinEntries ==
  \A m \in Node : Entry(m, "child") \in Kin /\ Entry(m, "self") \in Kin
  BY DEF Entry, Kin, Peer, PeerState

\* A client keeps its host, its siblings and itself.
LEMMA KeptIs ==
  ASSUME NEW l \in Seq(Peer)
  PROVE  Kept(l) \in Seq(Kin)
<1> DEFINE D == DOMAIN l
           B == Seq(Kin)
           Op(acc, p) == IF p.state \in {"child", "parent", "self"} THEN Append(acc, p) ELSE acc
           Is(it) == it = [u \in SUBSET D |-> IF u = {} THEN <<>> ELSE Op(it[u \ {Max(u)}], l[Max(u)])]
           it0 == CHOOSE it : Is(it)
           c == [u \in SUBSET D |-> Max(u)]
           H == [x \in D \X B |-> Op(x[2], l[x[1]])]
<1>1. Kept(l) = it0[D]
  BY Zenon DEF Kept, FoldLeft, MapThenFoldSet
<1>2. /\ IsFiniteSet(D) /\ \A i \in D : l[i] \in Peer
      /\ \A u \in SUBSET D : u # {} => Max(u) \in u
  BY PlacesOf
<1>3. \A acc \in B, p \in Peer : Op(acc, p) \in B
  BY DEF Kin
<1> HIDE DEF Op, D
<1>4. H \in [D \X B -> B]
  BY <1>2, <1>3
<1>5. \A u \in SUBSET D : u # {} => c[u] \in u
  BY <1>2
<1>6. <<>> \in B
  OBVIOUS
<1> HIDE DEF B
<1>7. PICK f \in [SUBSET D -> B] : Works(f, D, c, <<>>, H)
  <2> HIDE DEF c, H
  <2> QED BY <1>2, <1>4, <1>5, <1>6, WorksExists
<1>8. Is(f)
  <2>1. ASSUME NEW u \in SUBSET D
        PROVE  f[u] = IF u = {} THEN <<>> ELSE Op(f[u \ {Max(u)}], l[Max(u)])
    <3>1. u # {} => f[u \ {Max(u)}] \in B /\ Max(u) \in D
      BY <1>2
    <3>2. u # {} => H[<<Max(u), f[u \ {Max(u)}]>>] = Op(f[u \ {Max(u)}], l[Max(u)])
      BY <3>1
    <3>3. c[u] = Max(u)
      OBVIOUS
    <3> HIDE DEF c, H
    <3> QED BY <1>7, <3>2, <3>3 DEF Works
  <2> QED BY <2>1
<1>9. Is(it0)
  <2> HIDE DEF Is
  <2> QED BY <1>8
<1>10. it0[{}] \in B /\ \A u \in SUBSET D : u # {} /\ it0[u \ {c[u]}] \in B => it0[u] \in B
  <2> HIDE DEF it0
  <2>1. it0[{}] = <<>>
    BY <1>9
  <2>2. ASSUME NEW u \in SUBSET D, u # {}, it0[u \ {c[u]}] \in B
        PROVE  it0[u] \in B
    <3>1. it0[u] = Op(it0[u \ {Max(u)}], l[Max(u)]) /\ c[u] = Max(u) /\ l[Max(u)] \in Peer
      BY <1>2, <1>9, <2>2
    <3> QED BY <1>3, <2>2, <3>1
  <2> QED BY <1>6, <2>1, <2>2
<1>11. it0[D] \in B
  <2> HIDE DEF it0, c
  <2> QED BY <1>2, <1>5, <1>10, WorkedIn
<1> QED BY <1>1, <1>11 DEF B

\* The siblings an accept names are put into the list.
LEMMA WithSiblingsIs ==
  ASSUME NEW l \in Seq(Kin), NEW siblings \in Seq(Node)
  PROVE  WithSiblings(l, siblings) \in Seq(Kin)
<1> DEFINE D == DOMAIN siblings
           B == Seq(Kin)
           Op(m, acc) == PutState(acc, m, "child")
           Is(it) == it = [u \in SUBSET D |-> IF u = {} THEN l ELSE Op(siblings[Min(u)], it[u \ {Min(u)}])]
           it0 == CHOOSE it : Is(it)
           c == [u \in SUBSET D |-> Min(u)]
           H == [x \in D \X B |-> Op(siblings[x[1]], x[2])]
<1>1. WithSiblings(l, siblings) = it0[D]
  BY Zenon DEF WithSiblings, FoldRight, MapThenFoldSet
<1>2. /\ IsFiniteSet(D) /\ \A i \in D : siblings[i] \in Node
      /\ \A u \in SUBSET D : u # {} => Min(u) \in u
  BY PlacesOf
<1>3. \A acc \in B, p \in Node : Op(p, acc) \in B
  BY KinEntries, PutStateIs
<1> HIDE DEF Op, D
<1>4. H \in [D \X B -> B]
  BY <1>2, <1>3
<1>5. \A u \in SUBSET D : u # {} => c[u] \in u
  BY <1>2
<1>6. l \in B
  OBVIOUS
<1> HIDE DEF B
<1>7. PICK f \in [SUBSET D -> B] : Works(f, D, c, l, H)
  <2> HIDE DEF c, H
  <2> QED BY <1>2, <1>4, <1>5, <1>6, WorksExists
<1>8. Is(f)
  <2>1. ASSUME NEW u \in SUBSET D
        PROVE  f[u] = IF u = {} THEN l ELSE Op(siblings[Min(u)], f[u \ {Min(u)}])
    <3>1. u # {} => f[u \ {Min(u)}] \in B /\ Min(u) \in D
      BY <1>2
    <3>2. u # {} => H[<<Min(u), f[u \ {Min(u)}]>>] = Op(siblings[Min(u)], f[u \ {Min(u)}])
      BY <3>1
    <3>3. c[u] = Min(u)
      OBVIOUS
    <3> HIDE DEF c, H
    <3> QED BY <1>7, <3>2, <3>3 DEF Works
  <2> QED BY <2>1
<1>9. Is(it0)
  <2> HIDE DEF Is
  <2> QED BY <1>8
<1>10. it0[{}] \in B /\ \A u \in SUBSET D : u # {} /\ it0[u \ {c[u]}] \in B => it0[u] \in B
  <2> HIDE DEF it0
  <2>1. it0[{}] = l
    BY <1>9
  <2>2. ASSUME NEW u \in SUBSET D, u # {}, it0[u \ {c[u]}] \in B
        PROVE  it0[u] \in B
    <3>1. it0[u] = Op(siblings[Min(u)], it0[u \ {Min(u)}]) /\ c[u] = Min(u) /\ siblings[Min(u)] \in Node
      BY <1>2, <1>9, <2>2
    <3> QED BY <1>3, <2>2, <3>1
  <2> QED BY <1>6, <2>1, <2>2
<1>11. it0[D] \in B
  <2> HIDE DEF it0, c
  <2> QED BY <1>2, <1>5, <1>10, WorkedIn
<1> QED BY <1>1, <1>11 DEF B

\* What a client keeps of its list is its host, its siblings and itself.
LEMMA PostAcceptIs ==
  ASSUME NEW n \in Node, NEW l \in Seq(Peer), NEW siblings \in Seq(Node)
  PROVE  PostAccept(n, l, siblings) \in Seq(Kin)
<1>1. WithSiblings(Kept(l), siblings) \in Seq(Kin)
  BY KeptIs, WithSiblingsIs
<1> QED BY <1>1, KinEntries, PutStateIs DEF PostAccept

-----------------------------------------------------------------------------
(* What the lists of a console hold.                                       *)

\* A client asks consoles of w only, and only they accept it; it never sends an
\* accept itself.
PeerOf(n, w) == {p \in Peer : mode[n] = "child" /\ p.state = "outgoing" => p.mac \in w}
EventOf(n, w) ==
  {e \in Message(EventType) : mode[n] = "child" /\ e.type = "established" => e.mac \in w}
OpOf(n) == {o \in Message(Opcode) : mode[n] = "child" => o.type # "accept"}

\* The lists of n, as far as they depend on the consoles w it asked.
Own(n, w) ==
  /\ peers[n] \in Seq(PeerOf(n, w))
  /\ input[n] \in Seq(OpOf(n))
  /\ events[n] \in Seq(EventOf(n, w))
  /\ pending[n] \in Seq(EventOf(n, w))

\* A birth and a death name a sibling.
Datagram ==
  {d \in [from : Node, to : Node, type : Opcode \cup {"bye"}, arg : Seq(Node)] :
     d.type \in {"birth", "death"} => d.arg # <<>>}

\* The invariant of the library, where console n asked those of W[n].
Lib(W) == MatchingTypeOK /\ net \subseteq Datagram /\ \A n \in Node : Own(n, W[n])

\* One console's part of g is in S, and the rest as in f.
Sets(f, g, n, S) == \E x \in S : g = [f EXCEPT ![n] = x]

\* A list is appended to.
LEMMA SeqGrows ==
  ASSUME NEW S, NEW T, S \subseteq T, NEW q \in Seq(S)
  PROVE  q \in Seq(T)
OBVIOUS

\* A part that a step leaves alone.
LEMMA SetsKept ==
  ASSUME NEW D, NEW X, NEW f \in [D -> X], NEW n \in D, NEW S, f[n] \in S
  PROVE  Sets(f, f, n, S)
<1>1. f = [f EXCEPT ![n] = f[n]]
  OBVIOUS
<1> QED BY <1>1 DEF Sets

\* The lists of a console are of the types of the library.
LEMMA OwnTypes ==
  ASSUME NEW n, NEW w
  PROVE  PeerOf(n, w) \subseteq Peer /\ EventOf(n, w) \subseteq Message(EventType)
         /\ OpOf(n) \subseteq Message(Opcode)
BY DEF PeerOf, EventOf, OpOf

\* A step of one console, that leaves its lists of their kinds.
LEMMA OneConsole ==
  ASSUME NEW W, NEW V, Lib(W), NEW n \in Node, \A k \in Node \ {n} : V[k] = W[k],
         UNCHANGED mode, next' \in [Node -> {"none", "parent", "child", "off"}],
         at' \in [Node -> {"drain", "receive"}], net' \subseteq Datagram,
         Sets(peers, peers', n, Seq(PeerOf(n, V[n]))), Sets(input, input', n, Seq(OpOf(n))),
         Sets(events, events', n, Seq(EventOf(n, V[n]))),
         Sets(pending, pending', n, Seq(EventOf(n, V[n])))
  PROVE  Lib(V)'
<1>1. PICK l \in Seq(PeerOf(n, V[n])) : peers' = [peers EXCEPT ![n] = l]
  BY DEF Sets
<1>2. PICK i \in Seq(OpOf(n)) : input' = [input EXCEPT ![n] = i]
  BY DEF Sets
<1>3. PICK e \in Seq(EventOf(n, V[n])) : events' = [events EXCEPT ![n] = e]
  BY DEF Sets
<1>4. PICK p \in Seq(EventOf(n, V[n])) : pending' = [pending EXCEPT ![n] = p]
  BY DEF Sets
<1>5. /\ l \in Seq(Peer) /\ i \in Seq(Message(Opcode)) /\ e \in Seq(Message(EventType))
      /\ p \in Seq(Message(EventType))
  BY OwnTypes, SeqGrows
<1>6. /\ mode \in [Node -> {"parent", "child", "off"}]
      /\ peers \in [Node -> Seq(Peer)] /\ input \in [Node -> Seq(Message(Opcode))]
      /\ events \in [Node -> Seq(Message(EventType))]
      /\ pending \in [Node -> Seq(Message(EventType))]
  BY DEF Lib, MatchingTypeOK
<1>7. /\ peers' \in [Node -> Seq(Peer)] /\ input' \in [Node -> Seq(Message(Opcode))]
      /\ events' \in [Node -> Seq(Message(EventType))]
      /\ pending' \in [Node -> Seq(Message(EventType))]
  BY <1>1, <1>2, <1>3, <1>4, <1>5, <1>6
<1>8. MatchingTypeOK'
  BY <1>6, <1>7 DEF MatchingTypeOK, Datagram
<1>9. ASSUME NEW k \in Node
      PROVE  Own(k, V[k])'
  <2>1. /\ PeerOf(k, V[k])' = PeerOf(k, V[k]) /\ EventOf(k, V[k])' = EventOf(k, V[k])
        /\ OpOf(k)' = OpOf(k)
    BY DEF PeerOf, EventOf, OpOf
  <2>2. CASE k = n
    <3>1. peers'[k] = l /\ input'[k] = i /\ events'[k] = e /\ pending'[k] = p
      BY <1>1, <1>2, <1>3, <1>4, <1>6, <2>2
    <3> QED BY <2>1, <2>2, <3>1 DEF Own
  <2>3. CASE k # n
    <3>1. /\ peers'[k] = peers[k] /\ input'[k] = input[k] /\ events'[k] = events[k]
          /\ pending'[k] = pending[k] /\ V[k] = W[k]
      BY <1>1, <1>2, <1>3, <1>4, <1>6, <2>3
    <3>2. Own(k, V[k])
      BY <3>1 DEF Lib
    <3> QED BY <2>1, <3>1, <3>2 DEF Own
  <2> QED BY <2>2, <2>3
<1> QED BY <1>8, <1>9 DEF Lib

\* FindState gives the first entry of state s, or 0.
LEMMA FindStateIs ==
  ASSUME NEW n, NEW s, peers[n] \in Seq(Peer)
  PROVE  FindState(n, s) # 0 => FindState(n, s) \in DOMAIN peers[n]
                                /\ peers[n][FindState(n, s)].state = s
<1> DEFINE l == peers[n]
           I == {i \in 1..Len(l) : l[i].state = s}
<1>1. FindState(n, s) = IF I # {} THEN Min(I) ELSE 0
  BY Zenon DEF FindState, SelectInSeq
<1>2. Len(l) \in Nat /\ DOMAIN l = 1..Len(l)
  OBVIOUS
<1>3. I # {} => Min(I) \in I
  BY <1>2, PlacesHaveEnds
<1> QED BY <1>1, <1>2, <1>3

\* A console that is listed is one.
LEMMA PeersHave ==
  ASSUME NEW n, NEW w
  PROVE  /\ \A m \in Node, s \in PeerState : s # "outgoing" \/ m \in w => Entry(m, s) \in PeerOf(n, w)
         /\ \A p \in PeerOf(n, w), b \in BOOLEAN : [p EXCEPT !.fresh = b] \in PeerOf(n, w)
         /\ \A p \in PeerOf(n, w), s \in PeerState :
              s # "outgoing" \/ p.mac \in w => [p EXCEPT !.state = s] \in PeerOf(n, w)
         /\ Kin \subseteq PeerOf(n, w)
BY DEF PeerOf, Peer, Entry, Kin, PeerState

\* A message is pushed.
LEMMA Pushed ==
  ASSUME NEW S, NEW q \in Seq(S), NEW type, NEW m, [type |-> type, mac |-> m] \in S
  PROVE  Push(q, type, m) \in Seq(S)
BY DEF Push

\* What is spawned on a stack of events.
LEMMA EventsHave ==
  ASSUME NEW n, NEW w, NEW q \in Seq(EventOf(n, w)), NEW type \in EventType, NEW m \in Node,
         mode[n] = "child" /\ type = "established" => m \in w
  PROVE  Push(q, type, m) \in Seq(EventOf(n, w))
<1>1. [type |-> type, mac |-> m] \in EventOf(n, w)
  BY DEF EventOf, Message
<1> QED BY <1>1, Pushed

\* What is pushed on the stack of the input thread.
LEMMA OpsHave ==
  ASSUME NEW n, NEW q \in Seq(OpOf(n)), NEW type \in Opcode, NEW m \in Node,
         mode[n] = "child" => type # "accept"
  PROVE  Push(q, type, m) \in Seq(OpOf(n))
<1>1. [type |-> type, mac |-> m] \in OpOf(n)
  BY DEF OpOf, Message
<1> QED BY <1>1, Pushed

-----------------------------------------------------------------------------
(* What a handler leaves of the console that runs it.                      *)

\* What a handler of n may assume.
Holds(n, w) == MatchingTypeOK /\ net \subseteq Datagram /\ Own(n, w)

\* A handler leaves n with a list, events and datagrams of their kinds.
Leads(n, w) ==
  /\ Sets(peers, peers', n, Seq(PeerOf(n, w)))
  /\ Sets(events, events', n, Seq(EventOf(n, w)))
  /\ net' \subseteq Datagram

\* A datagram that is sent.
LEMMA ToIs ==
  ASSUME NEW n \in Node, NEW m \in Node, NEW type \in Opcode \cup {"bye"}, NEW arg \in Seq(Node),
         type \in {"birth", "death"} => arg # <<>>
  PROVE  To(n, type, m, arg) \in Datagram
BY DEF To, Datagram

\* Datagrams that name nobody, and those that name one sibling.
LEMMA ToPlain ==
  ASSUME NEW n \in Node, NEW m \in Node, NEW type \in {"join", "cancel", "bye"}
  PROVE  To(n, type, m, <<>>) \in Datagram
<1>1. <<>> \in Seq(Node) /\ type \in Opcode \cup {"bye"} /\ type \notin {"birth", "death"}
  BY DEF Opcode
<1> QED BY <1>1 DEF To, Datagram

LEMMA ToNaming ==
  ASSUME NEW n \in Node, NEW m \in Node, NEW k \in Node, NEW type \in {"birth", "death"}
  PROVE  To(n, type, m, <<k>>) \in Datagram
<1>1. <<k>> \in Seq(Node) /\ <<k>> # <<>> /\ type \in Opcode \cup {"bye"}
  BY DEF Opcode
<1> QED BY <1>1 DEF To, Datagram

\* A handler that leaves the list alone.
LEMMA PeersKept ==
  ASSUME NEW n \in Node, NEW w, Holds(n, w), KeepPeers
  PROVE  Sets(peers, peers', n, Seq(PeerOf(n, w)))
<1>1. peers \in [Node -> Seq(Peer)] /\ peers[n] \in Seq(PeerOf(n, w)) /\ peers' = peers
  BY DEF Holds, MatchingTypeOK, Own, KeepPeers
<1> QED BY <1>1, SetsKept

\* A handler that spawns nothing.
LEMMA EventsKept ==
  ASSUME NEW n \in Node, NEW w, Holds(n, w), NoEvent
  PROVE  Sets(events, events', n, Seq(EventOf(n, w)))
<1>1. /\ events \in [Node -> Seq(Message(EventType))] /\ events[n] \in Seq(EventOf(n, w))
      /\ events' = events
  BY DEF Holds, MatchingTypeOK, Own, NoEvent
<1> QED BY <1>1, SetsKept

\* A handler that writes the list.
LEMMA PeersSet ==
  ASSUME NEW n \in Node, NEW w, NEW l \in Seq(PeerOf(n, w)), SetPeers(n, l)
  PROVE  Sets(peers, peers', n, Seq(PeerOf(n, w)))
BY DEF SetPeers, Sets

\* A handler that spawns an event.
LEMMA EventSpawned ==
  ASSUME NEW n \in Node, NEW w, Holds(n, w), NEW type \in EventType, NEW m \in Node,
         mode[n] = "child" /\ type = "established" => m \in w, SpawnLocalEvent(n, type, m)
  PROVE  Sets(events, events', n, Seq(EventOf(n, w)))
<1>1. Push(events[n], type, m) \in Seq(EventOf(n, w))
  BY EventsHave DEF Holds, Own
<1>2. events' = [events EXCEPT ![n] = Push(events[n], type, m)]
  BY DEF SpawnLocalEvent
<1> QED BY <1>1, <1>2 DEF Sets

\* n's list, and what the handlers make of it.
LEMMA ListIs ==
  ASSUME NEW n \in Node, NEW w, Holds(n, w)
  PROVE  /\ peers[n] \in Seq(PeerOf(n, w)) /\ peers[n] \in Seq(Peer)
         /\ \A i \in DOMAIN peers[n] : peers[n][i] \in PeerOf(n, w) /\ peers[n][i].mac \in Node
         /\ \A m : FindPeer(n, m) # 0 =>
              FindPeer(n, m) \in DOMAIN peers[n] /\ peers[n][FindPeer(n, m)].mac = m
<1>1. peers[n] \in Seq(PeerOf(n, w)) /\ peers[n] \in Seq(Peer)
  BY DEF Holds, Own, MatchingTypeOK
<1>2. \A i \in DOMAIN peers[n] : peers[n][i] \in PeerOf(n, w) /\ peers[n][i].mac \in Node
  BY <1>1 DEF PeerOf, Peer
<1>3. ASSUME NEW m, FindPeer(n, m) # 0
      PROVE  FindPeer(n, m) \in DOMAIN peers[n] /\ peers[n][FindPeer(n, m)].mac = m
  <2>1. FindPeer(n, m) \in 0..Len(peers[n]) /\ peers[n][FindPeer(n, m)].mac = m
    BY <1>1, <1>3, FindIs
  <2> QED BY <1>1, <1>3, <2>1
<1> QED BY <1>1, <1>2, <1>3

\* An entry is put in, written, or taken out.
LEMMA ListChanges ==
  ASSUME NEW n, NEW w, NEW l \in Seq(PeerOf(n, w))
  PROVE  /\ \A i \in DOMAIN l, b \in BOOLEAN : [l EXCEPT ![i].fresh = b] \in Seq(PeerOf(n, w))
         /\ \A i \in DOMAIN l, s \in PeerState : s # "outgoing" \/ l[i].mac \in w
              => [l EXCEPT ![i].state = s] \in Seq(PeerOf(n, w))
         /\ \A i \in DOMAIN l, p \in PeerOf(n, w) : [l EXCEPT ![i] = p] \in Seq(PeerOf(n, w))
         /\ \A m \in Node, s \in PeerState : s # "outgoing" \/ m \in w
              => Added(l, m, s) \in Seq(PeerOf(n, w))
         /\ \A i \in DOMAIN l : RemoveAt(l, i) \in Seq(PeerOf(n, w))
         /\ <<>> \in Seq(PeerOf(n, w))
<1> DEFINE Q == PeerOf(n, w)
<1>1. /\ \A m \in Node, s \in PeerState : s # "outgoing" \/ m \in w => Entry(m, s) \in Q
      /\ \A p \in Q, b \in BOOLEAN : [p EXCEPT !.fresh = b] \in Q
      /\ \A p \in Q, s \in PeerState : s # "outgoing" \/ p.mac \in w => [p EXCEPT !.state = s] \in Q
  BY PeersHave
<1> HIDE DEF Q
<1>2. l \in Seq(Q)
  BY DEF Q
<1>3. \A i \in DOMAIN l : l[i] \in Q
  BY <1>2
<1>4. \A i \in DOMAIN l, p \in Q : [l EXCEPT ![i] = p] \in Seq(Q)
  BY <1>2
<1>5. \A i \in DOMAIN l, b \in BOOLEAN : [l EXCEPT ![i].fresh = b] \in Seq(Q)
  BY <1>1, <1>3, <1>4
<1>6. \A i \in DOMAIN l, s \in PeerState : s # "outgoing" \/ l[i].mac \in w
              => [l EXCEPT ![i].state = s] \in Seq(Q)
  BY <1>1, <1>3, <1>4
<1>7. \A m \in Node, s \in PeerState : s # "outgoing" \/ m \in w => Added(l, m, s) \in Seq(Q)
  BY <1>1, <1>2 DEF Added
<1>8. \A i \in DOMAIN l : RemoveAt(l, i) \in Seq(Q)
  BY <1>2, RemoveAtIs
<1> QED BY <1>4, <1>5, <1>6, <1>7, <1>8 DEF Q

-----------------------------------------------------------------------------
(* What the input thread sends.                                            *)

LEMMA SendAcceptLeads ==
  ASSUME NEW n \in Node, NEW w, Holds(n, w), NEW m \in Node, mode[n] # "child", SendAccept(n, m)
  PROVE  Leads(n, w)
<1> DEFINE named == OtherChildren(peers[n], m)
<1>1. named \in Seq(Node)
  BY ListIs, OtherChildrenIs
<1> HIDE DEF named
<1>2. To(n, "accept", m, named) \in Datagram
  BY <1>1, ToIs DEF Opcode
<1>3. KeepPeers /\ (NoEvent \/ SpawnLocalEvent(n, "established", m))
  BY Zenon DEF SendAccept
<1>4. Send({To(n, "accept", m, named)}) \/ Send({})
  BY Zenon DEF SendAccept, named
<1>5. net' \subseteq Datagram
  BY <1>2, <1>4 DEF Send, Holds
<1> QED BY <1>3, <1>5, PeersKept, EventsKept, EventSpawned DEF Leads, EventType

LEMMA SendJoinLeads ==
  ASSUME NEW n \in Node, NEW w, Holds(n, w), NEW m \in Node, SendJoin(n, m)
  PROVE  Leads(n, w)
<1>1. To(n, "join", m, <<>>) \in Datagram
  BY ToPlain
<1>2. net' \subseteq Datagram
  BY <1>1 DEF SendJoin, Send, Holds
<1>3. NoEvent /\ KeepPeers
  BY DEF SendJoin
<1> QED BY <1>2, <1>3, PeersKept, EventsKept DEF Leads

LEMMA SendCancelLeads ==
  ASSUME NEW n \in Node, NEW w, Holds(n, w), NEW m \in Node, SendCancel(n, m)
  PROVE  Leads(n, w)
<1>1. To(n, "cancel", m, <<>>) \in Datagram
  BY ToPlain
<1>2. net' \subseteq Datagram /\ NoEvent
  BY <1>1 DEF SendCancel, Send, Holds
<1> DEFINE l == IF FindPeer(n, m) = 0 THEN peers[n]
                ELSE IF mode[n] = "child" THEN <<>>
                ELSE [peers[n] EXCEPT ![FindPeer(n, m)].fresh = TRUE]
<1>3. SetPeers(n, l)
  BY Zenon DEF SendCancel
<1>4. l \in Seq(PeerOf(n, w))
  BY ListIs, ListChanges
<1> HIDE DEF l
<1> QED BY <1>2, <1>3, <1>4, PeersSet, EventsKept DEF Leads

\* The siblings that a birth is for are consoles.
LEMMA SiblingsAre ==
  ASSUME NEW n \in Node, NEW w, Holds(n, w), NEW m
  PROVE  SiblingsOf(n, m) \subseteq Node
BY ListIs DEF SiblingsOf, Children

LEMMA SendBirthLeads ==
  ASSUME NEW n \in Node, NEW w, Holds(n, w), NEW m \in Node, SendBirth(n, m)
  PROVE  Leads(n, w)
<1>1. \A c \in SiblingsOf(n, m) : To(n, "birth", c, <<m>>) \in Datagram
  BY SiblingsAre, ToNaming
<1>2. net' \subseteq Datagram
  BY <1>1 DEF SendBirth, Send, Holds
<1>3. NoEvent /\ KeepPeers
  BY DEF SendBirth
<1> QED BY <1>2, <1>3, PeersKept, EventsKept DEF Leads

LEMMA SendDeathLeads ==
  ASSUME NEW n \in Node, NEW w, Holds(n, w), NEW m \in Node, SendDeath(n, m)
  PROVE  Leads(n, w)
<1>1. \A c \in SiblingsOf(n, m) : To(n, "death", c, <<m>>) \in Datagram
  BY SiblingsAre, ToNaming
<1>2. To(n, "bye", m, <<>>) \in Datagram
  BY ToPlain
<1>3. NoEvent
  BY DEF SendDeath
<1>4. CASE FindPeer(n, m) = 0
  <2>1. net' \subseteq Datagram /\ KeepPeers
    BY <1>4 DEF SendDeath, Send, Holds
  <2> QED BY <1>3, <2>1, PeersKept, EventsKept DEF Leads
<1>5. CASE FindPeer(n, m) # 0
  <2>1. net' \subseteq Datagram
    BY <1>1, <1>2, <1>5 DEF SendDeath, Send, Holds
  <2> DEFINE l == RemoveAt(peers[n], FindPeer(n, m))
  <2>2. SetPeers(n, l)
    BY <1>5, Zenon DEF SendDeath
  <2>3. l \in Seq(PeerOf(n, w))
    BY <1>5, ListIs, ListChanges
  <2> HIDE DEF l
  <2> QED BY <1>3, <2>1, <2>2, <2>3, PeersSet, EventsKept DEF Leads
<1> QED BY <1>4, <1>5

-----------------------------------------------------------------------------
(* The threads keep the types of the library.                              *)

\* The invariant of the library, at one console.
LEMMA LibHolds ==
  ASSUME NEW W, Lib(W), NEW n \in Node
  PROVE  Holds(n, W[n])
BY DEF Lib, Holds

LEMMA AtAfter ==
  ASSUME NEW W, Lib(W), NEW n \in Node, AfterStack(n)
  PROVE  at' \in [Node -> {"drain", "receive"}]
BY DEF Lib, MatchingTypeOK, AfterStack

LEMMA InputKept ==
  ASSUME NEW n \in Node, NEW w, Holds(n, w), UNCHANGED input
  PROVE  Sets(input, input', n, Seq(OpOf(n)))
<1>1. /\ input \in [Node -> Seq(Message(Opcode))] /\ input[n] \in Seq(OpOf(n))
      /\ input' = input
  BY DEF Holds, MatchingTypeOK, Own
<1> QED BY <1>1, SetsKept

LEMMA PendingKept ==
  ASSUME NEW n \in Node, NEW w, Holds(n, w), UNCHANGED pending
  PROVE  Sets(pending, pending', n, Seq(EventOf(n, w)))
<1>1. /\ pending \in [Node -> Seq(Message(EventType))] /\ pending[n] \in Seq(EventOf(n, w))
      /\ pending' = pending
  BY DEF Holds, MatchingTypeOK, Own
<1> QED BY <1>1, SetsKept

\* A step of n's input thread: what its handler leads to is kept.
LEMMA InputThread ==
  ASSUME NEW W, Lib(W), NEW n \in Node, Leads(n, W[n]), Sets(input, input', n, Seq(OpOf(n))),
         AfterStack(n), UNCHANGED <<mode, next, pending>>
  PROVE  Lib(W)'
<1>1. next' \in [Node -> {"none", "parent", "child", "off"}]
  BY DEF Lib, MatchingTypeOK
<1>2. at' \in [Node -> {"drain", "receive"}]
  BY AtAfter
<1>3. Sets(pending, pending', n, Seq(EventOf(n, W[n])))
  BY LibHolds, PendingKept
<1> QED BY <1>1, <1>2, <1>3, OneConsole DEF Leads

LEMMA DrainLib ==
  ASSUME NEW W, Lib(W), NEW n \in Node, Drain(n)
  PROVE  Lib(W)'
<1> DEFINE m == Head(input[n]).mac
           op == Head(input[n]).type
           w == W[n]
<1>1. Holds(n, w) /\ input[n] \in Seq(OpOf(n)) /\ input[n] # <<>>
  BY LibHolds DEF Holds, Own, Drain
<1>2. Head(input[n]) \in OpOf(n) /\ Tail(input[n]) \in Seq(OpOf(n))
  BY <1>1
<1>3. m \in Node /\ (mode[n] = "child" => op # "accept")
  BY <1>2 DEF OpOf, Message
<1>4. \/ op = "accept" /\ SendAccept(n, m)
      \/ SendJoin(n, m) \/ SendCancel(n, m) \/ SendBirth(n, m) \/ SendDeath(n, m)
  BY Zenon DEF Drain
<1> HIDE DEF m, op, w
<1>5. Leads(n, w)
  BY <1>1, <1>3, <1>4, SendAcceptLeads, SendJoinLeads, SendCancelLeads, SendBirthLeads,
     SendDeathLeads
<1>6. Sets(input, input', n, Seq(OpOf(n)))
  BY <1>2 DEF Drain, Sets
<1>7. AfterStack(n) /\ UNCHANGED <<mode, next, pending>>
  BY DEF Drain
<1> QED BY <1>5, <1>6, <1>7, InputThread DEF w

LEMMA PollLib ==
  ASSUME NEW W, Lib(W), NEW n \in Node, NEW lost, Poll(n, lost)
  PROVE  Lib(W)'
<1> DEFINE w == W[n]
           kin == IF mode[n] = "parent" THEN "child" ELSE "parent"
           out == {p \in Range(peers[n]) : p.state = kin /\ p.mac \in lost}
           e == PushFor(events[n], peers[n], out, "timeout")
           i == PushFor(input[n], peers[n], out, IF kin = "child" THEN "death" ELSE "cancel")
<1>1. Holds(n, w) /\ peers[n] \in Seq(Peer) /\ input[n] \in Seq(OpOf(n))
      /\ events[n] \in Seq(EventOf(n, w))
  BY LibHolds, ListIs DEF Holds, Own
<1>2. \A p \in Peer : [type |-> "timeout", mac |-> p.mac] \in EventOf(n, w)
  BY DEF EventOf, Message, EventType, Peer
<1>3. \A p \in Peer, t \in {"death", "cancel"} : [type |-> t, mac |-> p.mac] \in OpOf(n)
  BY DEF OpOf, Message, Opcode, Peer
<1>4. events' = [events EXCEPT ![n] = e] /\ input' = [input EXCEPT ![n] = i]
  BY Zenon DEF Poll
<1>5. e \in Seq(EventOf(n, w))
  BY <1>1, <1>2, PushForIs
<1>6. i \in Seq(OpOf(n))
  <2>1. (IF kin = "child" THEN "death" ELSE "cancel") \in {"death", "cancel"}
    OBVIOUS
  <2> HIDE DEF kin, out
  <2> QED BY <1>1, <1>3, <2>1, PushForIs
<1>7. KeepPeers /\ net' = net /\ AfterStack(n) /\ UNCHANGED <<mode, next, pending>>
  BY DEF Poll, KeepPeers
<1> HIDE DEF e, i, w
<1>8. Leads(n, w)
  BY <1>1, <1>4, <1>5, <1>7, PeersKept DEF Leads, Sets, Holds
<1>9. Sets(input, input', n, Seq(OpOf(n)))
  BY <1>4, <1>6 DEF Sets
<1> QED BY <1>7, <1>8, <1>9, InputThread DEF w

-----------------------------------------------------------------------------
(* What a datagram does.                                                   *)

\* A handler that does nothing.
LEMMA QuietLeads ==
  ASSUME NEW n \in Node, NEW w, Holds(n, w), Quiet, net' \subseteq Datagram
  PROVE  Leads(n, w)
BY PeersKept, EventsKept DEF Quiet, Leads

\* What a datagram that is read names, and what is under way when nobody answers it.
LEMMA Taken ==
  ASSUME net \subseteq Datagram, NEW d \in net
  PROVE  /\ d.from \in Node /\ d.arg \in Seq(Node) /\ (NoAnswer(d) => net' \subseteq Datagram)
         /\ d.type \in {"birth", "death"} => Head(d.arg) \in Node
BY DEF Datagram, NoAnswer

LEMMA JoinLeads ==
  ASSUME NEW n \in Node, NEW w, Holds(n, w), NEW d \in net, ActOnJoin(n, d)
  PROVE  Leads(n, w)
<1> DEFINE i == FindPeer(n, d.from)
<1>1. d.from \in Node /\ (NoAnswer(d) => net' \subseteq Datagram) /\ net \subseteq Datagram
      /\ mode[n] \in {"parent", "child", "off"}
  BY Taken DEF Holds, MatchingTypeOK
<1>2. CASE mode[n] = "child"
  BY <1>1, <1>2, QuietLeads DEF ActOnJoin
<1>3. CASE mode[n] = "parent" /\ ~HasPlace(n)
  <2>1. To(n, "cancel", d.from, <<>>) \in Datagram
    BY <1>1, ToPlain
  <2>2. net' \subseteq Datagram /\ NoEvent
    BY <1>1, <1>3, <2>1 DEF ActOnJoin
  <2> DEFINE l == IF i = 0 THEN peers[n] ELSE [peers[n] EXCEPT ![i].fresh = TRUE]
  <2>3. SetPeers(n, l)
    BY <1>3 DEF ActOnJoin
  <2>4. l \in Seq(PeerOf(n, w))
    BY ListIs, ListChanges
  <2> HIDE DEF l
  <2> QED BY <2>2, <2>3, <2>4, PeersSet, EventsKept DEF Leads
<1>4. CASE mode[n] = "parent" /\ HasPlace(n) /\ i # 0 /\ peers[n][i].fresh
  BY <1>1, <1>4, QuietLeads DEF ActOnJoin
<1>5. CASE mode[n] # "child" /\ ~(mode[n] = "parent" /\ ~HasPlace(n))
           /\ ~(mode[n] = "parent" /\ HasPlace(n) /\ i # 0 /\ peers[n][i].fresh)
  <2> DEFINE l == Requesting(peers[n], i, d.from)
  <2>1. SetPeers(n, l) /\ NoAnswer(d) /\ SpawnLocalEvent(n, "request", d.from)
    BY <1>5 DEF ActOnJoin
  <2>2. Entry(d.from, "incoming") \in PeerOf(n, w)
    BY <1>1, PeersHave DEF PeerState
  <2>3. l \in Seq(PeerOf(n, w))
    <3>1. CASE i = 0
      BY <1>1, <3>1, ListIs, ListChanges DEF Requesting, PeerState
    <3>2. CASE i # 0
      BY <2>2, <3>2, ListIs, ListChanges DEF Requesting
    <3> QED BY <3>1, <3>2
  <2> HIDE DEF l
  <2> QED BY <1>1, <2>1, <2>3, PeersSet, EventSpawned DEF Leads, EventType
<1> QED BY <1>2, <1>3, <1>4, <1>5

LEMMA AcceptLeads ==
  ASSUME NEW n \in Node, NEW w, Holds(n, w), NEW d \in net, ActOnAccept(n, d)
  PROVE  Leads(n, w)
<1> DEFINE i == FindPeer(n, d.from)
           answers == /\ mode[n] = "child" /\ FindState(n, "parent") = 0
                      /\ FindState(n, "outgoing") # 0 /\ FindState(n, "outgoing") = i
           now == [peers[n] EXCEPT ![i].state = "parent"]
           l == PostAccept(n, now, d.arg)
<1>1. d.from \in Node /\ net' \subseteq Datagram /\ d.arg \in Seq(Node)
  BY Taken DEF Holds, ActOnAccept
<1>2. CASE ~answers
  BY <1>1, <1>2, QuietLeads, Zenon DEF ActOnAccept
<1>3. CASE answers
  <2>1. SetPeers(n, l)
    BY <1>3, Zenon DEF ActOnAccept
  <2>2. events' = [events EXCEPT ![n] =
                     Push(Push(events[n], "established", d.from), "accept", d.from)]
    BY <1>3 DEF ActOnAccept
  <2>3. i \in DOMAIN peers[n] /\ peers[n] \in Seq(Peer) /\ peers[n][i].mac = d.from
        /\ peers[n][i] \in PeerOf(n, w) /\ peers[n][i].state = "outgoing"
    BY <1>3, ListIs, FindStateIs
  <2>4. d.from \in w
    BY <1>3, <2>3 DEF PeerOf
  <2>5. now \in Seq(Peer)
    <3>1. now \in Seq(PeerOf(n, w))
      BY <2>3, ListIs, ListChanges DEF PeerState
    <3> HIDE DEF now
    <3> QED BY <3>1, OwnTypes, SeqGrows
  <2>6. l \in Seq(PeerOf(n, w))
    <3> HIDE DEF now
    <3>1. l \in Seq(Kin)
      BY <1>1, <2>5, PostAcceptIs
    <3> HIDE DEF l
    <3> QED BY <3>1, PeersHave, SeqGrows
  <2>7. Push(events[n], "established", d.from) \in Seq(EventOf(n, w))
    BY <1>1, <2>4, EventsHave DEF Holds, Own, EventType
  <2>8. Push(Push(events[n], "established", d.from), "accept", d.from) \in Seq(EventOf(n, w))
    BY <1>1, <2>4, <2>7, EventsHave DEF EventType
  <2> HIDE DEF l
  <2> QED BY <1>1, <2>1, <2>2, <2>6, <2>8, PeersSet DEF Leads, Sets
<1> QED BY <1>2, <1>3

LEMMA CancelReadLeads ==
  ASSUME NEW n \in Node, NEW w, Holds(n, w), NEW d \in net, ActOnCancel(n, d)
  PROVE  Leads(n, w)
<1> DEFINE i == FindPeer(n, d.from)
           kin == {p \in Range(peers[n]) : p.state \in {"child", "parent"}}
           e == PushFor(events[n], peers[n], kin, "leave")
<1>1. d.from \in Node /\ net' \subseteq Datagram
  BY Taken DEF Holds, ActOnCancel
<1>2. \/ Quiet
      \/ /\ i # 0 /\ SetPeers(n, Marked(peers[n], i))
         /\ \E type \in {"deny", "cancel", "leave"} : SpawnLocalEvent(n, type, d.from)
      \/ SetPeers(n, <<>>) /\ events' = [events EXCEPT ![n] = e]
  BY Zenon DEF ActOnCancel
<1>3. CASE Quiet
  BY <1>1, <1>3, QuietLeads
<1>4. ASSUME i # 0, SetPeers(n, Marked(peers[n], i)),
             NEW type \in {"deny", "cancel", "leave"}, SpawnLocalEvent(n, type, d.from)
      PROVE  Leads(n, w)
  <2>1. Marked(peers[n], i) \in Seq(PeerOf(n, w))
    BY <1>4, ListIs, ListChanges DEF Marked
  <2>2. type \in EventType /\ type # "established"
    BY DEF EventType
  <2> QED BY <1>1, <1>4, <2>1, <2>2, PeersSet, EventSpawned DEF Leads
<1>5. CASE SetPeers(n, <<>>) /\ events' = [events EXCEPT ![n] = e]
  <2>1. \A p \in Peer : [type |-> "leave", mac |-> p.mac] \in EventOf(n, w)
    BY DEF EventOf, Message, EventType, Peer
  <2>2. e \in Seq(EventOf(n, w))
    BY <2>1, ListIs, PushForIs DEF Holds, Own
  <2>3. <<>> \in Seq(PeerOf(n, w))
    OBVIOUS
  <2> HIDE DEF e
  <2> QED BY <1>1, <1>5, <2>2, <2>3, PeersSet DEF Leads, Sets
<1> QED BY <1>2, <1>3, <1>4, <1>5

LEMMA BirthLeads ==
  ASSUME NEW n \in Node, NEW w, Holds(n, w), NEW d \in net, d.type = "birth", ActOnBirth(n, d)
  PROVE  Leads(n, w)
<1>1. net' \subseteq Datagram /\ NoEvent /\ Head(d.arg) \in Node
  BY Taken DEF Holds, ActOnBirth
<1> DEFINE l == IF FromParent(n, d) THEN Added(peers[n], Head(d.arg), "child") ELSE peers[n]
<1>2. SetPeers(n, l)
  BY DEF ActOnBirth
<1>3. l \in Seq(PeerOf(n, w))
  BY <1>1, ListIs, ListChanges DEF PeerState
<1> HIDE DEF l
<1> QED BY <1>1, <1>2, <1>3, PeersSet, EventsKept DEF Leads

LEMMA DeathLeads ==
  ASSUME NEW n \in Node, NEW w, Holds(n, w), NEW d \in net, d.type = "death", ActOnDeath(n, d)
  PROVE  Leads(n, w)
<1> DEFINE m == Head(d.arg)
<1>1. net' \subseteq Datagram /\ m \in Node
  BY Taken DEF Holds, ActOnDeath
<1>2. \/ Quiet
      \/ /\ FindPeer(n, m) # 0 /\ SetPeers(n, RemoveAt(peers[n], FindPeer(n, m)))
         /\ SpawnLocalEvent(n, "leave", m)
  BY Zenon DEF ActOnDeath, IsIn
<1> HIDE DEF m
<1>3. CASE Quiet
  BY <1>1, <1>3, QuietLeads
<1>4. CASE /\ FindPeer(n, m) # 0 /\ SetPeers(n, RemoveAt(peers[n], FindPeer(n, m)))
           /\ SpawnLocalEvent(n, "leave", m)
  <2>1. RemoveAt(peers[n], FindPeer(n, m)) \in Seq(PeerOf(n, w))
    BY <1>4, ListIs, ListChanges
  <2> QED BY <1>1, <1>4, <2>1, PeersSet, EventSpawned DEF Leads, EventType
<1> QED BY <1>2, <1>3, <1>4

LEMMA ByeLeads ==
  ASSUME NEW n \in Node, NEW w, Holds(n, w), NEW d \in net, ActOnBye(n, d)
  PROVE  Leads(n, w)
<1> DEFINE l == RemoveAt(peers[n], FindPeer(n, d.from))
<1>1. net' \subseteq Datagram /\ d.from \in Node
  BY Taken DEF Holds, ActOnBye
<1>2. \/ Quiet
      \/ /\ FindPeer(n, d.from) # 0 /\ SetPeers(n, l)
         /\ SpawnLocalEvent(n, "bye", d.from) \/ NoEvent
      \/ SetPeers(n, <<>>) /\ SpawnLocalEvent(n, "bye", d.from)
  BY Zenon DEF ActOnBye, IsIn
<1>3. CASE Quiet
  BY <1>1, <1>3, QuietLeads
<1>4. Sets(events, events', n, Seq(EventOf(n, w))) \/ Quiet
  BY <1>1, <1>2, EventsKept, EventSpawned DEF EventType
<1>5. CASE FindPeer(n, d.from) # 0 /\ SetPeers(n, l) /\ ~Quiet
  <2>1. l \in Seq(PeerOf(n, w))
    BY <1>5, ListIs, ListChanges
  <2> QED BY <1>1, <1>4, <1>5, <2>1, PeersSet DEF Leads
<1>6. CASE SetPeers(n, <<>>) /\ ~Quiet
  <2>1. <<>> \in Seq(PeerOf(n, w))
    OBVIOUS
  <2> QED BY <1>1, <1>4, <1>6, <2>1, PeersSet DEF Leads
<1> QED BY <1>2, <1>3, <1>5, <1>6

LEMMA ReceiveLib ==
  ASSUME NEW W, Lib(W), NEW n \in Node, NEW d \in net, Receive(n, d)
  PROVE  Lib(W)'
<1>1. Holds(n, W[n])
  BY LibHolds
<1>2. \/ ActOnJoin(n, d) \/ ActOnAccept(n, d) \/ ActOnCancel(n, d)
      \/ d.type = "birth" /\ ActOnBirth(n, d)
      \/ d.type = "death" /\ ActOnDeath(n, d)
      \/ ActOnBye(n, d)
  BY Zenon DEF Receive
<1>3. Leads(n, W[n])
  <2>1. ActOnJoin(n, d) \/ ActOnAccept(n, d) \/ ActOnCancel(n, d) => Leads(n, W[n])
    BY <1>1, JoinLeads, AcceptLeads, CancelReadLeads
  <2>2. d.type = "birth" /\ ActOnBirth(n, d) => Leads(n, W[n])
    BY <1>1, BirthLeads
  <2>3. d.type = "death" /\ ActOnDeath(n, d) => Leads(n, W[n])
    BY <1>1, DeathLeads
  <2>4. ActOnBye(n, d) => Leads(n, W[n])
    BY <1>1, ByeLeads
  <2> QED BY <1>2, <2>1, <2>2, <2>3, <2>4
<1>4. UNCHANGED <<mode, next, input, pending>> /\ AfterStack(n)
  BY DEF Receive
<1>5. Sets(input, input', n, Seq(OpOf(n)))
  BY <1>1, <1>4, InputKept
<1> QED BY <1>3, <1>4, <1>5, InputThread

LEMMA PingLib ==
  ASSUME NEW W, Lib(W), NEW n \in Node, NEW m \in Node, ActOnPing(n, m)
  PROVE  Lib(W)'
<1> DEFINE l == [peers[n] EXCEPT ![FindPeer(n, m)].fresh = TRUE]
<1>1. /\ FindPeer(n, m) # 0 /\ SetPeers(n, l) /\ AfterStack(n)
      /\ UNCHANGED <<mode, next, input, events, pending, net>>
  BY DEF ActOnPing
<1>2. Holds(n, W[n]) /\ net' \subseteq Datagram
  BY <1>1, LibHolds DEF Lib
<1>3. l \in Seq(PeerOf(n, W[n]))
  BY <1>1, <1>2, ListIs, ListChanges
<1> HIDE DEF l
<1>4. Leads(n, W[n])
  BY <1>1, <1>2, <1>3, PeersSet, EventsKept DEF Leads, NoEvent
<1> QED BY <1>1, <1>2, <1>4, InputKept, InputThread

LEMMA HelloLib ==
  ASSUME NEW W, Lib(W), NEW n \in Node, NEW m \in Node, Hello(n, m)
  PROVE  Lib(W)'
<1> DEFINE l == IF FindPeer(m, n) = 0 THEN Added(peers[m], n, "offer") ELSE peers[m]
<1>1. /\ SetPeers(m, l) /\ AfterStack(m) /\ (NoEvent \/ SpawnLocalEvent(m, "hello", n))
      /\ UNCHANGED <<mode, next, input, pending, net>>
  BY DEF Hello
<1>2. Holds(m, W[m]) /\ net' \subseteq Datagram
  BY <1>1, LibHolds DEF Lib
<1>3. l \in Seq(PeerOf(m, W[m]))
  BY <1>2, ListIs, ListChanges DEF PeerState
<1> HIDE DEF l
<1>4. Leads(m, W[m])
  BY <1>1, <1>2, <1>3, PeersSet, EventsKept, EventSpawned DEF Leads, EventType
<1> QED BY <1>1, <1>2, <1>4, InputKept, InputThread

-----------------------------------------------------------------------------
(* Ends of the threads, callbacks and calls of the game.                   *)

\* The lists are dropped and the mode changes.
LEMMA DroppedLib ==
  ASSUME NEW W, Lib(W), NEW n \in Node, NEW to \in {"parent", "child", "off"},
         mode' = [mode EXCEPT ![n] = to], next' \in [Node -> {"none", "parent", "child", "off"}],
         at' \in [Node -> {"drain", "receive"}], net' \subseteq Datagram,
         SetPeers(n, <<>>), input' = [input EXCEPT ![n] = <<>>],
         events' = [events EXCEPT ![n] = <<>>], pending' = [pending EXCEPT ![n] = <<>>]
  PROVE  Lib(W)'
<1>1. /\ mode \in [Node -> {"parent", "child", "off"}]
      /\ peers \in [Node -> Seq(Peer)] /\ input \in [Node -> Seq(Message(Opcode))]
      /\ events \in [Node -> Seq(Message(EventType))]
      /\ pending \in [Node -> Seq(Message(EventType))]
      /\ peers' = [peers EXCEPT ![n] = <<>>]
  BY DEF Lib, MatchingTypeOK, SetPeers
<1>2. \A S : <<>> \in Seq(S)
  OBVIOUS
<1>3. /\ peers' \in [Node -> Seq(Peer)] /\ input' \in [Node -> Seq(Message(Opcode))]
      /\ events' \in [Node -> Seq(Message(EventType))]
      /\ pending' \in [Node -> Seq(Message(EventType))]
      /\ mode' \in [Node -> {"parent", "child", "off"}]
  BY <1>1, <1>2
<1>4. MatchingTypeOK'
  BY <1>3 DEF MatchingTypeOK, Datagram
<1>5. ASSUME NEW k \in Node
      PROVE  Own(k, W[k])'
  <2>1. CASE k = n
    <3>1. peers'[k] = <<>> /\ input'[k] = <<>> /\ events'[k] = <<>> /\ pending'[k] = <<>>
      BY <1>1, <2>1
    <3> QED BY <1>2, <3>1 DEF Own
  <2>2. CASE k # n
    <3>1. /\ peers'[k] = peers[k] /\ input'[k] = input[k] /\ events'[k] = events[k]
          /\ pending'[k] = pending[k] /\ mode'[k] = mode[k]
      BY <1>1, <2>2
    <3>2. /\ PeerOf(k, W[k])' = PeerOf(k, W[k]) /\ EventOf(k, W[k])' = EventOf(k, W[k])
          /\ OpOf(k)' = OpOf(k)
      BY <3>1 DEF PeerOf, EventOf, OpOf
    <3>3. Own(k, W[k])
      BY DEF Lib
    <3> QED BY <3>1, <3>2, <3>3 DEF Own
  <2> QED BY <2>1, <2>2
<1> QED BY <1>4, <1>5 DEF Lib

LEMMA StoppedLib ==
  ASSUME NEW W, Lib(W), NEW n \in Node, Stopped(n)
  PROVE  Lib(W)'
<1> DEFINE to == next[n]
           ms == {To(n, "bye", peers[n][i].mac, <<>>) :
                    i \in {j \in DOMAIN peers[n] : peers[n][j].state \in {"parent", "child", "cancel"}}}
<1>1. /\ mode \in [Node -> {"parent", "child", "off"}]
      /\ next \in [Node -> {"none", "parent", "child", "off"}]
      /\ at \in [Node -> {"drain", "receive"}] /\ net \subseteq Datagram
      /\ input \in [Node -> Seq(Message(Opcode))]
  BY DEF Lib, MatchingTypeOK
<1>2. /\ to # "none" /\ input[n] = <<>> /\ SetPeers(n, <<>>)
      /\ mode' = [mode EXCEPT ![n] = to] /\ next' = [next EXCEPT ![n] = "none"]
      /\ at' = [at EXCEPT ![n] = "receive"] /\ input' = input
      /\ events' = [events EXCEPT ![n] = <<>>] /\ pending' = [pending EXCEPT ![n] = <<>>]
  BY DEF Stopped
<1>3. Send(ms)
  BY Zenon DEF Stopped
<1>4. \A i \in DOMAIN peers[n] : To(n, "bye", peers[n][i].mac, <<>>) \in Datagram
  BY LibHolds, ListIs, ToPlain
<1>5. net' \subseteq Datagram
  BY <1>1, <1>3, <1>4 DEF Send
<1>6. to \in {"parent", "child", "off"}
  BY <1>1, <1>2
<1> HIDE DEF to, ms
<1>7. /\ next' \in [Node -> {"none", "parent", "child", "off"}]
      /\ at' \in [Node -> {"drain", "receive"}] /\ input' = [input EXCEPT ![n] = <<>>]
  BY <1>1, <1>2
<1> QED BY <1>2, <1>5, <1>6, <1>7, DroppedLib

LEMMA EndsLib ==
  ASSUME NEW W, Lib(W), NEW n \in Node, Ends(n), net' \subseteq net
  PROVE  Lib(W)'
<1>1. /\ next' \in [Node -> {"none", "parent", "child", "off"}]
      /\ at' \in [Node -> {"drain", "receive"}] /\ net' \subseteq Datagram
  BY DEF Lib, MatchingTypeOK, Ends
<1>2. /\ mode' = [mode EXCEPT ![n] = "off"] /\ SetPeers(n, <<>>)
      /\ input' = [input EXCEPT ![n] = <<>>]
      /\ events' = [events EXCEPT ![n] = <<>>] /\ pending' = [pending EXCEPT ![n] = <<>>]
  BY DEF Ends
<1> QED BY <1>1, <1>2, DroppedLib

LEMMA DispatchLib ==
  ASSUME NEW W, Lib(W), NEW n \in Node, Dispatch(n)
  PROVE  Lib(W)'
<1> DEFINE w == W[n]
<1>1. Holds(n, w) /\ events[n] \in Seq(EventOf(n, w)) /\ pending[n] \in Seq(EventOf(n, w))
      /\ events[n] # <<>>
  BY LibHolds DEF Holds, Own, Dispatch
<1>2. /\ Append(pending[n], Head(events[n])) \in Seq(EventOf(n, w))
      /\ Tail(events[n]) \in Seq(EventOf(n, w))
  <2> DEFINE E == EventOf(n, w)
  <2>1. events[n] \in Seq(E) /\ pending[n] \in Seq(E) /\ events[n] # <<>>
    BY <1>1
  <2> HIDE DEF E
  <2>2. Head(events[n]) \in E /\ Tail(events[n]) \in Seq(E)
    BY <2>1
  <2>3. Append(pending[n], Head(events[n])) \in Seq(E)
    BY <2>1, <2>2
  <2> QED BY <2>2, <2>3 DEF E
<1>3. /\ pending' = [pending EXCEPT ![n] = Append(pending[n], Head(events[n]))]
      /\ events' = [events EXCEPT ![n] = Tail(events[n])]
      /\ UNCHANGED <<mode, next, peers, at, input, net>>
  BY DEF Dispatch
<1> HIDE DEF w
<1>4. Sets(pending, pending', n, Seq(EventOf(n, w))) /\ Sets(events, events', n, Seq(EventOf(n, w)))
  BY <1>2, <1>3 DEF Sets
<1>5. Sets(peers, peers', n, Seq(PeerOf(n, w))) /\ Sets(input, input', n, Seq(OpOf(n)))
  BY <1>1, <1>3, PeersKept, InputKept DEF KeepPeers
<1>6. /\ next' \in [Node -> {"none", "parent", "child", "off"}]
      /\ at' \in [Node -> {"drain", "receive"}] /\ net' \subseteq Datagram
  BY <1>3 DEF Lib, MatchingTypeOK
<1> QED BY <1>3, <1>4, <1>5, <1>6, OneConsole DEF w

\* Nothing the library keeps of a console is touched but its input thread's place,
\* the next mode and the datagrams.
LEMMA ListsKept ==
  ASSUME NEW W, Lib(W), UNCHANGED <<mode, peers, input, events, pending>>,
         next' \in [Node -> {"none", "parent", "child", "off"}],
         at' \in [Node -> {"drain", "receive"}], net' \subseteq Datagram
  PROVE  Lib(W)'
<1>1. MatchingTypeOK'
  BY DEF Lib, MatchingTypeOK, Datagram
<1>2. \A k \in Node : Own(k, W[k])'
  BY DEF Lib, Own, PeerOf, EventOf, OpOf
<1> QED BY <1>1, <1>2 DEF Lib

\* A step that touches nothing of the library.
LEMMA LibKept ==
  ASSUME NEW W, Lib(W), UNCHANGED mvars
  PROVE  Lib(W)'
BY ListsKept DEF mvars, Lib, MatchingTypeOK

\* Every step of a thread keeps Lib, whoever the consoles asked.
LEMMA ThreadsLib ==
  ASSUME NEW W, Lib(W), NEW n \in Node, Threads(n)
  PROVE  Lib(W)'
<1>1. CASE Stopped(n)
  BY <1>1, StoppedLib
<1>2. CASE Drain(n)
  BY <1>2, DrainLib
<1>3. CASE Dispatch(n)
  BY <1>3, DispatchLib
<1>4. ASSUME NEW lost \in SUBSET (Node \ {n}), Poll(n, lost)
      PROVE  Lib(W)'
  BY <1>4, PollLib
<1>5. ASSUME NEW m \in Node \ {n}, ActOnPing(n, m) \/ Hello(n, m)
      PROVE  Lib(W)'
  BY <1>5, PingLib, HelloLib
<1>6. ASSUME NEW d \in net, Receive(n, d)
      PROVE  Lib(W)'
  BY <1>6, ReceiveLib
<1>7. ASSUME NEW d \in net, ReadNull(n, d)
      PROVE  Lib(W)'
  BY <1>7, EndsLib DEF ReadNull, NoAnswer
<1>8. ASSUME NEW d \in net, Lose(d)
      PROVE  Lib(W)'
  BY <1>8, ListsKept DEF Lose, Lib, MatchingTypeOK
<1> QED BY <1>1, <1>2, <1>3, <1>4, <1>5, <1>6, <1>7, <1>8, Zenon DEF Threads

LEMMA StopLib ==
  ASSUME NEW W, Lib(W), NEW n \in Node, NEW to \in {"parent", "child", "off"}, Stop(n, to),
         UNCHANGED <<mode, peers, at, input, events, pending, net>>
  PROVE  Lib(W)'
<1>1. next' \in [Node -> {"none", "parent", "child", "off"}]
  BY DEF Lib, MatchingTypeOK, Stop
<1> QED BY <1>1, ListsKept DEF Lib, MatchingTypeOK

-----------------------------------------------------------------------------
(* The calls: what they make of the list and of the stack.                 *)

LEMMA SelectLeads ==
  ASSUME NEW n \in Node, NEW w, Holds(n, w), NEW m, mode[n] = "parent" \/ m \in w,
         SelectTarget(n, m)
  PROVE  m \in Node /\ Sets(peers, peers', n, Seq(PeerOf(n, w)))
         /\ Sets(input, input', n, Seq(OpOf(n)))
<1> DEFINE i == FindPeer(n, m)
           s == IF mode[n] = "parent" THEN "child" ELSE "outgoing"
           l == [peers[n] EXCEPT ![i].state = s]
           q == IF mode[n] = "parent" THEN Push(Push(input[n], "birth", m), "accept", m)
                ELSE Push(input[n], "join", m)
<1>1. SetPeers(n, l) /\ input' = [input EXCEPT ![n] = q]
  BY Zenon DEF SelectTarget
<1>2. i # 0
  BY DEF SelectTarget, SelectSucceeds, IsIn
<1>3. i \in DOMAIN peers[n] /\ peers[n][i].mac = m /\ m \in Node
  BY <1>2, ListIs
<1>4. l \in Seq(PeerOf(n, w))
  <2>1. /\ peers[n] \in Seq(PeerOf(n, w)) /\ s \in PeerState
        /\ s # "outgoing" \/ peers[n][i].mac \in w
    BY <1>3, ListIs DEF PeerState
  <2> HIDE DEF i, s
  <2> QED BY <1>3, <2>1, ListChanges
<1>5. q \in Seq(OpOf(n))
  <2>1. input[n] \in Seq(OpOf(n))
    BY DEF Holds, Own
  <2>2. Push(input[n], "join", m) \in Seq(OpOf(n)) /\ Push(input[n], "birth", m) \in Seq(OpOf(n))
    BY <1>3, <2>1, OpsHave DEF Opcode
  <2>3. mode[n] = "parent" => Push(Push(input[n], "birth", m), "accept", m) \in Seq(OpOf(n))
    BY <1>3, <2>2, OpsHave DEF Opcode
  <2> QED BY <2>2, <2>3
<1> HIDE DEF l, q
<1> QED BY <1>1, <1>3, <1>4, <1>5, PeersSet DEF Sets

LEMMA CancelLeads ==
  ASSUME NEW n \in Node, NEW w, Holds(n, w), NEW m, CancelTarget(n, m)
  PROVE  m \in Node /\ Sets(peers, peers', n, Seq(PeerOf(n, w)))
         /\ Sets(input, input', n, Seq(OpOf(n)))
<1> DEFINE i == FindPeer(n, m)
           p == [mac |-> m, state |-> "cancel", fresh |-> FALSE]
           l == [peers[n] EXCEPT ![i] = p]
           dead == IF mode[n] = "parent" /\ IsIn(n, m, {"child"})
                   THEN Push(input[n], "death", m) ELSE input[n]
           q == Push(dead, "cancel", m)
<1>1. SetPeers(n, l) /\ input' = [input EXCEPT ![n] = q]
  BY Zenon DEF CancelTarget
<1>2. i # 0
  BY DEF CancelTarget, CancelConcerns, IsIn
<1>3. i \in DOMAIN peers[n] /\ peers[n][i].mac = m /\ m \in Node
  BY <1>2, ListIs
<1>4. p \in PeerOf(n, w)
  BY <1>3 DEF PeerOf, Peer, PeerState
<1>5. l \in Seq(PeerOf(n, w))
  BY <1>3, <1>4, ListIs, ListChanges
<1>6. q \in Seq(OpOf(n))
  <2>1. input[n] \in Seq(OpOf(n))
    BY DEF Holds, Own
  <2>2. dead \in Seq(OpOf(n))
    BY <1>3, <2>1, OpsHave DEF Opcode
  <2> HIDE DEF dead
  <2> QED BY <1>3, <2>2, OpsHave DEF Opcode
<1> HIDE DEF l, q
<1> QED BY <1>1, <1>3, <1>5, <1>6, PeersSet DEF Sets

-----------------------------------------------------------------------------
(* The library under any calls.                                            *)

\* A call of the game: only the console that it asks is added.
LEMMA CallLib ==
  ASSUME NEW W, NEW V, Lib(W), NEW n \in Node, \A k \in Node \ {n} : V[k] = W[k], Own(n, V[n]),
         next' \in [Node -> {"none", "parent", "child", "off"}], UNCHANGED <<mode, at, events, net>>,
         Sets(pending, pending', n, Seq(EventOf(n, V[n]))),
         \/ UNCHANGED <<peers, input>>
         \/ \E m : SelectTarget(n, m) /\ (mode[n] = "parent" \/ m \in V[n])
         \/ \E m : CancelTarget(n, m)
  PROVE  Lib(V)'
<1> DEFINE v == V[n]
<1>1. /\ Holds(n, v) /\ at' \in [Node -> {"drain", "receive"}] /\ net' \subseteq Datagram
  BY DEF Lib, Holds, MatchingTypeOK
<1>2. Sets(events, events', n, Seq(EventOf(n, v)))
  BY <1>1, EventsKept DEF NoEvent
<1>3. Sets(peers, peers', n, Seq(PeerOf(n, v))) /\ Sets(input, input', n, Seq(OpOf(n)))
  <2>1. CASE UNCHANGED <<peers, input>>
    BY <1>1, <2>1, PeersKept, InputKept DEF KeepPeers
  <2>2. ASSUME NEW m, SelectTarget(n, m), mode[n] = "parent" \/ m \in v
        PROVE  Sets(peers, peers', n, Seq(PeerOf(n, v))) /\ Sets(input, input', n, Seq(OpOf(n)))
    BY <1>1, <2>2, SelectLeads
  <2>3. ASSUME NEW m, CancelTarget(n, m)
        PROVE  Sets(peers, peers', n, Seq(PeerOf(n, v))) /\ Sets(input, input', n, Seq(OpOf(n)))
    BY <1>1, <2>3, CancelLeads
  <2> QED BY <2>1, <2>2, <2>3
<1> QED BY <1>1, <1>2, <1>3, OneConsole

Anybody == [n \in Node |-> Node]

\* The lists start empty.
LEMMA LibInit ==
  ASSUME MatchingInit, NEW W
  PROVE  Lib(W)
<1>1. \A S : <<>> \in Seq(S)
  OBVIOUS
<1>2. MatchingTypeOK
  BY <1>1 DEF MatchingTypeOK, MatchingInit
<1>3. \A n \in Node : Own(n, W[n])
  BY <1>1 DEF Own, MatchingInit
<1> QED BY <1>2, <1>3 DEF Lib, MatchingInit

\* Under any calls, whoever is asked.
LEMMA LibraryStep ==
  ASSUME Lib(Anybody), [MatchingNext]_<<mvars, calls>>
  PROVE  Lib(Anybody)'
<1>0. PICK W : W = Anybody
  OBVIOUS
<1>1. SUFFICES ASSUME Lib(W)
               PROVE  Lib(W)'
  BY <1>0
<1>2. CASE UNCHANGED <<mvars, calls>>
  BY <1>1, <1>2, LibKept
<1>3. ASSUME NEW n \in Node, Threads(n)
      PROVE  Lib(W)'
  BY <1>1, <1>3, ThreadsLib
<1>4. ASSUME NEW n \in Node, Calls(n)
      PROVE  Lib(W)'
  <2>1. ASSUME NEW m \in Node \ {n}, SelectTarget(n, m) \/ CancelTarget(n, m),
               UNCHANGED <<mode, next, at, events, pending, net>>
        PROVE  Lib(W)'
    <3>1. next' \in [Node -> {"none", "parent", "child", "off"}]
      BY <1>1, <2>1 DEF Lib, MatchingTypeOK
    <3>2. Sets(pending, pending', n, Seq(EventOf(n, W[n])))
      BY <1>1, <2>1, LibHolds, PendingKept
    <3>3. Own(n, W[n]) /\ m \in W[n]
      BY <1>0, <1>1 DEF Lib, Anybody
    <3> QED BY <1>1, <2>1, <3>1, <3>2, <3>3, CallLib
  <2>2. ASSUME NEW to \in {"parent", "child", "off"}, Stop(n, to),
               UNCHANGED <<mode, peers, at, input, events, pending, net>>
        PROVE  Lib(W)'
    BY <1>1, <2>2, StopLib
  <2>3. CASE Crash(n)
    BY <1>1, <2>3, EndsLib DEF Crash
  <2> QED BY <1>4, <2>1, <2>2, <2>3, Zenon DEF Calls
<1> QED BY <1>2, <1>3, <1>4 DEF MatchingNext

\* The library keeps its tables and stacks in form under any calls, losses and
\* ends: every walk (of the timeouts, of the accepts and of the clean up after one)
\* leaves a list of entries, every message names a console, and no handler reads a
\* sibling that a datagram does not name.
THEOREM LibraryTypeOK == MatchingSpec => []MatchingTypeOK
<1>1. AloneInit => Lib(Anybody)
  BY LibInit DEF AloneInit
<1>2. Lib(Anybody) => MatchingTypeOK
  BY DEF Lib
<1> QED BY <1>1, <1>2, LibraryStep, PTL DEF MatchingSpec

-----------------------------------------------------------------------------
(* The tables of the lobby.                                                *)

\* A slot of the table of rooms or of members.
Cell == [state : SlotState, mac : Node \cup {None}]

\* TypeOK of the lobby's own tables.
LobbyTypes ==
  /\ adhoc \in [Node -> {"cancelall", "idle", "ifnotjoined"}]
  /\ server \in [Node -> {-1} \cup Slot]
  /\ hoster \in [Node -> Node \cup {None}]
  /\ isHost \in [Node -> BOOLEAN]
  /\ recv \in [Node -> [Slot -> Cell]]
  /\ shown \in [Node -> [Slot -> SlotState]]
  /\ roster \in [Node -> [Slot -> Node \cup {None}]]
  /\ counted \in [Node -> 0 .. NumPeers]
  /\ page \in [Node -> {"browse", "room"}]

\* A slot is a place of the table.
LEMMA Slots ==
  ASSUME NEW n \in Node
  PROVE  NumPeers \in Nat /\ NumPeers > 2 /\ 0 \in Slot /\ Slot \subseteq Nat
         /\ IsFiniteSet(Slot) /\ Cardinality(Slot) = NumPeers
<1>1. NumPeers \in Nat /\ NumPeers > 2
  BY RoomAssumption, MaxPeersAssumption
<1>2. IsFiniteSet(0 .. NumPeers - 1) /\ Cardinality(0 .. NumPeers - 1) = NumPeers
  BY <1>1, FS_Interval
<1> QED BY <1>1, <1>2 DEF Slot

\* What Min picks of a set of slots.
LEMMA LeastIs ==
  ASSUME NEW n \in Node, NEW S \in SUBSET Slot, S # {}
  PROVE  Least(S) \in S
<1> DEFINE T == {s + 1 : s \in S}
<1>1. NumPeers \in Nat /\ \A s \in S : s \in Nat /\ s + 1 \in 1 .. NumPeers
  BY Slots DEF Slot
<1>2. T \in SUBSET (1 .. NumPeers) /\ T # {}
  BY <1>1
<1>3. PICK t \in T : \A u \in T : t <= u
  <2> HIDE DEF T
  <2> QED BY <1>1, <1>2, SmallestExists
<1>4. PICK s \in S : t = s + 1
  OBVIOUS
<1>5. ASSUME NEW u \in S
      PROVE  s <= u
  <2>1. u + 1 \in T /\ s \in Nat /\ u \in Nat
    BY <1>1
  <2> HIDE DEF T
  <2> QED BY <1>3, <1>4, <2>1
<1> QED BY <1>5 DEF Least

\* A console's slot, if it finds one.
LEMMA MacFound ==
  ASSUME NEW n \in Node, NEW m, ~(FindMacAddr(n, m) < 0)
  PROVE  FindMacAddr(n, m) \in Slot
         /\ (Known(n, m) # {} => recv[n][FindMacAddr(n, m)].mac = m)
<1>1. Known(n, m) \in SUBSET Slot /\ Free(n) \in SUBSET Slot
  BY DEF Known, Free
<1>2. CASE Known(n, m) # {}
  <2>1. FindMacAddr(n, m) \in Known(n, m)
    BY <1>1, <1>2, LeastIs DEF FindMacAddr
  <2> QED BY <2>1 DEF Known
<1>3. CASE Known(n, m) = {}
  <2>1. Free(n) # {}
    BY <1>3 DEF FindMacAddr
  <2>2. Least(Free(n)) \in Slot
    BY <1>1, <2>1, LeastIs
  <2> QED BY <1>3, <2>1, <2>2 DEF FindMacAddr
<1> QED BY <1>2, <1>3

\* One slot of the table is written by a callback: that of the console the
\* event names.
Writes(n, m, st) ==
  \E c \in Cell : /\ recv' = [recv EXCEPT ![n][FindMacAddr(n, m)] = c]
                  /\ c.mac = m
                  /\ c.state = "joined" /\ st # "joined" => recv[n][FindMacAddr(n, m)] = c

\* A slot that may become joined, or that may not, whatever state is written.
LEMMA WritesAny ==
  ASSUME NEW n, NEW m, NEW st, Writes(n, m, st)
  PROVE  Writes(n, m, "joined") /\ (st # "joined" => Writes(n, m, ""))
BY DEF Writes

\* What is found is written.
LEMMA FoundIs ==
  ASSUME NEW n \in Node, NEW m \in Node, ~(FindMacAddr(n, m) < 0),
         recv \in [Node -> [Slot -> Cell]], NEW st \in SlotState \cup {""}, Found(n, m, st)
  PROVE  Writes(n, m, st)
<1> DEFINE s == FindMacAddr(n, m)
           old == IF Known(n, m) # {} THEN recv[n][s].state ELSE "pending"
           c == [state |-> IF st = "" THEN old ELSE st, mac |-> m]
<1>1. s \in Slot /\ recv[n][s] \in Cell /\ (Known(n, m) # {} => recv[n][s].mac = m)
  BY MacFound
<1>2. c \in Cell /\ c.mac = m
  BY <1>1 DEF Cell, SlotState
<1>3. recv' = [recv EXCEPT ![n][s] = c]
  BY Zenon DEF Found
<1>4. ASSUME c.state = "joined", st # "joined"
      PROVE  recv[n][s] = c
  <2>1. recv[n][s].state = "joined" /\ recv[n][s].mac = m
    BY <1>1, <1>4
  <2> QED BY <1>1, <1>4, <2>1 DEF Cell
<1> QED BY <1>2, <1>3, <1>4 DEF Writes

\* One slot is written.
LEMMA CellWritten ==
  ASSUME NEW n \in Node, NEW s \in Slot, recv \in [Node -> [Slot -> Cell]], NEW c \in Cell,
         recv' = [recv EXCEPT ![n][s] = c]
  PROVE  recv' \in [Node -> [Slot -> Cell]]
OBVIOUS

\* One player is written.
LEMMA RosterWritten ==
  ASSUME NEW n \in Node, NEW s \in Slot, roster \in [Node -> [Slot -> Node \cup {None}]],
         NEW c \in Node \cup {None}, roster' = [roster EXCEPT ![n][s] = c]
  PROVE  roster' \in [Node -> [Slot -> Node \cup {None}]]
OBVIOUS

\* The tables start empty.
LEMMA InitTypes ==
  ASSUME Init
  PROVE  LobbyTypes
<1>1. ASSUME NEW n \in Node
      PROVE  /\ Empty \in [Slot -> Cell] /\ HostTable \in [Slot -> Cell]
             /\ \A t \in [Slot -> Cell] : StatesOf(t) \in [Slot -> SlotState]
             /\ Nobody \in [Slot -> Node \cup {None}] /\ OwnPlace(n) \in [Slot -> Node \cup {None}]
             /\ 0 \in Slot /\ {0, 1} \subseteq 0 .. NumPeers
  BY Slots DEF Empty, HostTable, StatesOf, Nobody, OwnPlace, Cell, SlotState
<1>2. recv \in [Node -> [Slot -> Cell]]
  BY <1>1 DEF Init
<1>3. shown \in [Node -> [Slot -> SlotState]]
  BY <1>1, <1>2 DEF Init
<1>4. roster \in [Node -> [Slot -> Node \cup {None}]] /\ counted \in [Node -> 0 .. NumPeers]
  BY <1>1 DEF Init
<1>5. /\ adhoc \in [Node -> {"cancelall", "idle", "ifnotjoined"}]
      /\ server \in [Node -> {-1} \cup Slot]
      /\ hoster \in [Node -> Node \cup {None}]
      /\ isHost \in [Node -> BOOLEAN]
      /\ page \in [Node -> {"browse", "room"}]
  BY <1>1 DEF Init
<1> QED BY <1>2, <1>3, <1>4, <1>5 DEF LobbyTypes

-----------------------------------------------------------------------------
(* What the callbacks and the pages make of the tables.                    *)

\* What an event writes at a host.
LEMMA HostWrites ==
  ASSUME LobbyTypes, NEW n \in Node, NEW e, e.mac \in Node, ~(FindMacAddr(n, e.mac) < 0),
         OnMatchHost(n, e)
  PROVE  /\ Writes(n, e.mac, "joined")
         /\ roster' \in [Node -> [Slot -> Node \cup {None}]]
<1> DEFINE m == e.mac
           s == FindMacAddr(n, m)
<1>1. /\ recv \in [Node -> [Slot -> Cell]] /\ roster \in [Node -> [Slot -> Node \cup {None}]]
      /\ m \in Node /\ s \in Slot
  BY MacFound DEF LobbyTypes
<1>2. \E st \in SlotState \cup {""} : Found(n, m, st)
  <2>1. e.type = "request" => OnJoin(n, m)
    BY Zenon DEF OnMatchHost
  <2>2. OnJoin(n, m) => Found(n, m, "accepted") \/ Found(n, m, "")
    BY Zenon DEF OnJoin
  <2>3. OnGone(n, m) => Found(n, m, "disconnected")
    BY DEF OnGone
  <2>4. OnJoin(n, m) \/ OnGone(n, m) \/ Found(n, m, "joined") \/ Found(n, m, "")
    BY Zenon DEF OnMatchHost
  <2> HIDE DEF m
  <2> QED BY <2>2, <2>3, <2>4 DEF SlotState
<1>3. Writes(n, m, "joined")
  <2> HIDE DEF s
  <2>1. PICK st \in SlotState \cup {""} : Found(n, m, st)
    BY <1>2
  <2>2. Writes(n, m, st)
    BY <1>1, <2>1, FoundIs
  <2> QED BY <2>2, WritesAny
<1>4. UNCHANGED roster \/ \E c \in Node \cup {None} : roster' = [roster EXCEPT ![n][s] = c]
  <2>1. CASE e.type = "request"
    <3>1. OnJoin(n, m)
      BY <2>1, Zenon DEF OnMatchHost
    <3> QED BY <3>1 DEF OnJoin
  <2>2. CASE e.type \in {"leave", "cancel", "timeout", "bye"}
    <3>1. OnGone(n, m)
      BY <2>2, Zenon DEF OnMatchHost
    <3> QED BY <3>1 DEF OnGone, Leaves
  <2>3. CASE e.type = "established"
    BY <1>1, <2>3 DEF OnMatchHost
  <2>4. CASE e.type \notin {"request", "leave", "cancel", "timeout", "bye", "established"}
    BY <2>4 DEF OnMatchHost
  <2> QED BY <2>1, <2>2, <2>3, <2>4
<1> HIDE DEF m, s
<1>5. roster' \in [Node -> [Slot -> Node \cup {None}]]
  BY <1>1, <1>4, RosterWritten
<1> QED BY <1>3, <1>5 DEF m

\* What an event writes at a client: an answer names a console that is listed.
LEMMA ClientWrites ==
  ASSUME LobbyTypes, NEW n \in Node, NEW e, e.mac \in Node, ~(FindMacAddr(n, e.mac) < 0),
         OnMatchClient(n, e)
  PROVE  /\ Writes(n, e.mac, IF e.type = "established" THEN "joined" ELSE "")
         /\ UNCHANGED <<roster, peers, input>>
         /\ hoster' = [hoster EXCEPT ![n] = IF e.type = "established" THEN e.mac ELSE @]
<1> DEFINE m == e.mac
<1>1. recv \in [Node -> [Slot -> Cell]] /\ m \in Node /\ ~(FindMacAddr(n, m) < 0)
  BY DEF LobbyTypes
<1>2. /\ UNCHANGED <<roster, peers, input>>
      /\ hoster' = [hoster EXCEPT ![n] = IF e.type = "established" THEN m ELSE @]
  BY DEF OnMatchClient
<1>3. \/ e.type = "established" /\ Found(n, m, "joined")
      \/ \E st \in {"", "helloed", "disconnected"} : Found(n, m, st)
  BY Zenon DEF OnMatchClient
<1> HIDE DEF m
<1>4. Writes(n, m, "joined") /\ (e.type # "established" => Writes(n, m, ""))
  <2>1. CASE e.type = "established" /\ Found(n, m, "joined")
    <3>1. Writes(n, m, "joined")
      BY <1>1, <2>1, FoundIs DEF SlotState
    <3> QED BY <2>1, <3>1
  <2>2. ASSUME NEW st \in {"", "helloed", "disconnected"}, Found(n, m, st)
        PROVE  Writes(n, m, "") /\ Writes(n, m, "joined")
    <3>1. st \in SlotState \cup {""} /\ st # "joined"
      BY DEF SlotState
    <3>2. Writes(n, m, st)
      BY <1>1, <2>2, <3>1, FoundIs
    <3> QED BY <3>1, <3>2, WritesAny
  <2> QED BY <1>3, <2>1, <2>2
<1> QED BY <1>2, <1>4 DEF m

\* An event that is dropped, one that reaches a host, one that reaches a client.
Dropped == UNCHANGED <<recv, hoster, roster, peers, input>>
Hosted(n, e) ==
  /\ mode[n] = "parent" /\ ~(FindMacAddr(n, e.mac) < 0) /\ Writes(n, e.mac, "joined")
  /\ UNCHANGED hoster
  /\ \/ UNCHANGED <<peers, input>>
     \/ \E m : SelectTarget(n, m) \/ CancelTarget(n, m)
Answered(n, e) ==
  /\ mode[n] = "child" /\ ~(FindMacAddr(n, e.mac) < 0)
  /\ Writes(n, e.mac, IF e.type = "established" THEN "joined" ELSE "")
  /\ hoster' = [hoster EXCEPT ![n] = IF e.type = "established" THEN e.mac ELSE @]
  /\ UNCHANGED <<peers, input>>

LEMMA HostCalls ==
  ASSUME NEW n, NEW e, OnMatchHost(n, e)
  PROVE  UNCHANGED <<peers, input>> \/ \E m : SelectTarget(n, m) \/ CancelTarget(n, m)
<1>1. CASE e.type = "request"
  <2>1. OnJoin(n, e.mac)
    BY <1>1, Zenon DEF OnMatchHost
  <2> QED BY <2>1, Zenon DEF OnJoin
<1>2. CASE e.type # "request"
  BY <1>2 DEF OnMatchHost, OnGone
<1> QED BY <1>1, <1>2

\* An event is dropped, reaches a host or reaches a client.
LEMMA CallbackDoes ==
  ASSUME LobbyTypes, NEW W, Lib(W), NEW n \in Node, MatchingCallback(n)
  PROVE  LET e == Head(pending[n]) IN
         /\ e \in EventOf(n, W[n]) /\ pending' = [pending EXCEPT ![n] = Tail(@)]
         /\ Tail(pending[n]) \in Seq(EventOf(n, W[n]))
         /\ roster' \in [Node -> [Slot -> Node \cup {None}]]
         /\ Dropped \/ Hosted(n, e) \/ Answered(n, e)
<1> DEFINE e == Head(pending[n])
           E == EventOf(n, W[n])
<1>1. pending[n] \in Seq(E) /\ pending[n] # <<>> /\ E \subseteq Message(EventType)
      /\ mode[n] \in {"parent", "child", "off"} /\ mode[n] # "off"
  BY OwnTypes DEF Lib, Own, MatchingTypeOK, MatchingCallback, MainReady, Running
<1>2. e \in E /\ Tail(pending[n]) \in Seq(E)
  <2> HIDE DEF E
  <2> QED BY <1>1
<1>3. e.mac \in Node
  BY <1>1, <1>2 DEF Message
<1>4. pending' = [pending EXCEPT ![n] = Tail(@)]
  BY DEF MatchingCallback
<1>5. \/ Dropped
      \/ ~(FindMacAddr(n, e.mac) < 0) /\ mode[n] = "parent" /\ OnMatchHost(n, e) /\ UNCHANGED hoster
      \/ ~(FindMacAddr(n, e.mac) < 0) /\ mode[n] # "parent" /\ OnMatchClient(n, e)
  BY Zenon DEF MatchingCallback, Dropped
<1>6. roster \in [Node -> [Slot -> Node \cup {None}]]
  BY DEF LobbyTypes
<1> HIDE DEF e, E
<1>7. CASE Dropped
  BY <1>2, <1>4, <1>6, <1>7 DEF Dropped, e, E
<1>8. CASE ~(FindMacAddr(n, e.mac) < 0) /\ mode[n] = "parent" /\ OnMatchHost(n, e) /\ UNCHANGED hoster
  <2>1. Writes(n, e.mac, "joined") /\ roster' \in [Node -> [Slot -> Node \cup {None}]]
    BY <1>3, <1>8, HostWrites
  <2>2. UNCHANGED <<peers, input>> \/ \E m : SelectTarget(n, m) \/ CancelTarget(n, m)
    BY <1>8, HostCalls
  <2>3. Hosted(n, e)
    BY <1>8, <2>1, <2>2 DEF Hosted
  <2> QED BY <1>2, <1>4, <2>1, <2>3 DEF e, E
<1>9. CASE ~(FindMacAddr(n, e.mac) < 0) /\ mode[n] # "parent" /\ OnMatchClient(n, e)
  <2>1. /\ Writes(n, e.mac, IF e.type = "established" THEN "joined" ELSE "")
        /\ UNCHANGED <<roster, peers, input>>
        /\ hoster' = [hoster EXCEPT ![n] = IF e.type = "established" THEN e.mac ELSE @]
    BY <1>3, <1>9, ClientWrites
  <2>2. Answered(n, e)
    BY <1>1, <1>9, <2>1 DEF Answered
  <2> QED BY <1>2, <1>4, <1>6, <2>1, <2>2 DEF e, E
<1> QED BY <1>5, <1>7, <1>8, <1>9

\* What a callback writes is a slot of the table, and the room it names a console.
LEMMA CallbackTypes ==
  ASSUME LobbyTypes, NEW W, Lib(W), NEW n \in Node, MatchingCallback(n)
  PROVE  LobbyTypes'
<1> DEFINE e == Head(pending[n])
<1>1. /\ e \in EventOf(n, W[n]) /\ roster' \in [Node -> [Slot -> Node \cup {None}]]
      /\ Dropped \/ Hosted(n, e) \/ Answered(n, e)
  BY CallbackDoes
<1>2. e.mac \in Node
  BY <1>1, OwnTypes DEF Message
<1> HIDE DEF e
<1>3. /\ recv \in [Node -> [Slot -> Cell]] /\ hoster \in [Node -> Node \cup {None}]
  BY DEF LobbyTypes
<1>4. recv' \in [Node -> [Slot -> Cell]]
  <2>1. CASE Dropped
    BY <1>3, <2>1 DEF Dropped
  <2>2. CASE ~(FindMacAddr(n, e.mac) < 0) /\ \E st : Writes(n, e.mac, st)
    <3>1. FindMacAddr(n, e.mac) \in Slot
      BY <2>2, MacFound
    <3>2. PICK c \in Cell : recv' = [recv EXCEPT ![n][FindMacAddr(n, e.mac)] = c]
      BY <2>2 DEF Writes
    <3> QED BY <1>3, <3>1, <3>2, CellWritten
  <2> QED BY <1>1, <2>1, <2>2 DEF Hosted, Answered
<1>5. hoster' \in [Node -> Node \cup {None}]
  BY <1>1, <1>2, <1>3 DEF Dropped, Hosted, Answered
<1>6. UNCHANGED <<adhoc, server, isHost, shown, counted, page>>
  BY DEF MatchingCallback, AdhocRest
<1> QED BY <1>1, <1>4, <1>5, <1>6 DEF LobbyTypes

\* The roster has a place for each player it counts.
LEMMA RosterCounts ==
  ASSUME NEW n \in Node
  PROVE  Cardinality({s \in Slot : roster[n][s] # None}) \in 0 .. NumPeers
<1> DEFINE S == {s \in Slot : roster[n][s] # None}
<1>1. IsFiniteSet(Slot) /\ Cardinality(Slot) = NumPeers /\ S \subseteq Slot /\ NumPeers \in Nat
  BY Slots
<1> HIDE DEF S
<1>2. IsFiniteSet(S) /\ Cardinality(S) <= Cardinality(Slot)
  BY <1>1, FS_Subset
<1>3. Cardinality(S) \in Nat
  BY <1>2, FS_CardinalityType
<1> QED BY <1>1, <1>2, <1>3 DEF S

\* A frame writes no address, and makes no slot joined.
LEMMA FrameDoes ==
  ASSUME LobbyTypes, NEW n \in Node, Frame(n)
  PROVE  /\ recv' \in [Node -> [Slot -> Cell]]
         /\ \A k \in Node, s \in Slot :
              /\ recv'[k][s].mac = recv[k][s].mac
              /\ recv'[k][s].state = "joined" => recv[k][s].state = "joined"
         /\ \A k \in Node \ {n} : recv'[k] = recv[k]
<1>1. PICK aged \in SUBSET {s \in Slot : recv[n][s].state = "helloed"} : Update(n, aged)
  BY DEF Frame
<1> DEFINE t == [s \in Slot |-> [mac |-> recv[n][s].mac, state |->
                    IF s \in Strays(n) THEN "helloed"
                    ELSE IF s \in aged THEN "disconnected" ELSE recv[n][s].state]]
<1>2. recv' = [recv EXCEPT ![n] = t]
  BY <1>1, Zenon DEF Update
<1>3. recv \in [Node -> [Slot -> Cell]]
  BY DEF LobbyTypes
<1>4. ASSUME NEW s \in Slot
      PROVE  /\ t[s] \in Cell /\ t[s].mac = recv[n][s].mac
             /\ t[s].state = "joined" => recv[n][s].state = "joined"
  <2>1. recv[n][s] \in Cell
    BY <1>3
  <2>2. t[s] = [mac |-> recv[n][s].mac, state |->
                  IF s \in Strays(n) THEN "helloed"
                  ELSE IF s \in aged THEN "disconnected" ELSE recv[n][s].state]
    OBVIOUS
  <2>3. s \in aged => recv[n][s].state = "helloed"
    OBVIOUS
  <2> HIDE DEF t
  <2> QED BY <2>1, <2>2, <2>3 DEF Cell, SlotState
<1>5. DOMAIN t = Slot /\ t = [s \in Slot |-> t[s]]
  OBVIOUS
<1> HIDE DEF t
<1>6. t \in [Slot -> Cell]
  BY <1>4, <1>5
<1> QED BY <1>2, <1>3, <1>4, <1>6

LEMMA FrameTypes ==
  ASSUME LobbyTypes, NEW n \in Node, Frame(n)
  PROVE  LobbyTypes'
<1>1. PICK aged \in SUBSET {s \in Slot : recv[n][s].state = "helloed"} : Update(n, aged)
  BY DEF Frame
<1>2. recv' \in [Node -> [Slot -> Cell]]
  BY FrameDoes
<1>3. shown' \in [Node -> [Slot -> SlotState]]
  <2> DEFINE t == [s \in Slot |-> IF s \in Strays(n) THEN "helloed" ELSE recv[n][s].state]
  <2>1. t \in [Slot -> SlotState]
    BY DEF LobbyTypes, Cell, SlotState
  <2>2. shown' = [shown EXCEPT ![n] = t]
    BY <1>1, Zenon DEF Update
  <2> HIDE DEF t
  <2> QED BY <2>1, <2>2 DEF LobbyTypes
<1>4. counted' \in [Node -> 0 .. NumPeers]
  BY <1>1, RosterCounts DEF Update, LobbyTypes
<1>5. adhoc' \in [Node -> {"cancelall", "idle", "ifnotjoined"}]
  BY <1>1 DEF Update, LobbyTypes
<1>6. page' \in [Node -> {"browse", "room"}]
  BY DEF Frame, LobbyTypes
<1>7. UNCHANGED <<server, hoster, isHost, roster>>
  BY DEF Frame
<1> QED BY <1>2, <1>3, <1>4, <1>5, <1>6, <1>7 DEF LobbyTypes

LEMMA SelectTypes ==
  ASSUME LobbyTypes, NEW n \in Node, NEW s \in Slot, SelectServer(n, s)
  PROVE  LobbyTypes'
<1>1. /\ recv' = [recv EXCEPT ![n][s].state = "selected"]
      /\ server' = [server EXCEPT ![n] = s]
      /\ hoster' = [hoster EXCEPT ![n] = recv[n][s].mac]
      /\ UNCHANGED <<adhoc, isHost, shown, roster, counted, page>>
  BY DEF SelectServer
<1>2. recv' \in [Node -> [Slot -> Cell]]
  <2> DEFINE c == [recv[n][s] EXCEPT !.state = "selected"]
  <2>1. recv \in [Node -> [Slot -> Cell]] /\ recv[n][s] \in Cell
    BY DEF LobbyTypes
  <2>3. c \in Cell
    BY <2>1 DEF Cell, SlotState
  <2>2. recv' = [recv EXCEPT ![n][s] = c]
    BY <1>1
  <2> HIDE DEF c
  <2> QED BY <2>1, <2>2, <2>3, CellWritten
<1>3. hoster' \in [Node -> Node \cup {None}]
  BY <1>1 DEF LobbyTypes, Cell
<1>4. server' \in [Node -> {-1} \cup Slot]
  BY <1>1 DEF LobbyTypes
<1> QED BY <1>1, <1>2, <1>3, <1>4 DEF LobbyTypes

LEMMA HostingTypes ==
  ASSUME LobbyTypes, NEW n \in Node, StartHosting(n)
  PROVE  LobbyTypes'
<1>0. 0 \in Slot /\ 1 \in 0 .. NumPeers
  BY Slots
<1>1. /\ recv' = [recv EXCEPT ![n][0].state = "joined"]
      /\ shown' = [shown EXCEPT ![n][0] = "joined"]
      /\ roster' = [roster EXCEPT ![n] = OwnPlace(n)]
      /\ counted' = [counted EXCEPT ![n] = 1]
      /\ server' = [server EXCEPT ![n] = 0]
      /\ isHost' = [isHost EXCEPT ![n] = TRUE]
      /\ adhoc' = [adhoc EXCEPT ![n] = "idle"]
      /\ page' = [page EXCEPT ![n] = "room"]
      /\ UNCHANGED hoster
  BY DEF StartHosting
<1>2. recv' \in [Node -> [Slot -> Cell]]
  <2> DEFINE c == [recv[n][0] EXCEPT !.state = "joined"]
  <2>1. recv \in [Node -> [Slot -> Cell]] /\ recv[n][0] \in Cell
    BY <1>0 DEF LobbyTypes
  <2>3. c \in Cell
    BY <2>1 DEF Cell, SlotState
  <2>2. recv' = [recv EXCEPT ![n][0] = c]
    BY <1>1
  <2> HIDE DEF c
  <2> QED BY <1>0, <2>1, <2>2, <2>3, CellWritten
<1>3. shown' \in [Node -> [Slot -> SlotState]]
  BY <1>0, <1>1 DEF LobbyTypes, SlotState
<1>4. OwnPlace(n) \in [Slot -> Node \cup {None}]
  BY DEF OwnPlace, Nobody
<1>5. /\ roster' \in [Node -> [Slot -> Node \cup {None}]]
      /\ counted' \in [Node -> 0 .. NumPeers] /\ server' \in [Node -> {-1} \cup Slot]
      /\ isHost' \in [Node -> BOOLEAN] /\ adhoc' \in [Node -> {"cancelall", "idle", "ifnotjoined"}]
      /\ page' \in [Node -> {"browse", "room"}] /\ hoster' \in [Node -> Node \cup {None}]
  BY <1>0, <1>1, <1>4 DEF LobbyTypes
<1> QED BY <1>2, <1>3, <1>5 DEF LobbyTypes

LEMMA CancelTypes ==
  ASSUME LobbyTypes, NEW n \in Node, CancelMatchingTarget(n)
  PROVE  LobbyTypes'
<1>1. StartListening(n) /\ UNCHANGED hoster
  BY Zenon DEF CancelMatchingTarget
<1>2. /\ recv' = [recv EXCEPT ![n] = Empty]
      /\ shown' = [shown EXCEPT ![n] = StatesOf(Empty)]
      /\ roster' = [roster EXCEPT ![n] = Nobody]
      /\ counted' = [counted EXCEPT ![n] = 0]
      /\ server' = [server EXCEPT ![n] = -1]
      /\ isHost' = [isHost EXCEPT ![n] = FALSE]
      /\ adhoc' = [adhoc EXCEPT ![n] = "cancelall"]
      /\ page' = [page EXCEPT ![n] = "browse"]
  BY <1>1 DEF StartListening
<1>3. /\ Empty \in [Slot -> Cell] /\ StatesOf(Empty) \in [Slot -> SlotState]
      /\ Nobody \in [Slot -> Node \cup {None}] /\ 0 \in 0 .. NumPeers
  BY Slots DEF Empty, StatesOf, Nobody, Cell, SlotState
<1>4. /\ recv' \in [Node -> [Slot -> Cell]] /\ shown' \in [Node -> [Slot -> SlotState]]
      /\ roster' \in [Node -> [Slot -> Node \cup {None}]]
  BY <1>2, <1>3 DEF LobbyTypes
<1>5. /\ counted' \in [Node -> 0 .. NumPeers] /\ server' \in [Node -> {-1} \cup Slot]
      /\ isHost' \in [Node -> BOOLEAN] /\ adhoc' \in [Node -> {"cancelall", "idle", "ifnotjoined"}]
      /\ page' \in [Node -> {"browse", "room"}] /\ hoster' \in [Node -> Node \cup {None}]
  BY <1>1, <1>2, <1>3 DEF LobbyTypes
<1> QED BY <1>4, <1>5 DEF LobbyTypes

\* Every step keeps the types of the lobby.
LEMMA LobbyTypesStep ==
  ASSUME LobbyTypes, NEW W, Lib(W), [Next]_vars
  PROVE  LobbyTypes'
<1>1. CASE UNCHANGED avars
  BY <1>1 DEF avars, LobbyTypes
<1>2. ASSUME NEW n \in Node, MatchingCallback(n)
      PROVE  LobbyTypes'
  BY <1>2, CallbackTypes
<1>3. ASSUME NEW n \in Node, Frame(n)
      PROVE  LobbyTypes'
  BY <1>3, FrameTypes
<1>4. ASSUME NEW n \in Node, NEW s \in Slot, SelectServer(n, s)
      PROVE  LobbyTypes'
  BY <1>4, SelectTypes
<1>5. ASSUME NEW n \in Node, StartHosting(n) \/ CancelMatchingTarget(n)
      PROVE  LobbyTypes'
  BY <1>5, HostingTypes, CancelTypes
<1>6. ASSUME NEW n \in Node, SwitchOff(n)
      PROVE  LobbyTypes'
  BY <1>1, <1>6 DEF SwitchOff
<1> QED BY <1>1, <1>2, <1>3, <1>4, <1>5, <1>6 DEF Next, vars

-----------------------------------------------------------------------------
(* The library under the lobby.                                            *)

LEMMA CallbackLib ==
  ASSUME LobbyTypes, NEW W, Lib(W), NEW n \in Node, MatchingCallback(n)
  PROVE  Lib(W)'
<1> DEFINE e == Head(pending[n])
<1>1. /\ pending' = [pending EXCEPT ![n] = Tail(pending[n])]
      /\ Tail(pending[n]) \in Seq(EventOf(n, W[n]))
      /\ Dropped \/ Hosted(n, e) \/ Answered(n, e)
  BY CallbackDoes
<1> HIDE DEF e
<1>2. Sets(pending, pending', n, Seq(EventOf(n, W[n])))
  BY <1>1 DEF Sets
<1>3. UNCHANGED <<mode, next, at, events, net>>
  BY DEF MatchingCallback, MatchingRest
<1>4. next' \in [Node -> {"none", "parent", "child", "off"}] /\ Own(n, W[n])
  BY <1>3 DEF Lib, MatchingTypeOK
<1>5. \/ UNCHANGED <<peers, input>>
      \/ \E m : SelectTarget(n, m) /\ (mode[n] = "parent" \/ m \in W[n])
      \/ \E m : CancelTarget(n, m)
  BY <1>1 DEF Dropped, Hosted, Answered
<1> QED BY <1>2, <1>3, <1>4, <1>5, CallLib

LEMMA FrameLib ==
  ASSUME NEW W, Lib(W), NEW n \in Node, Frame(n)
  PROVE  Lib(W)'
<1>1. CancelStrays(n)
  BY Zenon DEF Frame, Update
<1>2. UNCHANGED <<peers, input>> \/ \E m : CancelTarget(n, m)
  BY <1>1, Zenon DEF CancelStrays
<1>3. UNCHANGED <<mode, next, at, events, pending, net>>
  BY DEF Frame, ThreadsRest
<1>4. /\ next' \in [Node -> {"none", "parent", "child", "off"}] /\ Own(n, W[n])
      /\ Sets(pending, pending', n, Seq(EventOf(n, W[n])))
  BY <1>3, LibHolds, PendingKept DEF Lib, MatchingTypeOK
<1> QED BY <1>2, <1>3, <1>4, CallLib

\* A request adds the console that it asks.
LEMMA SelectLib ==
  ASSUME NEW W, NEW V, Lib(W), NEW n \in Node, NEW s, SelectServer(n, s),
         \A k \in Node \ {n} : V[k] = W[k], Own(n, V[n]), recv[n][s].mac \in V[n]
  PROVE  Lib(V)'
<1>1. SelectTarget(n, recv[n][s].mac) /\ UNCHANGED <<mode, next, at, events, pending, net>>
  BY DEF SelectServer, ThreadsRest
<1>2. next' \in [Node -> {"none", "parent", "child", "off"}] /\ Holds(n, V[n])
  BY <1>1 DEF Lib, MatchingTypeOK, Holds
<1>3. Sets(pending, pending', n, Seq(EventOf(n, V[n])))
  BY <1>1, <1>2, PendingKept
<1> QED BY <1>1, <1>2, <1>3, CallLib

LEMMA HostingLib ==
  ASSUME NEW W, Lib(W), NEW n \in Node, StartHosting(n)
  PROVE  Lib(W)'
<1>1. Stop(n, "parent") /\ UNCHANGED <<mode, peers, at, input, events, pending, net>>
  BY DEF StartHosting, ThreadsRest
<1> QED BY <1>1, StopLib

LEMMA LeaveLib ==
  ASSUME NEW W, Lib(W), NEW n \in Node, CancelMatchingTarget(n)
  PROVE  Lib(W)'
<1>1. Stop(n, "child") /\ UNCHANGED <<mode, at, events, pending, net>>
  BY Zenon DEF CancelMatchingTarget, StartListening, ThreadsRest
<1>2. UNCHANGED <<peers, input>> \/ \E m : CancelTarget(n, m)
  BY Zenon DEF CancelMatchingTarget
<1>3. /\ next' \in [Node -> {"none", "parent", "child", "off"}] /\ Own(n, W[n])
      /\ Sets(pending, pending', n, Seq(EventOf(n, W[n])))
  BY <1>1, LibHolds, PendingKept DEF Lib, MatchingTypeOK, Stop
<1> QED BY <1>1, <1>2, <1>3, CallLib

LEMMA SwitchOffLib ==
  ASSUME NEW W, Lib(W), NEW n \in Node, SwitchOff(n)
  PROVE  Lib(W)'
<1>1. CASE Crash(n)
  BY <1>1, EndsLib DEF Crash
<1>2. CASE Stop(n, "off") /\ UNCHANGED <<mode, peers, at, input, events, pending, net>>
  BY <1>2, StopLib
<1> QED BY <1>1, <1>2 DEF SwitchOff

\* Every step but a request keeps the consoles that are asked.
LEMMA LobbyLibStep ==
  ASSUME LobbyTypes, NEW W, Lib(W), [Next]_vars,
         \A n \in Node, s \in Slot : ~SelectServer(n, s)
  PROVE  Lib(W)'
<1>1. CASE UNCHANGED vars
  BY <1>1, LibKept DEF vars
<1>2. ASSUME NEW n \in Node, Threads(n)
      PROVE  Lib(W)'
  BY <1>2, ThreadsLib
<1>3. ASSUME NEW n \in Node, MatchingCallback(n) \/ Frame(n)
      PROVE  Lib(W)'
  BY <1>3, CallbackLib, FrameLib
<1>4. ASSUME NEW n \in Node, StartHosting(n) \/ CancelMatchingTarget(n) \/ SwitchOff(n)
      PROVE  Lib(W)'
  BY <1>4, HostingLib, LeaveLib, SwitchOffLib
<1> QED BY <1>1, <1>2, <1>3, <1>4 DEF Next

\* Every step keeps TypeOK.
LEMMA TypesStep ==
  ASSUME LobbyTypes /\ Lib(Anybody), [Next]_vars
  PROVE  (LobbyTypes /\ Lib(Anybody))'
<1>0. PICK W : W = Anybody
  OBVIOUS
<1>1. Lib(W)
  BY <1>0
<1>2. LobbyTypes'
  BY <1>1, LobbyTypesStep
<1>3. Lib(W)'
  <2>1. ASSUME NEW n \in Node, NEW s \in Slot, SelectServer(n, s)
        PROVE  Lib(W)'
    <3>1. Own(n, W[n])
      BY <1>1 DEF Lib
    <3>2. recv[n][s].mac \in W[n]
      BY <1>0, <2>1 DEF SelectServer, LobbyTypes, Cell, Anybody
    <3> QED BY <1>1, <2>1, <3>1, <3>2, SelectLib
  <2>2. CASE \A n \in Node, s \in Slot : ~SelectServer(n, s)
    BY <1>1, <2>2, LobbyLibStep
  <2> QED BY <2>1, <2>2
<1> QED BY <1>0, <1>2, <1>3

\* What the callbacks and the pages write are slots of the tables, and what they
\* read is there: a slot is found, or the event is dropped; an answer names a
\* console that is listed; the roster counts no more players than it has places.
THEOREM LobbyTypeOK == Spec => []TypeOK
<1>1. Init => LobbyTypes /\ Lib(Anybody)
  BY InitTypes, LibInit DEF Init
<1>2. LobbyTypes /\ Lib(Anybody) => TypeOK
  BY DEF LobbyTypes, Lib, TypeOK, Cell
<1> QED BY <1>1, <1>2, TypesStep, PTL DEF Spec

-----------------------------------------------------------------------------
(* The room a client is in is the one it asked for last.                   *)

\* m_nServerPeerID's console: nobody else is asked, and nobody else accepts.
Asked == [n \in Node |-> {hoster[n]}]

\* The mode a console has, or gets when its threads have ended.
Coming(n) == IF next[n] = "none" THEN mode[n] ELSE next[n]

\* The state function of cAdhoc goes with the mode of the library.
Role(n) ==
  /\ Coming(n) # "off" => (adhoc[n] = "idle" <=> Coming(n) = "parent")
  /\ page[n] = "browse" => adhoc[n] # "idle"

\* What the pages judge by: a slot that is joined has the console that was asked,
\* in a room and on the way to one.
RoomOf(n) == adhoc[n] # "idle" /\ StaysJoined(n) => recv[n][server[n]].mac = hoster[n]

\* The inductive invariant.  That an answer that waits is of the room that was
\* asked last is in Lib(Asked); a host's answers are of its members, and Role says
\* that it is judged by no room.
AskedInv == LobbyTypes /\ Lib(Asked) /\ \A n \in Node : Role(n) /\ RoomOf(n)

\* Nobody is asked.
LEMMA NoneOutgoing ==
  ASSUME NEW n, NEW s, peers[n] \in Seq(Peer), FindState(n, s) = 0
  PROVE  \A i \in DOMAIN peers[n] : peers[n][i].state # s
<1> DEFINE l == peers[n]
           I == {i \in 1..Len(l) : l[i].state = s}
<1>1. FindState(n, s) = IF I # {} THEN Min(I) ELSE 0
  BY Zenon DEF FindState, SelectInSeq
<1>2. Len(l) \in Nat /\ DOMAIN l = 1..Len(l)
  OBVIOUS
<1>3. I # {} => Min(I) \in I
  BY <1>2, PlacesHaveEnds
<1> QED BY <1>1, <1>2, <1>3

\* A list whose entries are in T.
LEMMA EntriesIn ==
  ASSUME NEW S, NEW T, NEW q \in Seq(S), \A i \in DOMAIN q : q[i] \in T
  PROVE  q \in Seq(T)
OBVIOUS

\* Nobody is asked any more when a client may ask, and no answer waits: the next
\* one that is asked is the only one.
LEMMA AsksAnew ==
  ASSUME NEW W, Lib(W), NEW n \in Node, NEW s \in Slot, SelectServer(n, s), ~AnswerWaits(n),
         mode[n] # "parent", NEW v
  PROVE  Own(n, v)
<1>1. /\ peers[n] \in Seq(Peer) /\ input[n] \in Seq(OpOf(n))
      /\ events[n] \in Seq(Message(EventType)) /\ pending[n] \in Seq(Message(EventType))
  BY DEF Lib, MatchingTypeOK, Own
<1>2. FindState(n, "outgoing") = 0
  BY DEF SelectServer, SelectSucceeds
<1>3. \A i \in DOMAIN peers[n] : peers[n][i] \in PeerOf(n, v)
  BY <1>1, <1>2, NoneOutgoing DEF PeerOf
<1>4. \A i \in DOMAIN events[n] : events[n][i] \in EventOf(n, v)
  BY <1>1 DEF AnswerWaits, Range, EventOf
<1>5. \A i \in DOMAIN pending[n] : pending[n][i] \in EventOf(n, v)
  BY <1>1 DEF AnswerWaits, Range, EventOf
<1>6. peers[n] \in Seq(PeerOf(n, v))
  BY <1>1, <1>3, EntriesIn
<1>7. events[n] \in Seq(EventOf(n, v)) /\ pending[n] \in Seq(EventOf(n, v))
  BY <1>1, <1>4, <1>5, EntriesIn
<1> QED BY <1>1, <1>6, <1>7 DEF Own

\* Where the pages and the callbacks run.
LEMMA RunsIn ==
  ASSUME NEW n, MainReady(n), Role(n)
  PROVE  /\ mode[n] # "off" /\ next[n] = "none"
         /\ adhoc[n] = "idle" <=> mode[n] = "parent"
BY DEF MainReady, Running, Role, Coming

\* The threads leave the lobby alone, and the coming mode too, unless they end.
LEMMA ThreadsRoles ==
  ASSUME MatchingTypeOK, NEW n \in Node, Threads(n)
  PROVE  \A k \in Node : Coming(k)' # "off" => Coming(k)' = Coming(k)
<1>1. /\ mode \in [Node -> {"parent", "child", "off"}]
      /\ next \in [Node -> {"none", "parent", "child", "off"}]
  BY DEF MatchingTypeOK
<1>2. CASE UNCHANGED <<mode, next>>
  BY <1>2 DEF Coming
<1>3. CASE Stopped(n)
  <2>1. /\ next[n] # "none" /\ mode' = [mode EXCEPT ![n] = next[n]]
        /\ next' = [next EXCEPT ![n] = "none"]
    BY <1>3 DEF Stopped
  <2> QED BY <1>1, <2>1 DEF Coming
<1>4. CASE mode' = [mode EXCEPT ![n] = "off"] /\ next' = next /\ next[n] = "none"
  BY <1>1, <1>4 DEF Coming
<1>5. ASSUME NEW d \in net, Receive(n, d) \/ ReadNull(n, d) \/ Lose(d)
      PROVE  \A k \in Node : Coming(k)' # "off" => Coming(k)' = Coming(k)
  <2>1. Receive(n, d) \/ Lose(d) => UNCHANGED <<mode, next>>
    BY DEF Receive, Lose
  <2>2. ReadNull(n, d) => mode' = [mode EXCEPT ![n] = "off"] /\ next' = next /\ next[n] = "none"
    BY DEF ReadNull, Running, Ends
  <2> QED BY <1>2, <1>4, <1>5, <2>1, <2>2
<1>6. ASSUME NEW m, ActOnPing(n, m) \/ Hello(n, m)
      PROVE  UNCHANGED <<mode, next>>
  BY <1>6 DEF ActOnPing, Hello
<1>7. ASSUME NEW lost, Poll(n, lost)
      PROVE  UNCHANGED <<mode, next>>
  BY <1>7 DEF Poll
<1>8. Drain(n) \/ Dispatch(n) => UNCHANGED <<mode, next>>
  BY DEF Drain, Dispatch
<1> QED BY <1>2, <1>3, <1>5, <1>6, <1>7, <1>8 DEF Threads

\* A console that the step leaves alone keeps its part of the invariant.
LEMMA OthersRoom ==
  ASSUME NEW n, Role(n), RoomOf(n), Coming(n)' # "off" => Coming(n)' = Coming(n),
         adhoc'[n] = adhoc[n], page'[n] = page[n], server'[n] = server[n], recv'[n] = recv[n],
         hoster'[n] = hoster[n]
  PROVE  (Role(n) /\ RoomOf(n))'
<1>1. Role(n)'
  <2> DEFINE c == Coming(n)
             d == Coming(n)'
  <2>1. d # "off" => d = c
    OBVIOUS
  <2>2. /\ c # "off" => (adhoc[n] = "idle" <=> c = "parent")
        /\ page[n] = "browse" => adhoc[n] # "idle"
    BY DEF Role
  <2> HIDE DEF c, d
  <2>3. /\ d # "off" => (adhoc'[n] = "idle" <=> d = "parent")
        /\ page'[n] = "browse" => adhoc'[n] # "idle"
    BY <2>1, <2>2
  <2> QED BY <2>3 DEF Role, d
<1>2. RoomOf(n)'
  BY DEF RoomOf, StaysJoined
<1> QED BY <1>1, <1>2

\* An answer marks the slot its sender has, and its sender is the one asked.
LEMMA CallbackRoom ==
  ASSUME AskedInv, NEW n \in Node, MatchingCallback(n)
  PROVE  /\ \A k \in Node : (Role(k) /\ RoomOf(k))'
         /\ UNCHANGED hoster
<1> DEFINE e == Head(pending[n])
           s == FindMacAddr(n, e.mac)
<1>0. PICK W : W = Asked
  OBVIOUS
<1>1. /\ LobbyTypes /\ Lib(W) /\ W[n] = {hoster[n]}
  BY <1>0 DEF AskedInv, Asked
<1>2. e \in EventOf(n, W[n]) /\ (Dropped \/ Hosted(n, e) \/ Answered(n, e))
  BY <1>1, CallbackDoes
<1>3. /\ UNCHANGED <<mode, next, adhoc, server, page>>
      /\ recv \in [Node -> [Slot -> Cell]] /\ hoster \in [Node -> Node \cup {None}]
      /\ server \in [Node -> {-1} \cup Slot]
  BY DEF MatchingCallback, MatchingRest, AdhocRest, LobbyTypes, AskedInv
<1>4. Role(n) /\ RoomOf(n) /\ mode[n] # "off" /\ next[n] = "none"
      /\ (adhoc[n] = "idle" <=> mode[n] = "parent")
  BY RunsIn DEF AskedInv, MatchingCallback
<1> HIDE DEF e, s
<1>5. UNCHANGED hoster
  <2>1. Answered(n, e) /\ e.type = "established" => e.mac = hoster[n]
    BY <1>1, <1>2 DEF EventOf, Answered
  <2>2. Answered(n, e) => hoster' = [hoster EXCEPT ![n] = hoster[n]]
    BY <2>1 DEF Answered
  <2>3. [hoster EXCEPT ![n] = hoster[n]] = hoster
    BY <1>3
  <2> QED BY <1>2, <2>2, <2>3 DEF Dropped, Hosted
<1>6. ASSUME NEW k \in Node
      PROVE  Coming(k)' = Coming(k)
  BY <1>3 DEF Coming
<1>7. Role(n)'
  BY <1>3, <1>4, <1>6 DEF Role
<1>8. CASE Dropped
  BY <1>3, <1>5, <1>6, <1>8, OthersRoom DEF Dropped, AskedInv
<1>9. ASSUME NEW st, Writes(n, e.mac, st), ~(s < 0),
             adhoc[n] = "idle" \/ st # "joined" \/ e.mac = hoster[n]
      PROVE  \A k \in Node : (Role(k) /\ RoomOf(k))'
  <2>1. s \in Slot
    BY <1>9, MacFound DEF s
  <2>2. PICK c \in Cell : /\ recv' = [recv EXCEPT ![n][s] = c] /\ c.mac = e.mac
                          /\ c.state = "joined" /\ st # "joined" => recv[n][s] = c
    BY <1>9 DEF Writes, s
  <2>3. ASSUME NEW k \in Node \ {n}
        PROVE  (Role(k) /\ RoomOf(k))'
    <3>1. recv'[k] = recv[k]
      BY <1>3, <2>2
    <3> QED BY <1>3, <1>5, <1>6, <3>1, OthersRoom DEF AskedInv
  <2>4. RoomOf(n)'
    <3>1. recv'[n] = [recv[n] EXCEPT ![s] = c] /\ recv[n] \in [Slot -> Cell]
      BY <1>3, <2>2
    <3>2. \A t \in Slot : recv'[n][t] = IF t = s THEN c ELSE recv[n][t]
      BY <2>1, <3>1
    <3>3. adhoc'[n] = adhoc[n] /\ server'[n] = server[n] /\ hoster'[n] = hoster[n]
      BY <1>3, <1>5
    <3>4. SUFFICES ASSUME adhoc[n] # "idle", server[n] # -1, recv'[n][server[n]].state = "joined"
                   PROVE  recv'[n][server[n]].mac = hoster[n]
      BY <3>3 DEF RoomOf, StaysJoined
    <3>5. server[n] \in Slot
      BY <1>3, <3>4
    <3>6. recv[n][server[n]].state = "joined" => recv[n][server[n]].mac = hoster[n]
      BY <1>4, <3>4 DEF RoomOf, StaysJoined
    <3> QED BY <1>9, <2>2, <3>2, <3>4, <3>5, <3>6
  <2> QED BY <1>7, <2>3, <2>4
<1>10. CASE Hosted(n, e)
  BY <1>4, <1>9, <1>10 DEF Hosted, s
<1>11. CASE Answered(n, e)
  <2>1. e.type = "established" => e.mac = hoster[n]
    BY <1>1, <1>2, <1>11 DEF EventOf, Answered
  <2>2. CASE e.type = "established"
    <3>1. Writes(n, e.mac, "joined") /\ ~(s < 0)
      BY <1>11, <2>2 DEF Answered, s
    <3> QED BY <1>5, <1>9, <2>1, <2>2, <3>1
  <2>3. CASE e.type # "established"
    <3>1. Writes(n, e.mac, "") /\ ~(s < 0)
      BY <1>11, <2>3 DEF Answered, s
    <3> QED BY <1>5, <1>9, <3>1
  <2> QED BY <2>2, <2>3
<1> QED BY <1>2, <1>5, <1>8, <1>10, <1>11

\* A frame judges by a slot that was joined already.
LEMMA FrameRoom ==
  ASSUME AskedInv, NEW n \in Node, Frame(n)
  PROVE  \A k \in Node : (Role(k) /\ RoomOf(k))'
<1>1. /\ LobbyTypes /\ adhoc \in [Node -> {"cancelall", "idle", "ifnotjoined"}]
      /\ server \in [Node -> {-1} \cup Slot] /\ page \in [Node -> {"browse", "room"}]
      /\ Role(n) /\ RoomOf(n)
  BY DEF AskedInv, LobbyTypes
<1>2. /\ \A k \in Node, s \in Slot :
           /\ recv'[k][s].mac = recv[k][s].mac
           /\ recv'[k][s].state = "joined" => recv[k][s].state = "joined"
      /\ \A k \in Node \ {n} : recv'[k] = recv[k]
  BY <1>1, FrameDoes
<1>3. /\ UNCHANGED <<mode, next, server, hoster>>
      /\ page' = [page EXCEPT ![n] = IF adhoc'[n] = "cancelall" THEN "browse" ELSE "room"]
  BY DEF Frame, ThreadsRest
<1>4. adhoc' = [adhoc EXCEPT ![n] =
                  IF adhoc[n] = "cancelall" /\ StaysJoined(n) THEN "ifnotjoined" ELSE adhoc[n]]
  BY Zenon DEF Frame, Update
<1>5. \A k \in Node : Coming(k)' = Coming(k)
  BY <1>3 DEF Coming
<1>6. ASSUME NEW k \in Node \ {n}
      PROVE  (Role(k) /\ RoomOf(k))'
  <2>1. /\ adhoc'[k] = adhoc[k] /\ page'[k] = page[k] /\ server'[k] = server[k]
        /\ recv'[k] = recv[k] /\ hoster'[k] = hoster[k]
    BY <1>1, <1>2, <1>3, <1>4
  <2> QED BY <1>5, <2>1, OthersRoom DEF AskedInv
<1>7. adhoc'[n] = "idle" <=> adhoc[n] = "idle"
  BY <1>1, <1>4
<1>8. page'[n] = "browse" => adhoc'[n] # "idle"
  BY <1>1, <1>3
<1>9. Role(n)'
  <2>1. Coming(n)' = Coming(n)
    BY <1>5
  <2>2. Coming(n)' # "off" => (adhoc'[n] = "idle" <=> Coming(n)' = "parent")
    BY <1>1, <1>7, <2>1 DEF Role
  <2> QED BY <1>8, <2>2 DEF Role
<1>10. RoomOf(n)'
  <2>1. SUFFICES ASSUME adhoc[n] # "idle", server[n] # -1, recv'[n][server[n]].state = "joined"
                 PROVE  recv'[n][server[n]].mac = hoster[n]
    BY <1>3, <1>7 DEF RoomOf, StaysJoined
  <2>2. server[n] \in Slot
    BY <1>1, <2>1
  <2>3. recv[n][server[n]].state = "joined" /\ recv'[n][server[n]].mac = recv[n][server[n]].mac
    <3> DEFINE t == server[n]
    <3>1. t \in Slot /\ recv'[n][t].state = "joined"
      BY <2>1, <2>2
    <3> HIDE DEF t
    <3>2. recv'[n][t].mac = recv[n][t].mac /\ recv[n][t].state = "joined"
      BY <1>2, <3>1
    <3> QED BY <3>2 DEF t
  <2>4. recv[n][server[n]].mac = hoster[n]
    BY <1>1, <2>1, <2>3 DEF RoomOf, StaysJoined
  <2> QED BY <2>3, <2>4
<1> QED BY <1>6, <1>9, <1>10

\* A request: the slot that is judged by is not joined until the answer comes.
LEMMA SelectRoom ==
  ASSUME AskedInv, NEW n \in Node, NEW s \in Slot, SelectServer(n, s), ~AnswerWaits(n)
  PROVE  /\ \A k \in Node : (Role(k) /\ RoomOf(k))'
         /\ Lib(Asked)'
<1>1. /\ LobbyTypes /\ hoster \in [Node -> Node \cup {None}]
      /\ server \in [Node -> {-1} \cup Slot] /\ recv \in [Node -> [Slot -> Cell]]
      /\ Role(n) /\ RoomOf(n)
  BY DEF AskedInv, LobbyTypes
<1>2. /\ recv' = [recv EXCEPT ![n][s].state = "selected"]
      /\ server' = [server EXCEPT ![n] = s]
      /\ hoster' = [hoster EXCEPT ![n] = recv[n][s].mac]
      /\ UNCHANGED <<mode, next, adhoc, page>>
      /\ MainReady(n) /\ page[n] = "browse"
  BY DEF SelectServer, ThreadsRest
<1>3. \A k \in Node : Coming(k)' = Coming(k)
  BY <1>2 DEF Coming
<1>4. ASSUME NEW k \in Node \ {n}
      PROVE  (Role(k) /\ RoomOf(k))'
  <2>1. /\ adhoc'[k] = adhoc[k] /\ page'[k] = page[k] /\ server'[k] = server[k]
        /\ recv'[k] = recv[k] /\ hoster'[k] = hoster[k]
    BY <1>1, <1>2
  <2> QED BY <1>3, <2>1, OthersRoom DEF AskedInv
<1>5. Role(n)'
  BY <1>1, <1>2, <1>3 DEF Role
<1>6. RoomOf(n)'
  <2>1. server'[n] = s /\ recv'[n][s].state = "selected"
    BY <1>1, <1>2 DEF Cell
  <2> QED BY <2>1 DEF RoomOf, StaysJoined
<1>7. PICK W : W = Asked
  OBVIOUS
<1>8. PICK V : V = [Asked EXCEPT ![n] = {recv[n][s].mac}]
  OBVIOUS
<1>9. Asked' = V
  BY <1>1, <1>2, <1>8 DEF Asked
<1>10. Lib(V)'
  <2>1. Lib(W)
    BY <1>7 DEF AskedInv
  <2>2. \A k \in Node \ {n} : V[k] = W[k]
    BY <1>7, <1>8 DEF Asked
  <2>3. recv[n][s].mac \in V[n]
    BY <1>8 DEF Asked
  <2>4. mode[n] # "parent"
    BY <1>1, <1>2, RunsIn DEF Role
  <2>5. Own(n, V[n])
    BY <2>1, <2>4, AsksAnew
  <2> QED BY <2>1, <2>2, <2>3, <2>5, SelectLib
<1> QED BY <1>4, <1>5, <1>6, <1>9, <1>10

\* A console that hosts is judged by no room.
LEMMA HostingRoom ==
  ASSUME AskedInv, NEW n \in Node, StartHosting(n)
  PROVE  \A k \in Node : (Role(k) /\ RoomOf(k))'
<1>1. /\ LobbyTypes /\ adhoc \in [Node -> {"cancelall", "idle", "ifnotjoined"}]
      /\ server \in [Node -> {-1} \cup Slot] /\ recv \in [Node -> [Slot -> Cell]]
      /\ page \in [Node -> {"browse", "room"}]
      /\ next \in [Node -> {"none", "parent", "child", "off"}]
  BY DEF AskedInv, LobbyTypes, Lib, MatchingTypeOK
<1>2. /\ recv' = [recv EXCEPT ![n][0].state = "joined"]
      /\ server' = [server EXCEPT ![n] = 0] /\ adhoc' = [adhoc EXCEPT ![n] = "idle"]
      /\ page' = [page EXCEPT ![n] = "room"] /\ next' = [next EXCEPT ![n] = "parent"]
      /\ UNCHANGED <<mode, hoster>>
  BY DEF StartHosting, Stop, ThreadsRest
<1>3. ASSUME NEW k \in Node \ {n}
      PROVE  (Role(k) /\ RoomOf(k))'
  <2>1. /\ adhoc'[k] = adhoc[k] /\ page'[k] = page[k] /\ server'[k] = server[k]
        /\ recv'[k] = recv[k] /\ hoster'[k] = hoster[k] /\ next'[k] = next[k]
    BY <1>1, <1>2
  <2>2. Coming(k)' = Coming(k)
    BY <1>2, <2>1 DEF Coming
  <2> QED BY <2>1, <2>2, OthersRoom DEF AskedInv
<1>4. next'[n] = "parent" /\ adhoc'[n] = "idle" /\ page'[n] = "room"
  BY <1>1, <1>2
<1>5. (Role(n) /\ RoomOf(n))'
  BY <1>4 DEF Role, RoomOf, Coming
<1> QED BY <1>3, <1>5

\* A console that leaves is in no room.
LEMMA LeaveRoom ==
  ASSUME AskedInv, NEW n \in Node, CancelMatchingTarget(n)
  PROVE  \A k \in Node : (Role(k) /\ RoomOf(k))'
<1>1. /\ LobbyTypes /\ adhoc \in [Node -> {"cancelall", "idle", "ifnotjoined"}]
      /\ server \in [Node -> {-1} \cup Slot] /\ recv \in [Node -> [Slot -> Cell]]
      /\ page \in [Node -> {"browse", "room"}]
      /\ next \in [Node -> {"none", "parent", "child", "off"}]
  BY DEF AskedInv, LobbyTypes, Lib, MatchingTypeOK
<1>2. /\ recv' = [recv EXCEPT ![n] = Empty]
      /\ server' = [server EXCEPT ![n] = -1] /\ adhoc' = [adhoc EXCEPT ![n] = "cancelall"]
      /\ page' = [page EXCEPT ![n] = "browse"] /\ next' = [next EXCEPT ![n] = "child"]
      /\ UNCHANGED <<mode, hoster>>
  BY Zenon DEF CancelMatchingTarget, StartListening, Stop, ThreadsRest
<1>3. ASSUME NEW k \in Node \ {n}
      PROVE  (Role(k) /\ RoomOf(k))'
  <2>1. /\ adhoc'[k] = adhoc[k] /\ page'[k] = page[k] /\ server'[k] = server[k]
        /\ recv'[k] = recv[k] /\ hoster'[k] = hoster[k] /\ next'[k] = next[k]
    BY <1>1, <1>2
  <2>2. Coming(k)' = Coming(k)
    BY <1>2, <2>1 DEF Coming
  <2> QED BY <2>1, <2>2, OthersRoom DEF AskedInv
<1>4. next'[n] = "child" /\ adhoc'[n] = "cancelall" /\ server'[n] = -1
  BY <1>1, <1>2
<1>5. (Role(n) /\ RoomOf(n))'
  BY <1>4 DEF Role, RoomOf, StaysJoined, Coming
<1> QED BY <1>3, <1>5

\* What leaves the lobby alone and changes no coming mode but to "off".
LEMMA LobbyAlone ==
  ASSUME AskedInv, UNCHANGED avars,
         \A k \in Node : Coming(k)' # "off" => Coming(k)' = Coming(k)
  PROVE  \A k \in Node : (Role(k) /\ RoomOf(k))'
BY OthersRoom DEF AskedInv, avars

\* A console that is switched off keeps what it shows.
LEMMA SwitchOffRoom ==
  ASSUME AskedInv, NEW n \in Node, SwitchOff(n)
  PROVE  \A k \in Node : (Role(k) /\ RoomOf(k))'
<1>1. /\ mode \in [Node -> {"parent", "child", "off"}]
      /\ next \in [Node -> {"none", "parent", "child", "off"}] /\ next[n] = "none"
  BY DEF AskedInv, Lib, MatchingTypeOK, SwitchOff, Crash, Running
<1>2. \/ mode' = [mode EXCEPT ![n] = "off"] /\ next' = next
      \/ mode' = mode /\ next' = [next EXCEPT ![n] = "off"]
  BY DEF SwitchOff, Crash, Ends, Stop
<1>3. \A k \in Node : Coming(k)' # "off" => Coming(k)' = Coming(k)
  BY <1>1, <1>2 DEF Coming
<1> QED BY <1>3, LobbyAlone DEF SwitchOff

\* Every step keeps the invariant.
LEMMA AskedStep ==
  ASSUME AskedInv, [Next]_vars, [Prompt]_vars
  PROVE  AskedInv'
<1>0. PICK W : W = Asked
  OBVIOUS
<1>1. LobbyTypes /\ Lib(W) /\ MatchingTypeOK
  BY <1>0 DEF AskedInv, Lib
<1>2. LobbyTypes'
  BY <1>1, LobbyTypesStep
<1>3. CASE UNCHANGED vars
  <2>1. \A k \in Node : Coming(k)' = Coming(k)
    BY <1>3 DEF Coming, vars, mvars
  <2>2. \A k \in Node : (Role(k) /\ RoomOf(k))'
    BY <1>3, <2>1, LobbyAlone DEF vars
  <2>3. Lib(W)' /\ Asked' = Asked
    BY <1>1, <1>3, LibKept DEF vars, avars, Asked
  <2> QED BY <1>0, <1>2, <2>2, <2>3 DEF AskedInv
<1>4. ASSUME NEW n \in Node, NEW s \in Slot, SelectServer(n, s)
      PROVE  AskedInv'
  <2>1. CASE UNCHANGED vars
    BY <1>3, <2>1
  <2>2. CASE Prompt
    <3>1. ~AnswerWaits(n)
      BY <1>4, <2>2 DEF Prompt
    <3> QED BY <1>2, <1>4, <3>1, SelectRoom DEF AskedInv
  <2> QED BY <2>1, <2>2
<1>5. CASE \A n \in Node, s \in Slot : ~SelectServer(n, s)
  <2>1. Lib(W)'
    BY <1>1, <1>5, LobbyLibStep
  <2>2. CASE UNCHANGED vars
    BY <1>3, <2>2
  <2>3. ASSUME UNCHANGED hoster, \A k \in Node : (Role(k) /\ RoomOf(k))'
        PROVE  AskedInv'
    <3>1. Asked' = Asked
      BY <2>3 DEF Asked
    <3> QED BY <1>0, <1>2, <2>1, <2>3, <3>1 DEF AskedInv
  <2>4. ASSUME NEW n \in Node, Threads(n), UNCHANGED avars
        PROVE  AskedInv'
    <3>1. \A k \in Node : (Role(k) /\ RoomOf(k))'
      BY <1>1, <2>4, ThreadsRoles, LobbyAlone
    <3> QED BY <2>3, <2>4, <3>1 DEF avars
  <2>5. ASSUME NEW n \in Node, MatchingCallback(n)
        PROVE  AskedInv'
    BY <2>3, <2>5, CallbackRoom
  <2>6. ASSUME NEW n \in Node, Frame(n)
        PROVE  AskedInv'
    BY <2>3, <2>6, FrameRoom DEF Frame
  <2>7. ASSUME NEW n \in Node, StartHosting(n)
        PROVE  AskedInv'
    BY <2>3, <2>7, HostingRoom DEF StartHosting
  <2>8. ASSUME NEW n \in Node, CancelMatchingTarget(n)
        PROVE  AskedInv'
    <3>1. UNCHANGED hoster
      BY <2>8, Zenon DEF CancelMatchingTarget
    <3> QED BY <2>3, <2>8, <3>1, LeaveRoom
  <2>9. ASSUME NEW n \in Node, SwitchOff(n)
        PROVE  AskedInv'
    BY <2>3, <2>9, SwitchOffRoom DEF SwitchOff, avars
  <2> QED BY <1>5, <2>2, <2>4, <2>5, <2>6, <2>7, <2>8, <2>9 DEF Next
<1> QED BY <1>4, <1>5

\* It holds at the start.
LEMMA AskedStart ==
  ASSUME Init
  PROVE  AskedInv
<1>1. LobbyTypes /\ Lib(Asked)
  BY InitTypes, LibInit DEF Init
<1>2. ASSUME NEW n \in Node
      PROVE  Role(n) /\ RoomOf(n)
  BY DEF Init, MatchingInit, Role, RoomOf, Coming, StaysJoined
<1> QED BY <1>1, <1>2 DEF AskedInv

\* A client whose user asks for a room only when no answer of an earlier one waits
\* for the callbacks is in the room it asked for last, although m_nServerPeerID
\* names a slot, which may be aged out and given to another room while the answer is
\* under way, and although rooms close, give members up and are lost at any moment.
\* Events leave the library last in first out: of two answers that wait the older
\* is handed out last, and its sender is not the room that was asked last.
THEOREM PromptRoomIsAsked == Spec /\ [][Prompt]_vars => []RoomIsAsked
<1>1. AskedInv => RoomIsAsked
  BY DEF AskedInv, RoomOf, RoomIsAsked
<1> QED BY <1>1, AskedStart, AskedStep, PTL DEF Spec
=============================================================================
