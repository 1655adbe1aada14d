---------------------------- MODULE InterestZone ----------------------------
(***************************************************************************)
(* How one player's elements reach the other players (InterestZone.cpp,    *)
(* elements/sElement.cpp): the owner sends, frame by frame, what changed   *)
(* against a frame that every peer acknowledged (the basis), or the whole  *)
(* element where there is no such frame; a removed element is announced    *)
(* until every peer acknowledged a frame that announced it.                *)
(*                                                                         *)
(* The zone modelled is the one of all players (id -1).  Every player both *)
(* owns elements and holds those of others; the two roles meet only in the *)
(* packets, so there is one owner here and Peer holds what it sends.  Of a *)
(* peer's own packets only the acknowledgement for the owner is kept.      *)
(*                                                                         *)
(* Abstractions.  An element's state is a function of Field; a delta holds *)
(* the fields that differ.  Fields that the receiver extrapolates are      *)
(* taken relative to their extrapolation.  The rate limiter, the size of   *)
(* fragments and how far a peer's clock lags are choices.  One frame is    *)
(* one tick.                                                               *)
(*                                                                         *)
(* An operator whose name ends in _ and a word is the one named before the *)
(* _ with a defect planted in it, to see that the properties notice.       *)
(***************************************************************************)
EXTENDS Integers, Sequences, FiniteSets

CONSTANTS
    Peer,          \* the other players
    Element,       \* elements of the owner; the code never reuses an id
    Field,         \* the fields of an element's state
    NumValues,     \* a field takes 0, 1, ... and returns to 0 after so many
    TimeMod,       \* frame numbers have 16 bits, 65536
    DisposeDelta,  \* MP_DISPOSE_SYNC_DELTA, 30
    FullInterval,  \* frames after which an element is sent whole, 4000
    LagValue,      \* m_nLagValue, set by scripts
    MaxFragments,  \* bound: packets a frame is split into; the masks have 32 bits
    MaxFrame,      \* bound: frames the owner plays
    NetCap,        \* bound, by peer: packets in flight to it, and from it
    MayJoin,       \* bound: peers that join the zone after the start
    MayLeave,      \* bound: peers the owner may drop
    Reordered      \* peers to which the network delivers a packet after a later one

ASSUME PeerAssumption == IsFiniteSet(Peer) /\ IsFiniteSet(Element)
ASSUME TimeAssumption ==
    /\ TimeMod \in Nat /\ TimeMod >= 4
    /\ DisposeDelta \in Nat /\ FullInterval \in Nat /\ LagValue \in Nat
    /\ NumValues \in Nat \ {0}
ASSUME BoundAssumption ==
    /\ MaxFragments \in 1..32 /\ MaxFrame \in Nat \ {0} /\ NetCap \in [Peer -> Nat]
    /\ MayJoin \subseteq Peer /\ MayLeave \subseteq Peer
    /\ Reordered \subseteq Peer

VARIABLES
    tick,          \* frames so far; m_nCurTime is tick % TimeMod
    elements,      \* m_vElements
    registered,    \* history: the elements ever registered
    syncs,         \* m_vSync of each element of the owner
    lastSent,      \* m_nLastSentFrame
    entities,      \* m_vEntities: what was removed, until all peers know
    zonePeers,     \* m_vPeers
    acks,          \* acks[p]: the frames peer p acknowledged
    joined,        \* history: the peers that were ever in the zone
    subscribed,    \* the peers whose own zone lists the owner
    held,          \* held[p][e]: m_vSync of p's copy; empty without a copy
    state,         \* nState of p's entry for the owner
    mask,          \* nSeqBitmask: the fragments of that state that came
    expected,      \* nExpectedSeqMask
    ackOut,        \* p's m_vAck entry for the owner: {} or one frame
    failed,        \* the peers that hit the assertion and set the error flag
    toPeer,        \* packets in flight to p
    toOwner        \* acknowledgements in flight from p

ownerVars == <<tick, elements, registered, syncs, lastSent, entities>>
ackVars   == <<zonePeers, acks, joined>>
peerVars  == <<held, state, mask, expected, ackOut, failed>>
netVars   == <<toPeer, toOwner>>
vars == <<ownerVars, ackVars, subscribed, peerVars, netVars>>

-----------------------------------------------------------------------------
(* Frame numbers and states *)

Time  == 0..(TimeMod - 1)
Now   == tick % TimeMod

\* static_cast<int16>(x - y): the distance on the circle of frame numbers.
Distance(x, y) == LET d == (x - y) % TimeMod
                  IN IF 2 * d < TimeMod THEN d ELSE d - TimeMod
Older(x, y) == Distance(x, y) < 0

\* The largest number of a set, as std::vector::back() of a sorted list.
Latest(T) == CHOOSE t \in T : \A u \in T : u <= t

\* A field of a state the reader made up (a CreateSync of its own, or bytes
\* that were never written as a state).
Unwritten == -1
Value == 0..(NumValues - 1)
State == [Field -> Value \cup {Unwritten}]
Blank == [f \in Field |-> Unwritten]

Entry == [time : Time, val : State]

\* What a destroy entry says of the fields.
NoFields == [f \in {} |-> Unwritten]

\* An item of a packet: a state in full (with MP_ENTITY_CREATE_FLAG), a delta
\* of the fields in DOMAIN val, or a destroy entry.
Item == [kind : {"full", "delta", "destroy"}, id : Element,
         val : UNION {[F -> Value] : F \in SUBSET Field}]

\* pckt_game_state: fragment seq of a frame; "final" is MP_ZONE_SEQ_FLAG.
GameState == [state : Time, seq : 0..(MaxFragments - 1), final : BOOLEAN,
              basis : Time, items : SUBSET Item]

\* The initial nExpectedSeqMask, 0xFFFFFFFF.
AllBits == 0..31

Final(s) == s[Len(s)]
Entries(s) == {s[i] : i \in DOMAIN s}

\* sElement::DisposeAttached: the entries older than t go, but never the last.
Disposed(s, t) ==
    LET stale == {i \in 1..(Len(s) - 1) : \A j \in 1..i : Older(s[j].time, t)}
    IN SubSeq(s, Cardinality(stale) + 1, Len(s))

\* sElement::AttachSync of the state now; an entry of this frame stays.
Attached(s, v) ==
    IF s # <<>> /\ ~Older(Final(s).time, Now)
    THEN s ELSE Append(s, [time |-> Now, val |-> v])

-----------------------------------------------------------------------------
(* What the owner sends *)

\* The frames every peer acknowledged.
Combined == {t \in UNION {acks[p] : p \in zonePeers} :
                 \A p \in zonePeers : t \in acks[p]}

TooOld == Combined # {} /\ Distance(Now, Latest(Combined)) > DisposeDelta

\* Defect: a frame that one peer acknowledged will do.
Basis_OfAnyPeer ==
    LET any == UNION {acks[p] : p \in zonePeers}
    IN IF any = {} THEN Now ELSE Latest(any)

\* m_nBasis of this frame; the frame itself stands for "none".
Basis == IF Combined = {} \/ TooOld THEN Now ELSE Latest(Combined)

\* Acknowledgements before the basis go, but one always stays.
Trimmed(A) == LET recent == {t \in A : t >= Basis}
              IN IF recent # {} \/ A = {} THEN recent ELSE {Latest(A)}

\* How far back the owner keeps states.
LastBasis == LET lagged == (Now - LagValue) % TimeMod
             IN IF Basis < lagged THEN Basis ELSE lagged

\* GetSyncWithTime, and whether it finds one.
HasSyncAt(s, t) == \E x \in Entries(s) : x.time = t
SyncAt(s, t) == (CHOOSE x \in Entries(s) : x.time = t).val

\* Defect: the element may be younger than the basis.
SendsDelta_WithoutFront(e, s) ==
    /\ Older(Basis, Now)
    /\ Distance(Now, lastSent[e]) < FullInterval

\* The test for a delta, on the states s of e.
SendsDelta(e, s) ==
    /\ Older(Basis, Now)
    /\ ~Older(Basis, s[1].time)
    /\ Distance(Now, lastSent[e]) < FullInterval

\* Defect: the delta is against the frame before.
Changed_SinceLast(s) ==
    {f \in Field : Len(s) > 1 /\ s[Len(s) - 1].val[f] # Final(s).val[f]}

\* The fields of a delta.
Changed(s) == {f \in Field : SyncAt(s, Basis)[f] # Final(s).val[f]}

\* What is written of e: nothing when the delta is empty.
Written(e, s) ==
    IF ~SendsDelta(e, s)
    THEN {[kind |-> "full", id |-> e, val |-> Final(s).val]}
    ELSE IF Changed(s) = {} THEN {}
    ELSE {[kind |-> "delta", id |-> e,
           val |-> [f \in Changed(s) |-> Final(s).val[f]]]}

\* Defect: a removal is announced in one frame only.
Announced_Once ==
    {[x EXCEPT !.basis = Now, !.final = TRUE] : x \in {y \in entities : ~y.final}}

\* The removed elements after a frame: announced once, an entry is marked and
\* dated; later it goes when the basis is past that date.
Announced ==
    {IF x.final /\ ~TooOld THEN x
     ELSE [x EXCEPT !.basis = Now, !.final = TRUE] :
        x \in {y \in entities : \/ ~y.final \/ TooOld
                                \/ ~(Older(Basis, Now) /\ Older(y.basis, Basis))}}

\* The ways to cut the frame's items into n packets: the first n - 1 are full
\* of states, the destroy entries are in the last.
Splits(body, n) ==
    {w \in [body -> 0..(n - 1)] :
        \A i \in 0..(n - 1) : n > 1 => \E x \in body : w[x] = i}

Packets(body, w, n) ==
    [i \in 1..n |->
        [state |-> Now, seq |-> i - 1, final |-> (i = n), basis |-> Basis,
         items |-> {x \in body : w[x] = i - 1}
                   \cup (IF i < n THEN {}
                         ELSE {[kind |-> "destroy", id |-> x.id, val |-> NoFields] :
                                  x \in entities})]]

-----------------------------------------------------------------------------
(* What a peer makes of a packet *)

\* Comparisons of frame numbers here are those of plain unsigned numbers.
Newer(p, pkt) == state[p] < pkt.state
StateAfter(p, pkt)    == IF Newer(p, pkt) THEN pkt.state ELSE state[p]
MaskBefore(p, pkt)    == IF Newer(p, pkt) THEN {} ELSE mask[p]
ExpectedBefore(p, pkt) == IF Newer(p, pkt) THEN AllBits ELSE expected[p]

\* Only such a fragment counts, and only then are its acknowledgements read.
FirstCopy(p, pkt) ==
    pkt.state = StateAfter(p, pkt) /\ pkt.seq \notin MaskBefore(p, pkt)

MaskAfter(p, pkt) ==
    MaskBefore(p, pkt) \cup (IF FirstCopy(p, pkt) THEN {pkt.seq} ELSE {})
ExpectedAfter(p, pkt) ==
    IF FirstCopy(p, pkt) /\ pkt.final THEN 0..pkt.seq ELSE ExpectedBefore(p, pkt)

\* Defect: the last fragment completes a frame.
Complete_WithLast(p, pkt) == pkt.final

Complete(p, pkt) == MaskAfter(p, pkt) = ExpectedAfter(p, pkt)

\* The acknowledgements of fragment 0 stay in the stream and are read as items.
Misreads(p, pkt) == pkt.seq = 0 /\ ~FirstCopy(p, pkt)

\* Defect: a delta is applied to the oldest state.
BaseOf_First(s, pkt) == s[1].val

\* GetSyncWithTime2: the state a delta is applied to, and the insertion.
BaseOf(s, pkt) ==
    IF pkt.basis >= pkt.state THEN Blank
    ELSE LET passed == {i \in 2..Len(s) : \A j \in 2..i : s[j].time <= pkt.basis}
         IN s[Cardinality(passed) + 1].val

Inserted(s, x) ==
    LET n == Cardinality({i \in DOMAIN s : s[i].time < x.time})
    IN SubSeq(s, 1, n) \o <<x>> \o SubSeq(s, n + 1, Len(s))

\* The state an item leads to: its fields, and those of the base.
Applied(base, val) ==
    [f \in Field |-> IF f \in DOMAIN val THEN val[f] ELSE base[f]]

\* A copy that reads val; what is older than the cut was disposed of first.
Updated(s, pkt, val, cut) ==
    LET rest == Disposed(s, cut)
    IN Inserted(rest, [time |-> pkt.state,
                       val |-> Applied(IF rest = <<>> THEN Blank
                                                      ELSE BaseOf(rest, pkt), val)])

\* p's copy of e after the packet.
CopyAfter(s, pkt, e, cut) ==
    IF \E x \in pkt.items : x.id = e
    THEN LET x == CHOOSE y \in pkt.items : y.id = e
         IN IF x.kind = "destroy" THEN <<>> ELSE Updated(s, pkt, x.val, cut)
    ELSE s

\* A delta for an element the peer has no copy of.
Cockup(p, pkt) ==
    \E x \in pkt.items : x.kind = "delta" /\ held[p][x.id] = <<>>

\* How far DisposeAttached goes: to the basis, or less when p's clock lags.
Cuts(p, pkt) ==
    {pkt.basis} \cup {x.time : x \in {y \in UNION {Entries(held[p][e]) : e \in Element} :
                                          Older(y.time, pkt.basis)}}

\* Defect: an acknowledgement is added, whether or not there is one.
AckAfter_Appended(p, pkt) ==
    IF ~Complete(p, pkt) THEN ackOut[p] ELSE ackOut[p] \cup {pkt.state}

AckAfter(p, pkt) ==
    IF ~Complete(p, pkt) THEN ackOut[p]
    ELSE {Latest(ackOut[p] \cup {pkt.state})}

-----------------------------------------------------------------------------
(* The owner *)

Init ==
    /\ tick = 1
    /\ elements = {} /\ registered = {} /\ entities = {}
    /\ syncs = [e \in Element |-> <<>>]
    /\ lastSent = [e \in Element |-> 0]
    /\ zonePeers = Peer \ MayJoin
    /\ joined = zonePeers
    /\ acks = [p \in Peer |-> {}]
    /\ subscribed = Peer \ MayJoin
    /\ held = [p \in Peer |-> [e \in Element |-> <<>>]]
    /\ state = [p \in Peer |-> 0]
    /\ mask = [p \in Peer |-> {}]
    /\ expected = [p \in Peer |-> {}]
    /\ ackOut = [p \in Peer |-> {}]
    /\ failed = {}
    /\ toPeer = [p \in Peer |-> <<>>]
    /\ toOwner = [p \in Peer |-> <<>>]

\* Defect: the element is created after the frame was sent, before m_nCurTime
\* moves on.
RegisterElement_InRender(e) ==
    /\ e \notin registered
    /\ elements' = elements \cup {e}
    /\ registered' = registered \cup {e}
    /\ syncs' = [syncs EXCEPT ![e] =
                    <<[time |-> (tick - 1) % TimeMod, val |-> [f \in Field |-> 0]]>>]
    /\ lastSent' = [lastSent EXCEPT ![e] = (tick - 1) % TimeMod]
    /\ UNCHANGED <<tick, entities, ackVars, subscribed, peerVars, netVars>>

\* A script creates an element: its constructor stores the first state, then
\* it enters the zone.  That happens before the frame's UpdateSend.
RegisterElement(e) ==
    /\ e \notin registered
    /\ elements' = elements \cup {e}
    /\ registered' = registered \cup {e}
    /\ syncs' = [syncs EXCEPT ![e] = <<[time |-> Now, val |-> [f \in Field |-> 0]]>>]
    /\ lastSent' = [lastSent EXCEPT ![e] = Now]
    /\ UNCHANGED <<tick, entities, ackVars, subscribed, peerVars, netVars>>

\* An element is deleted.
RemoveElement(e) ==
    /\ e \in elements
    /\ elements' = elements \ {e}
    /\ entities' = entities \cup {[id |-> e, basis |-> Now, final |-> FALSE]}
    /\ syncs' = [syncs EXCEPT ![e] = <<>>]
    /\ UNCHANGED <<tick, registered, lastSent, ackVars, subscribed, peerVars, netVars>>

\* One step of a field.
Stepped(v, F) ==
    [f \in Field |-> IF f \in F THEN (v[f] + 1) % NumValues ELSE v[f]]

\* Every element stores its state of this frame.
StatesNow(change) ==
    [e \in Element |-> IF e \in elements
                       THEN Attached(syncs[e], Stepped(Final(syncs[e]).val, change[e]))
                       ELSE syncs[e]]

\* UpdateSend of a frame in which the zone's rate limiter lets it send.  With
\* no peer in the zone nothing is written and the removals are forgotten.
SendGameState ==
    \E change \in [elements -> SUBSET Field] :
      LET kept == [e \in Element |-> Disposed(StatesNow(change)[e], LastBasis)]
          body == IF zonePeers = {} THEN {}
                  ELSE UNION {Written(e, kept[e]) : e \in elements}
      IN /\ tick < MaxFrame
         /\ tick' = tick + 1
         /\ syncs' = kept
         /\ lastSent' = [e \in Element |-> IF \E x \in body : x.id = e
                                           THEN Now ELSE lastSent[e]]
         /\ entities' = IF zonePeers = {} THEN {} ELSE Announced
         /\ acks' = [p \in Peer |-> IF p \in zonePeers THEN Trimmed(acks[p]) ELSE {}]
         /\ \E n \in 1..MaxFragments : \E w \in Splits(body, n) :
              /\ \A p \in zonePeers : Len(toPeer[p]) + n <= NetCap[p]
              /\ toPeer' = [p \in Peer |-> IF p \in zonePeers
                                           THEN toPeer[p] \o Packets(body, w, n)
                                           ELSE toPeer[p]]
         /\ UNCHANGED <<elements, registered, zonePeers, joined, subscribed,
                        peerVars, toOwner>>

\* UpdateSend of a frame that the rate limiter skips.
SkipGameState ==
    \E change \in [elements -> SUBSET Field] :
      /\ tick < MaxFrame
      /\ tick' = tick + 1
      /\ syncs' = StatesNow(change)
      /\ UNCHANGED <<elements, registered, lastSent, entities, ackVars, subscribed,
                     peerVars, netVars>>

\* The owner reads the acknowledgement in a packet of p.
ReceiveAck(p) ==
    /\ toOwner[p] # <<>>
    /\ toOwner' = [toOwner EXCEPT ![p] = Tail(@)]
    /\ acks' = IF p \in zonePeers
               THEN [acks EXCEPT ![p] = @ \cup {Head(toOwner[p])}] ELSE acks
    /\ UNCHANGED <<ownerVars, zonePeers, joined, subscribed, peerVars, toPeer>>

\* A player of the session enters the zone.
AddPeer(p) ==
    /\ p \notin joined
    /\ zonePeers' = zonePeers \cup {p}
    /\ joined' = joined \cup {p}
    /\ UNCHANGED <<ownerVars, acks, subscribed, peerVars, netVars>>

\* A player is removed from the game.
DisconnectPeer(p) ==
    /\ p \in zonePeers \cap MayLeave
    /\ zonePeers' = zonePeers \ {p}
    /\ acks' = [acks EXCEPT ![p] = {}]
    /\ UNCHANGED <<ownerVars, joined, subscribed, peerVars, netVars>>

-----------------------------------------------------------------------------
(* A peer *)

\* The peer's zone lists the owner from now on.
Subscribe(p) ==
    /\ p \notin subscribed
    /\ subscribed' = subscribed \cup {p}
    /\ UNCHANGED <<ownerVars, ackVars, peerVars, netVars>>

\* The packets the network may hand over next: fragments of a frame come in any
\* order, since the last one may wait in another queue of the session.
Arriving(p) ==
    {i \in DOMAIN toPeer[p] :
        p \in Reordered \/ \A j \in 1..i : toPeer[p][j].state = toPeer[p][i].state}

Without(s, i) == SubSeq(s, 1, i - 1) \o SubSeq(s, i + 1, Len(s))

Take(p, i) == toPeer' = [toPeer EXCEPT ![p] = Without(@, i)]

\* The network loses a packet, or the peer does not know the owner, or it
\* stopped with an error.
LosePacket(p) ==
    /\ \E i \in Arriving(p) : Take(p, i)
    /\ UNCHANGED <<ownerVars, ackVars, subscribed, peerVars, toOwner>>

LoseAck(p) ==
    /\ toOwner[p] # <<>>
    /\ toOwner' = [toOwner EXCEPT ![p] = Tail(@)]
    /\ UNCHANGED <<ownerVars, ackVars, subscribed, peerVars, toPeer>>

\* The bookkeeping of ReceiveGameState, on every path that reads the items.
Bookkeeping(p, pkt) ==
    /\ state' = [state EXCEPT ![p] = StateAfter(p, pkt)]
    /\ mask' = [mask EXCEPT ![p] = MaskAfter(p, pkt)]
    /\ expected' = [expected EXCEPT ![p] = ExpectedAfter(p, pkt)]

\* A delta for an element p does not hold is the "MULTIPLAYER COCKUP": p stops,
\* and what it read of the packet before that is of no account.
ReceiveGameState(p) ==
    /\ p \in subscribed \ failed
    /\ \E i \in Arriving(p) : LET pkt == toPeer[p][i] IN
         /\ ~Misreads(p, pkt)
         /\ Take(p, i)
         /\ Bookkeeping(p, pkt)
         /\ failed' = IF Cockup(p, pkt) THEN failed \cup {p} ELSE failed
         /\ IF Cockup(p, pkt) THEN UNCHANGED <<held, ackOut>>
            ELSE /\ \E cut \in Cuts(p, pkt) :
                      held' = [held EXCEPT ![p] =
                                 [e \in Element |-> CopyAfter(@[e], pkt, e, cut)]]
                 /\ ackOut' = [ackOut EXCEPT ![p] = AckAfter(p, pkt)]
    /\ UNCHANGED <<ownerVars, ackVars, subscribed, toOwner>>

\* The acknowledgements are read as items: as a delta of an element p holds,
\* with fields nobody wrote, or of one it does not hold.
Misread(p) ==
    /\ p \in subscribed \ failed
    /\ \E i \in Arriving(p) : LET pkt == toPeer[p][i] IN
         /\ Misreads(p, pkt)
         /\ Take(p, i)
         /\ Bookkeeping(p, pkt)
         /\ \/ /\ failed' = failed \cup {p}
               /\ UNCHANGED <<held, ackOut>>
            \/ /\ \E e \in Element :
                    /\ held[p][e] # <<>>
                    /\ held' = [held EXCEPT ![p][e] =
                                  Inserted(@, [time |-> pkt.state, val |-> Blank])]
               /\ ackOut' = [ackOut EXCEPT ![p] = AckAfter(p, pkt)]
               /\ UNCHANGED failed
    /\ UNCHANGED <<ownerVars, ackVars, subscribed, toOwner>>

\* The peer's own game state carries its acknowledgement.
SendAck(p) ==
    /\ p \notin failed
    /\ ackOut[p] # {}
    /\ Len(toOwner[p]) < NetCap[p]
    /\ toOwner' = [toOwner EXCEPT ![p] = Append(@, Latest(ackOut[p]))]
    /\ ackOut' = [ackOut EXCEPT ![p] = {}]
    /\ UNCHANGED <<ownerVars, ackVars, subscribed, held, state, mask, expected,
                   failed, toPeer>>

Next ==
    \/ \E e \in Element : RegisterElement(e) \/ RemoveElement(e)
    \/ SendGameState \/ SkipGameState
    \/ \E p \in Peer :
         \/ ReceiveAck(p) \/ AddPeer(p) \/ DisconnectPeer(p) \/ Subscribe(p)
         \/ LosePacket(p) \/ LoseAck(p) \/ SendAck(p)
         \/ ReceiveGameState(p) \/ Misread(p)

Spec == Init /\ [][Next]_vars

-----------------------------------------------------------------------------
(* Properties *)

\* Every variable has its type: an element has states exactly while the owner has
\* it, removals are of elements that are gone, and a peer owes the owner at most
\* one acknowledgement.
TypeOK ==
    /\ tick \in 1..MaxFrame
    /\ elements \subseteq registered /\ registered \subseteq Element
    /\ syncs \in [Element -> Seq([time : Time, val : [Field -> Value]])]
    /\ \A e \in Element : syncs[e] # <<>> <=> e \in elements
    /\ lastSent \in [Element -> Time]
    /\ entities \subseteq [id : registered \ elements, basis : Time, final : BOOLEAN]
    /\ zonePeers \subseteq joined /\ joined \subseteq Peer /\ subscribed \subseteq Peer
    /\ acks \in [Peer -> SUBSET Time]
    /\ ackOut \in [Peer -> {{}} \cup {{t} : t \in Time}]
    /\ held \in [Peer -> [Element -> Seq(Entry)]]
    /\ toPeer \in [Peer -> Seq(GameState)] /\ toOwner \in [Peer -> Seq(Time)]
    /\ mask \in [Peer -> SUBSET (0..(MaxFragments - 1))]
    /\ expected \in [Peer -> SUBSET AllBits]
    /\ state \in [Peer -> Time] /\ failed \subseteq Peer

\* No peer is told about an element it never got: the assertion of
\* ReceiveGameState ("wait, we non create flag element id (already created)")
\* never fires, whatever was lost on the way, at a peer whose packets come in
\* order.
NoCockup == failed \subseteq Reordered

\* The owner still keeps the state of the basis for every element it sends as
\* a delta ("sync not found" in GetSyncWithTime never fires).
BasisIsKept ==
    \A e \in elements : SendsDelta(e, syncs[e]) => HasSyncAt(syncs[e], Basis)

\* "has basis for new sync?" is answered rightly for every peer at once: a peer
\* has a copy of an element that is due for a delta, and the fields the delta
\* would leave out are right in the state the peer would apply it to, be that
\* the state of the basis or another one.
BasisIsShared ==
    \A e \in elements, p \in zonePeers \ Reordered :
        SendsDelta(e, syncs[e]) =>
            /\ held[p][e] # <<>>
            /\ \A f \in Field \ Changed(syncs[e]) :
                 BaseOf(held[p][e], [basis |-> Basis, state |-> Now])[f]
                     = Final(syncs[e]).val[f]

\* A peer that received a whole frame shows exactly the owner's state of that
\* frame, also of the elements the frame did not mention.
CompleteIsExact ==
    \A p \in zonePeers \ Reordered, e \in elements :
        (mask[p] = expected[p] /\ HasSyncAt(syncs[e], state[p])) =>
            /\ held[p][e] # <<>>
            /\ Final(held[p][e]).val = SyncAt(syncs[e], state[p])

\* When the owner stops announcing a removed element, no peer of the zone has
\* a copy of it any more.
ForgottenIsGone ==
    \A p \in zonePeers \ Reordered, e \in registered \ elements :
        (\A x \in entities : x.id # e) => held[p][e] = <<>>

\* "all packets received" (ReceiveGameState): a peer takes up the acknowledgement
\* of a frame only when it holds every fragment of that very frame.
OnlyWholeAcked ==
    [][\A p \in Peer \ Reordered :
           \/ ackOut'[p] \subseteq ackOut[p]
           \/ ackOut'[p] = {state'[p]} /\ mask'[p] = expected'[p]]_vars
=============================================================================
