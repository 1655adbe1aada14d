----------------------------- MODULE NetSession -----------------------------
(***************************************************************************)
(* The reliable part of cNetSession (net/NetSession.cpp): every player     *)
(* runs one session; a session numbers the packets it sends to each peer,  *)
(* keeps them until the peer acknowledges them, sends them again when they *)
(* time out, and delivers what it receives in order.                       *)
(*                                                                         *)
(* Abstractions.  A message is the record of its sender, its queue and its *)
(* number in that queue.  A packet carries at most RelRoom messages of the *)
(* Guaranteed queue and at most one message of the peer's plain queue      *)
(* (the code packs as many as fit: several packets of one message each     *)
(* over a lossy network show every outcome of one packet of several).      *)
(* The rings aSentPackets and aPacket are the sequences between their      *)
(* begin and end marks.  Time is the choice of which packets timed out.    *)
(* A player's frames run alone on its thread, so the loops of one call are *)
(* cut into steps only where they would need a fold: "phase" says which    *)
(* call is running and keeps other calls of that player out.               *)
(* An operator whose name ends in _ and a word is the one named before the *)
(* _ with a defect planted in it, to see that the properties notice.       *)
(***************************************************************************)
EXTENDS Integers, Sequences, FiniteSets

CONSTANTS
    Node,          \* the players of the session
    Group,         \* queues with several members: broadcast and the teams
    GroupMembers,  \* [Group -> SUBSET Node], m_vecPeerList of those queues
    QueueOrder,    \* m_vSendQueueList: a sequence over Group \cup Node
    ReqSlots,      \* NET_SESSION_NUM_PACKETS, 48
    SentSlots,     \* NET_SESSION_NUM_SENT_PACKETS, 47
    Window,        \* NET_SESSION_NUM_PACKETS_2, 32
    SeqMod,        \* sequence numbers have 12 bits, 4096
    EntryMod,      \* cNetPeerState_1.nSeq has 8 bits, 256
    RelRoom,       \* Guaranteed messages that fit a packet
    PrioCap,       \* NET_SESSION_MAX_GROUP_USED_BYTES_PRIORITY, in messages
    UnrelCap,      \* NET_SESSION_MAX_GROUP_USED_BYTES, in messages
    DebugBuild,    \* neither FINAL nor MASTER is defined
    MaxMessages,   \* bound: [Node -> [Queue -> Nat]], Guaranteed messages
    MaxPlain,      \* bound: [Node -> Nat], application messages in plain queues
    MayLeave,      \* bound: the <<n, p>> such that n may disconnect p
    NetCap,        \* bound: datagrams in flight
    Lossy,         \* the network loses datagrams
    Duplicating    \* the network delivers a datagram more than once

Queue == Group \cup Node

\* nSentCount never exceeds one less than the ring's size.
SentCap == SentSlots - 1

ASSUME NodeAssumption == IsFiniteSet(Node) /\ Group \cap Node = {}
ASSUME GroupAssumption == GroupMembers \in [Group -> SUBSET Node]
ASSUME OrderAssumption ==
    /\ QueueOrder \in Seq(Queue)
    /\ \A q \in Queue : \E i \in 1..Len(QueueOrder) : QueueOrder[i] = q
ASSUME SizeAssumption ==
    /\ SentSlots \in Nat /\ SentSlots >= 2
    /\ ReqSlots \in Nat /\ ReqSlots > SentSlots
    /\ Window \in Nat /\ Window >= 2
    /\ EntryMod \in Nat \ {0} /\ SeqMod \in Nat \ {0}
    /\ EntryMod <= SeqMod
    /\ RelRoom \in Nat \ {0}
ASSUME BoundAssumption ==
    /\ PrioCap \in Nat /\ UnrelCap \in Nat
    /\ MaxMessages \in [Node -> [Queue -> Nat]]
    /\ MaxPlain \in [Node -> Nat]
    /\ MayLeave \subseteq Node \X Node /\ NetCap \in Nat
    /\ DebugBuild \in BOOLEAN /\ Lossy \in BOOLEAN /\ Duplicating \in BOOLEAN

VARIABLES
    peers,         \* peers[n]: the ids with a cNetPeerState at n
    prio,          \* prio[n][q]: m_vecPacketBufferPrio of queue q
    plain,         \* plain[n][p]: m_vecPacketBuffer of the queue of peer p
    sendIndex,     \* m_nSendQueueIndex
    sendCount,     \* m_nSendQueueCount
    requests,      \* m_aPackets: nCountA and the Guaranteed part of a packet
    limitReached,  \* m_bSendLimitReached
    sent,          \* sent[n][p]: aSentPackets from nSentBegin to nSentEnd
    overflow,      \* overflow[n]: the peers whose bSendOverflow is set
    nextSeq,       \* nNextPacketSeq
    lastAck,       \* nLastAck
    window,        \* window[n][p]: nCountA slots of aPacket from nPacketIndex
    phase,         \* the call that runs: "idle", "recv", "resend" or "send"
    unchecked,     \* peers UpdatePendingSent has still to look at
    popping,       \* popping[n][p]: entries it has still to take from p's ring
    hasError,      \* cAdhoc::bHasError, as SendMessagePriority sets it
    net,           \* the datagrams in flight
    submitted,     \* how many Guaranteed messages each queue accepted
    plainSent,     \* how many application messages went to plain queues
    sentLog,       \* history: the numbered packets, in order, per peer
    delivered      \* history: the packets dispatched, in order, per peer

queueVars   == <<prio, plain, submitted, plainSent>>
requestVars == <<sendIndex, sendCount, requests>>
sentVars    == <<limitReached, sent, overflow, nextSeq, sentLog>>
recvVars    == <<lastAck, window, delivered>>
frameVars   == <<phase, unchecked, popping>>
peerVars    == <<peers, hasError>>
vars == <<queueVars, requestVars, sentVars, recvVars, frameVars, peerVars, net>>

-----------------------------------------------------------------------------
(* Data *)

Message == [from : Node, queue : Queue, num : Nat]
Ack     == [kind : {"ack"}, seq : Nat, again : BOOLEAN]
Data    == [kind |-> "data", seq |-> 0, again |-> FALSE]

SeqNum      == 0..(SeqMod - 1)
RequestSlot == 0..(ReqSlots - 1)

\* tNetPacketReq, cNetPeerState_1 and the tNetPacket a receiver keeps.
Request == [nCountA : Int, rel : Seq(Message)]
Entry   == [done : BOOLEAN, slot : RequestSlot, seq : 0..(EntryMod - 1)]
Packet  == [seq : SeqNum, rel : Seq(Message)]

\* A datagram: "again" is the resend flag 0x1000; an empty "rel" is a packet
\* whose header.field_2 is 0; "msg" is <<>> or one plain message.
Datagram == [src : Node, dst : Node, seq : SeqNum, again : BOOLEAN,
             rel : Seq(Message), msg : Seq(Ack \cup {Data})]

\* A slot of aPacket whose packet.nSize is 0.
Gap == [seq |-> -1, rel |-> <<>>]

Least(x, y) == IF x < y THEN x ELSE y

\* The slot k places after m_nSendQueueIndex, and the place of a slot.
SlotAt(n, k) ==
    IF sendIndex[n] + k < ReqSlots THEN sendIndex[n] + k
                                   ELSE sendIndex[n] + k - ReqSlots
PlaceOf(n, s) ==
    IF s >= sendIndex[n] THEN s - sendIndex[n] ELSE s - sendIndex[n] + ReqSlots

\* The slots the ring holds.
InUse(n, s) == s \in RequestSlot /\ PlaceOf(n, s) < sendCount[n]

\* The members of a queue that have a cNetPeerState.
Members(n, q) == (IF q \in Node THEN {q} ELSE GroupMembers[q]) \cap peers[n]

\* Defect: the trimming loop does not stop at an empty ring.
Trimmed_Unguarded(n, reqs, count) ==
    IF count > 0 /\ reqs[SlotAt(n, count - 1)].nCountA > 0 THEN count ELSE count - 1

\* The ring gives up its oldest requests until one has an unacknowledged copy:
\* what stays are the requests with such a one among those as old or older.
Trimmed(n, reqs, count) ==
    Cardinality({k \in 0..(count - 1) :
        \E j \in k..(count - 1) : reqs[SlotAt(n, j)].nCountA > 0})

\* cNetSession::SendMessage: past the limit the message is dropped, and a
\* debug build drops everything the queue holds with it.
Appended(buffer, m) ==
    IF Len(buffer) > UnrelCap
    THEN IF DebugBuild THEN <<>> ELSE buffer
    ELSE Append(buffer, m)

\* Datagrams that find the network full are lost.
Transmit(ds) ==
    net' = IF Cardinality(net \cup ds) <= NetCap THEN net \cup ds ELSE net

-----------------------------------------------------------------------------
Init ==
    /\ peers = [n \in Node |-> Node \ {n}]
    /\ prio = [n \in Node |-> [q \in Queue |-> <<>>]]
    /\ plain = [n \in Node |-> [p \in Node |-> <<>>]]
    /\ sendIndex = [n \in Node |-> 0]
    /\ sendCount = [n \in Node |-> 0]
    /\ requests = [n \in Node |->
                     [s \in RequestSlot |-> [nCountA |-> 0, rel |-> <<>>]]]
    /\ limitReached = [n \in Node |-> FALSE]
    /\ sent = [n \in Node |-> [p \in Node |-> <<>>]]
    /\ overflow = [n \in Node |-> {}]
    /\ nextSeq = [n \in Node |-> [p \in Node |-> 0]]
    /\ lastAck = [n \in Node |-> [p \in Node |-> 0]]
    /\ window = [n \in Node |-> [p \in Node |-> <<>>]]
    /\ phase = [n \in Node |-> "idle"]
    /\ unchecked = [n \in Node |-> {}]
    /\ popping = [n \in Node |-> [p \in Node |-> 0]]
    /\ hasError = [n \in Node |-> FALSE]
    /\ net = {}
    /\ submitted = [n \in Node |-> [q \in Queue |-> 0]]
    /\ plainSent = [n \in Node |-> 0]
    /\ sentLog = [n \in Node |-> [p \in Node |-> <<>>]]
    /\ delivered = [n \in Node |-> [p \in Node |-> <<>>]]

\* cMultiGame::UpdateReceive and UpdateSend do nothing once Adhoc.HadError().
FrameMayRun(n) == phase[n] = "idle" /\ ~hasError[n]

-----------------------------------------------------------------------------
(* What the game calls between its frames and its handlers call in UpdateReceive *)

MayCall(n) == phase[n] \in {"idle", "recv"}

\* SendMessagePriority: a message for the Guaranteed queue q.
SendMessagePriority(n, q) ==
    /\ MayCall(n) /\ q # n
    /\ submitted[n][q] < MaxMessages[n][q]
    /\ IF Len(prio[n][q]) > PrioCap
       THEN /\ hasError' = [hasError EXCEPT ![n] = TRUE]
            /\ UNCHANGED <<prio, submitted>>
       ELSE /\ prio' = [prio EXCEPT ![n][q] = Append(@,
                   [from |-> n, queue |-> q, num |-> submitted[n][q] + 1])]
            /\ submitted' = [submitted EXCEPT ![n][q] = @ + 1]
            /\ UNCHANGED hasError
    /\ UNCHANGED <<plain, plainSent, peers, requestVars, sentVars,
                   recvVars, frameVars, net>>

\* SendMessage: a plain message of the game for one peer.
SendMessage(n, p) ==
    /\ MayCall(n) /\ p # n
    /\ plainSent[n] < MaxPlain[n]
    /\ plain' = [plain EXCEPT ![n][p] = Appended(@, Data)]
    /\ plainSent' = [plainSent EXCEPT ![n] = @ + 1]
    /\ UNCHANGED <<prio, submitted, requestVars, sentVars, recvVars,
                   frameVars, peerVars, net>>

\* One peer less has to acknowledge the requests in these slots.
GivenBack(n, slots) ==
    [s \in RequestSlot |->
       IF s \in slots THEN [requests[n][s] EXCEPT !.nCountA = @ - 1]
                      ELSE requests[n][s]]

\* Defect: entries already acknowledged are given back a second time.
Cleared_Twice(n, p) ==
    GivenBack(n, {sent[n][p][i].slot : i \in 1..Len(sent[n][p])})

\* ClearPeerArray: what the peer has not acknowledged is no longer owed to it.
Cleared(n, p) ==
    GivenBack(n, {sent[n][p][i].slot :
                    i \in {j \in 1..Len(sent[n][p]) : ~sent[n][p][j].done}})

\* DisconnectPeer, when the peer has a cNetPeerState.
DisconnectPeer(n, p) ==
    LET reqs == Cleared(n, p)
    IN /\ MayCall(n) /\ p \in peers[n]
       /\ <<n, p>> \in MayLeave
       /\ peers' = [peers EXCEPT ![n] = @ \ {p}]
       /\ requests' = [requests EXCEPT ![n] = reqs]
       /\ sendCount' = [sendCount EXCEPT ![n] = Trimmed(n, reqs, @)]
       /\ sent' = [sent EXCEPT ![n][p] = <<>>]
       /\ window' = [window EXCEPT ![n][p] = <<>>]
       /\ UNCHANGED <<queueVars, sendIndex, limitReached, overflow, nextSeq,
                      sentLog, lastAck, delivered, frameVars, hasError, net>>

-----------------------------------------------------------------------------
(* UpdateReceive *)

\* Defects: a number behind the next one expected counts as the next one; the
\* mask is one bit short.
Delta_Clamped(seq, ack) == IF seq >= ack THEN seq - ack ELSE 0

Delta_ShortMask(seq, ack) == (seq - ack) % (SeqMod \div 2)

\* 12-bit distance of a received number from the next one expected.
Delta(seq, ack) ==
    LET d == (seq - ack) % SeqMod
    IN IF d >= SeqMod \div 2 THEN d - SeqMod ELSE d

\* Defect: an ack covers all earlier numbers.
Acked_Cumulative(ring, ack) ==
    {i \in 1..Len(ring) : ~ring[i].done /\ ring[i].seq <= ack.seq}

\* HandleAckRecv: the entries of a peer's ring an ack marks.  The scan stops
\* at the first match unless the ack answers a resent packet.
Acked(ring, ack) ==
    LET matches == {i \in 1..Len(ring) : ~ring[i].done /\ ring[i].seq = ack.seq}
    IN {i \in matches : ack.again \/ \A j \in matches : i <= j}

HandleAckRecv(n, p, ack) ==
    LET marked == Acked(sent[n][p], ack)
    IN /\ sent' = [sent EXCEPT ![n][p] =
                     [i \in 1..Len(@) |->
                        IF i \in marked THEN [@[i] EXCEPT !.done = TRUE] ELSE @[i]]]
       /\ requests' = [requests EXCEPT ![n] =
                         GivenBack(n, {sent[n][p][i].slot : i \in marked})]

\* Defect: no place is kept for a late packet.
Stored_NoGap(win, delta, d) ==
    IF delta < Len(win) THEN win
    ELSE Append(win, [seq |-> d.seq, rel |-> d.rel])

\* The receive window of p at n with packet d stored delta places ahead.
Stored(win, delta, d) ==
    LET pkt == [seq |-> d.seq, rel |-> d.rel]
    IN IF delta < Len(win)
       THEN IF win[delta + 1] = Gap THEN [win EXCEPT ![delta + 1] = pkt] ELSE win
       ELSE [i \in 1..(delta + 1) |->
               IF i <= Len(win) THEN win[i] ELSE IF i <= delta THEN Gap ELSE pkt]

\* HandlePacketRecv: the plain message first, then the Guaranteed part, which
\* is acknowledged only when it falls inside the window.
RecvPacket(n, d) ==
    LET p      == d.src
        delta  == Delta(d.seq, lastAck[n][p])
        inside == d.rel # <<>> /\ delta >= 0 /\ delta + 1 < Window
    IN /\ d \in net /\ d.dst = n /\ p \in peers[n]
       /\ MayCall(n) /\ ~hasError[n]
       /\ phase' = [phase EXCEPT ![n] = "recv"]
       /\ \/ net' = net \ {d}
          \/ Duplicating /\ net' = net
       /\ IF d.msg # <<>> /\ d.msg[1].kind = "ack"
          THEN HandleAckRecv(n, p, d.msg[1])
          ELSE UNCHANGED <<sent, requests>>
       /\ IF inside
          THEN /\ window' = [window EXCEPT ![n][p] = Stored(@, delta, d)]
               /\ plain' = [plain EXCEPT ![n][p] = Appended(@,
                              [kind |-> "ack", seq |-> d.seq, again |-> d.again])]
          ELSE UNCHANGED <<window, plain>>
       /\ UNCHANGED <<prio, submitted, plainSent, sendIndex, sendCount,
                      limitReached, overflow, nextSeq, sentLog, lastAck,
                      delivered, unchecked, popping, peerVars>>

\* A datagram the network loses, or whose sender the receiver does not know.
\* What happens to it shows when the receiver reads its socket.
Lose(d) ==
    /\ d \in net
    /\ MayCall(d.dst)
    /\ Lossy \/ d.src \notin peers[d.dst]
    /\ net' = net \ {d}
    /\ UNCHANGED <<queueVars, requestVars, sentVars, recvVars, frameVars, peerVars>>

\* Defect: empty places do not stop the dispatch.
Ready_PastGaps(win) == Len(win)

\* The packets at the head of a window that wait for no other.
Ready(win) ==
    Cardinality({k \in 1..Len(win) : \A i \in 1..k : win[i] # Gap})

\* The rest of UpdateReceivePvt: every peer's packets are dispatched up to the
\* first gap, unless a handler met an error.  UpdatePendingSent then trims the
\* ring, clears the limit flag and turns to the peers it has sent something
\* (nSentCount is not 0).
FinishReceive(n) ==
    /\ FrameMayRun(n) \/ phase[n] = "recv"
    /\ LET take(p) == IF p \in peers[n] /\ ~hasError[n] THEN Ready(window[n][p]) ELSE 0
       IN /\ delivered' = [delivered EXCEPT ![n] = [p \in Node |->
                @[p] \o [i \in 1..take(p) |-> window[n][p][i].rel]]]
          /\ lastAck' = [lastAck EXCEPT ![n] = [p \in Node |->
                IF take(p) > 0 THEN (window[n][p][take(p)].seq + 1) % SeqMod ELSE @[p]]]
          /\ window' = [window EXCEPT ![n] = [p \in Node |->
                SubSeq(@[p], take(p) + 1, Len(@[p]))]]
    /\ sendCount' = [sendCount EXCEPT ![n] = Trimmed(n, requests[n], @)]
    /\ limitReached' = [limitReached EXCEPT ![n] = FALSE]
    /\ LET todo == {p \in peers[n] : sent[n][p] # <<>>}
       IN /\ unchecked' = [unchecked EXCEPT ![n] = todo]
          /\ phase' = [phase EXCEPT ![n] = IF todo = {} THEN "idle" ELSE "resend"]
    /\ UNCHANGED <<queueVars, sendIndex, requests, sent, overflow, nextSeq,
                   sentLog, popping, peerVars, net>>

-----------------------------------------------------------------------------
(* UpdatePendingSent, one peer after the other *)

\* Defects: a ring that was full before stays unnoticed; the last peer decides.
PeerChecked_OnlyResent(n, p, ring, full) ==
    /\ limitReached' = [limitReached EXCEPT ![n] = @ \/ full]
    /\ unchecked' = [unchecked EXCEPT ![n] = @ \ {p}]
    /\ phase' = [phase EXCEPT ![n] =
          IF unchecked[n] = {p} THEN "idle" ELSE "resend"]

PeerChecked_LastOne(n, p, ring, full) ==
    /\ limitReached' = [limitReached EXCEPT ![n] =
          Len(ring) = SentCap /\ p \notin overflow'[n]]
    /\ unchecked' = [unchecked EXCEPT ![n] = @ \ {p}]
    /\ phase' = [phase EXCEPT ![n] =
          IF unchecked[n] = {p} THEN "idle" ELSE "resend"]

\* The end of a peer's turn: its ring may be full.
PeerChecked(n, p, ring, full) ==
    /\ limitReached' = [limitReached EXCEPT ![n] =
          @ \/ full \/ (Len(ring) = SentCap /\ p \notin overflow'[n])]
    /\ unchecked' = [unchecked EXCEPT ![n] = @ \ {p}]
    /\ phase' = [phase EXCEPT ![n] =
          IF unchecked[n] = {p} THEN "idle" ELSE "resend"]

\* Defect: time does not count, only a newer acknowledgement.
Expired_NoTimeout(ring, fresh) ==
    Cardinality({i \in 1..Len(ring) : \E j \in 1..i : ring[j].done})

\* The entries to take from the end of a ring: everything as old as the newest
\* one that is acknowledged or, older than the "fresh" newest, has timed out.
Expired(ring, fresh) ==
    Cardinality({i \in 1..Len(ring) : \E j \in 1..i : ring[j].done \/ j > fresh})

CheckPeer(n, p) ==
    /\ phase[n] = "resend" /\ p \in unchecked[n]
    /\ \A r \in Node : popping[n][r] = 0
    /\ \E fresh \in 0..Len(sent[n][p]) :
         LET k == IF p \in overflow[n] THEN 0 ELSE Expired(sent[n][p], fresh)
         IN IF k = 0
            THEN /\ UNCHANGED <<popping, overflow>>
                 /\ PeerChecked(n, p, sent[n][p], FALSE)
            ELSE /\ popping' = [popping EXCEPT ![n][p] = k]
                 /\ UNCHANGED <<limitReached, unchecked, phase, overflow>>
    /\ UNCHANGED <<queueVars, requestVars, sent, nextSeq, sentLog, recvVars,
                   peerVars, net>>

\* One turn of the loop that takes entries from the end of the ring and sends
\* those not acknowledged again, under the number the entry has.
PopOldest(n, p) ==
    LET ring  == sent[n][p]
        entry == ring[Len(ring)]
        rest  == SubSeq(ring, 1, Len(ring) - 1)
        room  == Len(rest) < SentCap
        again == ~entry.done /\ room
        ring2 == IF again THEN <<entry>> \o rest ELSE rest
        full  == again /\ Len(ring2) = SentCap
    IN /\ phase[n] = "resend" /\ popping[n][p] > 0
       /\ popping' = [popping EXCEPT ![n][p] = @ - 1]
       /\ sent' = [sent EXCEPT ![n][p] = ring2]
       /\ overflow' = [overflow EXCEPT ![n] =
             IF entry.done \/ room THEN @ ELSE @ \cup {p}]
       /\ IF again
          THEN Transmit({[src |-> n, dst |-> p, seq |-> entry.seq, again |-> TRUE,
                          rel |-> requests[n][entry.slot].rel, msg |-> <<>>]})
          ELSE UNCHANGED net
       /\ IF popping[n][p] = 1
          THEN PeerChecked(n, p, ring2, full)
          ELSE /\ limitReached' = [limitReached EXCEPT ![n] = @ \/ full]
               /\ UNCHANGED <<unchecked, phase>>
       /\ UNCHANGED <<queueVars, requestVars, nextSeq, sentLog, recvVars, peerVars>>

-----------------------------------------------------------------------------
(* UpdateSend *)

\* The condition of the packet loop: a free slot, and plain messages or, below
\* the limit, Guaranteed ones.
Sendable(n, q) ==
    /\ sendCount[n] < SentSlots
    /\ \/ q \in Node /\ plain[n][q] # <<>>
       \/ prio[n][q] # <<>> /\ ~limitReached[n]

\* Queues are served from the last to the first, each until it has nothing left
\* that may go out.
Served(n, i) ==
    /\ Sendable(n, QueueOrder[i])
    /\ \A j \in (i + 1)..Len(QueueOrder) : ~Sendable(n, QueueOrder[j])

\* Defects: the index does not move to a free slot; it skips the last slot.
NextSlot_Same(n) == sendIndex[n]

NextSlot_ShortRing(n) == IF sendIndex[n] = 0 THEN ReqSlots - 2 ELSE sendIndex[n] - 1

\* The slot a new packet takes.
NextSlot(n) == IF sendIndex[n] = 0 THEN ReqSlots - 1 ELSE sendIndex[n] - 1

\* One packet of queue q, to every member.  "fits" are the members for whose
\* plain message the Guaranteed part leaves room.  A packet nobody has to
\* acknowledge gives its slot back.  (A member whose bSendOverflow is set would
\* get the packet untracked; NoSendOverflow: there is none.)
SendPacketOf(n, q, fits) ==
    LET to      == Members(n, q)
        rel     == IF limitReached[n] THEN <<>>
                   ELSE SubSeq(prio[n][q], 1, Least(RelRoom, Len(prio[n][q])))
        carry   == {p \in Node : /\ plain[n][p] # <<>>
                                 /\ IF rel = <<>> THEN p = q ELSE p \in fits}
        tracked == {p \in to : rel # <<>> /\ p \notin overflow[n]
                                          /\ Len(sent[n][p]) < SentCap}
        dropped == {p \in to : rel # <<>> /\ p \notin overflow[n]
                                          /\ Len(sent[n][p]) >= SentCap}
        slot    == NextSlot(n)
        msg(p)  == IF p \in carry THEN <<Head(plain[n][p])>> ELSE <<>>
        first(p) == [src |-> n, dst |-> p, seq |-> nextSeq[n][p], again |-> FALSE,
                     rel |-> rel, msg |-> msg(p)]
        light(p) == [src |-> n, dst |-> p, seq |-> 0, again |-> FALSE,
                     rel |-> <<>>, msg |-> msg(p)]
    IN /\ prio' = [prio EXCEPT ![n][q] = SubSeq(@, Len(rel) + 1, Len(@))]
       /\ plain' = [plain EXCEPT ![n] = [p \in Node |->
                       IF p \in carry THEN Tail(@[p]) ELSE @[p]]]
       /\ requests' = [requests EXCEPT ![n][slot] =
                          [nCountA |-> Cardinality(tracked), rel |-> rel]]
       /\ IF tracked # {}
          THEN /\ sendIndex' = [sendIndex EXCEPT ![n] = slot]
               /\ sendCount' = [sendCount EXCEPT ![n] = @ + 1]
          ELSE UNCHANGED <<sendIndex, sendCount>>
       /\ sent' = [sent EXCEPT ![n] = [p \in Node |->
             IF p \in tracked
             THEN <<[done |-> FALSE, slot |-> slot,
                     seq |-> nextSeq[n][p] % EntryMod]>> \o @[p]
             ELSE @[p]]]
       /\ nextSeq' = [nextSeq EXCEPT ![n] = [p \in Node |->
             IF p \in tracked THEN (@[p] + 1) % SeqMod ELSE @[p]]]
       /\ sentLog' = [sentLog EXCEPT ![n] = [p \in Node |->
             IF p \in tracked THEN Append(@[p], rel) ELSE @[p]]]
       /\ limitReached' = [limitReached EXCEPT ![n] =
             @ \/ \E p \in tracked : Len(sent[n][p]) + 1 = SentCap]
       /\ overflow' = [overflow EXCEPT ![n] = @ \cup dropped]
       /\ Transmit({first(p) : p \in tracked} \cup
                   {light(p) : p \in {r \in to : rel = <<>> /\ r \in carry}})

SendPacket(n) ==
    /\ FrameMayRun(n) \/ phase[n] = "send"
    /\ phase' = [phase EXCEPT ![n] = "send"]
    /\ \E i \in 1..Len(QueueOrder) :
         /\ Served(n, i)
         /\ \E fits \in SUBSET Members(n, QueueOrder[i]) :
              SendPacketOf(n, QueueOrder[i], fits)
    /\ UNCHANGED <<submitted, plainSent, recvVars, unchecked, popping, peerVars>>

\* Nothing is left that may go out.
EndSend(n) ==
    /\ phase[n] = "send"
    /\ \A q \in Queue : ~Sendable(n, q)
    /\ phase' = [phase EXCEPT ![n] = "idle"]
    /\ UNCHANGED <<queueVars, requestVars, sentVars, recvVars, unchecked,
                   popping, peerVars, net>>

-----------------------------------------------------------------------------
Next ==
    \/ \E n \in Node, q \in Queue : SendMessagePriority(n, q)
    \/ \E n, p \in Node : SendMessage(n, p)
    \/ \E n, p \in Node : DisconnectPeer(n, p)
    \/ \E n \in Node, d \in net : RecvPacket(n, d)
    \/ \E d \in net : Lose(d)
    \/ \E n \in Node : FinishReceive(n)
    \/ \E n, p \in Node : CheckPeer(n, p)
    \/ \E n, p \in Node : PopOldest(n, p)
    \/ \E n \in Node : SendPacket(n)
    \/ \E n \in Node : EndSend(n)

Spec == Init /\ [][Next]_vars

(***************************************************************************)
(* Fairness.  Every frame of the game calls UpdateReceive, whose loops end,*)
(* and then UpdateSend (MultiGame.cpp, UpdateReceive and UpdateSend): the  *)
(* calls go on for ever, SendPacket at least once in a while.  A packet    *)
(* that stays unacknowledged outlives any round-trip estimate (TimesOut).  *)
(* The network does not lose every copy of the packet a player waits for   *)
(* (Arrives), nor every acknowledgement of an entry still unacknowledged   *)
(* (AckArrives).                                                           *)
(***************************************************************************)
TimesOut(n, p) == CheckPeer(n, p) /\ popping' # popping

Arrives(n, p) == \E d \in net :
    /\ d.src = p /\ d.rel # <<>> /\ Delta(d.seq, lastAck[n][p]) = 0
    /\ RecvPacket(n, d)

AckArrives(n, p) == \E d \in net :
    /\ d.src = p /\ d.msg # <<>> /\ d.msg[1].kind = "ack"
    /\ Acked(sent[n][p], d.msg[1]) # {}
    /\ RecvPacket(n, d)

Fairness == \A n \in Node :
    /\ WF_vars(FinishReceive(n))
    /\ SF_vars(SendPacket(n))
    /\ WF_vars(EndSend(n))
    /\ \A p \in Node \ {n} : /\ WF_vars(CheckPeer(n, p))
                             /\ SF_vars(TimesOut(n, p))
                             /\ WF_vars(PopOldest(n, p))
                             /\ SF_vars(Arrives(n, p))
                             /\ SF_vars(AckArrives(n, p))

FairSpec == Spec /\ Fairness
-----------------------------------------------------------------------------
(* Properties *)

QueueTypes ==
    /\ prio \in [Node -> [Queue -> Seq(Message)]]
    /\ plain \in [Node -> [Node -> Seq(Ack \cup {Data})]]
    /\ submitted \in [Node -> [Queue -> Nat]]
    /\ plainSent \in [Node -> Nat]

RequestTypes ==
    /\ sendIndex \in [Node -> RequestSlot]
    /\ sendCount \in [Node -> 0..SentSlots]
    /\ requests \in [Node -> [RequestSlot -> Request]]

SentTypes ==
    /\ limitReached \in [Node -> BOOLEAN]
    /\ sent \in [Node -> [Node -> Seq(Entry)]]
    /\ overflow \in [Node -> SUBSET Node]
    /\ nextSeq \in [Node -> [Node -> SeqNum]]
    /\ sentLog \in [Node -> [Node -> Seq(Seq(Message))]]

RecvTypes ==
    /\ lastAck \in [Node -> [Node -> SeqNum]]
    /\ window \in [Node -> [Node -> Seq(Packet \cup {Gap})]]
    /\ delivered \in [Node -> [Node -> Seq(Seq(Message))]]

FrameTypes ==
    /\ phase \in [Node -> {"idle", "recv", "resend", "send"}]
    /\ unchecked \in [Node -> SUBSET Node]
    /\ popping \in [Node -> [Node -> Nat]]

PeerTypes == peers \in [Node -> SUBSET Node] /\ hasError \in [Node -> BOOLEAN]

\* Every variable keeps its type: an index stays in its ring, the count of
\* requests between 0 and the slots, a number below its modulus, and phase is
\* one of the calls of a frame.
TypeOK == /\ QueueTypes /\ RequestTypes /\ SentTypes /\ RecvTypes
          /\ FrameTypes /\ PeerTypes /\ net \in SUBSET Datagram

\* AttemptSendPacket never finds a peer's ring full: the limit flag stops the
\* Guaranteed packets in time, so no peer is "dropped due to send buffer overflow".
NoSendOverflow == \A n \in Node : overflow[n] = {}

\* Why the flag comes in time.  While the flag is down only a peer that
\* UpdatePendingSent has still to look at can have a full ring; it looks at
\* connected peers only, takes no more than a ring holds, and a disconnected
\* peer's ring is empty.
RingOf(n) ==
    /\ overflow[n] = {}
    /\ unchecked[n] \subseteq peers[n]
    /\ phase[n] # "resend" => unchecked[n] = {}
    /\ \A p \in Node :
         /\ Len(sent[n][p]) <= SentCap
         /\ p \notin peers[n] => sent[n][p] = <<>>
         /\ popping[n][p] <= Len(sent[n][p])
         /\ popping[n][p] > 0 => p \in unchecked[n]
         /\ ~limitReached[n] /\ p \notin unchecked[n] => Len(sent[n][p]) < SentCap

RingInv == \A n \in Node : RingOf(n)

\* A request's nCountA is the number of peers that have not acknowledged it, and
\* every entry a peer has not acknowledged points at a request the ring still
\* holds: a slot is never handed out while it may have to be sent again.
RequestsHeld == \A n \in Node :
    /\ \A p \in Node : \A i \in 1..Len(sent[n][p]) :
         ~sent[n][p][i].done => InUse(n, sent[n][p][i].slot)
    /\ \A s \in RequestSlot : InUse(n, s) =>
         requests[n][s].nCountA = Cardinality({p \in Node :
            \E i \in 1..Len(sent[n][p]) :
               ~sent[n][p][i].done /\ sent[n][p][i].slot = s})

\* The packet last numbered for p that went out under the number seq, 0 if none
\* did: numbers are used again once they have wrapped.
LastUnder(n, p, seq) ==
    LET under == {k \in 1..Len(sentLog[n][p]) : (k - 1) % SeqMod = seq}
    IN IF under = {} THEN 0 ELSE CHOOSE k \in under : \A j \in under : j <= k

\* A packet marked as acknowledged was received: it is dispatched or waits in
\* the peer's window.
AckedWasReceived == \A n, p \in Node : n \in peers[p] =>
    \A i \in 1..Len(sent[n][p]) : sent[n][p][i].done =>
        \/ LastUnder(n, p, sent[n][p][i].seq) \in 1..Len(delivered[p][n])
        \/ \E j \in 1..Len(window[p][n]) :
              window[p][n][j] # Gap /\ window[p][n][j].seq = sent[n][p][i].seq

\* What an unacknowledged entry sends again, under the number it holds, is the
\* packet that last went out under that number.
ResendsTheSamePacket == \A n, p \in Node : \A i \in 1..Len(sent[n][p]) :
    LET e == sent[n][p][i]
        k == LastUnder(n, p, e.seq)
    IN ~e.done => k # 0 /\ requests[n][e.slot].rel = sentLog[n][p][k]

\* The messages of one queue are dispatched in the order they were accepted and
\* none is left out; only messages of different queues overtake each other.
QueueInOrder == \A n, p \in Node : \A i \in 1..Len(delivered[p][n]) :
    \A k \in 1..Len(delivered[p][n][i]) :
        LET m == delivered[p][n][i][k]
        IN m.num > 1 => \E j \in 1..i : \E l \in 1..Len(delivered[p][n][j]) :
              /\ delivered[p][n][j][l] = [m EXCEPT !.num = @ - 1]
              /\ j < i \/ l < k

\* Whatever is lost, all that was numbered is dispatched in the end: the players
\* accept finitely many messages, so once no new one comes the logs must meet.
NumberedIsDelivered ==
    []<>(\A n, p \in Node : Len(delivered[p][n]) = Len(sentLog[n][p]))

\* The debug text of SendMessagePriority calls the queue "Guaranteed": what it
\* accepted reaches every member.
GuaranteedIsDelivered == \A n \in Node, q \in Queue : \A k \in 1..MaxMessages[n][q] :
    (submitted[n][q] >= k) ~>
        \A p \in Members(n, q) : \E i \in 1..Len(delivered[p][n]) :
            \E l \in 1..Len(delivered[p][n][i]) :
                /\ delivered[p][n][i][l].queue = q
                /\ delivered[p][n][i][l].num = k

\* Dispatched packets are a prefix of the numbered ones, as ReliableChannel says.
Channel == INSTANCE ReliableChannel WITH Player <- Node
ImplementsChannel == Channel!Spec
=============================================================================
