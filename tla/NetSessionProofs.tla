-------------------------- MODULE NetSessionProofs --------------------------
(***************************************************************************)
(* Proofs about NetSession, for every number of players and every size:    *)
(* type correctness, that no send ring ever overflows, and that no slot of *)
(* the request ring is handed out while a resend may need it.              *)
(***************************************************************************)
EXTENDS NetSession, FiniteSetTheorems, SequenceTheorems, TLAPS

(* Sequences and counts *)

\* A function on 1..m is a sequence of length m.
LEMMA FunctionIsSeq ==
    ASSUME NEW S, NEW m \in Nat, NEW f \in [1..m -> S]
    PROVE  f \in Seq(S) /\ Len(f) = m
BY SeqDef

\* Taking entries from the front of a sequence, or from its end.
LEMMA SubSeqType ==
    ASSUME NEW S, NEW s \in Seq(S), NEW i \in Nat \ {0}, NEW j \in 0..Len(s)
    PROVE  /\ SubSeq(s, i, j) \in Seq(S)
           /\ Len(SubSeq(s, i, j)) = IF i <= j THEN j - i + 1 ELSE 0
<1>1. \A k \in i..j : s[k] \in S  BY ElementOfSeq
<1> QED  BY <1>1, SubSeqProperties

\* The newest entry of a ring is put in front.
LEMMA PrependType ==
    ASSUME NEW S, NEW s \in Seq(S), NEW e \in S
    PROVE  <<e>> \o s \in Seq(S) /\ Len(<<e>> \o s) = Len(s) + 1
<1>1. <<e>> \in Seq(S) /\ Len(<<e>>) = 1  OBVIOUS
<1> QED  BY <1>1, ConcatProperties

LEMMA SeqOfMore ==
    ASSUME NEW S, NEW s \in Seq(S), NEW e
    PROVE  s \in Seq(S \cup {e})
<1>1. s \in [1..Len(s) -> S] /\ Len(s) \in Nat  BY LenProperties
<1>2. s \in [1..Len(s) -> S \cup {e}]  BY <1>1
<1> QED  BY <1>1, <1>2, SeqDef

\* What Trimmed, Ready and Expired count are places of a bounded range.
LEMMA BoundedCount ==
    ASSUME NEW T, IsFiniteSet(T), NEW m \in Nat, Cardinality(T) = m,
           NEW S, S \subseteq T
    PROVE  Cardinality(S) \in 0..m
<1>1. IsFiniteSet(S) /\ Cardinality(S) <= Cardinality(T)  BY FS_Subset
<1>2. Cardinality(S) \in Nat  BY <1>1, FS_CardinalityType
<1> QED  BY <1>1, <1>2

LEMMA CountFromOne ==
    ASSUME NEW m \in Nat, NEW S, S \subseteq 1..m
    PROVE  Cardinality(S) \in 0..m
<1>1. IsFiniteSet(1..m) /\ Cardinality(1..m) = IF 1 > m THEN 0 ELSE m - 1 + 1
  BY FS_Interval
<1>2. Cardinality(1..m) = m  BY <1>1
<1> QED  BY <1>1, <1>2, BoundedCount

LEMMA CountFromZero ==
    ASSUME NEW m \in Nat, NEW S, S \subseteq 0..(m - 1)
    PROVE  Cardinality(S) \in 0..m
<1>1. /\ IsFiniteSet(0..(m - 1))
      /\ Cardinality(0..(m - 1)) = IF 0 > m - 1 THEN 0 ELSE (m - 1) - 0 + 1
  BY FS_Interval
<1>2. Cardinality(0..(m - 1)) = m  BY <1>1
<1> QED  BY <1>1, <1>2, BoundedCount

LEMMA TrimmedType ==
    ASSUME NEW n, NEW reqs, NEW count \in Nat
    PROVE  Trimmed(n, reqs, count) \in 0..count
<1> DEFINE S == {k \in 0..(count - 1) :
                   \E j \in k..(count - 1) : reqs[SlotAt(n, j)].nCountA > 0}
<1>1. S \subseteq 0..(count - 1)  OBVIOUS
<1> HIDE DEF S
<1>2. Cardinality(S) \in 0..count  BY <1>1, CountFromZero
<1> QED  BY <1>2 DEF Trimmed, S

LEMMA ReadyType ==
    ASSUME NEW S, NEW win \in Seq(S)
    PROVE  Ready(win) \in 0..Len(win)
<1> DEFINE T == {k \in 1..Len(win) : \A i \in 1..k : win[i] # Gap}
<1>1. T \subseteq 1..Len(win) /\ Len(win) \in Nat  OBVIOUS
<1> HIDE DEF T
<1>2. Cardinality(T) \in 0..Len(win)  BY <1>1, CountFromOne
<1> QED  BY <1>2 DEF Ready, T

LEMMA ExpiredType ==
    ASSUME NEW S, NEW ring \in Seq(S), NEW fresh
    PROVE  Expired(ring, fresh) \in 0..Len(ring)
<1> DEFINE T == {i \in 1..Len(ring) :
                   \E j \in 1..i : ring[j].done \/ j > fresh}
<1>1. T \subseteq 1..Len(ring) /\ Len(ring) \in Nat  OBVIOUS
<1> HIDE DEF T
<1>2. Cardinality(T) \in 0..Len(ring)  BY <1>1, CountFromOne
<1> QED  BY <1>2 DEF Expired, T

-----------------------------------------------------------------------------
(* Type correctness, one lemma per action *)

LEMMA SentCapType == SentCap \in Nat \ {0} /\ SentCap < SentSlots
BY SizeAssumption DEF SentCap


LEMMA UnchangedTypes ==
    ASSUME TypeOK
    PROVE  /\ UNCHANGED queueVars => QueueTypes'
           /\ UNCHANGED requestVars => RequestTypes'
           /\ UNCHANGED sentVars => SentTypes'
           /\ UNCHANGED recvVars => RecvTypes'
           /\ UNCHANGED frameVars => FrameTypes'
           /\ UNCHANGED peerVars => PeerTypes'
<1>1. UNCHANGED queueVars => QueueTypes'  BY DEF TypeOK, QueueTypes, queueVars
<1>2. UNCHANGED requestVars => RequestTypes'
  BY DEF TypeOK, RequestTypes, requestVars
<1>3. UNCHANGED sentVars => SentTypes'  BY DEF TypeOK, SentTypes, sentVars
<1>4. UNCHANGED recvVars => RecvTypes'  BY DEF TypeOK, RecvTypes, recvVars
<1>5. UNCHANGED frameVars => FrameTypes'  BY DEF TypeOK, FrameTypes, frameVars
<1>6. UNCHANGED peerVars => PeerTypes'  BY DEF TypeOK, PeerTypes, peerVars
<1> QED  BY <1>1, <1>2, <1>3, <1>4, <1>5, <1>6

\* Changing one place of a table keeps the type of the table.
LEMMA ExceptType ==
    ASSUME NEW A, NEW S, NEW f \in [A -> S], NEW x \in A, NEW e \in S
    PROVE  [f EXCEPT ![x] = e] \in [A -> S]
OBVIOUS

LEMMA ExceptTwiceType ==
    ASSUME NEW A, NEW B, NEW S, NEW f \in [A -> [B -> S]],
           NEW x \in A, NEW y \in B, NEW e \in S
    PROVE  [f EXCEPT ![x][y] = e] \in [A -> [B -> S]]
OBVIOUS

LEMMA InitType == Init => TypeOK
<1> SUFFICES ASSUME Init PROVE TypeOK  OBVIOUS
<1>1. QueueTypes  BY DEF Init, QueueTypes
<1>2. RequestTypes
  <2>1. [nCountA |-> 0, rel |-> <<>>] \in Request  BY DEF Request
  <2> QED  BY <2>1, SizeAssumption DEF Init, RequestTypes, RequestSlot
<1>3. SentTypes  BY SizeAssumption DEF Init, SentTypes, SeqNum
<1>4. RecvTypes  BY SizeAssumption DEF Init, RecvTypes, SeqNum
<1>5. FrameTypes /\ PeerTypes  BY DEF Init, FrameTypes, PeerTypes
<1> QED  BY <1>1, <1>2, <1>3, <1>4, <1>5 DEF Init, TypeOK

LEMMA SendMessagePriorityType ==
    ASSUME TypeOK, NEW n \in Node, NEW q \in Queue, SendMessagePriority(n, q)
    PROVE  TypeOK'
<1> USE DEF SendMessagePriority
<1>1. QueueTypes'
  <2>1. QueueTypes  BY DEF TypeOK
  <2>2. [from |-> n, queue |-> q, num |-> submitted[n][q] + 1] \in Message
    BY <2>1 DEF QueueTypes, Message
  <2>3. prio[n][q] \in Seq(Message) /\ submitted[n][q] + 1 \in Nat
    BY <2>1 DEF QueueTypes
  <2>4. Append(prio[n][q], [from |-> n, queue |-> q, num |-> submitted[n][q] + 1])
          \in Seq(Message)
    BY <2>2, <2>3, AppendProperties
  <2> DEFINE m == [from |-> n, queue |-> q, num |-> submitted[n][q] + 1]
  <2>5. \/ prio' = prio /\ submitted' = submitted
        \/ /\ prio' = [prio EXCEPT ![n][q] = Append(prio[n][q], m)]
           /\ submitted' = [submitted EXCEPT ![n][q] = submitted[n][q] + 1]
    OBVIOUS
  <2> HIDE DEF m, SendMessagePriority
  <2>6. [prio EXCEPT ![n][q] = Append(prio[n][q], m)]
           \in [Node -> [Queue -> Seq(Message)]]
    BY <2>1, <2>4, ExceptTwiceType DEF QueueTypes, m
  <2>7. [submitted EXCEPT ![n][q] = submitted[n][q] + 1] \in [Node -> [Queue -> Nat]]
    BY <2>1, <2>3, ExceptTwiceType DEF QueueTypes
  <2>8. /\ prio' \in [Node -> [Queue -> Seq(Message)]]
        /\ submitted' \in [Node -> [Queue -> Nat]]
    BY <2>1, <2>5, <2>6, <2>7 DEF QueueTypes
  <2> QED  BY <2>1, <2>8 DEF QueueTypes, SendMessagePriority
<1>2. PeerTypes'  BY DEF TypeOK, PeerTypes
<1> QED  BY <1>1, <1>2, UnchangedTypes DEF TypeOK

LEMMA AppendedType ==
    ASSUME NEW S, NEW buffer \in Seq(S), NEW m \in S
    PROVE  Appended(buffer, m) \in Seq(S)
BY DEF Appended

LEMMA SendMessageType ==
    ASSUME TypeOK, NEW n \in Node, NEW p \in Node, SendMessage(n, p)
    PROVE  TypeOK'
<1>1. plain' = [plain EXCEPT ![n][p] = Appended(plain[n][p], Data)]  BY DEF SendMessage
<1>2. plain \in [Node -> [Node -> Seq(Ack \cup {Data})]]  BY DEF TypeOK, QueueTypes
<1>3. Appended(plain[n][p], Data) \in Seq(Ack \cup {Data})  BY <1>2, AppendedType
<1>4. plain' \in [Node -> [Node -> Seq(Ack \cup {Data})]]  BY <1>1, <1>2, <1>3, ExceptTwiceType
<1>6. UNCHANGED <<prio, submitted>>  BY DEF SendMessage
<1>7. plainSent' = [plainSent EXCEPT ![n] = plainSent[n] + 1]  BY DEF SendMessage
<1>8. plainSent \in [Node -> Nat]  BY DEF TypeOK, QueueTypes
<1>9. plainSent' \in [Node -> Nat]  BY <1>7, <1>8
<1>5. QueueTypes'  BY <1>4, <1>6, <1>9 DEF TypeOK, QueueTypes
<1> QED  BY <1>5, UnchangedTypes DEF TypeOK, SendMessage

\* A request that one peer less has to acknowledge.
LEMMA LessOwedType ==
    ASSUME RequestTypes, NEW n \in Node, NEW s \in RequestSlot
    PROVE  [requests[n][s] EXCEPT !.nCountA = @ - 1] \in Request
<1>1. requests[n][s] \in Request  BY DEF RequestTypes
<1>2. ASSUME NEW r \in Request PROVE [r EXCEPT !.nCountA = @ - 1] \in Request
  BY DEF Request
<1> QED  BY <1>1, <1>2

LEMMA GivenBackType ==
    ASSUME RequestTypes, NEW n \in Node, NEW slots
    PROVE  GivenBack(n, slots) \in [RequestSlot -> Request]
BY LessOwedType DEF RequestTypes, GivenBack

LEMMA DisconnectPeerType ==
    ASSUME TypeOK, NEW n \in Node, NEW p \in Node, DisconnectPeer(n, p)
    PROVE  TypeOK'
<1> USE DEF DisconnectPeer
<1>1. RequestTypes'
  <2>1. RequestTypes  BY DEF TypeOK
  <2>2. Cleared(n, p) \in [RequestSlot -> Request]
    BY <2>1, GivenBackType DEF Cleared
  <2>3. Trimmed(n, Cleared(n, p), sendCount[n]) \in 0..SentSlots
    BY <2>1, TrimmedType, SizeAssumption DEF RequestTypes
  <2>4. requests' \in [Node -> [RequestSlot -> Request]]
    BY <2>1, <2>2, ExceptType DEF RequestTypes
  <2>5. sendCount' \in [Node -> 0..SentSlots]
    BY <2>1, <2>3, ExceptType DEF RequestTypes
  <2> QED  BY <2>1, <2>4, <2>5 DEF RequestTypes
<1>2. SentTypes'
  <2>1. sent' \in [Node -> [Node -> Seq(Entry)]]
    BY ExceptTwiceType, EmptySeq DEF TypeOK, SentTypes
  <2> QED  BY <2>1 DEF TypeOK, SentTypes
<1>3. RecvTypes'
  <2>1. window' \in [Node -> [Node -> Seq(Packet \cup {Gap})]]
    BY ExceptTwiceType, EmptySeq DEF TypeOK, RecvTypes
  <2> QED  BY <2>1 DEF TypeOK, RecvTypes
<1>4. PeerTypes'  BY DEF TypeOK, PeerTypes
<1> QED  BY <1>1, <1>2, <1>3, <1>4, UnchangedTypes DEF TypeOK

LEMMA ModType ==
    ASSUME NEW x \in Int, NEW m \in Nat \ {0}
    PROVE  x % m \in 0..(m - 1)
OBVIOUS

LEMMA DeltaType ==
    ASSUME NEW seq \in SeqNum, NEW ack \in SeqNum
    PROVE  Delta(seq, ack) \in Int
<1>1. (seq - ack) % SeqMod \in SeqNum
  BY ModType, SizeAssumption DEF SeqNum
<1> QED  BY <1>1, SizeAssumption DEF Delta, SeqNum

LEMMA StoredType ==
    ASSUME NEW win \in Seq(Packet \cup {Gap}), NEW delta \in Nat, NEW d \in Datagram
    PROVE  Stored(win, delta, d) \in Seq(Packet \cup {Gap})
<1> DEFINE S == Packet \cup {Gap}
           pkt == [seq |-> d.seq, rel |-> d.rel]
<1>1. pkt \in S  BY DEF Datagram, Packet
<1> HIDE DEF S, pkt
<1>2. CASE delta < Len(win)
  <2>1. win \in Seq(S) /\ delta + 1 \in 1..Len(win)  BY <1>2 DEF S
  <2>2. [win EXCEPT ![delta + 1] = pkt] \in Seq(S)  BY <1>1, <2>1, ExceptSeq
  <2> QED  BY <1>2, <2>1, <2>2 DEF Stored, S, pkt
<1>3. CASE ~(delta < Len(win))
  <2> DEFINE f == [i \in 1..(delta + 1) |->
                     IF i <= Len(win) THEN win[i] ELSE IF i <= delta THEN Gap ELSE pkt]
  <2>1. \A i \in 1..Len(win) : win[i] \in S  BY ElementOfSeq DEF S
  <2>2. Gap \in S  BY DEF S
  <2>3. f \in [1..(delta + 1) -> S]  BY <1>1, <2>1, <2>2
  <2> HIDE DEF f
  <2>4. f \in Seq(S)  BY <2>3, FunctionIsSeq
  <2> QED  BY <1>3, <2>4 DEF Stored, S, pkt, f
<1> QED  BY <1>2, <1>3

LEMMA HandleAckRecvType ==
    ASSUME RequestTypes, SentTypes, NEW n \in Node, NEW p \in Node, NEW ack,
           HandleAckRecv(n, p, ack)
    PROVE  /\ sent' \in [Node -> [Node -> Seq(Entry)]]
           /\ requests' \in [Node -> [RequestSlot -> Request]]
<1> DEFINE marked == Acked(sent[n][p], ack)
           ring == [i \in 1..Len(sent[n][p]) |->
                      IF i \in marked THEN [sent[n][p][i] EXCEPT !.done = TRUE]
                                      ELSE sent[n][p][i]]
           reqs == GivenBack(n, {sent[n][p][i].slot : i \in marked})
<1>1. sent' = [sent EXCEPT ![n][p] = ring]
  BY DEF HandleAckRecv
<1>2. requests' = [requests EXCEPT ![n] = reqs]
  BY DEF HandleAckRecv
<1>3. ring \in Seq(Entry)
  <2>1. sent[n][p] \in Seq(Entry) /\ Len(sent[n][p]) \in Nat  BY DEF SentTypes
  <2>2. ASSUME NEW e \in Entry PROVE [e EXCEPT !.done = TRUE] \in Entry
    BY DEF Entry
  <2>3. ring \in [1..Len(sent[n][p]) -> Entry]
    BY <2>1, <2>2, ElementOfSeq
  <2> HIDE DEF ring
  <2> QED  BY <2>1, <2>3, FunctionIsSeq
<1>4. reqs \in [RequestSlot -> Request]
  BY GivenBackType
<1> HIDE DEF ring, reqs
<1>5. sent' \in [Node -> [Node -> Seq(Entry)]]
  BY <1>1, <1>3, ExceptTwiceType DEF SentTypes
<1>6. requests' \in [Node -> [RequestSlot -> Request]]
  BY <1>2, <1>4, ExceptType DEF RequestTypes
<1> QED  BY <1>5, <1>6

LEMMA RecvPacketType ==
    ASSUME TypeOK, NEW n \in Node, NEW d \in net, RecvPacket(n, d)
    PROVE  TypeOK'
<1> DEFINE p == d.src
           delta == Delta(d.seq, lastAck[n][p])
           inside == d.rel # <<>> /\ delta >= 0 /\ delta + 1 < Window
           ack == [kind |-> "ack", seq |-> d.seq, again |-> d.again]
<1> USE DEF RecvPacket
<1>1. d \in Datagram /\ p \in Node /\ d.seq \in SeqNum
  BY DEF TypeOK, Datagram
<1>2. delta \in Int
  <2>1. lastAck[n][p] \in SeqNum  BY <1>1 DEF TypeOK, RecvTypes
  <2> QED  BY <1>1, <2>1, DeltaType
<1>3. QueueTypes'
  <2>1. QueueTypes  BY DEF TypeOK
  <2>2. ack \in Ack  BY <1>1 DEF Ack, Datagram, SeqNum
  <2>3. plain[n][p] \in Seq(Ack \cup {Data})  BY <1>1, <2>1 DEF QueueTypes
  <2>4. Appended(plain[n][p], ack) \in Seq(Ack \cup {Data})
    BY <2>2, <2>3, AppendedType
  <2>5. \/ plain' = plain
        \/ plain' = [plain EXCEPT ![n][p] = Appended(plain[n][p], ack)]
    OBVIOUS
  <2>6. UNCHANGED <<prio, submitted, plainSent>>  OBVIOUS
  <2> HIDE DEF ack, p, RecvPacket
  <2>7. [plain EXCEPT ![n][p] = Appended(plain[n][p], ack)]
           \in [Node -> [Node -> Seq(Ack \cup {Data})]]
    BY <1>1, <2>1, <2>4, ExceptTwiceType DEF QueueTypes
  <2>8. plain' \in [Node -> [Node -> Seq(Ack \cup {Data})]]
    BY <2>1, <2>5, <2>7 DEF QueueTypes
  <2> QED  BY <2>1, <2>6, <2>8 DEF QueueTypes
<1>4. RequestTypes' /\ SentTypes'
  <2>1. RequestTypes /\ SentTypes  BY DEF TypeOK
  <2>2. \/ HandleAckRecv(n, p, d.msg[1])
        \/ UNCHANGED <<sent, requests>>
    OBVIOUS
  <2>3. UNCHANGED <<sendIndex, sendCount, limitReached, overflow, nextSeq, sentLog>>
    OBVIOUS
  <2> HIDE DEF p, RecvPacket
  <2>4. /\ sent' \in [Node -> [Node -> Seq(Entry)]]
        /\ requests' \in [Node -> [RequestSlot -> Request]]
    BY <1>1, <2>1, <2>2, HandleAckRecvType DEF RequestTypes, SentTypes
  <2> QED  BY <2>1, <2>3, <2>4 DEF RequestTypes, SentTypes
<1>5. RecvTypes'
  <2>1. RecvTypes  BY DEF TypeOK
  <2>2. window[n][p] \in Seq(Packet \cup {Gap})  BY <1>1, <2>1 DEF RecvTypes
  <2>3. \/ window' = window
        \/ delta >= 0 /\ window' = [window EXCEPT ![n][p] = Stored(window[n][p], delta, d)]
    OBVIOUS
  <2>4. UNCHANGED <<lastAck, delivered>>  OBVIOUS
  <2> HIDE DEF p, delta, RecvPacket
  <2>5. ASSUME delta >= 0
        PROVE  [window EXCEPT ![n][p] = Stored(window[n][p], delta, d)]
                  \in [Node -> [Node -> Seq(Packet \cup {Gap})]]
    <3>1. delta \in Nat  BY <1>2, <2>5
    <3>2. Stored(window[n][p], delta, d) \in Seq(Packet \cup {Gap})
      BY <1>1, <2>2, <3>1, StoredType
    <3> QED  BY <1>1, <2>1, <3>2, ExceptTwiceType DEF RecvTypes
  <2>6. window' \in [Node -> [Node -> Seq(Packet \cup {Gap})]]
    BY <2>1, <2>3, <2>5 DEF RecvTypes
  <2> QED  BY <2>1, <2>4, <2>6 DEF RecvTypes
<1>6. FrameTypes'  BY DEF TypeOK, FrameTypes
<1>7. net' \in SUBSET Datagram  BY DEF TypeOK
<1>8. PeerTypes'  BY UnchangedTypes
<1> QED  BY <1>3, <1>4, <1>5, <1>6, <1>7, <1>8 DEF TypeOK

LEMMA LoseType ==
    ASSUME TypeOK, NEW d \in net, Lose(d)
    PROVE  TypeOK'
BY UnchangedTypes DEF TypeOK, Lose

LEMMA FinishReceiveType ==
    ASSUME TypeOK, NEW n \in Node, FinishReceive(n)
    PROVE  TypeOK'
<1> DEFINE take(p) == IF p \in peers[n] /\ ~hasError[n] THEN Ready(window[n][p]) ELSE 0
           rels(p) == [i \in 1..take(p) |-> window[n][p][i].rel]
           Win == Packet \cup {Gap}
<1> USE DEF FinishReceive
<1>1. RecvTypes  BY DEF TypeOK
<1>2. ASSUME NEW p \in Node
      PROVE  /\ window[n][p] \in Seq(Win) /\ take(p) \in 0..Len(window[n][p])
             /\ \A i \in 1..take(p) : window[n][p][i] \in Win
  <2>1. window[n][p] \in Seq(Win)  BY <1>1 DEF RecvTypes
  <2>2. take(p) \in 0..Len(window[n][p])  BY <2>1, ReadyType
  <2>3. \A i \in 1..take(p) : window[n][p][i] \in Win
    BY <2>1, <2>2, ElementOfSeq
  <2> QED  BY <2>1, <2>2, <2>3
<1>3. ASSUME NEW p \in Node
      PROVE  delivered[n][p] \o rels(p) \in Seq(Seq(Message))
  <2>1. ASSUME NEW x \in Win PROVE x.rel \in Seq(Message)
    <3>1. CASE x \in Packet  BY <3>1 DEF Packet
    <3>2. CASE x = Gap  BY <3>2, EmptySeq DEF Gap
    <3> QED  BY <3>1, <3>2
  <2>2. rels(p) \in [1..take(p) -> Seq(Message)] /\ take(p) \in Nat
    BY <1>2, <2>1
  <2>3. rels(p) \in Seq(Seq(Message))  BY <2>2, FunctionIsSeq
  <2>4. delivered[n][p] \in Seq(Seq(Message))  BY <1>1 DEF RecvTypes
  <2> QED  BY <2>3, <2>4, ConcatProperties
<1>4. ASSUME NEW p \in Node
      PROVE  SubSeq(window[n][p], take(p) + 1, Len(window[n][p])) \in Seq(Win)
  <2>1. take(p) + 1 \in Nat \ {0} /\ Len(window[n][p]) \in 0..Len(window[n][p])
    BY <1>2
  <2> QED  BY <1>2, <2>1, SubSeqType
<1>5. ASSUME NEW p \in Node, take(p) > 0
      PROVE  (window[n][p][take(p)].seq + 1) % SeqMod \in SeqNum
  <2>1. ASSUME NEW x \in Win PROVE x.seq + 1 \in Int
    BY DEF Packet, Gap, SeqNum
  <2>2. window[n][p][take(p)].seq + 1 \in Int  BY <1>2, <1>5, <2>1
  <2> QED  BY <2>2, ModType, SizeAssumption DEF SeqNum
<1>6. RecvTypes'
  <2>1. delivered' \in [Node -> [Node -> Seq(Seq(Message))]]
    BY <1>1, <1>3 DEF RecvTypes
  <2>2. lastAck' \in [Node -> [Node -> SeqNum]]
    BY <1>1, <1>5 DEF RecvTypes
  <2>3. window' \in [Node -> [Node -> Seq(Win)]]
    BY <1>1, <1>4 DEF RecvTypes
  <2> QED  BY <2>1, <2>2, <2>3 DEF RecvTypes
<1>7. RequestTypes'
  <2>1. RequestTypes  BY DEF TypeOK
  <2>2. Trimmed(n, requests[n], sendCount[n]) \in 0..SentSlots
    BY <2>1, TrimmedType, SizeAssumption DEF RequestTypes
  <2>3. sendCount' \in [Node -> 0..SentSlots]
    BY <2>1, <2>2, ExceptType DEF RequestTypes
  <2> QED  BY <2>1, <2>3 DEF RequestTypes
<1>8. SentTypes'  BY DEF TypeOK, SentTypes
<1>9. FrameTypes'
  BY DEF TypeOK, FrameTypes, PeerTypes
<1> QED  BY <1>6, <1>7, <1>8, <1>9, UnchangedTypes DEF TypeOK

LEMMA PeerCheckedType ==
    ASSUME TypeOK, NEW n \in Node, NEW p \in Node, NEW ring, NEW full \in BOOLEAN,
           PeerChecked(n, p, ring, full)
    PROVE  /\ limitReached' \in [Node -> BOOLEAN]
           /\ unchecked' \in [Node -> SUBSET Node]
           /\ phase' \in [Node -> {"idle", "recv", "resend", "send"}]
BY DEF PeerChecked, TypeOK, SentTypes, FrameTypes

LEMMA CheckPeerType ==
    ASSUME TypeOK, NEW n \in Node, NEW p \in Node, CheckPeer(n, p)
    PROVE  TypeOK'
<1>1. PICK fresh \in 0..Len(sent[n][p]) :
        LET k == IF p \in overflow[n] THEN 0 ELSE Expired(sent[n][p], fresh)
        IN IF k = 0
           THEN /\ UNCHANGED <<popping, overflow>>
                /\ PeerChecked(n, p, sent[n][p], FALSE)
           ELSE /\ popping' = [popping EXCEPT ![n][p] = k]
                /\ UNCHANGED <<limitReached, unchecked, phase, overflow>>
  BY DEF CheckPeer
<1> DEFINE k == IF p \in overflow[n] THEN 0 ELSE Expired(sent[n][p], fresh)
<1>2. /\ UNCHANGED <<queueVars, requestVars, sent, nextSeq, sentLog, recvVars>>
      /\ UNCHANGED <<peerVars, net, overflow>>
  BY <1>1 DEF CheckPeer
<1>3. k \in Nat
  <2>1. sent[n][p] \in Seq(Entry)  BY DEF TypeOK, SentTypes
  <2> QED  BY <2>1, ExpiredType
<1>4. CASE k = 0
  <2>1. UNCHANGED popping /\ PeerChecked(n, p, sent[n][p], FALSE)  BY <1>1, <1>4
  <2>2. FrameTypes' /\ SentTypes'
    BY <1>2, <2>1, PeerCheckedType DEF TypeOK, SentTypes, FrameTypes
  <2> QED  BY <1>2, <2>2, UnchangedTypes DEF TypeOK
<1>5. CASE k # 0
  <2>1. /\ popping' = [popping EXCEPT ![n][p] = k]
        /\ UNCHANGED <<limitReached, unchecked, phase>>
    BY <1>1, <1>5
  <2> HIDE DEF k
  <2>2. popping' \in [Node -> [Node -> Nat]]
    BY <1>3, <2>1, ExceptTwiceType DEF TypeOK, FrameTypes
  <2>3. FrameTypes'  BY <2>1, <2>2 DEF TypeOK, FrameTypes
  <2>4. SentTypes'  BY <1>2, <2>1 DEF TypeOK, SentTypes
  <2> QED  BY <1>2, <2>3, <2>4, UnchangedTypes DEF TypeOK
<1> QED  BY <1>4, <1>5

LEMMA TransmitType ==
    ASSUME net \in SUBSET Datagram, NEW ds \in SUBSET Datagram, Transmit(ds)
    PROVE  net' \in SUBSET Datagram
BY DEF Transmit

LEMMA EndSendType ==
    ASSUME TypeOK, NEW n \in Node, EndSend(n)
    PROVE  TypeOK'
<1>1. FrameTypes'  BY DEF EndSend, TypeOK, FrameTypes
<1> QED  BY <1>1, UnchangedTypes DEF EndSend, TypeOK

\* What a turn of the loop leaves of the ring: one entry less, or the same one
\* in front.  The end of the ring is there when it has an entry.
LEMMA PopType ==
    ASSUME NEW ring \in Seq(Entry), Len(ring) > 0
    PROVE  /\ ring[Len(ring)] \in Entry
           /\ SubSeq(ring, 1, Len(ring) - 1) \in Seq(Entry)
           /\ Len(SubSeq(ring, 1, Len(ring) - 1)) = Len(ring) - 1
           /\ <<ring[Len(ring)]>> \o SubSeq(ring, 1, Len(ring) - 1) \in Seq(Entry)
           /\ Len(<<ring[Len(ring)]>> \o SubSeq(ring, 1, Len(ring) - 1)) = Len(ring)
<1>1. Len(ring) \in Nat /\ Len(ring) \in 1..Len(ring)  OBVIOUS
<1>2. ring[Len(ring)] \in Entry  BY <1>1, ElementOfSeq
<1>3. Len(ring) - 1 \in 0..Len(ring) /\ 1 \in Nat \ {0}  BY <1>1
<1>4. /\ SubSeq(ring, 1, Len(ring) - 1) \in Seq(Entry)
      /\ Len(SubSeq(ring, 1, Len(ring) - 1)) =
            IF 1 <= Len(ring) - 1 THEN (Len(ring) - 1) - 1 + 1 ELSE 0
  BY <1>3, SubSeqType
<1>5. Len(SubSeq(ring, 1, Len(ring) - 1)) = Len(ring) - 1
  <2>1. ASSUME NEW L \in Nat, L > 0
        PROVE  (IF 1 <= L - 1 THEN (L - 1) - 1 + 1 ELSE 0) = L - 1
    BY <2>1
  <2> QED  BY <1>1, <1>4, <2>1
<1>6. /\ <<ring[Len(ring)]>> \o SubSeq(ring, 1, Len(ring) - 1) \in Seq(Entry)
      /\ Len(<<ring[Len(ring)]>> \o SubSeq(ring, 1, Len(ring) - 1)) =
            Len(SubSeq(ring, 1, Len(ring) - 1)) + 1
  BY <1>2, <1>4, PrependType
<1> QED  BY <1>1, <1>2, <1>4, <1>5, <1>6

LEMMA PopOldestType ==
    ASSUME TypeOK, NEW n \in Node, NEW p \in Node, PopOldest(n, p),
           popping[n][p] <= Len(sent[n][p])
    PROVE  TypeOK'
<1> DEFINE ring  == sent[n][p]
           entry == ring[Len(ring)]
           rest  == SubSeq(ring, 1, Len(ring) - 1)
           room  == Len(rest) < SentCap
           again == ~entry.done /\ room
           ring2 == IF again THEN <<entry>> \o rest ELSE rest
           full  == again /\ Len(ring2) = SentCap
           copy  == [src |-> n, dst |-> p, seq |-> entry.seq, again |-> TRUE,
                     rel |-> requests[n][entry.slot].rel, msg |-> <<>>]
<1>1. /\ popping[n][p] > 0
      /\ popping' = [popping EXCEPT ![n][p] = @ - 1]
      /\ sent' = [sent EXCEPT ![n][p] = ring2]
      /\ overflow' = [overflow EXCEPT ![n] =
            IF entry.done \/ room THEN @ ELSE @ \cup {p}]
      /\ IF again THEN Transmit({copy}) ELSE UNCHANGED net
      /\ IF popping[n][p] = 1
         THEN PeerChecked(n, p, ring2, full)
         ELSE /\ limitReached' = [limitReached EXCEPT ![n] = @ \/ full]
              /\ UNCHANGED <<unchecked, phase>>
      /\ UNCHANGED <<queueVars, requestVars, nextSeq, sentLog, recvVars, peerVars>>
  BY DEF PopOldest
<1>20. ring \in Seq(Entry)  BY DEF TypeOK, SentTypes
<1>21. popping[n][p] \in Nat /\ popping[n][p] > 0
  BY <1>1 DEF TypeOK, FrameTypes
<1>22. Len(ring) \in Nat  BY <1>20
<1>2. ring \in Seq(Entry) /\ Len(ring) \in Nat /\ Len(ring) > 0
  BY <1>20, <1>21, <1>22
<1>3. entry \in Entry /\ ring2 \in Seq(Entry)
  BY <1>2, PopType
<1>4. copy \in Datagram
  <2>1. entry.slot \in RequestSlot /\ entry.seq \in SeqNum
    BY <1>3, SizeAssumption DEF Entry, SeqNum
  <2>2. requests[n][entry.slot].rel \in Seq(Message)
    BY <2>1 DEF TypeOK, RequestTypes, Request
  <2>3. <<>> \in Seq(Ack \cup {Data})  BY EmptySeq
  <2> QED  BY <2>1, <2>2, <2>3 DEF Datagram
<1> HIDE DEF ring2, copy, again, full, entry, room
<1>5. net' \in SUBSET Datagram
  BY <1>1, <1>4, TransmitType DEF TypeOK
<1>6. /\ limitReached' \in [Node -> BOOLEAN]
      /\ unchecked' \in [Node -> SUBSET Node]
      /\ phase' \in [Node -> {"idle", "recv", "resend", "send"}]
  <2>1. full \in BOOLEAN  BY DEF full, again
  <2>2. CASE popping[n][p] = 1  BY <1>1, <2>1, <2>2, PeerCheckedType
  <2>3. CASE popping[n][p] # 1
    BY <1>1, <2>1, <2>3 DEF TypeOK, SentTypes, FrameTypes
  <2> QED  BY <2>2, <2>3
<1>7. SentTypes'
  <2>1. SentTypes  BY DEF TypeOK
  <2>2. sent' \in [Node -> [Node -> Seq(Entry)]]
    BY <1>1, <1>3, <2>1, ExceptTwiceType DEF SentTypes
  <2>3. overflow' \in [Node -> SUBSET Node]  BY <1>1, <2>1 DEF SentTypes
  <2> QED  BY <1>1, <1>6, <2>1, <2>2, <2>3 DEF SentTypes
<1>8. FrameTypes'
  <2>1. popping[n][p] - 1 \in Nat  BY <1>1 DEF TypeOK, FrameTypes
  <2>2. popping' \in [Node -> [Node -> Nat]]
    BY <1>1, <2>1, ExceptTwiceType DEF TypeOK, FrameTypes
  <2> QED  BY <1>6, <2>2 DEF FrameTypes
<1> QED  BY <1>1, <1>5, <1>7, <1>8, UnchangedTypes DEF TypeOK

LEMMA NextSlotType ==
    ASSUME RequestTypes, NEW n \in Node
    PROVE  NextSlot(n) \in RequestSlot
<1>1. sendIndex[n] \in RequestSlot  BY DEF RequestTypes
<1> QED  BY <1>1, SizeAssumption DEF NextSlot, RequestSlot

\* The Guaranteed part of a packet, and what stays in the queue.
LEMMA BatchType ==
    ASSUME NEW S, NEW buffer \in Seq(S)
    PROVE  LET batch == SubSeq(buffer, 1, Least(RelRoom, Len(buffer)))
           IN /\ batch \in Seq(S)
              /\ SubSeq(buffer, Len(batch) + 1, Len(buffer)) \in Seq(S)
<1> DEFINE k == Least(RelRoom, Len(buffer))
           batch == SubSeq(buffer, 1, k)
<1>1. k \in 0..Len(buffer)  BY SizeAssumption DEF Least
<1>2. batch \in Seq(S)  BY <1>1, SubSeqType
<1> HIDE DEF k, batch
<1>3. Len(batch) + 1 \in Nat \ {0}  BY <1>2
<1>4. Len(buffer) \in 0..Len(buffer)  OBVIOUS
<1>5. SubSeq(buffer, Len(batch) + 1, Len(buffer)) \in Seq(S)
  BY <1>3, <1>4, SubSeqType
<1> QED  BY <1>2, <1>5 DEF k, batch

LEMMA SendPacketType ==
    ASSUME TypeOK, NEW n \in Node, SendPacket(n)
    PROVE  TypeOK'
<1>1. PICK j \in 1..Len(QueueOrder) :
         \E fits : Served(n, j) /\ SendPacketOf(n, QueueOrder[j], fits)
  BY DEF SendPacket
<1>a. PICK fits : Served(n, j) /\ SendPacketOf(n, QueueOrder[j], fits)
  BY <1>1
<1> DEFINE q       == QueueOrder[j]
           to      == Members(n, q)
           batch   == SubSeq(prio[n][q], 1, Least(RelRoom, Len(prio[n][q])))
           rel     == IF limitReached[n] THEN <<>> ELSE batch
           carry   == {p \in Node : /\ plain[n][p] # <<>>
                                    /\ IF rel = <<>> THEN p = q ELSE p \in fits}
           tracked == {p \in to : rel # <<>> /\ p \notin overflow[n]
                                             /\ Len(sent[n][p]) < SentCap}
           dropped == {p \in to : rel # <<>> /\ p \notin overflow[n]
                                             /\ Len(sent[n][p]) >= SentCap}
           slot    == NextSlot(n)
           msg(p)  == IF p \in carry THEN <<Head(plain[n][p])>> ELSE <<>>
           first(p) == [src |-> n, dst |-> p, seq |-> nextSeq[n][p],
                        again |-> FALSE, rel |-> rel, msg |-> msg(p)]
           light(p) == [src |-> n, dst |-> p, seq |-> 0,
                        again |-> FALSE, rel |-> <<>>, msg |-> msg(p)]
           entry(p) == [done |-> FALSE, slot |-> slot, seq |-> nextSeq[n][p] % EntryMod]
           out == {first(p) : p \in tracked} \cup
                  {light(p) : p \in {r \in to : rel = <<>> /\ r \in carry}}
<1>2. /\ prio' = [prio EXCEPT ![n][q] = SubSeq(@, Len(rel) + 1, Len(@))]
      /\ plain' = [plain EXCEPT ![n] = [p \in Node |->
                      IF p \in carry THEN Tail(@[p]) ELSE @[p]]]
      /\ requests' = [requests EXCEPT ![n][slot] =
                         [nCountA |-> Cardinality(tracked), rel |-> rel]]
      /\ IF tracked # {}
         THEN /\ sendIndex' = [sendIndex EXCEPT ![n] = slot]
              /\ sendCount' = [sendCount EXCEPT ![n] = @ + 1]
         ELSE UNCHANGED <<sendIndex, sendCount>>
      /\ sent' = [sent EXCEPT ![n] = [p \in Node |->
            IF p \in tracked THEN <<entry(p)>> \o @[p] ELSE @[p]]]
      /\ nextSeq' = [nextSeq EXCEPT ![n] = [p \in Node |->
            IF p \in tracked THEN (@[p] + 1) % SeqMod ELSE @[p]]]
      /\ sentLog' = [sentLog EXCEPT ![n] = [p \in Node |->
            IF p \in tracked THEN Append(@[p], rel) ELSE @[p]]]
      /\ limitReached' = [limitReached EXCEPT ![n] =
            @ \/ \E p \in tracked : Len(sent[n][p]) + 1 = SentCap]
      /\ overflow' = [overflow EXCEPT ![n] = @ \cup dropped]
      /\ Transmit(out)
  BY <1>a DEF SendPacketOf
<1>3. /\ phase' = [phase EXCEPT ![n] = "send"]
      /\ UNCHANGED <<submitted, plainSent, recvVars, unchecked, popping, peerVars>>
  BY DEF SendPacket
<1>4. sendCount[n] < SentSlots  BY <1>a DEF Served, Sendable
<1>5. /\ q \in Queue
      /\ tracked \subseteq Node /\ dropped \subseteq Node /\ to \subseteq Node
  <2>1. q \in Queue  BY OrderAssumption, ElementOfSeq
  <2>2. to \subseteq Node
    BY <2>1 DEF Members, TypeOK, PeerTypes
  <2> QED  BY <2>1, <2>2
<1>6. /\ rel \in Seq(Message)
      /\ SubSeq(prio[n][q], Len(rel) + 1, Len(prio[n][q])) \in Seq(Message)
  <2>1. prio[n][q] \in Seq(Message)  BY <1>5 DEF TypeOK, QueueTypes
  <2>2. CASE ~limitReached[n]  BY <2>1, <2>2, BatchType
  <2>3. CASE limitReached[n]
    <3>1. rel = <<>> /\ Len(rel) + 1 = 1  BY <2>3
    <3>2. Len(prio[n][q]) \in 0..Len(prio[n][q]) /\ 1 \in Nat \ {0}  BY <2>1
    <3>3. SubSeq(prio[n][q], 1, Len(prio[n][q])) \in Seq(Message)
      BY <2>1, <3>2, SubSeqType
    <3> QED  BY <3>1, <3>3, EmptySeq
  <2> QED  BY <2>2, <2>3
<1>7. slot \in RequestSlot  BY NextSlotType DEF TypeOK
<1> HIDE DEF q, batch, rel, slot, to
<1>8. QueueTypes'
  <2>1. QueueTypes  BY DEF TypeOK
  <2>2. prio' \in [Node -> [Queue -> Seq(Message)]]
    BY <1>2, <1>5, <1>6, <2>1, ExceptTwiceType DEF QueueTypes
  <2>3. ASSUME NEW p \in carry PROVE Tail(plain[n][p]) \in Seq(Ack \cup {Data})
    BY <2>1, HeadTailProperties DEF QueueTypes
  <2>4. plain' \in [Node -> [Node -> Seq(Ack \cup {Data})]]
    BY <1>2, <2>1, <2>3 DEF QueueTypes
  <2> QED  BY <1>3, <2>1, <2>2, <2>4 DEF QueueTypes
<1>9. RequestTypes'
  <2>1. RequestTypes  BY DEF TypeOK
  <2>2. Cardinality(tracked) \in Nat
    BY <1>5, NodeAssumption, FS_Subset, FS_CardinalityType
  <2>3. [nCountA |-> Cardinality(tracked), rel |-> rel] \in Request
    BY <1>6, <2>2 DEF Request
  <2>4. requests' \in [Node -> [RequestSlot -> Request]]
    BY <1>2, <1>7, <2>1, <2>3, ExceptTwiceType DEF RequestTypes
  <2>5. sendIndex' \in [Node -> RequestSlot]
    BY <1>2, <1>7, <2>1 DEF RequestTypes
  <2>6. sendCount' \in [Node -> 0..SentSlots]
    BY <1>2, <1>4, <2>1, SizeAssumption DEF RequestTypes
  <2> QED  BY <2>4, <2>5, <2>6 DEF RequestTypes
<1>10. SentTypes'
  <2>1. SentTypes  BY DEF TypeOK
  <2>2. ASSUME NEW p \in Node PROVE <<entry(p)>> \o sent[n][p] \in Seq(Entry)
    <3>0. nextSeq[n][p] \in Int  BY <2>1 DEF SentTypes, SeqNum
    <3>1. nextSeq[n][p] % EntryMod \in 0..(EntryMod - 1)
      BY <3>0, ModType, SizeAssumption
    <3>2. entry(p) \in Entry  BY <1>7, <3>1 DEF Entry
    <3> QED  BY <2>1, <3>2, PrependType DEF SentTypes
  <2>3. sent' \in [Node -> [Node -> Seq(Entry)]]
    <3> HIDE DEF entry, tracked
    <3> QED  BY <1>2, <2>1, <2>2 DEF SentTypes
  <2>4. nextSeq' \in [Node -> [Node -> SeqNum]]
    <3>1. ASSUME NEW p \in Node PROVE (nextSeq[n][p] + 1) % SeqMod \in SeqNum
      <4>1. nextSeq[n][p] + 1 \in Int  BY <2>1 DEF SentTypes, SeqNum
      <4> QED  BY <4>1, ModType, SizeAssumption DEF SeqNum
    <3> HIDE DEF tracked
    <3> QED  BY <1>2, <2>1, <3>1 DEF SentTypes
  <2>5. sentLog' \in [Node -> [Node -> Seq(Seq(Message))]]
    <3>1. ASSUME NEW p \in Node PROVE Append(sentLog[n][p], rel) \in Seq(Seq(Message))
      BY <1>6, <2>1, AppendProperties DEF SentTypes
    <3> HIDE DEF tracked
    <3> QED  BY <1>2, <2>1, <3>1 DEF SentTypes
  <2>6. limitReached' \in [Node -> BOOLEAN] /\ overflow' \in [Node -> SUBSET Node]
    BY <1>2, <1>5, <2>1 DEF SentTypes
  <2> QED  BY <2>3, <2>4, <2>5, <2>6 DEF SentTypes
<1>11. FrameTypes'  BY <1>3 DEF TypeOK, FrameTypes
<1>12. net' \in SUBSET Datagram
  <2>1. ASSUME NEW p \in Node PROVE msg(p) \in Seq(Ack \cup {Data})
    <3>1. plain[n][p] \in Seq(Ack \cup {Data})  BY DEF TypeOK, QueueTypes
    <3>2. p \in carry => Head(plain[n][p]) \in Ack \cup {Data}
      BY <3>1, HeadTailProperties
    <3> HIDE DEF carry
    <3>3. CASE p \in carry
      <4>1. ASSUME NEW x \in Ack \cup {Data} PROVE <<x>> \in Seq(Ack \cup {Data})
        OBVIOUS
      <4> QED  BY <3>2, <3>3, <4>1
    <3>4. CASE p \notin carry  BY <3>4, EmptySeq
    <3> QED  BY <3>3, <3>4
  <2>2. ASSUME NEW p \in Node PROVE first(p) \in Datagram /\ light(p) \in Datagram
    <3>1. nextSeq[n][p] \in SeqNum /\ 0 \in SeqNum
      BY SizeAssumption DEF TypeOK, SentTypes, SeqNum
    <3> HIDE DEF msg
    <3> QED  BY <1>6, <2>1, <3>1, EmptySeq DEF Datagram
  <2>3. out \in SUBSET Datagram
    <3> HIDE DEF first, light, tracked, carry
    <3> QED  BY <1>5, <2>2
  <2> HIDE DEF out
  <2> QED  BY <1>2, <2>3, TransmitType DEF TypeOK
<1> QED
  BY <1>3, <1>8, <1>9, <1>10, <1>11, <1>12, UnchangedTypes DEF TypeOK

-----------------------------------------------------------------------------
(* The send rings, one lemma per action that touches them *)

LEMMA InitRings == Init => RingInv
BY SentCapType DEF Init, RingInv, RingOf

\* A step of one player leaves the rings of the others alone.
LEMMA RingKept ==
    ASSUME NEW m \in Node, RingOf(m),
           sent'[m] = sent[m], overflow'[m] = overflow[m], peers'[m] = peers[m],
           unchecked'[m] = unchecked[m], popping'[m] = popping[m],
           phase'[m] = phase[m], limitReached'[m] = limitReached[m]
    PROVE  RingOf(m)'
BY DEF RingOf

LEMMA RingsUnchanged ==
    ASSUME RingInv, UNCHANGED <<sentVars, frameVars, peers>>
    PROVE  RingInv'
BY RingKept DEF RingInv, sentVars, frameVars

LEMMA DisconnectPeerRings ==
    ASSUME TypeOK, RingInv, NEW n \in Node, NEW p \in Node, DisconnectPeer(n, p)
    PROVE  RingInv'
<1>1. /\ phase[n] # "resend" /\ p \in peers[n]
      /\ peers' = [peers EXCEPT ![n] = @ \ {p}]
      /\ sent' = [sent EXCEPT ![n][p] = <<>>]
      /\ UNCHANGED <<limitReached, overflow, frameVars>>
  BY DEF DisconnectPeer, MayCall
<1>2. ASSUME NEW m \in Node PROVE RingOf(m)'
  <2>1. RingOf(m)  BY DEF RingInv
  <2>2. CASE m # n
    BY <1>1, <2>1, <2>2, RingKept DEF TypeOK, SentTypes, PeerTypes, frameVars
  <2>3. CASE m = n
    <3>1. \A r \in Node : \/ sent'[n][r] = sent[n][r]
                          \/ r = p /\ sent'[n][r] = <<>>
      BY <1>1 DEF TypeOK, SentTypes
    <3>2. /\ unchecked[n] = {} /\ \A r \in Node : popping[n][r] \in Nat
          /\ sent'[n][p] = <<>>
      BY <1>1, <2>1, <2>3 DEF RingOf, TypeOK, FrameTypes, SentTypes
    <3>3. peers'[n] = peers[n] \ {p}  BY <1>1 DEF TypeOK, PeerTypes
    <3> QED
      BY <1>1, <2>1, <2>3, <3>1, <3>2, <3>3, SentCapType DEF RingOf, frameVars
  <2> QED  BY <2>2, <2>3
<1> QED  BY <1>2 DEF RingInv

LEMMA RecvPacketRings ==
    ASSUME TypeOK, RingInv, NEW n \in Node, NEW d \in net, RecvPacket(n, d)
    PROVE  RingInv'
<1>1. /\ phase[n] # "resend" /\ phase' = [phase EXCEPT ![n] = "recv"]
      /\ UNCHANGED <<limitReached, overflow, unchecked, popping, peers>>
      /\ HandleAckRecv(n, d.src, d.msg[1]) \/ UNCHANGED sent
  BY DEF RecvPacket, MayCall, peerVars
<1>2. d.src \in Node  BY DEF TypeOK, Datagram
<1>3. ASSUME NEW m \in Node, NEW r \in Node
      PROVE  Len(sent'[m][r]) = Len(sent[m][r]) /\ (sent[m][r] = <<>> => sent'[m][r] = <<>>)
  <2>1. CASE UNCHANGED sent  BY <2>1
  <2>2. CASE HandleAckRecv(n, d.src, d.msg[1])
    <3> DEFINE f == [i \in 1..Len(sent[n][d.src]) |->
                       IF i \in Acked(sent[n][d.src], d.msg[1])
                       THEN [sent[n][d.src][i] EXCEPT !.done = TRUE]
                       ELSE sent[n][d.src][i]]
    <3>1. sent' = [sent EXCEPT ![n][d.src] = f]  BY <2>2 DEF HandleAckRecv
    <3>2. Len(sent[n][d.src]) \in Nat
      <4>1. ASSUME NEW r1 \in Node PROVE sent[n][r1] \in Seq(Entry)
        BY DEF TypeOK, SentTypes
      <4>2. sent[n][d.src] \in Seq(Entry)  BY <1>2, <4>1
      <4> QED  BY <4>2, LenProperties
    <3>3. Len(f) = Len(sent[n][d.src]) /\ (sent[n][d.src] = <<>> => f = <<>>)
      <4>1. f \in [1..Len(sent[n][d.src]) -> {f[i] : i \in 1..Len(sent[n][d.src])}]
        OBVIOUS
      <4>2. Len(f) = Len(sent[n][d.src]) /\ f \in Seq({f[i] : i \in 1..Len(sent[n][d.src])})
        <5> HIDE DEF f
        <5> QED  BY <3>2, <4>1, FunctionIsSeq
      <4> HIDE DEF f
      <4> QED  BY <4>2, EmptySeq
    <3> HIDE DEF f
    <3>4. \/ sent'[m][r] = sent[m][r]
          \/ m = n /\ r = d.src /\ sent'[m][r] = f
      BY <1>2, <3>1 DEF TypeOK, SentTypes
    <3> QED  BY <3>3, <3>4
  <2> QED  BY <1>1, <2>1, <2>2
<1>4. ASSUME NEW m \in Node PROVE RingOf(m)'
  <2>1. RingOf(m)  BY DEF RingInv
  <2>2. phase'[m] # "resend" => unchecked[m] = {}
    BY <1>1, <2>1 DEF RingOf, TypeOK, FrameTypes
  <2> QED  BY <1>1, <1>3, <2>1, <2>2 DEF RingOf
<1> QED  BY <1>4 DEF RingInv

LEMMA FinishReceiveRings ==
    ASSUME TypeOK, RingInv, NEW n \in Node, FinishReceive(n)
    PROVE  RingInv'
<1> DEFINE todo == {p \in peers[n] : sent[n][p] # <<>>}
<1>1. /\ phase[n] # "resend"
      /\ limitReached' = [limitReached EXCEPT ![n] = FALSE]
      /\ unchecked' = [unchecked EXCEPT ![n] = todo]
      /\ phase' = [phase EXCEPT ![n] = IF todo = {} THEN "idle" ELSE "resend"]
      /\ UNCHANGED <<sent, overflow, popping, peers>>
  BY DEF FinishReceive, FrameMayRun, peerVars
<1>2. ASSUME NEW m \in Node PROVE RingOf(m)'
  <2>1. RingOf(m)  BY DEF RingInv
  <2>2. CASE m # n
    BY <1>1, <2>1, <2>2, RingKept DEF TypeOK, SentTypes, FrameTypes
  <2>3. CASE m = n
    <3>1. /\ unchecked'[n] = todo
          /\ phase'[n] # "resend" => todo = {}
      BY <1>1 DEF TypeOK, FrameTypes
    <3>2. \A p \in Node : popping[n][p] \in Nat /\ ~(popping[n][p] > 0)
      BY <1>1, <2>1, <2>3 DEF RingOf, TypeOK, FrameTypes
    <3>3. \A p \in Node : p \notin todo => Len(sent[n][p]) < SentCap
      BY <2>1, <2>3, SentCapType DEF RingOf
    <3> HIDE DEF todo
    <3>4. todo \subseteq peers[n]  BY DEF todo
    <3> QED  BY <1>1, <2>1, <2>3, <3>1, <3>2, <3>3, <3>4 DEF RingOf
  <2> QED  BY <2>2, <2>3
<1> QED  BY <1>2 DEF RingInv

\* The end of a peer's turn: it may be taken off the unchecked ones, because a
\* full ring raises the flag.
LEMMA PeerCheckedRings ==
    ASSUME TypeOK, NEW n \in Node, NEW p \in Node, RingOf(n),
           phase[n] = "resend", p \in unchecked[n],
           NEW ring \in Seq(Entry), NEW full, Len(ring) <= SentCap,
           PeerChecked(n, p, ring, full),
           peers'[n] = peers[n], overflow'[n] = overflow[n],
           \A r \in Node : /\ sent'[n][r] = IF r = p THEN ring ELSE sent[n][r]
                           /\ popping'[n][r] = IF r = p THEN 0 ELSE popping[n][r]
    PROVE  RingOf(n)'
<1>1. Len(ring) \in Nat /\ SentCap \in Nat  BY SentCapType, LenProperties
<1>2. /\ unchecked'[n] = unchecked[n] \ {p}
      /\ phase'[n] = IF unchecked[n] = {p} THEN "idle" ELSE "resend"
      /\ limitReached[n] => limitReached'[n]
      /\ Len(ring) = SentCap => limitReached'[n]
  BY DEF PeerChecked, TypeOK, FrameTypes, SentTypes, RingOf
<1>3. p \in peers[n]  BY DEF RingOf
<1>4. ASSUME NEW r \in Node
      PROVE  /\ Len(sent'[n][r]) <= SentCap
             /\ r \notin peers'[n] => sent'[n][r] = <<>>
             /\ popping'[n][r] <= Len(sent'[n][r])
             /\ popping'[n][r] > 0 => r \in unchecked'[n]
             /\ ~limitReached'[n] /\ r \notin unchecked'[n]
                  => Len(sent'[n][r]) < SentCap
  <2>1. CASE r = p
    BY <1>1, <1>2, <1>3, <2>1
  <2>2. CASE r # p
    BY <1>2, <2>2 DEF RingOf
  <2> QED  BY <2>1, <2>2
<1>5. /\ overflow'[n] = {} /\ unchecked'[n] \subseteq peers'[n]
      /\ phase'[n] # "resend" => unchecked'[n] = {}
  BY <1>2 DEF RingOf
<1> QED  BY <1>4, <1>5 DEF RingOf

LEMMA CheckPeerRings ==
    ASSUME TypeOK, RingInv, NEW n \in Node, NEW p \in Node, CheckPeer(n, p)
    PROVE  RingInv'
<1>1. PICK fresh \in 0..Len(sent[n][p]) :
        LET k == IF p \in overflow[n] THEN 0 ELSE Expired(sent[n][p], fresh)
        IN IF k = 0
           THEN /\ UNCHANGED <<popping, overflow>>
                /\ PeerChecked(n, p, sent[n][p], FALSE)
           ELSE /\ popping' = [popping EXCEPT ![n][p] = k]
                /\ UNCHANGED <<limitReached, unchecked, phase, overflow>>
  BY DEF CheckPeer
<1> DEFINE k == IF p \in overflow[n] THEN 0 ELSE Expired(sent[n][p], fresh)
<1>2. /\ UNCHANGED <<sent, peers, overflow>>
      /\ phase[n] = "resend" /\ p \in unchecked[n]
      /\ \A r \in Node : popping[n][r] = 0
  BY <1>1 DEF CheckPeer, peerVars
<1>3. /\ sent[n][p] \in Seq(Entry) /\ RingOf(n)
      /\ Len(sent[n][p]) \in Nat /\ Len(sent[n][p]) <= SentCap
  BY DEF TypeOK, SentTypes, RingInv, RingOf
<1>4. k \in 0..Len(sent[n][p])
  BY <1>3, ExpiredType
<1>5. CASE k = 0
  <2>1. UNCHANGED popping /\ PeerChecked(n, p, sent[n][p], FALSE)  BY <1>1, <1>5
  <2>2. RingOf(n)'  BY <1>2, <1>3, <2>1, PeerCheckedRings
  <2>3. ASSUME NEW m \in Node, m # n PROVE RingOf(m)'
    <3>1. RingOf(m)  BY DEF RingInv
    <3> QED
      BY <1>2, <2>1, <2>3, <3>1, RingKept
      DEF PeerChecked, TypeOK, SentTypes, FrameTypes
  <2> QED  BY <2>2, <2>3 DEF RingInv
<1>6. CASE k # 0
  <2>1. /\ popping' = [popping EXCEPT ![n][p] = k]
        /\ UNCHANGED <<limitReached, unchecked, phase>>
    BY <1>1, <1>6
  <2> HIDE DEF k
  <2>2. ASSUME NEW m \in Node, NEW r \in Node
        PROVE  popping'[m][r] = IF m = n /\ r = p THEN k ELSE popping[m][r]
    BY <2>1 DEF TypeOK, FrameTypes
  <2>3. ASSUME NEW m \in Node PROVE RingOf(m)'
    <3>1. RingOf(m)  BY DEF RingInv
    <3> QED  BY <1>2, <1>4, <2>1, <2>2, <3>1 DEF RingOf
  <2> QED  BY <2>3 DEF RingInv
<1> QED  BY <1>5, <1>6

LEMMA PopOldestRings ==
    ASSUME TypeOK, RingInv, NEW n \in Node, NEW p \in Node, PopOldest(n, p)
    PROVE  RingInv'
<1> DEFINE ring  == sent[n][p]
           entry == ring[Len(ring)]
           rest  == SubSeq(ring, 1, Len(ring) - 1)
           room  == Len(rest) < SentCap
           again == ~entry.done /\ room
           ring2 == IF again THEN <<entry>> \o rest ELSE rest
           full  == again /\ Len(ring2) = SentCap
<1>1. /\ phase[n] = "resend" /\ popping[n][p] > 0
      /\ popping' = [popping EXCEPT ![n][p] = @ - 1]
      /\ sent' = [sent EXCEPT ![n][p] = ring2]
      /\ overflow' = [overflow EXCEPT ![n] =
            IF entry.done \/ room THEN @ ELSE @ \cup {p}]
      /\ IF popping[n][p] = 1
         THEN PeerChecked(n, p, ring2, full)
         ELSE /\ limitReached' = [limitReached EXCEPT ![n] = @ \/ full]
              /\ UNCHANGED <<unchecked, phase>>
      /\ UNCHANGED peers
  BY DEF PopOldest, peerVars
<1>2. /\ ring \in Seq(Entry) /\ RingOf(n) /\ p \in unchecked[n]
      /\ Len(ring) \in Nat /\ Len(ring) <= SentCap /\ Len(ring) > 0
      /\ popping[n][p] \in Nat /\ popping[n][p] <= Len(ring)
  <2>1. ring \in Seq(Entry) /\ popping[n][p] \in Nat
    BY DEF TypeOK, SentTypes, FrameTypes
  <2>2. RingOf(n)  BY DEF RingInv
  <2>3. /\ p \in unchecked[n]
        /\ Len(ring) <= SentCap /\ popping[n][p] <= Len(ring)
    BY <1>1, <2>2 DEF RingOf
  <2> HIDE DEF ring
  <2> QED  BY <1>1, <2>1, <2>2, <2>3, LenProperties
<1>3. /\ rest \in Seq(Entry) /\ Len(rest) = Len(ring) - 1
      /\ ring2 \in Seq(Entry) /\ Len(ring2) \in {Len(ring) - 1, Len(ring)}
  BY <1>1, <1>2, PopType
<1>4. room  BY <1>2, <1>3, SentCapType
<1> HIDE DEF ring2, entry, rest, room, again
<1>5. UNCHANGED overflow
  BY <1>1, <1>4 DEF TypeOK, SentTypes
<1>6. \A m, r \in Node :
        /\ sent'[m][r] = IF m = n /\ r = p THEN ring2 ELSE sent[m][r]
        /\ popping'[m][r] = IF m = n /\ r = p THEN popping[n][p] - 1
                                              ELSE popping[m][r]
  BY <1>1 DEF TypeOK, SentTypes, FrameTypes
<1>7. ASSUME NEW m \in Node, m # n PROVE RingOf(m)'
  <2>1. RingOf(m)  BY DEF RingInv
  <2>2. /\ limitReached'[m] = limitReached[m] /\ unchecked'[m] = unchecked[m]
        /\ phase'[m] = phase[m]
    BY <1>1, <1>7 DEF PeerChecked, TypeOK, SentTypes, FrameTypes
  <2> QED  BY <1>1, <1>5, <1>6, <1>7, <2>1, <2>2 DEF RingOf
<1>8. RingOf(n)'
  <2>1. CASE popping[n][p] = 1
    <3>1. PeerChecked(n, p, ring2, full)  BY <1>1, <2>1
    <3>2. Len(ring2) <= SentCap  BY <1>2, <1>3, SentCapType
    <3>3. \A r \in Node :
            /\ sent'[n][r] = IF r = p THEN ring2 ELSE sent[n][r]
            /\ popping'[n][r] = IF r = p THEN 0 ELSE popping[n][r]
      BY <1>6, <2>1
    <3>4. peers'[n] = peers[n] /\ overflow'[n] = overflow[n]  BY <1>1, <1>5
    <3> HIDE DEF full, ring
    <3> QED
      BY <1>1, <1>2, <1>3, <3>1, <3>2, <3>3, <3>4, PeerCheckedRings
  <2>2. CASE popping[n][p] # 1
    <3>1. /\ limitReached' = [limitReached EXCEPT ![n] = @ \/ full]
          /\ UNCHANGED <<unchecked, phase>>
      BY <1>1, <2>2
    <3>2. limitReached[n] => limitReached'[n]
      BY <3>1 DEF TypeOK, SentTypes
    <3>3. p \in peers[n]  BY <1>2 DEF RingOf
    <3>4. ASSUME NEW r \in Node
          PROVE  /\ Len(sent'[n][r]) <= SentCap
                 /\ r \notin peers[n] => sent'[n][r] = <<>>
                 /\ popping'[n][r] <= Len(sent'[n][r])
                 /\ popping'[n][r] > 0 => r \in unchecked[n]
                 /\ ~limitReached'[n] /\ r \notin unchecked[n]
                      => Len(sent'[n][r]) < SentCap
      <4>1. CASE r = p
        BY <1>2, <1>3, <1>6, <3>3, <4>1, SentCapType
      <4>2. CASE r # p
        BY <1>2, <1>6, <3>2, <4>2 DEF RingOf
      <4> QED  BY <4>1, <4>2
    <3> QED  BY <1>1, <1>2, <1>5, <3>1, <3>4 DEF RingOf
  <2> QED  BY <2>1, <2>2
<1> QED  BY <1>7, <1>8 DEF RingInv

\* A packet goes to connected peers only, and to a ring it may fill only with
\* the flag down: then no ring it goes to is full.
LEMMA SendPacketRings ==
    ASSUME TypeOK, RingInv, NEW n \in Node, SendPacket(n)
    PROVE  RingInv'
<1>1. PICK j \in 1..Len(QueueOrder) :
         \E fits : SendPacketOf(n, QueueOrder[j], fits)
  BY DEF SendPacket
<1>a. PICK fits : SendPacketOf(n, QueueOrder[j], fits)
  BY <1>1
<1> DEFINE q       == QueueOrder[j]
           to      == Members(n, q)
           rel     == IF limitReached[n] THEN <<>>
                      ELSE SubSeq(prio[n][q], 1, Least(RelRoom, Len(prio[n][q])))
           tracked == {p \in to : rel # <<>> /\ p \notin overflow[n]
                                             /\ Len(sent[n][p]) < SentCap}
           dropped == {p \in to : rel # <<>> /\ p \notin overflow[n]
                                             /\ Len(sent[n][p]) >= SentCap}
           entry(p) == [done |-> FALSE, slot |-> NextSlot(n),
                        seq |-> nextSeq[n][p] % EntryMod]
<1>2. /\ sent' = [sent EXCEPT ![n] = [p \in Node |->
            IF p \in tracked THEN <<entry(p)>> \o @[p] ELSE @[p]]]
      /\ limitReached' = [limitReached EXCEPT ![n] =
            @ \/ \E p \in tracked : Len(sent[n][p]) + 1 = SentCap]
      /\ overflow' = [overflow EXCEPT ![n] = @ \cup dropped]
  BY <1>a DEF SendPacketOf
<1>3. /\ phase[n] # "resend" /\ phase' = [phase EXCEPT ![n] = "send"]
      /\ UNCHANGED <<unchecked, popping, peers>>
  BY DEF SendPacket, FrameMayRun, peerVars
<1>4. RingOf(n)  BY DEF RingInv
<1>5. /\ to \subseteq Node \cap peers[n]
      /\ rel # <<>> => ~limitReached[n]
  BY DEF Members, TypeOK, PeerTypes
<1>6. \A p \in Node : Len(sent[n][p]) \in Nat /\ popping[n][p] \in Nat
  <2>1. ASSUME NEW p \in Node
        PROVE  sent[n][p] \in Seq(Entry) /\ popping[n][p] \in Nat
    BY DEF TypeOK, SentTypes, FrameTypes
  <2> QED  BY <2>1, LenProperties
<1>7. unchecked[n] = {}  BY <1>3, <1>4 DEF RingOf
<1> HIDE DEF to, rel
<1>8. dropped = {}
  BY <1>4, <1>5, <1>6, <1>7, SentCapType DEF RingOf
<1>9. ASSUME NEW p \in Node, p \in tracked
      PROVE  Len(<<entry(p)>> \o sent[n][p]) = Len(sent[n][p]) + 1
  <2> HIDE DEF tracked
  <2>1. sent[n][p] \in Seq(Entry \cup {entry(p)})
    <3>1. sent[n][p] \in Seq(Entry)  BY DEF TypeOK, SentTypes
    <3> HIDE DEF entry
    <3> QED  BY <3>1, SeqOfMore
  <2> HIDE DEF entry
  <2> QED  BY <2>1, PrependType
<1> HIDE DEF dropped, entry
<1>10. ASSUME NEW m \in Node, m # n PROVE RingOf(m)'
  <2>1. RingOf(m)  BY DEF RingInv
  <2>2. /\ sent'[m] = sent[m] /\ overflow'[m] = overflow[m]
        /\ limitReached'[m] = limitReached[m] /\ phase'[m] = phase[m]
    <3> HIDE DEF tracked
    <3> QED  BY <1>2, <1>3, <1>10 DEF TypeOK, SentTypes, FrameTypes
  <2> QED  BY <1>3, <2>1, <2>2, RingKept
<1>11. RingOf(n)'
  <2>1. overflow'[n] = {} /\ unchecked'[n] = {} /\ peers'[n] = peers[n]
    BY <1>2, <1>3, <1>4, <1>7, <1>8 DEF RingOf, TypeOK, SentTypes
  <2>2. limitReached'[n] =
          (limitReached[n] \/ \E p \in tracked : Len(sent[n][p]) + 1 = SentCap)
    <3> HIDE DEF tracked
    <3> QED  BY <1>2 DEF TypeOK, SentTypes
  <2>3. ASSUME NEW p \in Node
        PROVE  sent'[n][p] = IF p \in tracked THEN <<entry(p)>> \o sent[n][p]
                                              ELSE sent[n][p]
    <3> HIDE DEF tracked
    <3> QED  BY <1>2 DEF TypeOK, SentTypes
  <2>4. ASSUME NEW p \in Node
        PROVE  /\ Len(sent'[n][p]) <= SentCap
               /\ p \notin peers[n] => sent'[n][p] = <<>>
               /\ popping'[n][p] <= Len(sent'[n][p])
               /\ ~(popping'[n][p] > 0)
               /\ ~limitReached'[n] => Len(sent'[n][p]) < SentCap
    <3>1. /\ Len(sent[n][p]) <= SentCap /\ popping[n][p] <= Len(sent[n][p])
          /\ p \notin peers[n] => sent[n][p] = <<>>
          /\ ~(popping[n][p] > 0)
          /\ ~limitReached[n] => Len(sent[n][p]) < SentCap
      BY <1>4, <1>7 DEF RingOf
    <3>2. CASE p \in tracked
      <4>1. /\ p \in peers[n] /\ Len(sent[n][p]) < SentCap
            /\ Len(sent'[n][p]) = Len(sent[n][p]) + 1
        BY <1>5, <1>9, <2>3, <3>2
      <4>2. ~limitReached'[n] => Len(sent[n][p]) + 1 # SentCap
        BY <2>2, <3>2
      <4> QED  BY <1>3, <1>6, <3>1, <4>1, <4>2, SentCapType
    <3>3. CASE p \notin tracked
      <4>1. sent'[n][p] = sent[n][p]  BY <2>3, <3>3
      <4>2. ~limitReached'[n] => ~limitReached[n]  BY <2>2
      <4> QED  BY <1>3, <3>1, <4>1, <4>2
    <3> QED  BY <3>2, <3>3
  <2> QED  BY <2>1, <2>4 DEF RingOf
<1> QED  BY <1>10, <1>11 DEF RingInv

LEMMA EndSendRings ==
    ASSUME TypeOK, RingInv, NEW n \in Node, EndSend(n)
    PROVE  RingInv'
<1>1. /\ phase[n] = "send" /\ phase' = [phase EXCEPT ![n] = "idle"]
      /\ UNCHANGED <<sentVars, unchecked, popping, peers>>
  BY DEF EndSend, peerVars
<1>2. ASSUME NEW m \in Node PROVE RingOf(m)'
  <2>1. RingOf(m)  BY DEF RingInv
  <2>2. phase'[m] # "resend" => unchecked[m] = {}
    BY <1>1, <2>1 DEF RingOf, TypeOK, FrameTypes
  <2> QED  BY <1>1, <2>1, <2>2 DEF RingOf, sentVars
<1> QED  BY <1>2 DEF RingInv

-----------------------------------------------------------------------------
(* The theorems *)

\* Type correctness alone is not inductive: that PopOldest takes an entry of a
\* ring that is not empty is a fact about the rings.
IInv == TypeOK /\ RingInv

LEMMA InitIInv == Init => IInv
BY InitType, InitRings DEF IInv

LEMMA NextIInv == IInv /\ [Next]_vars => IInv'
<1> SUFFICES ASSUME TypeOK, RingInv, [Next]_vars PROVE TypeOK' /\ RingInv'
  BY DEF IInv
<1>1. ASSUME NEW n \in Node, NEW q \in Queue, SendMessagePriority(n, q)
      PROVE  TypeOK' /\ RingInv'
  BY <1>1, SendMessagePriorityType, RingsUnchanged DEF SendMessagePriority
<1>2. ASSUME NEW n \in Node, NEW p \in Node, SendMessage(n, p)
      PROVE  TypeOK' /\ RingInv'
  BY <1>2, SendMessageType, RingsUnchanged DEF SendMessage, peerVars
<1>3. ASSUME NEW n \in Node, NEW p \in Node, DisconnectPeer(n, p)
      PROVE  TypeOK' /\ RingInv'
  BY <1>3, DisconnectPeerType, DisconnectPeerRings
<1>4. ASSUME NEW n \in Node, NEW d \in net, RecvPacket(n, d)
      PROVE  TypeOK' /\ RingInv'
  BY <1>4, RecvPacketType, RecvPacketRings
<1>5. ASSUME NEW d \in net, Lose(d) PROVE TypeOK' /\ RingInv'
  BY <1>5, LoseType, RingsUnchanged DEF Lose, peerVars
<1>6. ASSUME NEW n \in Node, FinishReceive(n) PROVE TypeOK' /\ RingInv'
  BY <1>6, FinishReceiveType, FinishReceiveRings
<1>7. ASSUME NEW n \in Node, NEW p \in Node, CheckPeer(n, p)
      PROVE  TypeOK' /\ RingInv'
  BY <1>7, CheckPeerType, CheckPeerRings
<1>8. ASSUME NEW n \in Node, NEW p \in Node, PopOldest(n, p)
      PROVE  TypeOK' /\ RingInv'
  <2>1. popping[n][p] <= Len(sent[n][p])  BY DEF RingInv, RingOf
  <2> QED  BY <1>8, <2>1, PopOldestType, PopOldestRings
<1>9. ASSUME NEW n \in Node, SendPacket(n) PROVE TypeOK' /\ RingInv'
  BY <1>9, SendPacketType, SendPacketRings
<1>10. ASSUME NEW n \in Node, EndSend(n) PROVE TypeOK' /\ RingInv'
  BY <1>10, EndSendType, EndSendRings
<1>11. CASE UNCHANGED vars
  BY <1>11, UnchangedTypes, RingsUnchanged
  DEF vars, TypeOK, sentVars, frameVars, peerVars
<1> QED
  BY <1>1, <1>2, <1>3, <1>4, <1>5, <1>6, <1>7, <1>8, <1>9, <1>10, <1>11
  DEF Next

\* The variables keep their types and no ring overflows: the indices of a window are
\* never further apart than the ring is long, which is what the types need.
THEOREM InductiveInvariant == Spec => []IInv
BY InitIInv, NextIInv, PTL DEF Spec

\* Whatever the sizes, the players and the losses, every variable keeps its
\* type: no index leaves its ring, in particular the request count never passes
\* the slots UpdateSend checks it against (NetSession.cpp, UpdateSend).
THEOREM TypeCorrect == Spec => []TypeOK
<1>1. IInv => TypeOK  BY DEF IInv
<1> QED  BY <1>1, InductiveInvariant, PTL

\* The limit flag is up whenever a send ring that may get an entry is full.
THEOREM RingsBounded == Spec => []RingInv
<1>1. IInv => RingInv  BY DEF IInv
<1> QED  BY <1>1, InductiveInvariant, PTL

\* AttemptSendPacket never drops a peer because its ring is full: bSendOverflow
\* stays clear for every peer of every player.
THEOREM NoOverflow == Spec => []NoSendOverflow
<1>1. IInv => NoSendOverflow  BY DEF IInv, RingInv, RingOf, NoSendOverflow
<1> QED  BY <1>1, InductiveInvariant, PTL

-----------------------------------------------------------------------------
(* Request slots.  A slot counts the peers that still owe an               *)
(* acknowledgement of its packet, and is not handed out before.            *)

\* Rings of entries: the slots whose packet a ring's peer has not acknowledged.

Undone(ring) == {i \in 1..Len(ring) : ~ring[i].done}

Owed(ring) == {ring[i].slot : i \in Undone(ring)}

Distinct(ring) == \A i, j \in Undone(ring) : ring[i].slot = ring[j].slot => i = j

LEMMA PrependElements ==
    ASSUME NEW S, NEW s \in Seq(S), NEW e \in S, NEW i \in 1..(Len(s) + 1)
    PROVE  (<<e>> \o s)[i] = IF i = 1 THEN e ELSE s[i - 1]
<1>1. <<e>> \in Seq(S) /\ Len(<<e>>) = 1 /\ <<e>>[1] = e  OBVIOUS
<1> QED  BY <1>1, ConcatProperties

LEMMA OwedPrepend ==
    ASSUME NEW ring \in Seq(Entry), NEW e \in Entry
    PROVE  /\ Owed(<<e>> \o ring) = Owed(ring) \cup (IF e.done THEN {} ELSE {e.slot})
           /\ Distinct(ring) /\ (e.done \/ e.slot \notin Owed(ring))
                => Distinct(<<e>> \o ring)
<1> DEFINE more == <<e>> \o ring
<1>1. Len(ring) \in Nat /\ Len(more) = Len(ring) + 1  BY PrependType
<1>2. \A i \in 1..(Len(ring) + 1) : more[i] = IF i = 1 THEN e ELSE ring[i - 1]
  BY PrependElements
<1> HIDE DEF more
<1>3. \A i \in Nat : i \in Undone(more) <=>
         (i = 1 /\ ~e.done) \/ (i > 1 /\ i - 1 \in Undone(ring))
  BY <1>1, <1>2 DEF Undone
<1>4. Undone(more) \subseteq Nat /\ Undone(ring) \subseteq 1..Len(ring)  BY DEF Undone
<1>5. \A i \in Undone(ring) : i + 1 \in Undone(more) /\ more[i + 1] = ring[i]
  BY <1>1, <1>2, <1>3, <1>4
<1>6. Owed(more) = Owed(ring) \cup (IF e.done THEN {} ELSE {e.slot})
  <2>1. Owed(more) \subseteq Owed(ring) \cup (IF e.done THEN {} ELSE {e.slot})
    <3> SUFFICES ASSUME NEW i \in Undone(more)
                 PROVE  more[i].slot \in Owed(ring) \cup (IF e.done THEN {} ELSE {e.slot})
      BY DEF Owed
    <3>1. CASE i = 1  BY <1>1, <1>2, <1>3, <1>4, <3>1
    <3>2. CASE i # 1
      <4>1. i \in Nat /\ i > 1 /\ i - 1 \in Undone(ring)  BY <1>3, <1>4, <3>2
      <4>2. more[i] = ring[i - 1]  BY <1>1, <1>2, <1>4, <4>1
      <4> QED  BY <4>1, <4>2 DEF Owed
    <3> QED  BY <3>1, <3>2
  <2>2. Owed(ring) \subseteq Owed(more)  BY <1>5 DEF Owed
  <2>3. ~e.done => e.slot \in Owed(more)
    <3>1. ~e.done => 1 \in Undone(more) /\ more[1] = e  BY <1>1, <1>2, <1>3
    <3> QED  BY <3>1 DEF Owed
  <2> QED  BY <2>1, <2>2, <2>3
<1>7. ASSUME Distinct(ring), e.done \/ e.slot \notin Owed(ring)
      PROVE  Distinct(more)
  <2>1. SUFFICES ASSUME NEW i \in Undone(more), NEW j \in Undone(more),
                        more[i].slot = more[j].slot
                 PROVE  i = j
    BY DEF Distinct
  <2>2. ASSUME NEW x \in Undone(more), x # 1
        PROVE  x - 1 \in Undone(ring) /\ more[x] = ring[x - 1] /\ x \in Nat
    BY <1>1, <1>2, <1>3, <1>4, <2>2
  <2>3. 1 \in Undone(more) => more[1].slot \notin Owed(ring)
    BY <1>1, <1>2, <1>3, <1>7
  <2>4. CASE i = 1 /\ j # 1
    BY <2>1, <2>2, <2>3, <2>4 DEF Owed
  <2>5. CASE j = 1 /\ i # 1
    BY <2>1, <2>2, <2>3, <2>5 DEF Owed
  <2>6. CASE i # 1 /\ j # 1
    <3>1. i - 1 = j - 1  BY <1>7, <2>1, <2>2, <2>6 DEF Distinct
    <3> QED  BY <2>2, <2>6, <3>1
  <2> QED  BY <2>4, <2>5, <2>6
<1> QED  BY <1>6, <1>7 DEF more

\* The oldest entry of a ring, and the ring without it.
LEMMA OwedRest ==
    ASSUME NEW ring \in Seq(Entry), Len(ring) > 0
    PROVE  LET entry == ring[Len(ring)]
               rest  == SubSeq(ring, 1, Len(ring) - 1)
           IN /\ Owed(ring) = Owed(rest) \cup (IF entry.done THEN {} ELSE {entry.slot})
              /\ Distinct(ring) => /\ Distinct(rest)
                                   /\ entry.done \/ entry.slot \notin Owed(rest)
<1> DEFINE entry == ring[Len(ring)]
           rest  == SubSeq(ring, 1, Len(ring) - 1)
<1>1. Len(ring) \in Nat /\ Len(rest) = Len(ring) - 1  BY PopType
<1>2. \A i \in 1..(Len(ring) - 1) : rest[i] = ring[i]
  BY <1>1, SubSeqProperties
<1> HIDE DEF rest
<1>3. /\ \A i \in 1..Len(ring) :
           i \in Undone(ring) <=> i \in Undone(rest) \/ (i = Len(ring) /\ ~entry.done)
      /\ Undone(rest) \subseteq 1..(Len(ring) - 1)
      /\ Undone(ring) \subseteq 1..Len(ring)
  BY <1>1, <1>2 DEF Undone
<1>4. \A i \in Undone(rest) : rest[i] = ring[i] /\ i \in Undone(ring)
  BY <1>1, <1>2, <1>3
<1>5. Len(ring) \notin Undone(rest) /\ (~entry.done => Len(ring) \in Undone(ring))
  BY <1>1, <1>3
<1>6. \A i \in Undone(ring) : i = Len(ring) \/ i \in Undone(rest)
  BY <1>1, <1>3
<1>7. Len(ring) \in Undone(ring) => ~entry.done  BY DEF Undone
<1>8. Owed(ring) = Owed(rest) \cup (IF entry.done THEN {} ELSE {entry.slot})
  <2>1. Owed(rest) \subseteq Owed(ring)  BY <1>4 DEF Owed
  <2>2. ~entry.done => entry.slot \in Owed(ring)  BY <1>5 DEF Owed
  <2>3. Owed(ring) \subseteq Owed(rest) \cup (IF entry.done THEN {} ELSE {entry.slot})
    BY <1>4, <1>6, <1>7 DEF Owed
  <2> QED  BY <2>1, <2>2, <2>3
<1>9. ASSUME Distinct(ring)
      PROVE  Distinct(rest) /\ (entry.done \/ entry.slot \notin Owed(rest))
  <2>1. Distinct(rest)  BY <1>4, <1>9 DEF Distinct
  <2>2. ASSUME ~entry.done, entry.slot \in Owed(rest) PROVE FALSE
    <3>1. PICK i \in Undone(rest) : entry.slot = rest[i].slot  BY <2>2 DEF Owed
    <3> QED  BY <1>4, <1>5, <1>9, <2>2, <3>1 DEF Distinct
  <2> QED  BY <2>1, <2>2
<1> QED  BY <1>8, <1>9 DEF rest

\* The entries an ack marks are not owed any more.
LEMMA OwedMarked ==
    ASSUME NEW ring \in Seq(Entry), Distinct(ring), NEW marked \in SUBSET Undone(ring)
    PROVE  LET ring2 == [i \in 1..Len(ring) |->
                           IF i \in marked THEN [ring[i] EXCEPT !.done = TRUE] ELSE ring[i]]
           IN /\ Owed(ring2) = Owed(ring) \ {ring[i].slot : i \in marked}
              /\ Distinct(ring2)
              /\ {ring[i].slot : i \in marked} \subseteq Owed(ring)
<1> DEFINE ring2 == [i \in 1..Len(ring) |->
                       IF i \in marked THEN [ring[i] EXCEPT !.done = TRUE] ELSE ring[i]]
<1>1. \A i \in 1..Len(ring) :
         ring2[i] = IF i \in marked THEN [ring[i] EXCEPT !.done = TRUE] ELSE ring[i]
  OBVIOUS
<1>2. Len(ring2) = Len(ring) /\ Len(ring) \in Nat
  <2>1. ring2 \in [1..Len(ring) -> {ring2[i] : i \in 1..Len(ring)}]  OBVIOUS
  <2>2. Len(ring) \in Nat  OBVIOUS
  <2> HIDE DEF ring2
  <2> QED  BY <2>1, <2>2, FunctionIsSeq
<1> HIDE DEF ring2
<1>3. \A i \in marked : ring2[i].done
  <2>1. \A i \in marked : i \in 1..Len(ring) /\ ring[i] \in Entry
    BY ElementOfSeq DEF Undone
  <2>2. ASSUME NEW e \in Entry PROVE [e EXCEPT !.done = TRUE].done
    BY DEF Entry
  <2> QED  BY <1>1, <2>1, <2>2
<1>4. Undone(ring2) = Undone(ring) \ marked
  BY <1>1, <1>2, <1>3 DEF Undone
<1>5. \A i \in Undone(ring2) : ring2[i] = ring[i] /\ i \in Undone(ring)
  BY <1>1, <1>4 DEF Undone
<1>6. Owed(ring2) = Owed(ring) \ {ring[i].slot : i \in marked}
  BY <1>4, <1>5 DEF Owed, Distinct
<1>7. Distinct(ring2)  BY <1>5 DEF Distinct
<1>8. {ring[i].slot : i \in marked} \subseteq Owed(ring)  BY DEF Owed
<1> QED  BY <1>6, <1>7, <1>8 DEF ring2

-----------------------------------------------------------------------------
(* The ring of requests *)

\* Trimming stops at a request with an unacknowledged copy.
LEMMA TrimmedKeeps ==
    ASSUME NEW n, NEW reqs, NEW count \in Nat, NEW k \in 0..(count - 1),
           reqs[SlotAt(n, k)].nCountA > 0
    PROVE  k < Trimmed(n, reqs, count)
<1> DEFINE S == {i \in 0..(count - 1) :
                   \E j \in i..(count - 1) : reqs[SlotAt(n, j)].nCountA > 0}
<1>1. 0..k \subseteq S
  <2>1. \A i \in 0..k : i \in 0..(count - 1) /\ k \in i..(count - 1)  OBVIOUS
  <2> QED  BY <2>1
<1>2. S \subseteq 0..(count - 1)  OBVIOUS
<1> HIDE DEF S
<1>3. IsFiniteSet(0..(count - 1))  BY FS_Interval
<1>4. IsFiniteSet(S)  BY <1>2, <1>3, FS_Subset
<1>5. Cardinality(0..k) <= Cardinality(S)  BY <1>1, <1>4, FS_Subset
<1>6. Cardinality(0..k) = k + 1
  <2>1. Cardinality(0..k) = IF 0 > k THEN 0 ELSE k - 0 + 1  BY FS_Interval
  <2> QED  BY <2>1
<1>7. Cardinality(S) \in Nat  BY <1>4, FS_CardinalityType
<1>8. k < Cardinality(S)  BY <1>5, <1>6, <1>7
<1> QED  BY <1>8 DEF Trimmed, S

\* A slot lies at its place.
LEMMA PlaceOfSlot ==
    ASSUME RequestTypes, NEW n \in Node, NEW s \in RequestSlot
    PROVE  /\ PlaceOf(n, s) \in 0..(ReqSlots - 1)
           /\ SlotAt(n, PlaceOf(n, s)) = s
<1>1. sendIndex[n] \in RequestSlot  BY DEF RequestTypes
<1> QED  BY <1>1, SizeAssumption DEF PlaceOf, SlotAt, RequestSlot

\* The next slot is the one furthest from the newest request: it is free while
\* the ring is not full, and taking it moves every other slot one place on.
LEMMA NextSlotIsFree ==
    ASSUME RequestTypes, NEW n \in Node
    PROVE  /\ sendCount[n] < SentSlots => ~InUse(n, NextSlot(n))
           /\ \A s \in RequestSlot :
                 (IF s >= NextSlot(n) THEN s - NextSlot(n)
                                      ELSE s - NextSlot(n) + ReqSlots)
                   = IF s = NextSlot(n) THEN 0 ELSE PlaceOf(n, s) + 1
<1>1. sendIndex[n] \in 0..(ReqSlots - 1) /\ sendCount[n] \in 0..SentSlots
  BY DEF RequestTypes, RequestSlot
<1>2. PlaceOf(n, NextSlot(n)) = ReqSlots - 1
  BY <1>1, SizeAssumption DEF PlaceOf, NextSlot
<1>3. sendCount[n] < SentSlots => ~InUse(n, NextSlot(n))
  BY <1>1, <1>2, SizeAssumption DEF InUse
<1>4. \A s \in RequestSlot :
         (IF s >= NextSlot(n) THEN s - NextSlot(n)
                              ELSE s - NextSlot(n) + ReqSlots)
           = IF s = NextSlot(n) THEN 0 ELSE PlaceOf(n, s) + 1
  BY <1>1, SizeAssumption DEF PlaceOf, NextSlot, RequestSlot
<1> QED  BY <1>3, <1>4

-----------------------------------------------------------------------------
(* The inductive invariant *)

\* The peers that have not acknowledged the packet in slot s.
Debtors(n, s) == {p \in Node : s \in Owed(sent[n][p])}

\* What a peer owes lies in slots the ring holds, in each at most once, and a
\* request counts its debtors.
OwedIsHeld(n) == \A p \in Node : \A s \in Owed(sent[n][p]) : InUse(n, s)
OwedOnce(n) == \A p \in Node : Distinct(sent[n][p])
CountsDebtors(n) == \A s \in RequestSlot :
    InUse(n, s) => requests[n][s].nCountA = Cardinality(Debtors(n, s))

SlotsOf(n) == OwedIsHeld(n) /\ OwedOnce(n) /\ CountsDebtors(n)

SlotsInv == \A n \in Node : SlotsOf(n)

LEMMA DebtorsFinite ==
    ASSUME NEW n, NEW s
    PROVE  IsFiniteSet(Debtors(n, s)) /\ Cardinality(Debtors(n, s)) \in Nat
<1>1. Debtors(n, s) \subseteq Node  BY DEF Debtors
<1> QED  BY <1>1, NodeAssumption, FS_Subset, FS_CardinalityType

\* A step of one player leaves the slots of the others alone.
LEMMA SlotsKept ==
    ASSUME NEW n \in Node, SlotsOf(n), sendIndex'[n] = sendIndex[n],
           sendCount'[n] = sendCount[n], requests'[n] = requests[n],
           \A p \in Node : Owed(sent'[n][p]) = Owed(sent[n][p]) /\ Distinct(sent'[n][p])
    PROVE  SlotsOf(n)'
<1>1. \A s \in RequestSlot : InUse(n, s)' <=> InUse(n, s)  BY DEF InUse, PlaceOf
<1>2. \A s : InUse(n, s) => s \in RequestSlot  BY DEF InUse
<1>3. \A s : Debtors(n, s)' = Debtors(n, s)  BY DEF Debtors
<1> QED
  BY <1>1, <1>2, <1>3 DEF SlotsOf, OwedIsHeld, OwedOnce, CountsDebtors

LEMMA SlotsUnchanged ==
    ASSUME SlotsInv, UNCHANGED <<requestVars, sent>>
    PROVE  SlotsInv'
BY SlotsKept DEF SlotsInv, SlotsOf, OwedOnce, requestVars

\* One peer's slots in T are given back and the ring may be trimmed: what the
\* others owe still counts, so its request stays.
LEMMA GiveBack ==
    ASSUME TypeOK, NEW n \in Node, SlotsOf(n), NEW p \in Node,
           NEW T \in SUBSET Owed(sent[n][p]),
           sendIndex'[n] = sendIndex[n], requests'[n] = GivenBack(n, T),
           \/ sendCount'[n] = sendCount[n]
           \/ sendCount'[n] = Trimmed(n, GivenBack(n, T), sendCount[n]),
           \A r \in Node : /\ Distinct(sent'[n][r])
                           /\ Owed(sent'[n][r]) = IF r = p THEN Owed(sent[n][p]) \ T
                                                         ELSE Owed(sent[n][r])
    PROVE  SlotsOf(n)'
<1>1. RequestTypes  BY DEF TypeOK
<1>2. sendCount[n] \in Nat /\ sendCount'[n] \in 0..sendCount[n]
  <2>1. sendCount[n] \in Nat  BY <1>1, SizeAssumption DEF RequestTypes
  <2> QED  BY <2>1, TrimmedType
<1>3. ASSUME NEW s \in RequestSlot
      PROVE  PlaceOf(n, s)' = PlaceOf(n, s) /\ (InUse(n, s)' => InUse(n, s))
  BY <1>1, <1>2, <1>3, PlaceOfSlot DEF PlaceOf, InUse
<1>4. ASSUME NEW s \in RequestSlot, InUse(n, s)
      PROVE  requests'[n][s].nCountA = Cardinality(Debtors(n, s)')
  <2>1. requests[n][s] \in Request /\ requests[n][s].nCountA = Cardinality(Debtors(n, s))
    BY <1>1, <1>4 DEF SlotsOf, CountsDebtors, RequestTypes
  <2>2. IsFiniteSet(Debtors(n, s))  BY DebtorsFinite
  <2>3. CASE s \in T
    <3>1. p \in Debtors(n, s) /\ Debtors(n, s)' = Debtors(n, s) \ {p}
      BY <2>3 DEF Debtors
    <3>2. Cardinality(Debtors(n, s)') = Cardinality(Debtors(n, s)) - 1
      BY <2>2, <3>1, FS_RemoveElement
    <3>3. requests'[n][s] = [requests[n][s] EXCEPT !.nCountA = @ - 1]
      BY <2>3 DEF GivenBack
    <3> QED  BY <2>1, <3>2, <3>3 DEF Request
  <2>4. CASE s \notin T
    <3>1. Debtors(n, s)' = Debtors(n, s)  BY <2>4 DEF Debtors
    <3>2. requests'[n][s] = requests[n][s]  BY <2>4 DEF GivenBack
    <3> QED  BY <2>1, <3>1, <3>2
  <2> QED  BY <2>3, <2>4
<1>5. CountsDebtors(n)'  BY <1>3, <1>4 DEF CountsDebtors
<1>6. ASSUME NEW r \in Node, NEW s \in Owed(sent'[n][r])
      PROVE  InUse(n, s)'
  <2>1. s \in Owed(sent[n][r])  BY <1>6
  <2>2. InUse(n, s) /\ s \in RequestSlot  BY <2>1 DEF SlotsOf, OwedIsHeld, InUse
  <2>3. requests'[n][s].nCountA > 0
    <3>1. r \in Debtors(n, s)'  BY <1>6 DEF Debtors
    <3>2. IsFiniteSet(Debtors(n, s)') /\ Cardinality(Debtors(n, s)') \in Nat
      <4>1. Debtors(n, s)' \subseteq Node  BY DEF Debtors
      <4> QED  BY <4>1, NodeAssumption, FS_Subset, FS_CardinalityType
    <3>3. Cardinality(Debtors(n, s)') # 0  BY <3>1, <3>2, FS_EmptySet
    <3> QED  BY <1>4, <2>2, <3>2, <3>3
  <2>4. PlaceOf(n, s) \in 0..(sendCount[n] - 1) /\ SlotAt(n, PlaceOf(n, s)) = s
    BY <1>1, <1>2, <2>2, PlaceOfSlot DEF InUse
  <2>5. CASE sendCount'[n] = sendCount[n]
    BY <1>3, <2>2, <2>5 DEF InUse
  <2>6. CASE sendCount'[n] = Trimmed(n, GivenBack(n, T), sendCount[n])
    <3>1. GivenBack(n, T)[SlotAt(n, PlaceOf(n, s))].nCountA > 0  BY <2>3, <2>4
    <3>2. PlaceOf(n, s) < Trimmed(n, GivenBack(n, T), sendCount[n])
      BY <1>2, <2>4, <3>1, TrimmedKeeps
    <3> QED  BY <1>3, <2>2, <2>6, <3>2 DEF InUse
  <2> QED  BY <2>5, <2>6
<1>7. OwedIsHeld(n)'  BY <1>6 DEF OwedIsHeld
<1>8. OwedOnce(n)'  BY DEF OwedOnce
<1> QED  BY <1>5, <1>7, <1>8 DEF SlotsOf

-----------------------------------------------------------------------------
(* One lemma per action that touches the slots *)

LEMMA InitSlots == Init => SlotsInv
<1> SUFFICES ASSUME Init PROVE SlotsInv  OBVIOUS
<1>1. ASSUME NEW n \in Node, NEW p \in Node
      PROVE  sent[n][p] = <<>> /\ sendCount[n] = 0 /\ sendIndex[n] = 0
  BY DEF Init
<1>2. Owed(<<>>) = {} /\ Distinct(<<>>)  BY DEF Owed, Undone, Distinct
<1>3. ASSUME NEW n \in Node, NEW s PROVE ~InUse(n, s)
  <2>1. sendIndex[n] = 0 /\ sendCount[n] = 0  BY DEF Init
  <2> QED  BY <2>1, SizeAssumption DEF InUse, PlaceOf, RequestSlot
<1> QED
  BY <1>1, <1>2, <1>3 DEF SlotsInv, SlotsOf, OwedIsHeld, OwedOnce, CountsDebtors

LEMMA RingTypes ==
    ASSUME TypeOK, NEW n \in Node, NEW p \in Node
    PROVE  /\ sent[n][p] \in Seq(Entry) /\ Len(sent[n][p]) \in Nat
           /\ prio \in [Node -> [Queue -> Seq(Message)]]
           /\ requests \in [Node -> [RequestSlot -> Request]]
           /\ sendIndex \in [Node -> RequestSlot] /\ sendCount \in [Node -> 0..SentSlots]
           /\ sent \in [Node -> [Node -> Seq(Entry)]]
<1>1. /\ sent \in [Node -> [Node -> Seq(Entry)]]
      /\ prio \in [Node -> [Queue -> Seq(Message)]]
      /\ requests \in [Node -> [RequestSlot -> Request]]
      /\ sendIndex \in [Node -> RequestSlot] /\ sendCount \in [Node -> 0..SentSlots]
  BY DEF TypeOK, SentTypes, QueueTypes, RequestTypes
<1>2. sent[n][p] \in Seq(Entry)  BY <1>1
<1> QED  BY <1>1, <1>2, LenProperties

LEMMA DisconnectPeerSlots ==
    ASSUME TypeOK, SlotsInv, NEW n \in Node, NEW p \in Node, DisconnectPeer(n, p)
    PROVE  SlotsInv'
<1> DEFINE T == Owed(sent[n][p])
<1>1. /\ requests' = [requests EXCEPT ![n] = GivenBack(n, T)]
      /\ sendCount' = [sendCount EXCEPT ![n] = Trimmed(n, GivenBack(n, T), @)]
      /\ sent' = [sent EXCEPT ![n][p] = <<>>]
      /\ UNCHANGED sendIndex
  BY DEF DisconnectPeer, Cleared, Owed, Undone
<1>2. Owed(<<>>) = {} /\ Distinct(<<>>)  BY DEF Owed, Undone, Distinct
<1> HIDE DEF T
<1>3. \A m, r \in Node : sent'[m][r] = IF m = n /\ r = p THEN <<>> ELSE sent[m][r]
  BY <1>1, RingTypes
<1>4. ASSUME NEW m \in Node PROVE SlotsOf(m)'
  <2>1. SlotsOf(m)  BY DEF SlotsInv
  <2>2. CASE m # n
    <3>1. \A r \in Node : sent'[m][r] = sent[m][r] /\ Distinct(sent[m][r])
      BY <1>3, <2>1, <2>2 DEF SlotsOf, OwedOnce
    <3>2. /\ requests'[m] = requests[m] /\ sendCount'[m] = sendCount[m]
          /\ sendIndex'[m] = sendIndex[m]
      BY <1>1, <2>2, RingTypes
    <3> QED  BY <2>1, <3>1, <3>2, SlotsKept
  <2>3. CASE m = n
    <3>1. \A r \in Node : /\ Distinct(sent'[n][r])
                          /\ Owed(sent'[n][r]) = IF r = p THEN Owed(sent[n][p]) \ T
                                                        ELSE Owed(sent[n][r])
      BY <1>2, <1>3, <2>1, <2>3 DEF SlotsOf, OwedOnce, T
    <3>2. /\ requests'[n] = GivenBack(n, T) /\ sendIndex'[n] = sendIndex[n]
          /\ sendCount'[n] = Trimmed(n, GivenBack(n, T), sendCount[n])
      BY <1>1, RingTypes
    <3>3. T \in SUBSET Owed(sent[n][p])  BY DEF T
    <3> QED  BY <2>1, <2>3, <3>1, <3>2, <3>3, GiveBack
  <2> QED  BY <2>2, <2>3
<1> QED  BY <1>4 DEF SlotsInv

LEMMA RecvPacketSlots ==
    ASSUME TypeOK, SlotsInv, NEW n \in Node, NEW d \in net, RecvPacket(n, d)
    PROVE  SlotsInv'
<1>1. /\ UNCHANGED <<sendIndex, sendCount>>
      /\ HandleAckRecv(n, d.src, d.msg[1]) \/ UNCHANGED <<sent, requests>>
  BY DEF RecvPacket
<1>2. CASE UNCHANGED <<sent, requests>>
  BY <1>1, <1>2, SlotsUnchanged DEF requestVars
<1>3. CASE HandleAckRecv(n, d.src, d.msg[1])
  <2> DEFINE p == d.src
             marked == Acked(sent[n][p], d.msg[1])
             T == {sent[n][p][i].slot : i \in marked}
             ring2 == [i \in 1..Len(sent[n][p]) |->
                         IF i \in marked THEN [sent[n][p][i] EXCEPT !.done = TRUE]
                                         ELSE sent[n][p][i]]
  <2>1. p \in Node  BY DEF TypeOK, Datagram
  <2>2. /\ sent' = [sent EXCEPT ![n][p] = ring2]
        /\ requests' = [requests EXCEPT ![n] = GivenBack(n, T)]
    BY <1>3 DEF HandleAckRecv
  <2>3. marked \in SUBSET Undone(sent[n][p])  BY DEF Acked, Undone
  <2>4. sent[n][p] \in Seq(Entry) /\ SlotsOf(n) /\ Distinct(sent[n][p])
    BY <2>1, RingTypes DEF SlotsInv, SlotsOf, OwedOnce
  <2>5. /\ Owed(ring2) = Owed(sent[n][p]) \ T /\ Distinct(ring2)
        /\ T \in SUBSET Owed(sent[n][p])
    <3> HIDE DEF p, marked
    <3> QED  BY <2>3, <2>4, OwedMarked
  <2> HIDE DEF p, ring2, T
  <2>6. \A m, r \in Node : sent'[m][r] = IF m = n /\ r = p THEN ring2 ELSE sent[m][r]
    BY <2>1, <2>2, RingTypes
  <2>7. ASSUME NEW m \in Node PROVE SlotsOf(m)'
    <3>1. SlotsOf(m)  BY DEF SlotsInv
    <3>2. CASE m # n
      <4>1. \A r \in Node : sent'[m][r] = sent[m][r] /\ Distinct(sent[m][r])
        BY <2>6, <3>1, <3>2 DEF SlotsOf, OwedOnce
      <4>2. requests'[m] = requests[m]  BY <2>2, <3>2, RingTypes
      <4> QED  BY <1>1, <3>1, <4>1, <4>2, SlotsKept
    <3>3. CASE m = n
      <4>1. \A r \in Node : /\ Distinct(sent'[n][r])
                            /\ Owed(sent'[n][r]) = IF r = p THEN Owed(sent[n][p]) \ T
                                                          ELSE Owed(sent[n][r])
        BY <2>5, <2>6, <3>1, <3>3 DEF SlotsOf, OwedOnce
      <4>2. requests'[n] = GivenBack(n, T)  BY <2>1, <2>2, RingTypes
      <4> QED  BY <1>1, <2>1, <2>5, <3>1, <3>3, <4>1, <4>2, GiveBack
    <3> QED  BY <3>2, <3>3
  <2> QED  BY <2>7 DEF SlotsInv
<1> QED  BY <1>1, <1>2, <1>3

LEMMA FinishReceiveSlots ==
    ASSUME TypeOK, SlotsInv, NEW n \in Node, FinishReceive(n)
    PROVE  SlotsInv'
<1>1. /\ sendCount' = [sendCount EXCEPT ![n] = Trimmed(n, requests[n], @)]
      /\ UNCHANGED <<sendIndex, requests, sent>>
  BY DEF FinishReceive
<1>2. GivenBack(n, {}) = requests[n]
  <2>1. requests[n] \in [RequestSlot -> Request]  BY RingTypes
  <2> QED  BY <2>1 DEF GivenBack
<1>3. ASSUME NEW m \in Node PROVE SlotsOf(m)'
  <2>1. SlotsOf(m)  BY DEF SlotsInv
  <2>2. \A r \in Node : Distinct(sent[m][r])  BY <2>1 DEF SlotsOf, OwedOnce
  <2>3. CASE m # n
    <3>1. sendCount'[m] = sendCount[m]  BY <1>1, <2>3, RingTypes
    <3> QED  BY <1>1, <2>1, <2>2, <3>1, SlotsKept
  <2>4. CASE m = n
    <3>1. sendCount'[n] = Trimmed(n, GivenBack(n, {}), sendCount[n])
      BY <1>1, <1>2, RingTypes
    <3>2. {} \in SUBSET Owed(sent[n][n])  OBVIOUS
    <3>3. Owed(sent[n][n]) \ {} = Owed(sent[n][n])  OBVIOUS
    <3> HIDE DEF FinishReceive
    <3>4. requests'[n] = GivenBack(n, {}) /\ sendIndex'[n] = sendIndex[n]
      BY <1>1, <1>2
    <3>5. \A r \in Node : /\ Distinct(sent'[n][r])
                          /\ Owed(sent'[n][r]) = IF r = n THEN Owed(sent[n][n]) \ {}
                                                        ELSE Owed(sent[n][r])
      BY <1>1, <2>2, <2>4, <3>3
    <3> QED  BY <2>1, <2>4, <3>1, <3>2, <3>4, <3>5, GiveBack
  <2> QED  BY <2>3, <2>4
<1> QED  BY <1>3 DEF SlotsInv

\* Sending an entry again moves it to the front of its ring: what the peer owes
\* is the same, because the ring has room for it.
LEMMA PopOldestSlots ==
    ASSUME TypeOK, RingInv, SlotsInv, NEW n \in Node, NEW p \in Node, PopOldest(n, p)
    PROVE  SlotsInv'
<1> DEFINE ring  == sent[n][p]
           entry == ring[Len(ring)]
           rest  == SubSeq(ring, 1, Len(ring) - 1)
           room  == Len(rest) < SentCap
           again == ~entry.done /\ room
           ring2 == IF again THEN <<entry>> \o rest ELSE rest
<1>1. /\ popping[n][p] > 0
      /\ sent' = [sent EXCEPT ![n][p] = ring2]
      /\ UNCHANGED requestVars
  BY DEF PopOldest
<1>2. ring \in Seq(Entry) /\ Len(ring) > 0 /\ Len(ring) <= SentCap /\ Len(ring) \in Nat
  <2>1. popping[n][p] \in Nat /\ popping[n][p] <= Len(ring) /\ Len(ring) <= SentCap
    BY DEF TypeOK, FrameTypes, RingInv, RingOf
  <2>2. ring \in Seq(Entry) /\ Len(ring) \in Nat  BY RingTypes
  <2> HIDE DEF ring
  <2> QED  BY <1>1, <2>1, <2>2
<1>3. Distinct(ring)  BY DEF SlotsInv, SlotsOf, OwedOnce
<1>4. /\ entry \in Entry /\ rest \in Seq(Entry) /\ Len(rest) = Len(ring) - 1
  BY <1>2, PopType
<1>5. room  BY <1>2, <1>4, SentCapType
<1>6. /\ Owed(ring) = Owed(rest) \cup (IF entry.done THEN {} ELSE {entry.slot})
      /\ Distinct(rest) /\ (entry.done \/ entry.slot \notin Owed(rest))
  BY <1>2, <1>3, OwedRest
<1> HIDE DEF ring, entry, rest, room
<1>7. Owed(ring2) = Owed(ring) /\ Distinct(ring2)
  BY <1>4, <1>5, <1>6, OwedPrepend
<1> HIDE DEF ring2
<1>8. \A m, r \in Node : sent'[m][r] = IF m = n /\ r = p THEN ring2 ELSE sent[m][r]
  BY <1>1, RingTypes
<1>9. ASSUME NEW m \in Node PROVE SlotsOf(m)'
  <2>1. SlotsOf(m)  BY DEF SlotsInv
  <2>2. \A r \in Node : Owed(sent'[m][r]) = Owed(sent[m][r]) /\ Distinct(sent'[m][r])
    BY <1>7, <1>8, <2>1 DEF SlotsOf, OwedOnce, ring
  <2> QED  BY <1>1, <2>1, <2>2, SlotsKept DEF requestVars
<1> QED  BY <1>9 DEF SlotsInv

-----------------------------------------------------------------------------
(* What a step of UpdateSend does, place by place *)

Sends(n, q, rel, tracked, carry) ==
    LET slot == NextSlot(n)
    IN /\ q \in Queue /\ rel \in Seq(Message)
       /\ tracked \subseteq Node \cap peers[n] /\ carry \subseteq Node
       /\ sendCount[n] < SentSlots
       /\ tracked = IF rel = <<>> THEN {} ELSE Members(n, q)
       /\ rel = <<>> \/ rel = SubSeq(prio[n][q], 1, Least(RelRoom, Len(prio[n][q])))
       /\ prio' = [prio EXCEPT ![n][q] = SubSeq(@, Len(rel) + 1, Len(@))]
       /\ requests' = [requests EXCEPT ![n][slot] =
                          [nCountA |-> Cardinality(tracked), rel |-> rel]]
       /\ \/ tracked = {} /\ UNCHANGED <<sendIndex, sendCount>>
          \/ /\ tracked # {}
             /\ sendIndex' = [sendIndex EXCEPT ![n] = slot]
             /\ sendCount' = [sendCount EXCEPT ![n] = @ + 1]
       /\ \A m, p \in Node :
            IF m = n /\ p \in tracked
            THEN /\ sent'[m][p] = <<[done |-> FALSE, slot |-> slot,
                                     seq |-> nextSeq[n][p] % EntryMod]>> \o sent[m][p]
                 /\ nextSeq'[m][p] = (nextSeq[m][p] + 1) % SeqMod
                 /\ sentLog'[m][p] = Append(sentLog[m][p], rel)
            ELSE /\ sent'[m][p] = sent[m][p]
                 /\ nextSeq'[m][p] = nextSeq[m][p]
                 /\ sentLog'[m][p] = sentLog[m][p]
       /\ \A m, p \in Node :
            IF m = n /\ p \in carry
            THEN plain[m][p] # <<>> /\ plain'[m][p] = Tail(plain[m][p])
            ELSE plain'[m][p] = plain[m][p]
       /\ \A d \in net' : d \in net \/
            /\ d.src = n /\ ~d.again /\ d.dst \in Node
            /\ d.rel # <<>> => /\ d.dst \in tracked /\ d.rel = rel
                              /\ d.seq = nextSeq[n][d.dst]
            /\ d.msg # <<>> => d.dst \in carry /\ d.msg[1] = Head(plain[n][d.dst])

\* A packet with a Guaranteed part is tracked for every member: the flag is
\* down, so no member's ring is full.
LEMMA SendPacketEffect ==
    ASSUME TypeOK, RingInv, NEW n \in Node, SendPacket(n)
    PROVE  \E q, rel, tracked, carry : Sends(n, q, rel, tracked, carry)
<1>1. PICK j \in 1..Len(QueueOrder) :
         \E fits : Served(n, j) /\ SendPacketOf(n, QueueOrder[j], fits)
  BY DEF SendPacket
<1>a. PICK fits : Served(n, j) /\ SendPacketOf(n, QueueOrder[j], fits)
  BY <1>1
<1> DEFINE q       == QueueOrder[j]
           to      == Members(n, q)
           batch   == SubSeq(prio[n][q], 1, Least(RelRoom, Len(prio[n][q])))
           rel     == IF limitReached[n] THEN <<>> ELSE batch
           carry   == {p \in Node : /\ plain[n][p] # <<>>
                                    /\ IF rel = <<>> THEN p = q ELSE p \in fits}
           tracked == {p \in to : rel # <<>> /\ p \notin overflow[n]
                                             /\ Len(sent[n][p]) < SentCap}
           slot    == NextSlot(n)
           msg(p)  == IF p \in carry THEN <<Head(plain[n][p])>> ELSE <<>>
           first(p) == [src |-> n, dst |-> p, seq |-> nextSeq[n][p],
                        again |-> FALSE, rel |-> rel, msg |-> msg(p)]
           light(p) == [src |-> n, dst |-> p, seq |-> 0,
                        again |-> FALSE, rel |-> <<>>, msg |-> msg(p)]
           entry(p) == [done |-> FALSE, slot |-> slot, seq |-> nextSeq[n][p] % EntryMod]
           out == {first(p) : p \in tracked} \cup
                  {light(p) : p \in {r \in to : rel = <<>> /\ r \in carry}}
<1>2. /\ prio' = [prio EXCEPT ![n][q] = SubSeq(@, Len(rel) + 1, Len(@))]
      /\ plain' = [plain EXCEPT ![n] = [p \in Node |->
                      IF p \in carry THEN Tail(@[p]) ELSE @[p]]]
      /\ requests' = [requests EXCEPT ![n][slot] =
                         [nCountA |-> Cardinality(tracked), rel |-> rel]]
      /\ IF tracked # {}
         THEN /\ sendIndex' = [sendIndex EXCEPT ![n] = slot]
              /\ sendCount' = [sendCount EXCEPT ![n] = @ + 1]
         ELSE UNCHANGED <<sendIndex, sendCount>>
      /\ sent' = [sent EXCEPT ![n] = [p \in Node |->
            IF p \in tracked THEN <<entry(p)>> \o @[p] ELSE @[p]]]
      /\ nextSeq' = [nextSeq EXCEPT ![n] = [p \in Node |->
            IF p \in tracked THEN (@[p] + 1) % SeqMod ELSE @[p]]]
      /\ sentLog' = [sentLog EXCEPT ![n] = [p \in Node |->
            IF p \in tracked THEN Append(@[p], rel) ELSE @[p]]]
      /\ Transmit(out)
  BY <1>a DEF SendPacketOf
<1>3. phase[n] # "resend" /\ RingOf(n)
  BY DEF SendPacket, FrameMayRun, RingInv
<1>4. sendCount[n] < SentSlots  BY <1>a DEF Served, Sendable
<1>5. /\ q \in Queue /\ to \subseteq Node \cap peers[n]
      /\ carry \subseteq Node
  <2>1. q \in Queue  BY OrderAssumption, ElementOfSeq
  <2> QED  BY <2>1 DEF Members, TypeOK, PeerTypes
<1>6. rel \in Seq(Message)
  <2>1. prio[n][q] \in Seq(Message)  BY <1>5 DEF TypeOK, QueueTypes
  <2>2. batch \in Seq(Message)  BY <2>1, BatchType
  <2> HIDE DEF batch
  <2> QED  BY <2>2, EmptySeq
<1>7. tracked = IF rel = <<>> THEN {} ELSE to
  <2>1. rel # <<>> => ~limitReached[n]  OBVIOUS
  <2>2. overflow[n] = {} /\ unchecked[n] = {}  BY <1>3 DEF RingOf
  <2>3. rel # <<>> => \A p \in Node : Len(sent[n][p]) < SentCap
    BY <1>3, <2>1, <2>2 DEF RingOf
  <2> HIDE DEF rel, to
  <2> QED  BY <1>5, <2>2, <2>3
<1>8. rel = <<>> \/ rel = batch  OBVIOUS
<1>9. \A p \in carry : plain[n][p] # <<>>  OBVIOUS
<1>10. \A d \in out :
            /\ d.src = n /\ ~d.again /\ d.dst \in Node
            /\ d.rel # <<>> => /\ d.dst \in tracked /\ d.rel = rel
                              /\ d.seq = nextSeq[n][d.dst]
            /\ d.msg # <<>> => d.dst \in carry /\ d.msg[1] = Head(plain[n][d.dst])
  <2> HIDE DEF rel, carry, to
  <2>1. \A p \in Node : msg(p) # <<>> => p \in carry /\ msg(p)[1] = Head(plain[n][p])
    OBVIOUS
  <2> HIDE DEF msg
  <2> QED  BY <1>5, <2>1
<1> HIDE DEF q, batch, rel, slot, to, carry, tracked, out, entry
<1>11. net' \subseteq net \cup out  BY <1>2 DEF Transmit
<1>12. ASSUME NEW m \in Node, NEW p \in Node
       PROVE  /\ IF m = n /\ p \in tracked
                 THEN /\ sent'[m][p] = <<entry(p)>> \o sent[m][p]
                      /\ nextSeq'[m][p] = (nextSeq[m][p] + 1) % SeqMod
                      /\ sentLog'[m][p] = Append(sentLog[m][p], rel)
                 ELSE /\ sent'[m][p] = sent[m][p]
                      /\ nextSeq'[m][p] = nextSeq[m][p]
                      /\ sentLog'[m][p] = sentLog[m][p]
              /\ IF m = n /\ p \in carry
                 THEN plain[m][p] # <<>> /\ plain'[m][p] = Tail(plain[m][p])
                 ELSE plain'[m][p] = plain[m][p]
  BY <1>2, <1>9 DEF TypeOK, SentTypes, QueueTypes
<1>13. Sends(n, q, rel, tracked, carry)
  <2>1. \/ tracked = {} /\ UNCHANGED <<sendIndex, sendCount>>
        \/ /\ tracked # {}
           /\ sendIndex' = [sendIndex EXCEPT ![n] = slot]
           /\ sendCount' = [sendCount EXCEPT ![n] = @ + 1]
    BY <1>2
  <2>2. \A d \in net' : d \in net \/
            /\ d.src = n /\ ~d.again /\ d.dst \in Node
            /\ d.rel # <<>> => /\ d.dst \in tracked /\ d.rel = rel
                              /\ d.seq = nextSeq[n][d.dst]
            /\ d.msg # <<>> => d.dst \in carry /\ d.msg[1] = Head(plain[n][d.dst])
    BY <1>10, <1>11
  <2>3. tracked \subseteq Node \cap peers[n] /\ tracked = IF rel = <<>> THEN {} ELSE Members(n, q)
    BY <1>5, <1>7 DEF to
  <2>4. \A m, p \in Node :
            IF m = n /\ p \in tracked
            THEN /\ sent'[m][p] = <<[done |-> FALSE, slot |-> NextSlot(n),
                                     seq |-> nextSeq[n][p] % EntryMod]>> \o sent[m][p]
                 /\ nextSeq'[m][p] = (nextSeq[m][p] + 1) % SeqMod
                 /\ sentLog'[m][p] = Append(sentLog[m][p], rel)
            ELSE /\ sent'[m][p] = sent[m][p]
                 /\ nextSeq'[m][p] = nextSeq[m][p]
                 /\ sentLog'[m][p] = sentLog[m][p]
    BY <1>12 DEF entry, slot
  <2>5. \A m, p \in Node :
            IF m = n /\ p \in carry
            THEN plain[m][p] # <<>> /\ plain'[m][p] = Tail(plain[m][p])
            ELSE plain'[m][p] = plain[m][p]
    BY <1>12
  <2>6. rel = <<>> \/ rel = SubSeq(prio[n][q], 1, Least(RelRoom, Len(prio[n][q])))
    BY <1>8 DEF batch
  <2>7. /\ prio' = [prio EXCEPT ![n][q] = SubSeq(@, Len(rel) + 1, Len(@))]
        /\ requests' = [requests EXCEPT ![n][slot] =
                           [nCountA |-> Cardinality(tracked), rel |-> rel]]
    BY <1>2
  <2> QED
    BY <1>4, <1>5, <1>6, <2>1, <2>2, <2>3, <2>4, <2>5, <2>6, <2>7 DEF Sends, slot
<1> QED  BY <1>13

\* The new packet takes a free slot, counts every peer it goes to and moves the
\* other slots one place on.
LEMMA SendPacketSlots ==
    ASSUME TypeOK, RingInv, SlotsInv, NEW n \in Node, SendPacket(n)
    PROVE  SlotsInv'
<1>1. PICK q, rel, tracked, carry : Sends(n, q, rel, tracked, carry)
  BY SendPacketEffect
<1> DEFINE slot == NextSlot(n)
           entry(p) == [done |-> FALSE, slot |-> slot, seq |-> nextSeq[n][p] % EntryMod]
<1>2. /\ requests' = [requests EXCEPT ![n][slot] =
                         [nCountA |-> Cardinality(tracked), rel |-> rel]]
      /\ tracked \subseteq Node /\ sendCount[n] < SentSlots
      /\ \/ tracked = {} /\ UNCHANGED <<sendIndex, sendCount>>
         \/ /\ tracked # {}
            /\ sendIndex' = [sendIndex EXCEPT ![n] = slot]
            /\ sendCount' = [sendCount EXCEPT ![n] = @ + 1]
  BY <1>1 DEF Sends
<1>b. \A m, p \in Node :
         sent'[m][p] = IF m = n /\ p \in tracked THEN <<entry(p)>> \o sent[m][p]
                                                 ELSE sent[m][p]
  <2> SUFFICES ASSUME NEW m \in Node, NEW p \in Node
               PROVE  sent'[m][p] = IF m = n /\ p \in tracked THEN <<entry(p)>> \o sent[m][p]
                                                              ELSE sent[m][p]
    OBVIOUS
  <2>1. CASE m = n /\ p \in tracked  BY <1>1, <2>1 DEF Sends
  <2>2. CASE ~(m = n /\ p \in tracked)  BY <1>1, <2>2 DEF Sends
  <2> QED  BY <2>1, <2>2
<1>3. slot \in RequestSlot /\ RequestTypes  BY NextSlotType DEF TypeOK
<1>4. SlotsOf(n)  BY DEF SlotsInv
<1>5. \A p \in Node : entry(p) \in Entry /\ entry(p).slot = slot /\ ~entry(p).done
  <2>1. ASSUME NEW p \in Node PROVE nextSeq[n][p] % EntryMod \in 0..(EntryMod - 1)
    <3>1. nextSeq[n][p] \in Int  BY DEF TypeOK, SentTypes, SeqNum
    <3> QED  BY <3>1, ModType, SizeAssumption
  <2> QED  BY <1>3, <2>1 DEF Entry
<1> HIDE DEF entry
<1>6. ~InUse(n, slot)  BY <1>2, <1>3, NextSlotIsFree
<1>7. \A p \in Node : slot \notin Owed(sent[n][p])
  BY <1>4, <1>6 DEF SlotsOf, OwedIsHeld
<1>8. ASSUME NEW p \in Node
      PROVE  /\ Owed(sent'[n][p]) = Owed(sent[n][p]) \cup (IF p \in tracked THEN {slot} ELSE {})
             /\ Distinct(sent'[n][p])
  <2>1. sent[n][p] \in Seq(Entry) /\ Distinct(sent[n][p])
    BY <1>4, RingTypes DEF SlotsOf, OwedOnce
  <2>2. CASE p \in tracked
    <3>1. /\ Owed(<<entry(p)>> \o sent[n][p]) = Owed(sent[n][p]) \cup {slot}
          /\ Distinct(<<entry(p)>> \o sent[n][p])
      BY <1>5, <1>7, <2>1, OwedPrepend
    <3> QED  BY <1>b, <2>2, <3>1
  <2>3. CASE p \notin tracked  BY <1>b, <2>1, <2>3
  <2> QED  BY <2>2, <2>3
<1> HIDE DEF slot
<1>9. \A s \in RequestSlot : requests'[n][s] =
         IF s = slot THEN [nCountA |-> Cardinality(tracked), rel |-> rel]
                     ELSE requests[n][s]
  BY <1>2, <1>3, RingTypes
<1>10. \A s : Debtors(n, s)' = IF s = slot THEN tracked ELSE Debtors(n, s)
  <2>1. ASSUME NEW s
        PROVE  Debtors(n, s)' = {p \in Node : s \in Owed(sent'[n][p])}
    BY DEF Debtors
  <2> QED  BY <1>2, <1>7, <1>8, <2>1 DEF Debtors
<1>11. ASSUME tracked = {} PROVE SlotsOf(n)'
  <2>1. ASSUME NEW s PROVE InUse(n, s)' <=> InUse(n, s)
    BY <1>2, <1>11 DEF InUse, PlaceOf
  <2>2. CountsDebtors(n)'
    <3>1. ASSUME NEW s \in RequestSlot, InUse(n, s)
          PROVE  requests'[n][s].nCountA = Cardinality(Debtors(n, s)')
      BY <1>4, <1>6, <1>9, <1>10, <3>1 DEF SlotsOf, CountsDebtors
    <3> QED  BY <2>1, <3>1 DEF CountsDebtors
  <2>3. OwedIsHeld(n)'
    BY <1>4, <1>8, <1>11, <2>1 DEF OwedIsHeld, SlotsOf
  <2> QED  BY <1>8, <2>2, <2>3 DEF SlotsOf, OwedOnce
<1>12. ASSUME tracked # {} PROVE SlotsOf(n)'
  <2>1. sendIndex'[n] = slot /\ sendCount'[n] = sendCount[n] + 1 /\ sendCount[n] \in Nat
    <3>1. /\ sendIndex' = [sendIndex EXCEPT ![n] = slot]
          /\ sendCount' = [sendCount EXCEPT ![n] = @ + 1]
      BY <1>2, <1>12
    <3> QED  BY <1>3, <3>1, SizeAssumption DEF RequestTypes
  <2>2. ASSUME NEW s \in RequestSlot
        PROVE  InUse(n, s)' <=> s = slot \/ InUse(n, s)
    <3>1. PlaceOf(n, s)' = IF s >= slot THEN s - slot ELSE s - slot + ReqSlots
      BY <2>1 DEF PlaceOf
    <3>2. PlaceOf(n, s)' = IF s = slot THEN 0 ELSE PlaceOf(n, s) + 1
      BY <1>3, <3>1, NextSlotIsFree DEF slot
    <3>3. PlaceOf(n, s) \in Nat  BY <1>3, PlaceOfSlot
    <3> QED  BY <1>6, <2>1, <2>2, <3>2, <3>3 DEF InUse
  <2>3. ASSUME NEW s, ~(s \in RequestSlot) PROVE ~InUse(n, s)
    BY <2>3 DEF InUse
  <2>4. CountsDebtors(n)'
    <3>1. ASSUME NEW s \in RequestSlot, s = slot \/ InUse(n, s)
          PROVE  requests'[n][s].nCountA = Cardinality(Debtors(n, s)')
      BY <1>4, <1>9, <1>10, <3>1 DEF SlotsOf, CountsDebtors
    <3> QED  BY <2>2, <3>1 DEF CountsDebtors
  <2>5. OwedIsHeld(n)'
    <3>1. ASSUME NEW p \in Node, NEW s \in Owed(sent'[n][p])
          PROVE  s \in RequestSlot /\ (s = slot \/ InUse(n, s))
      <4>1. s \in Owed(sent[n][p]) \/ s = slot  BY <1>8, <3>1
      <4> QED  BY <1>3, <1>4, <2>3, <4>1 DEF SlotsOf, OwedIsHeld
    <3> QED  BY <2>2, <3>1 DEF OwedIsHeld
  <2> QED  BY <1>8, <2>4, <2>5 DEF SlotsOf, OwedOnce
<1>13. SlotsOf(n)'  BY <1>11, <1>12
<1>14. ASSUME NEW m \in Node, m # n PROVE SlotsOf(m)'
  <2>1. SlotsOf(m)  BY DEF SlotsInv
  <2>2. \A p \in Node : sent'[m][p] = sent[m][p] /\ Distinct(sent[m][p])
    BY <1>b, <1>14, <2>1 DEF SlotsOf, OwedOnce
  <2>3. /\ sendIndex'[m] = sendIndex[m] /\ sendCount'[m] = sendCount[m]
        /\ requests'[m] = requests[m]
    BY <1>2, <1>14, RingTypes
  <2> QED  BY <2>1, <2>2, <2>3, SlotsKept
<1> QED  BY <1>13, <1>14 DEF SlotsInv

-----------------------------------------------------------------------------
(* The theorem *)

LEMMA NextSlots == IInv /\ SlotsInv /\ [Next]_vars => SlotsInv'
<1> SUFFICES ASSUME TypeOK, RingInv, SlotsInv, [Next]_vars PROVE SlotsInv'
  BY DEF IInv
<1>1. ASSUME NEW n \in Node, NEW q \in Queue, SendMessagePriority(n, q)
      PROVE  SlotsInv'
  BY <1>1, SlotsUnchanged DEF SendMessagePriority, sentVars
<1>2. ASSUME NEW n \in Node, NEW p \in Node, SendMessage(n, p) PROVE SlotsInv'
  BY <1>2, SlotsUnchanged DEF SendMessage, sentVars
<1>3. ASSUME NEW n \in Node, NEW p \in Node, DisconnectPeer(n, p) PROVE SlotsInv'
  BY <1>3, DisconnectPeerSlots
<1>4. ASSUME NEW n \in Node, NEW d \in net, RecvPacket(n, d) PROVE SlotsInv'
  BY <1>4, RecvPacketSlots
<1>5. ASSUME NEW d \in net, Lose(d) PROVE SlotsInv'
  BY <1>5, SlotsUnchanged DEF Lose, sentVars
<1>6. ASSUME NEW n \in Node, FinishReceive(n) PROVE SlotsInv'
  BY <1>6, FinishReceiveSlots
<1>7. ASSUME NEW n \in Node, NEW p \in Node, CheckPeer(n, p) PROVE SlotsInv'
  BY <1>7, SlotsUnchanged DEF CheckPeer
<1>8. ASSUME NEW n \in Node, NEW p \in Node, PopOldest(n, p) PROVE SlotsInv'
  BY <1>8, PopOldestSlots
<1>9. ASSUME NEW n \in Node, SendPacket(n) PROVE SlotsInv'
  BY <1>9, SendPacketSlots
<1>10. ASSUME NEW n \in Node, EndSend(n) PROVE SlotsInv'
  BY <1>10, SlotsUnchanged DEF EndSend, sentVars
<1>11. CASE UNCHANGED vars
  BY <1>11, SlotsUnchanged DEF vars, sentVars
<1> QED
  BY <1>1, <1>2, <1>3, <1>4, <1>5, <1>6, <1>7, <1>8, <1>9, <1>10, <1>11 DEF Next

\* What a peer owes lies in request slots in use, in each at most once, and a slot
\* in use counts the peers that owe it: none is freed early or kept for nobody.
THEOREM SlotsInvariant == Spec => [](IInv /\ SlotsInv)
<1>1. Init => IInv /\ SlotsInv  BY InitIInv, InitSlots
<1>2. IInv /\ SlotsInv /\ [Next]_vars => (IInv /\ SlotsInv)'  BY NextIInv, NextSlots
<1> QED  BY <1>1, <1>2, PTL DEF Spec

LEMMA SlotsHeld == SlotsInv => RequestsHeld
<1> SUFFICES ASSUME SlotsInv PROVE RequestsHeld  OBVIOUS
<1>1. ASSUME NEW n \in Node, NEW p \in Node, NEW i \in 1..Len(sent[n][p]),
             ~sent[n][p][i].done
      PROVE  InUse(n, sent[n][p][i].slot)
  <2>1. sent[n][p][i].slot \in Owed(sent[n][p])  BY <1>1 DEF Owed, Undone
  <2> QED  BY <2>1 DEF SlotsInv, SlotsOf, OwedIsHeld
<1>2. ASSUME NEW n \in Node, NEW s \in RequestSlot, InUse(n, s)
      PROVE  requests[n][s].nCountA = Cardinality({p \in Node :
                \E i \in 1..Len(sent[n][p]) :
                   ~sent[n][p][i].done /\ sent[n][p][i].slot = s})
  <2>1. Debtors(n, s) = {p \in Node : \E i \in 1..Len(sent[n][p]) :
                            ~sent[n][p][i].done /\ sent[n][p][i].slot = s}
    BY DEF Debtors, Owed, Undone
  <2> QED  BY <1>2, <2>1 DEF SlotsInv, SlotsOf, CountsDebtors
<1> QED  BY <1>1, <1>2 DEF RequestsHeld

\* UpdateSend never hands out a slot that may still have to be sent again, and a
\* request's nCountA never drifts from the number of peers that owe it: neither
\* acknowledgements in any order, nor resends, nor ClearPeerArray for a peer
\* that leaves give a packet back twice or not at all.
THEOREM RequestsAreHeld == Spec => []RequestsHeld
BY SlotsInvariant, SlotsHeld, PTL
=============================================================================
