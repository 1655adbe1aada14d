---------------------- MODULE NetSessionChannelProofs -----------------------
(***************************************************************************)
(* NetSession implements ReliableChannel, for every number of players,     *)
(* every size and every network that loses, repeats and reorders, as long  *)
(* as no number is used twice: the eight bits of a number an entry keeps   *)
(* and half of the twelve a packet carries are enough for what one player  *)
(* numbers for another (NumbersLast).  Once the eight bits are used up a   *)
(* resend may go out under the number of another packet.                   *)
(***************************************************************************)
EXTENDS NetSessionProofs

-----------------------------------------------------------------------------
(* The inductive invariant *)

NumbersLast == \A n, p \in Node :
    Len(sentLog[n][p]) <= EntryMod /\ Len(sentLog[n][p]) <= SeqMod \div 2

\* Number k of the packets of n for p is dispatched or waits in the window.
Received(n, p, k) ==
    \/ k \in 0..(Len(delivered[p][n]) - 1)
    \/ \E j \in 1..Len(window[p][n]) :
          window[p][n][j] # Gap /\ window[p][n][j].seq = k

\* rel is what went out under number k.
Went(n, p, k, rel) == k + 1 \in 1..Len(sentLog[n][p]) /\ rel = sentLog[n][p][k + 1]

IsAck(d) == d.msg # <<>> /\ d.msg[1].kind = "ack"

\* What p dispatched of n is the beginning of what n numbered; both count it.
LogsAgree(n, p) ==
    /\ Len(delivered[p][n]) <= Len(sentLog[n][p])
    /\ \A i \in 1..Len(delivered[p][n]) : delivered[p][n][i] = sentLog[n][p][i]
    /\ lastAck[p][n] = Len(delivered[p][n])
    /\ nextSeq[n][p] = Len(sentLog[n][p])

\* What waits at p and what travels to it was numbered so.
WaitingIsNumbered(n, p) ==
    \A j \in 1..Len(window[p][n]) : window[p][n][j] # Gap =>
        /\ window[p][n][j].seq = Len(delivered[p][n]) + j - 1
        /\ Went(n, p, window[p][n][j].seq, window[p][n][j].rel)

FlyingIsNumbered(n, p) ==
    \A d \in net : d.src = n /\ d.dst = p /\ d.rel # <<>> => Went(n, p, d.seq, d.rel)

\* What n keeps for p holds the packet it would send again.
KeptIsNumbered(n, p) ==
    \A i \in 1..Len(sent[n][p]) :
        /\ sent[n][p][i].seq + 1 \in 1..Len(sentLog[n][p])
        /\ ~sent[n][p][i].done =>
             Went(n, p, sent[n][p][i].seq, requests[n][sent[n][p][i].slot].rel)

\* An acknowledgement, queued at p, on its way to n or marked there, is of a
\* packet p received, as long as p knows n.
AcksAreTrue(n, p) == n \in peers[p] =>
    /\ \A i \in 1..Len(plain[p][n]) :
         plain[p][n][i].kind = "ack" => Received(n, p, plain[p][n][i].seq)
    /\ \A d \in net : d.src = p /\ d.dst = n /\ IsAck(d) => Received(n, p, d.msg[1].seq)
    /\ \A i \in 1..Len(sent[n][p]) :
         sent[n][p][i].done => Received(n, p, sent[n][p][i].seq)

ChannelOf(n, p) ==
    /\ LogsAgree(n, p) /\ WaitingIsNumbered(n, p) /\ FlyingIsNumbered(n, p)
    /\ KeptIsNumbered(n, p) /\ AcksAreTrue(n, p)

ChannelInv == \A n, p \in Node : ChannelOf(n, p)

-----------------------------------------------------------------------------
(* What a step has to show *)

\* Logs only grow, and what was received stays so while the sender is known.
LogStays(n, p) == \A k, rel : Went(n, p, k, rel) => Went(n, p, k, rel)'

GotStays(n, p) == n \in peers'[p] => \A k : Received(n, p, k) => Received(n, p, k)'

LEMMA WaitingSame ==
    ASSUME NEW n \in Node, NEW p \in Node, WaitingIsNumbered(n, p), LogStays(n, p),
           delivered'[p][n] = delivered[p][n], window'[p][n] = window[p][n]
    PROVE  WaitingIsNumbered(n, p)'
BY DEF WaitingIsNumbered, LogStays

LEMMA LogsSame ==
    ASSUME NEW n \in Node, NEW p \in Node, LogsAgree(n, p),
           delivered'[p][n] = delivered[p][n], sentLog'[n][p] = sentLog[n][p],
           lastAck'[p][n] = lastAck[p][n], nextSeq'[n][p] = nextSeq[n][p]
    PROVE  LogsAgree(n, p)' /\ LogStays(n, p)
BY DEF LogsAgree, LogStays, Went

LEMMA GotSame ==
    ASSUME NEW n \in Node, NEW p \in Node,
           delivered'[p][n] = delivered[p][n], window'[p][n] = window[p][n]
    PROVE  GotStays(n, p)
BY DEF GotStays, Received

LEMMA FlyingStep ==
    ASSUME NEW n \in Node, NEW p \in Node, FlyingIsNumbered(n, p), LogStays(n, p),
           \A d \in net' : d \in net \/
              (d.src = n /\ d.dst = p /\ d.rel # <<>> => Went(n, p, d.seq, d.rel)')
    PROVE  FlyingIsNumbered(n, p)'
BY DEF FlyingIsNumbered, LogStays

\* An entry is one the ring had, or new and right.
LEMMA KeptStep ==
    ASSUME NEW n \in Node, NEW p \in Node, KeptIsNumbered(n, p), LogStays(n, p),
           Len(sentLog[n][p]) \in Nat, Len(sentLog'[n][p]) \in Nat,
           Len(sentLog[n][p]) <= Len(sentLog'[n][p]),
           \A i \in 1..Len(sent'[n][p]) :
              \/ \E j \in 1..Len(sent[n][p]) :
                    /\ sent'[n][p][i].seq = sent[n][p][j].seq
                    /\ sent[n][p][j].seq \in Nat
                    /\ ~sent'[n][p][i].done =>
                         /\ ~sent[n][p][j].done
                         /\ requests'[n][sent'[n][p][i].slot].rel =
                              requests[n][sent[n][p][j].slot].rel
              \/ Went(n, p, sent[n][p][i].seq, requests[n][sent[n][p][i].slot].rel)'
    PROVE  KeptIsNumbered(n, p)'
<1> SUFFICES ASSUME NEW i \in 1..Len(sent'[n][p])
    PROVE  /\ sent'[n][p][i].seq + 1 \in 1..Len(sentLog'[n][p])
           /\ ~sent'[n][p][i].done =>
               Went(n, p, sent[n][p][i].seq, requests[n][sent[n][p][i].slot].rel)'
  BY DEF KeptIsNumbered
<1>1. CASE Went(n, p, sent[n][p][i].seq, requests[n][sent[n][p][i].slot].rel)'
  BY <1>1 DEF Went
<1>2. ASSUME NEW j \in 1..Len(sent[n][p]),
             sent'[n][p][i].seq = sent[n][p][j].seq, sent[n][p][j].seq \in Nat,
             ~sent'[n][p][i].done =>
                /\ ~sent[n][p][j].done
                /\ requests'[n][sent'[n][p][i].slot].rel =
                     requests[n][sent[n][p][j].slot].rel
      PROVE  /\ sent'[n][p][i].seq + 1 \in 1..Len(sentLog'[n][p])
             /\ ~sent'[n][p][i].done =>
                 Went(n, p, sent[n][p][i].seq, requests[n][sent[n][p][i].slot].rel)'
  <2>1. sent[n][p][j].seq + 1 \in 1..Len(sentLog[n][p])  BY DEF KeptIsNumbered
  <2>2. sent'[n][p][i].seq + 1 \in 1..Len(sentLog'[n][p])  BY <1>2, <2>1
  <2>3. ASSUME ~sent'[n][p][i].done
        PROVE  Went(n, p, sent[n][p][i].seq, requests[n][sent[n][p][i].slot].rel)'
    <3>1. Went(n, p, sent[n][p][j].seq, requests[n][sent[n][p][j].slot].rel)
      BY <1>2, <2>3 DEF KeptIsNumbered
    <3>2. Went(n, p, sent[n][p][j].seq, requests[n][sent[n][p][j].slot].rel) =>
          /\ sent[n][p][j].seq + 1 \in 1..Len(sentLog'[n][p])
          /\ requests[n][sent[n][p][j].slot].rel = sentLog'[n][p][sent[n][p][j].seq + 1]
      BY DEF LogStays, Went
    <3> QED  BY <1>2, <2>3, <3>1, <3>2 DEF Went
  <2> QED  BY <2>2, <2>3
<1> QED  BY <1>1, <1>2

\* An acknowledgement is one there was, or new and true.
LEMMA AcksStep ==
    ASSUME NEW n \in Node, NEW p \in Node, AcksAreTrue(n, p), GotStays(n, p),
           peers'[p] \subseteq peers[p],
           n \in peers'[p] =>
             /\ \A i \in 1..Len(plain'[p][n]) : plain'[p][n][i].kind = "ack" =>
                   \/ \E j \in 1..Len(plain[p][n]) : plain[p][n][j] = plain'[p][n][i]
                   \/ Received(n, p, plain[p][n][i].seq)'
             /\ \A d \in net' : d \in net \/
                   (d.src = p /\ d.dst = n /\ IsAck(d) => Received(n, p, d.msg[1].seq)')
             /\ \A i \in 1..Len(sent'[n][p]) : sent'[n][p][i].done =>
                   \/ \E j \in 1..Len(sent[n][p]) :
                        sent[n][p][j].done /\ sent[n][p][j].seq = sent'[n][p][i].seq
                   \/ Received(n, p, sent[n][p][i].seq)'
    PROVE  AcksAreTrue(n, p)'
<1> SUFFICES ASSUME n \in peers'[p]
    PROVE  /\ \A i \in 1..Len(plain'[p][n]) :
                plain'[p][n][i].kind = "ack" => Received(n, p, plain[p][n][i].seq)'
           /\ \A d \in net' : d.src = p /\ d.dst = n /\ IsAck(d) =>
                Received(n, p, d.msg[1].seq)'
           /\ \A i \in 1..Len(sent'[n][p]) :
                sent'[n][p][i].done => Received(n, p, sent[n][p][i].seq)'
  BY DEF AcksAreTrue
<1>1. \A k : Received(n, p, k) => Received(n, p, k)'  BY DEF GotStays
<1>2. n \in peers[p]  OBVIOUS
<1>3. ASSUME NEW i \in 1..Len(plain'[p][n]), plain'[p][n][i].kind = "ack"
      PROVE  Received(n, p, plain[p][n][i].seq)'
  <2>1. ASSUME NEW j \in 1..Len(plain[p][n]), plain[p][n][j] = plain'[p][n][i]
        PROVE  Received(n, p, plain[p][n][i].seq)'
    <3>1. PICK k : k = plain'[p][n][i].seq  OBVIOUS
    <3>2. Received(n, p, plain[p][n][j].seq)  BY <1>2, <1>3, <2>1 DEF AcksAreTrue
    <3>3. Received(n, p, k)'  BY <1>1, <2>1, <3>1, <3>2
    <3> QED  BY <3>1, <3>3 DEF Received
  <2> QED  BY <1>3, <2>1
<1>4. ASSUME NEW d \in net', d.src = p /\ d.dst = n /\ IsAck(d)
      PROVE  Received(n, p, d.msg[1].seq)'
  <2>1. CASE d \in net
    <3>1. Received(n, p, d.msg[1].seq)  BY <1>2, <1>4, <2>1 DEF AcksAreTrue
    <3> QED  BY <1>1, <3>1 DEF Received
  <2>2. CASE d \notin net  BY <1>4, <2>2
  <2> QED  BY <2>1, <2>2
<1>5. ASSUME NEW i \in 1..Len(sent'[n][p]), sent'[n][p][i].done
      PROVE  Received(n, p, sent[n][p][i].seq)'
  <2>1. ASSUME NEW j \in 1..Len(sent[n][p]),
               sent[n][p][j].done, sent[n][p][j].seq = sent'[n][p][i].seq
        PROVE  Received(n, p, sent[n][p][i].seq)'
    <3>1. PICK k : k = sent'[n][p][i].seq  OBVIOUS
    <3>2. Received(n, p, sent[n][p][j].seq)  BY <1>2, <2>1 DEF AcksAreTrue
    <3>3. Received(n, p, k)'  BY <1>1, <2>1, <3>1, <3>2
    <3> QED  BY <3>1, <3>3 DEF Received
  <2> QED  BY <1>5, <2>1
<1> QED  BY <1>3, <1>4, <1>5

-----------------------------------------------------------------------------
(* Numbers and windows *)

LEMMA ChannelTypes ==
    ASSUME TypeOK, NEW n \in Node, NEW p \in Node
    PROVE  /\ sentLog[n][p] \in Seq(Seq(Message)) /\ Len(sentLog[n][p]) \in Nat
           /\ delivered[p][n] \in Seq(Seq(Message)) /\ Len(delivered[p][n]) \in Nat
           /\ window[p][n] \in Seq(Packet \cup {Gap}) /\ Len(window[p][n]) \in Nat
           /\ plain[p][n] \in Seq(Ack \cup {Data}) /\ Len(plain[p][n]) \in Nat
           /\ sent[n][p] \in Seq(Entry) /\ Len(sent[n][p]) \in Nat
           /\ nextSeq[n][p] \in SeqNum /\ lastAck[p][n] \in SeqNum
<1>1. /\ sentLog[n][p] \in Seq(Seq(Message)) /\ sent[n][p] \in Seq(Entry)
      /\ nextSeq[n][p] \in SeqNum
  BY DEF TypeOK, SentTypes
<1>2. /\ delivered[p][n] \in Seq(Seq(Message))
      /\ window[p][n] \in Seq(Packet \cup {Gap}) /\ lastAck[p][n] \in SeqNum
  BY DEF TypeOK, RecvTypes
<1>3. plain[p][n] \in Seq(Ack \cup {Data})  BY DEF TypeOK, QueueTypes
<1> QED  BY <1>1, <1>2, <1>3, LenProperties

LEMMA EntryTypes ==
    ASSUME TypeOK, NEW n \in Node, NEW p \in Node, NEW i \in 1..Len(sent[n][p])
    PROVE  /\ sent[n][p][i] \in Entry
           /\ sent[n][p][i].slot \in RequestSlot /\ sent[n][p][i].seq \in Nat
<1>1. sent[n][p][i] \in Entry  BY ChannelTypes, ElementOfSeq
<1> QED  BY <1>1, SizeAssumption DEF Entry

LEMMA ModSmall ==
    ASSUME NEW m \in Nat \ {0}, NEW x \in 0..(m - 1)
    PROVE  x % m = x
OBVIOUS

LEMMA ModNegative ==
    ASSUME NEW m \in Nat \ {0}, NEW x \in 1..(m - 1)
    PROVE  (0 - x) % m = m - x
OBVIOUS

\* While no number is used twice, the twelve-bit distance is the real one.
LEMMA DeltaIsDistance ==
    ASSUME NEW l \in Nat, l <= SeqMod \div 2, NEW k \in 0..(l - 1), NEW a \in 0..l
    PROVE  Delta(k, a) = k - a
<1> DEFINE d == (k - a) % SeqMod
<1>1. SeqMod \in Nat \ {0} /\ 2 * l <= SeqMod /\ SeqMod \div 2 \in Nat
  BY SizeAssumption
<1>2. Delta(k, a) = IF d >= SeqMod \div 2 THEN d - SeqMod ELSE d  BY DEF Delta
<1>3. CASE k >= a
  <2>1. k - a \in 0..(SeqMod - 1) /\ k - a < SeqMod \div 2  BY <1>1, <1>3
  <2>2. d = k - a  BY <1>1, <2>1, ModSmall
  <2> HIDE DEF d
  <2> QED  BY <1>1, <1>2, <2>1, <2>2
<1>4. CASE k < a
  <2>1. a - k \in 1..(SeqMod - 1) /\ SeqMod - (a - k) >= SeqMod \div 2
    BY <1>1, <1>4
  <2>2. k - a = 0 - (a - k)  OBVIOUS
  <2>3. d = SeqMod - (a - k)  BY <1>1, <2>1, <2>2, ModNegative
  <2> HIDE DEF d
  <2> QED  BY <1>1, <1>2, <1>4, <2>1, <2>3
<1> QED  BY <1>3, <1>4

\* The packets Ready counts wait for no other: none is missing among them.
LEMMA ReadyIsFull ==
    ASSUME NEW S, NEW win \in Seq(S), NEW i \in 1..Ready(win)
    PROVE  win[i] # Gap
<1> DEFINE T == {k \in 1..Len(win) : \A j \in 1..k : win[j] # Gap}
<1>1. Len(win) \in Nat /\ T \subseteq 1..Len(win)  OBVIOUS
<1>2. Ready(win) \in 0..Len(win)  BY ReadyType
<1>3. SUFFICES ASSUME win[i] = Gap PROVE FALSE  OBVIOUS
<1>4. T \subseteq 1..(i - 1)
  <2>1. \A k \in T : ~(i \in 1..k)  BY <1>3
  <2> QED  BY <1>1, <1>2, <2>1
<1>5. Ready(win) = Cardinality(T)  BY DEF Ready
<1> HIDE DEF T
<1>6. i - 1 \in Nat  BY <1>2
<1>7. Cardinality(T) \in 0..(i - 1)  BY <1>4, <1>6, CountFromOne
<1> QED  BY <1>2, <1>5, <1>7

\* What is stored keeps what there was, and is there.
LEMMA StoredElements ==
    ASSUME NEW win \in Seq(Packet \cup {Gap}), NEW delta \in Nat, NEW d \in Datagram
    PROVE  LET pkt == [seq |-> d.seq, rel |-> d.rel]
               win2 == Stored(win, delta, d)
           IN /\ Len(win2) \in Nat /\ Len(win2) >= Len(win) /\ delta + 1 <= Len(win2)
              /\ \A i \in 1..Len(win2) :
                   \/ i \in 1..Len(win) /\ win2[i] = win[i]
                   \/ i = delta + 1 /\ win2[i] = pkt
                   \/ win2[i] = Gap
              /\ \A i \in 1..Len(win) : win[i] # Gap => win2[i] = win[i]
              /\ win2[delta + 1] # Gap
<1> DEFINE pkt == [seq |-> d.seq, rel |-> d.rel]
           win2 == Stored(win, delta, d)
<1>1. Len(win) \in Nat  OBVIOUS
<1>2. pkt # Gap
  <2>1. d.seq \in Nat  BY SizeAssumption DEF Datagram, SeqNum
  <2>2. pkt.seq = d.seq /\ Gap.seq = -1  BY DEF Gap
  <2> QED  BY <2>1, <2>2
<1> HIDE DEF pkt
<1>3. CASE delta < Len(win) /\ win[delta + 1] = Gap
  <2>1. win2 = [win EXCEPT ![delta + 1] = pkt]  BY <1>3 DEF Stored, pkt
  <2>2. /\ Len(win2) = Len(win)
        /\ \A i \in 1..Len(win) : win2[i] = IF i = delta + 1 THEN pkt ELSE win[i]
    BY <1>3, <2>1
  <2> HIDE DEF win2
  <2> QED  BY <1>1, <1>2, <1>3, <2>2 DEF win2, pkt
<1>4. CASE delta < Len(win) /\ win[delta + 1] # Gap
  <2>1. win2 = win  BY <1>4 DEF Stored
  <2> QED  BY <1>1, <1>4, <2>1
<1>5. CASE ~(delta < Len(win))
  <2>1. win2 = [i \in 1..(delta + 1) |->
                  IF i <= Len(win) THEN win[i] ELSE IF i <= delta THEN Gap ELSE pkt]
    BY <1>5 DEF Stored, pkt
  <2>2. win2 \in [1..(delta + 1) -> {win2[i] : i \in 1..(delta + 1)}] /\ delta + 1 \in Nat
    BY <2>1
  <2>3. \A i \in 1..(delta + 1) : win2[i] =
           IF i <= Len(win) THEN win[i] ELSE IF i <= delta THEN Gap ELSE pkt
    BY <2>1
  <2> HIDE DEF win2
  <2>4. Len(win2) = delta + 1  BY <2>2, FunctionIsSeq
  <2> QED  BY <1>1, <1>2, <1>5, <2>3, <2>4 DEF win2, pkt
<1> QED  BY <1>3, <1>4, <1>5

-----------------------------------------------------------------------------
(* One lemma per action that touches the channel *)

LEMMA InitChannel == Init => ChannelInv
<1> SUFFICES ASSUME Init, NEW n \in Node, NEW p \in Node PROVE ChannelOf(n, p)
  BY DEF ChannelInv
<1>1. /\ sentLog[n][p] = <<>> /\ delivered[p][n] = <<>> /\ window[p][n] = <<>>
      /\ plain[p][n] = <<>> /\ sent[n][p] = <<>> /\ net = {}
      /\ lastAck[p][n] = 0 /\ nextSeq[n][p] = 0
  BY DEF Init
<1> QED
  BY <1>1 DEF ChannelOf, LogsAgree, WaitingIsNumbered, FlyingIsNumbered,
              KeptIsNumbered, AcksAreTrue

\* A step that takes no packet of n for p further.
LEMMA ChannelSame ==
    ASSUME TypeOK, NEW n \in Node, NEW p \in Node, ChannelOf(n, p),
           sentLog'[n][p] = sentLog[n][p], delivered'[p][n] = delivered[p][n],
           lastAck'[p][n] = lastAck[p][n], nextSeq'[n][p] = nextSeq[n][p],
           window'[p][n] = window[p][n], sent'[n][p] = sent[n][p],
           peers'[p] \subseteq peers[p], net' \subseteq net,
           \A s \in RequestSlot : requests'[n][s].rel = requests[n][s].rel,
           \A i \in 1..Len(plain'[p][n]) : plain'[p][n][i].kind = "ack" =>
              \E j \in 1..Len(plain[p][n]) : plain[p][n][j] = plain'[p][n][i]
    PROVE  ChannelOf(n, p)'
<1>1. LogsAgree(n, p)' /\ LogStays(n, p)  BY LogsSame DEF ChannelOf
<1>2. GotStays(n, p)  BY GotSame
<1>3. WaitingIsNumbered(n, p)'  BY <1>1, WaitingSame DEF ChannelOf
<1>4. FlyingIsNumbered(n, p)'  BY <1>1, FlyingStep DEF ChannelOf
<1>5. KeptIsNumbered(n, p)'
  <2>1. Len(sentLog[n][p]) \in Nat /\ Len(sentLog[n][p]) <= Len(sentLog'[n][p])
    BY ChannelTypes
  <2> QED  BY <1>1, <2>1, EntryTypes, KeptStep DEF ChannelOf
<1>6. AcksAreTrue(n, p)'
  <2>1. \A i \in 1..Len(sent'[n][p]) : sent'[n][p][i].done =>
           \E j \in 1..Len(sent[n][p]) :
              sent[n][p][j].done /\ sent[n][p][j].seq = sent'[n][p][i].seq
    OBVIOUS
  <2> QED  BY <1>2, <2>1, AcksStep DEF ChannelOf
<1> QED  BY <1>1, <1>3, <1>4, <1>5, <1>6 DEF ChannelOf

LEMMA ChannelUnchanged ==
    ASSUME TypeOK, ChannelInv, net' \subseteq net,
           UNCHANGED <<plain, requests, sent, nextSeq, sentLog, recvVars, peers>>
    PROVE  ChannelInv'
<1>1. ASSUME NEW n \in Node, NEW p \in Node PROVE ChannelOf(n, p)'
  <2>1. ChannelOf(n, p)  BY DEF ChannelInv
  <2> QED  BY <2>1, ChannelSame DEF recvVars
<1> QED  BY <1>1 DEF ChannelInv

LEMMA SendMessageChannel ==
    ASSUME TypeOK, ChannelInv, NEW m \in Node, NEW r \in Node, SendMessage(m, r)
    PROVE  ChannelInv'
<1>1. /\ plain' = [plain EXCEPT ![m][r] = Appended(plain[m][r], Data)]
      /\ UNCHANGED <<requests, sent, nextSeq, sentLog, recvVars, peers, net>>
  BY DEF SendMessage, requestVars, sentVars, peerVars
<1>2. ASSUME NEW n \in Node, NEW p \in Node PROVE ChannelOf(n, p)'
  <2>1. ChannelOf(n, p) /\ plain[p][n] \in Seq(Ack \cup {Data})
    BY ChannelTypes DEF ChannelInv
  <2>2. \/ plain'[p][n] = plain[p][n]
        \/ plain'[p][n] = Appended(plain[p][n], Data)
    BY <1>1 DEF TypeOK, QueueTypes
  <2>3. ASSUME NEW i \in 1..Len(plain'[p][n]), plain'[p][n][i].kind = "ack"
        PROVE  \E j \in 1..Len(plain[p][n]) : plain[p][n][j] = plain'[p][n][i]
    <3>1. CASE plain'[p][n] = plain[p][n]  BY <2>3, <3>1
    <3>2. CASE plain'[p][n] = Append(plain[p][n], Data)
      <4>1. i \in 1..(Len(plain[p][n]) + 1) /\ Len(plain[p][n]) \in Nat
        BY <2>1, <2>3, <3>2
      <4>2. i # Len(plain[p][n]) + 1  BY <2>1, <2>3, <3>2 DEF Data
      <4> QED  BY <2>1, <3>2, <4>1, <4>2
    <3>3. CASE plain'[p][n] = <<>>  BY <2>3, <3>3
    <3> QED  BY <2>2, <3>1, <3>2, <3>3 DEF Appended
  <2> QED  BY <1>1, <2>1, <2>3, ChannelSame DEF recvVars
<1> QED  BY <1>2 DEF ChannelInv

\* The peer that is dropped has nothing left here, and nothing is promised of it.
LEMMA DisconnectPeerChannel ==
    ASSUME TypeOK, ChannelInv, NEW m \in Node, NEW r \in Node, DisconnectPeer(m, r)
    PROVE  ChannelInv'
<1>1. /\ peers' = [peers EXCEPT ![m] = @ \ {r}]
      /\ requests' = [requests EXCEPT ![m] = GivenBack(m, Owed(sent[m][r]))]
      /\ sent' = [sent EXCEPT ![m][r] = <<>>]
      /\ window' = [window EXCEPT ![m][r] = <<>>]
      /\ UNCHANGED <<plain, nextSeq, sentLog, lastAck, delivered, net>>
  BY DEF DisconnectPeer, Cleared, Owed, Undone, queueVars
<1>2. ASSUME NEW n \in Node, NEW p \in Node PROVE ChannelOf(n, p)'
  <2>1. ChannelOf(n, p)  BY DEF ChannelInv
  <2>2. /\ sent'[n][p] = IF n = m /\ p = r THEN <<>> ELSE sent[n][p]
        /\ window'[p][n] = IF p = m /\ n = r THEN <<>> ELSE window[p][n]
        /\ peers'[p] = IF p = m THEN peers[p] \ {r} ELSE peers[p]
    BY <1>1 DEF TypeOK, SentTypes, RecvTypes, PeerTypes
  <2>3. \A s \in RequestSlot : requests'[n][s].rel = requests[n][s].rel
    <3>1. requests[m] \in [RequestSlot -> Request]  BY DEF TypeOK, RequestTypes
    <3>2. \A s \in RequestSlot :
             GivenBack(m, Owed(sent[m][r]))[s].rel = requests[m][s].rel
      BY <3>1 DEF GivenBack, Request
    <3>3. requests'[n] = IF n = m THEN GivenBack(m, Owed(sent[m][r])) ELSE requests[n]
      BY <1>1 DEF TypeOK, RequestTypes
    <3> QED  BY <3>2, <3>3
  <2>4. LogsAgree(n, p)' /\ LogStays(n, p)  BY <1>1, <2>1, LogsSame DEF ChannelOf
  <2>5. GotStays(n, p)
    <3>1. CASE p = m /\ n = r  BY <2>2, <3>1 DEF GotStays
    <3>2. CASE ~(p = m /\ n = r)  BY <1>1, <2>2, <3>2, GotSame
    <3> QED  BY <3>1, <3>2
  <2>6. WaitingIsNumbered(n, p)'
    <3>1. CASE p = m /\ n = r  BY <2>2, <3>1 DEF WaitingIsNumbered
    <3>2. CASE ~(p = m /\ n = r)
      BY <1>1, <2>1, <2>2, <2>4, <3>2, WaitingSame DEF ChannelOf
    <3> QED  BY <3>1, <3>2
  <2>7. FlyingIsNumbered(n, p)'  BY <1>1, <2>1, <2>4, FlyingStep DEF ChannelOf
  <2>8. KeptIsNumbered(n, p)'
    <3>1. CASE n = m /\ p = r  BY <2>2, <3>1 DEF KeptIsNumbered
    <3>2. CASE ~(n = m /\ p = r)
      <4>1. Len(sentLog[n][p]) \in Nat /\ Len(sentLog[n][p]) <= Len(sentLog'[n][p])
        BY <1>1, ChannelTypes
      <4>2. \A i \in 1..Len(sent[n][p]) :
               sent[n][p][i].slot \in RequestSlot /\ sent[n][p][i].seq \in Nat
        BY EntryTypes
      <4> QED
        BY <1>1, <2>1, <2>2, <2>3, <2>4, <3>2, <4>1, <4>2, KeptStep DEF ChannelOf
    <3> QED  BY <3>1, <3>2
  <2>9. AcksAreTrue(n, p)'
    <3>1. \A i \in 1..Len(sent'[n][p]) : sent'[n][p][i].done =>
             \E j \in 1..Len(sent[n][p]) :
                sent[n][p][j].done /\ sent[n][p][j].seq = sent'[n][p][i].seq
      BY <2>2
    <3> QED  BY <1>1, <2>1, <2>2, <2>5, <3>1, AcksStep DEF ChannelOf
  <2> QED  BY <2>4, <2>6, <2>7, <2>8, <2>9 DEF ChannelOf
<1> QED  BY <1>2 DEF ChannelInv

\* What arrives in the window lies where its number says.
LEMMA StoredIsNumbered ==
    ASSUME TypeOK, NumbersLast, NEW n \in Node, NEW p \in Node, ChannelOf(n, p),
           NEW d \in net, d.src = n, d.dst = p, d.rel # <<>>,
           Delta(d.seq, lastAck[p][n]) >= 0,
           window'[p][n] = Stored(window[p][n], Delta(d.seq, lastAck[p][n]), d),
           delivered'[p][n] = delivered[p][n], sentLog'[n][p] = sentLog[n][p]
    PROVE  WaitingIsNumbered(n, p)' /\ GotStays(n, p) /\ Received(n, p, d.seq)'
<1> DEFINE delta == Delta(d.seq, lastAck[p][n])
           old   == Len(delivered[p][n])
           win   == window[p][n]
           win2  == window'[p][n]
           pkt   == [seq |-> d.seq, rel |-> d.rel]
<1>1. d \in Datagram /\ d.seq \in Nat /\ win \in Seq(Packet \cup {Gap})
      /\ Len(win) \in Nat /\ old \in Nat /\ Len(sentLog[n][p]) \in Nat
  BY ChannelTypes, SizeAssumption DEF TypeOK, Datagram, SeqNum
<1>2. /\ Went(n, p, d.seq, d.rel) /\ lastAck[p][n] = old /\ old <= Len(sentLog[n][p])
  BY DEF ChannelOf, FlyingIsNumbered, LogsAgree
<1>3. delta = d.seq - old /\ delta \in Nat
  <2>1. Len(sentLog[n][p]) <= SeqMod \div 2  BY DEF NumbersLast
  <2>2. d.seq \in 0..(Len(sentLog[n][p]) - 1) /\ old \in 0..Len(sentLog[n][p])
    BY <1>1, <1>2 DEF Went
  <2>3. delta = d.seq - old  BY <1>1, <1>2, <2>1, <2>2, DeltaIsDistance
  <2> QED  BY <1>1, <2>3
<1> HIDE DEF delta
<1>4. /\ win2 = Stored(win, delta, d)
      /\ Len(win2) \in Nat /\ Len(win2) >= Len(win) /\ delta + 1 <= Len(win2)
      /\ \A i \in 1..Len(win2) :
           \/ i \in 1..Len(win) /\ win2[i] = win[i]
           \/ i = delta + 1 /\ win2[i] = pkt
           \/ win2[i] = Gap
      /\ \A i \in 1..Len(win) : win[i] # Gap => win2[i] = win[i]
      /\ win2[delta + 1] # Gap
  <2>1. win2 = Stored(win, delta, d)  BY DEF delta
  <2>2. /\ Len(Stored(win, delta, d)) \in Nat /\ Len(Stored(win, delta, d)) >= Len(win)
        /\ delta + 1 <= Len(Stored(win, delta, d))
        /\ \A i \in 1..Len(Stored(win, delta, d)) :
             \/ i \in 1..Len(win) /\ Stored(win, delta, d)[i] = win[i]
             \/ i = delta + 1 /\ Stored(win, delta, d)[i] = pkt
             \/ Stored(win, delta, d)[i] = Gap
        /\ \A i \in 1..Len(win) : win[i] # Gap => Stored(win, delta, d)[i] = win[i]
        /\ Stored(win, delta, d)[delta + 1] # Gap
    <3>1. win \in Seq(Packet \cup {Gap}) /\ delta \in Nat /\ d \in Datagram  BY <1>1, <1>3
    <3> HIDE DEF win
    <3> QED  BY <3>1, StoredElements, Zenon DEF pkt
  <2> HIDE DEF win, win2, pkt
  <2> QED  BY <2>1, <2>2
<1>5. ASSUME NEW j \in 1..Len(win2), win2[j] # Gap
      PROVE  win2[j].seq = old + j - 1 /\ Went(n, p, win2[j].seq, win2[j].rel)
  <2>1. CASE j \in 1..Len(win) /\ win2[j] = win[j]
    BY <1>5, <2>1 DEF ChannelOf, WaitingIsNumbered
  <2>2. CASE j = delta + 1 /\ win2[j] = pkt
    <3>1. win2[j].seq = d.seq /\ win2[j].rel = d.rel  BY <2>2
    <3>2. d.seq = old + j - 1  BY <1>1, <1>3, <2>2
    <3> QED  BY <1>2, <3>1, <3>2
  <2> QED  BY <1>4, <1>5, <2>1, <2>2
<1>6. WaitingIsNumbered(n, p)'  BY <1>5 DEF WaitingIsNumbered, Went
<1>7. GotStays(n, p)
  <2>1. ASSUME NEW k, Received(n, p, k) PROVE Received(n, p, k)'
    <3>1. CASE k \in 0..(old - 1)  BY <3>1 DEF Received
    <3>2. ASSUME NEW j \in 1..Len(win), win[j] # Gap, win[j].seq = k
          PROVE  Received(n, p, k)'
      <4>1. j \in 1..Len(win2) /\ win2[j] = win[j]  BY <1>1, <1>4, <3>2
      <4> QED  BY <3>2, <4>1 DEF Received
    <3> QED  BY <2>1, <3>1, <3>2 DEF Received
  <2> QED  BY <2>1 DEF GotStays
<1>8. Received(n, p, d.seq)'
  <2>1. delta + 1 \in 1..Len(win2) /\ win2[delta + 1] # Gap  BY <1>3, <1>4
  <2>2. win2[delta + 1].seq = old + (delta + 1) - 1  BY <1>5, <2>1
  <2>3. win2[delta + 1].seq = d.seq  BY <1>1, <1>3, <2>2
  <2> QED  BY <2>1, <2>3 DEF Received
<1> QED  BY <1>6, <1>7, <1>8

LEMMA AppendedElements ==
    ASSUME NEW S, NEW buffer \in Seq(S), NEW m \in S, NEW i \in 1..Len(Appended(buffer, m))
    PROVE  \/ Appended(buffer, m)[i] = m
           \/ \E j \in 1..Len(buffer) : buffer[j] = Appended(buffer, m)[i]
<1>1. CASE Appended(buffer, m) = buffer  BY <1>1
<1>2. CASE Appended(buffer, m) = <<>>  BY <1>2
<1>3. CASE Appended(buffer, m) = Append(buffer, m)
  <2>1. i \in 1..(Len(buffer) + 1) /\ Len(buffer) \in Nat  BY <1>3
  <2> QED  BY <1>3, <2>1
<1> QED  BY <1>1, <1>2, <1>3 DEF Appended

LEMMA RecvPacketChannel ==
    ASSUME TypeOK, NumbersLast, ChannelInv, NEW m \in Node, NEW d \in net,
           RecvPacket(m, d)
    PROVE  ChannelInv'
<1> DEFINE r      == d.src
           delta  == Delta(d.seq, lastAck[m][r])
           inside == d.rel # <<>> /\ delta >= 0 /\ delta + 1 < Window
           ack    == [kind |-> "ack", seq |-> d.seq, again |-> d.again]
           marked == Acked(sent[m][r], d.msg[1])
           ring2  == [i \in 1..Len(sent[m][r]) |->
                        IF i \in marked THEN [sent[m][r][i] EXCEPT !.done = TRUE]
                                        ELSE sent[m][r][i]]
           T      == {sent[m][r][i].slot : i \in marked}
<1>1. /\ d.dst = m /\ r \in peers[m] /\ net' \subseteq net
      /\ \/ IsAck(d) /\ HandleAckRecv(m, r, d.msg[1])
         \/ UNCHANGED <<sent, requests>>
      /\ \/ inside /\ window' = [window EXCEPT ![m][r] = Stored(@, delta, d)]
                   /\ plain' = [plain EXCEPT ![m][r] = Appended(@, ack)]
         \/ UNCHANGED <<window, plain>>
      /\ UNCHANGED <<nextSeq, sentLog, lastAck, delivered, peers>>
  BY DEF RecvPacket, IsAck, peerVars
<1>2. r \in Node /\ d.seq \in SeqNum /\ d.again \in BOOLEAN  BY DEF TypeOK, Datagram
<1>3. ack \in Ack \cup {Data}  BY <1>2 DEF Ack, SeqNum
<1> HIDE DEF r, delta, ack
<1>4. \/ UNCHANGED <<sent, requests>>
      \/ /\ IsAck(d) /\ sent' = [sent EXCEPT ![m][r] = ring2]
         /\ requests' = [requests EXCEPT ![m] = GivenBack(m, T)]
  BY <1>1 DEF HandleAckRecv
<1>5. Len(ring2) = Len(sent[m][r]) /\ Len(sent[m][r]) \in Nat
  <2>1. ring2 \in [1..Len(sent[m][r]) -> {ring2[i] : i \in 1..Len(sent[m][r])}]
    OBVIOUS
  <2>2. Len(sent[m][r]) \in Nat  BY <1>2, ChannelTypes
  <2> HIDE DEF ring2
  <2> QED  BY <2>1, <2>2, FunctionIsSeq
<1>6. ASSUME NEW i \in 1..Len(sent[m][r])
      PROVE  /\ ring2[i].seq = sent[m][r][i].seq /\ ring2[i].slot = sent[m][r][i].slot
             /\ ring2[i].done => sent[m][r][i].done \/
                   sent[m][r][i].seq = d.msg[1].seq
             /\ ~ring2[i].done => ~sent[m][r][i].done
  <2>1. sent[m][r][i] \in Entry  BY <1>2, EntryTypes
  <2>2. i \in marked => sent[m][r][i].seq = d.msg[1].seq  BY DEF Acked
  <2>3. ring2[i] = IF i \in marked THEN [sent[m][r][i] EXCEPT !.done = TRUE]
                                   ELSE sent[m][r][i]
    OBVIOUS
  <2> HIDE DEF ring2, marked
  <2> QED  BY <2>1, <2>2, <2>3 DEF Entry
<1> HIDE DEF ring2, T
<1>7. ASSUME NEW n \in Node, NEW p \in Node PROVE ChannelOf(n, p)'
  <2> DEFINE takes == inside /\ p = m /\ n = r
             acks  == IsAck(d) /\ n = m /\ p = r
  <2>1. ChannelOf(n, p) /\ plain[p][n] \in Seq(Ack \cup {Data})
        /\ Len(sentLog[n][p]) \in Nat
    BY ChannelTypes DEF ChannelInv
  <2>2. \/ window'[p][n] = window[p][n] /\ plain'[p][n] = plain[p][n]
        \/ /\ takes
           /\ window'[p][n] = Stored(window[p][n], Delta(d.seq, lastAck[p][n]), d)
           /\ plain'[p][n] = Appended(plain[p][n], ack)
    <3>1. CASE UNCHANGED <<window, plain>>  BY <3>1
    <3>2. CASE /\ inside /\ window' = [window EXCEPT ![m][r] = Stored(@, delta, d)]
               /\ plain' = [plain EXCEPT ![m][r] = Appended(@, ack)]
      <4>1. CASE p = m /\ n = r
        <5>1. /\ window'[m][r] = Stored(window[m][r], delta, d)
              /\ plain'[m][r] = Appended(plain[m][r], ack)
          BY <1>2, <3>2 DEF TypeOK, RecvTypes, QueueTypes
        <5> QED  BY <3>2, <4>1, <5>1 DEF delta
      <4>2. CASE ~(p = m /\ n = r)
        BY <1>2, <3>2, <4>2 DEF TypeOK, RecvTypes, QueueTypes
      <4> QED  BY <4>1, <4>2
    <3> QED  BY <1>1, <3>1, <3>2
  <2>3. sent'[n][p] = sent[n][p] \/ (acks /\ sent'[n][p] = ring2)
    <3>1. CASE UNCHANGED <<sent, requests>>  BY <3>1
    <3>2. CASE IsAck(d) /\ sent' = [sent EXCEPT ![m][r] = ring2]
      <4>1. sent'[n][p] = IF n = m /\ p = r THEN ring2 ELSE sent[n][p]
        BY <1>2, <3>2 DEF TypeOK, SentTypes
      <4> QED  BY <3>2, <4>1
    <3> QED  BY <1>4, <3>1, <3>2
  <2>4. \A s \in RequestSlot : requests'[n][s].rel = requests[n][s].rel
    <3>1. requests[m] \in [RequestSlot -> Request]  BY DEF TypeOK, RequestTypes
    <3>2. \A s \in RequestSlot : GivenBack(m, T)[s].rel = requests[m][s].rel
      BY <3>1 DEF GivenBack, Request
    <3>3. requests'[n] \in {GivenBack(n, T), requests[n]} /\
             (n # m => requests'[n] = requests[n])
      BY <1>4 DEF TypeOK, RequestTypes
    <3> QED  BY <3>2, <3>3
  <2>5. LogsAgree(n, p)' /\ LogStays(n, p)  BY <1>1, <2>1, LogsSame DEF ChannelOf
  <2>6. /\ WaitingIsNumbered(n, p)' /\ GotStays(n, p)
        /\ plain'[p][n] = plain[p][n]
             \/ (plain'[p][n] = Appended(plain[p][n], ack) /\ Received(n, p, d.seq)')
    <3>1. CASE window'[p][n] = window[p][n] /\ plain'[p][n] = plain[p][n]
      BY <1>1, <2>1, <2>5, <3>1, WaitingSame, GotSame DEF ChannelOf
    <3>2. CASE /\ takes
               /\ window'[p][n] = Stored(window[p][n], Delta(d.seq, lastAck[p][n]), d)
               /\ plain'[p][n] = Appended(plain[p][n], ack)
      <4>1. /\ d.src = n /\ d.dst = p /\ d.rel # <<>>
            /\ Delta(d.seq, lastAck[p][n]) >= 0
        BY <1>1, <3>2 DEF r, delta
      <4> QED  BY <1>1, <2>1, <3>2, <4>1, StoredIsNumbered
    <3> QED  BY <2>2, <3>1, <3>2
  <2>7. FlyingIsNumbered(n, p)'  BY <1>1, <2>1, <2>5, FlyingStep DEF ChannelOf
  <2>8. KeptIsNumbered(n, p)'
    <3>1. Len(sentLog[n][p]) <= Len(sentLog'[n][p]) /\ Len(sentLog'[n][p]) \in Nat
      BY <1>1, <2>1
    <3>2. ASSUME NEW i \in 1..Len(sent'[n][p])
          PROVE  \E j \in 1..Len(sent[n][p]) :
                    /\ sent'[n][p][i].seq = sent[n][p][j].seq
                    /\ sent[n][p][j].seq \in Nat
                    /\ ~sent'[n][p][i].done =>
                         /\ ~sent[n][p][j].done
                         /\ requests'[n][sent'[n][p][i].slot].rel =
                              requests[n][sent[n][p][j].slot].rel
      <4>1. i \in 1..Len(sent[n][p])  BY <1>5, <2>3, <3>2
      <4>2. sent[n][p][i].slot \in RequestSlot /\ sent[n][p][i].seq \in Nat
        BY <4>1, EntryTypes
      <4>3. /\ sent'[n][p][i].seq = sent[n][p][i].seq
            /\ sent'[n][p][i].slot = sent[n][p][i].slot
            /\ ~sent'[n][p][i].done => ~sent[n][p][i].done
        BY <1>6, <2>3, <4>1
      <4> QED  BY <2>4, <4>1, <4>2, <4>3
    <3> QED  BY <2>1, <2>5, <3>1, <3>2, KeptStep DEF ChannelOf
  <2>9. AcksAreTrue(n, p)'
    <3> SUFFICES ASSUME n \in peers'[p] PROVE AcksAreTrue(n, p)'
      BY DEF AcksAreTrue
    <3>1. ASSUME NEW i \in 1..Len(plain'[p][n]), plain'[p][n][i].kind = "ack"
          PROVE  \/ \E j \in 1..Len(plain[p][n]) : plain[p][n][j] = plain'[p][n][i]
                 \/ Received(n, p, plain[p][n][i].seq)'
      <4>1. CASE plain'[p][n] = plain[p][n]  BY <3>1, <4>1
      <4>2. CASE plain'[p][n] = Appended(plain[p][n], ack) /\ Received(n, p, d.seq)'
        <5>1. \/ \E j \in 1..Len(plain[p][n]) : plain[p][n][j] = plain'[p][n][i]
              \/ plain'[p][n][i] = ack
          BY <1>3, <2>1, <3>1, <4>2, AppendedElements
        <5>2. plain'[p][n][i] = ack => plain'[p][n][i].seq = d.seq  BY DEF ack
        <5> QED  BY <4>2, <5>1, <5>2 DEF Received
      <4> QED  BY <2>6, <4>1, <4>2
    <3>2. ASSUME NEW i \in 1..Len(sent'[n][p]), sent'[n][p][i].done
          PROVE  \/ \E j \in 1..Len(sent[n][p]) :
                      sent[n][p][j].done /\ sent[n][p][j].seq = sent'[n][p][i].seq
                 \/ Received(n, p, sent[n][p][i].seq)'
      <4>1. CASE sent'[n][p] = sent[n][p]  BY <3>2, <4>1
      <4>2. CASE acks /\ sent'[n][p] = ring2
        <5>1. i \in 1..Len(sent[n][p])  BY <1>5, <3>2, <4>2
        <5>2. /\ sent'[n][p][i].seq = sent[n][p][i].seq
              /\ sent[n][p][i].done \/ sent[n][p][i].seq = d.msg[1].seq
          BY <1>6, <3>2, <4>2, <5>1
        <5>3. Received(n, p, d.msg[1].seq)
          BY <1>1, <2>1, <4>2 DEF ChannelOf, AcksAreTrue, r
        <5>4. Received(n, p, d.msg[1].seq)'  BY <2>6, <5>3 DEF GotStays
        <5> QED  BY <5>1, <5>2, <5>4 DEF Received
      <4> QED  BY <2>3, <4>1, <4>2
    <3> QED  BY <1>1, <2>1, <2>6, <3>1, <3>2, AcksStep DEF ChannelOf
  <2> QED  BY <2>5, <2>6, <2>7, <2>8, <2>9 DEF ChannelOf
<1> QED  BY <1>7 DEF ChannelInv

\* A window without its first entries.
LEMMA DropElements ==
    ASSUME NEW S, NEW s \in Seq(S), NEW t \in 0..Len(s)
    PROVE  /\ Len(SubSeq(s, t + 1, Len(s))) = Len(s) - t
           /\ \A i \in 1..(Len(s) - t) : SubSeq(s, t + 1, Len(s))[i] = s[t + i]
<1>1. Len(s) \in Nat /\ t \in Nat /\ t <= Len(s)  OBVIOUS
<1>2. \A i \in (t + 1)..Len(s) : s[i] \in S  BY <1>1, ElementOfSeq
<1>3. Len(SubSeq(s, t + 1, Len(s))) = Len(s) - t
  <2>1. Len(SubSeq(s, t + 1, Len(s))) =
          IF t + 1 <= Len(s) THEN Len(s) - (t + 1) + 1 ELSE 0
    BY <1>1, <1>2, SubSeqProperties
  <2> QED  BY <1>1, <2>1
<1>4. ASSUME NEW i \in 1..(Len(s) - t)
      PROVE  SubSeq(s, t + 1, Len(s))[i] = s[t + i]
  <2>1. i \in 1..(Len(s) - (t + 1) + 1) /\ t + 1 + i - 1 = t + i  BY <1>1
  <2>2. SubSeq(s, t + 1, Len(s))[i] = s[t + 1 + i - 1]
    BY <1>1, <1>2, <2>1, SubSeqProperties
  <2> QED  BY <2>1, <2>2
<1> QED  BY <1>3, <1>4

\* A log with a part of another one put behind it.
LEMMA ConcatElements ==
    ASSUME NEW S, NEW s \in Seq(S), NEW t \in Nat, NEW f \in [1..t -> S]
    PROVE  /\ Len(s \o f) = Len(s) + t
           /\ \A i \in 1..(Len(s) + t) :
                (s \o f)[i] = IF i <= Len(s) THEN s[i] ELSE f[i - Len(s)]
<1>1. f \in Seq(S) /\ Len(f) = t  BY FunctionIsSeq
<1> QED  BY <1>1, ConcatProperties

Logs == Seq(Seq(Message))

Windows == Seq(Packet \cup {Gap})

\* The Guaranteed parts of the first packets of a window.
Heads(win, take) == [i \in 1..take |-> win[i].rel]

IsBeginning(del, log) ==
    Len(del) <= Len(log) /\ \A i \in 1..Len(del) : del[i] = log[i]

GoesOn(win, del, log) == \A j \in 1..Len(win) : win[j] # Gap =>
    /\ win[j].seq = Len(del) + j - 1
    /\ win[j].seq + 1 \in 1..Len(log) /\ win[j].rel = log[win[j].seq + 1]

\* Dispatching moves the head of the window to the log, up to the first gap.
LEMMA DispatchedSeqs ==
    ASSUME NEW log \in Logs, NEW del \in Logs, NEW win \in Windows,
           NEW take \in 0..Ready(win),
           IsBeginning(del, log), GoesOn(win, del, log)
    PROVE  LET del2 == del \o Heads(win, take)
               win2 == SubSeq(win, take + 1, Len(win))
           IN /\ Len(del2) = Len(del) + take /\ IsBeginning(del2, log)
              /\ \A j \in 1..take : win[j].seq = Len(del) + j - 1
              /\ Len(win2) = Len(win) - take
              /\ \A j \in 1..Len(win2) :
                   take + j \in 1..Len(win) /\ win2[j] = win[take + j]
<1> USE DEF Logs, Windows
<1>1. /\ Len(log) \in Nat /\ Len(del) \in Nat /\ Len(win) \in Nat
      /\ take \in Nat /\ take <= Len(win) /\ Ready(win) \in Nat /\ take <= Ready(win)
      /\ Len(del) <= Len(log)
  <2>1. Ready(win) \in 0..Len(win)  BY ReadyType
  <2> QED  BY <2>1 DEF IsBeginning
<1>2. ASSUME NEW i \in 1..take
      PROVE  /\ win[i].seq = Len(del) + i - 1 /\ Len(del) + i \in 1..Len(log)
             /\ win[i].rel = log[Len(del) + i] /\ win[i].rel \in Seq(Message)
  <2>1. i \in 1..Ready(win) /\ i \in 1..Len(win)  BY <1>1
  <2>2. win[i] # Gap  BY <2>1, ReadyIsFull
  <2>3. /\ win[i].seq = Len(del) + i - 1
        /\ win[i].seq + 1 \in 1..Len(log) /\ win[i].rel = log[win[i].seq + 1]
    BY <2>1, <2>2 DEF GoesOn
  <2>4. win[i].seq + 1 = Len(del) + i  BY <1>1, <2>3
  <2>5. log[Len(del) + i] \in Seq(Message)  BY <2>3, <2>4, ElementOfSeq
  <2> QED  BY <2>3, <2>4, <2>5
<1> DEFINE rels == Heads(win, take)
           del2 == del \o rels
           win2 == SubSeq(win, take + 1, Len(win))
<1>3. rels \in [1..take -> Seq(Message)]  BY <1>2 DEF Heads
<1>4. \A i \in 1..take : rels[i] = win[i].rel  BY DEF Heads
<1> HIDE DEF rels
<1>5. /\ Len(del2) = Len(del) + take
      /\ \A i \in 1..(Len(del) + take) :
           del2[i] = IF i <= Len(del) THEN del[i] ELSE rels[i - Len(del)]
  BY <1>1, <1>3, ConcatElements
<1> HIDE DEF del2
<1>6. Len(del2) <= Len(log)
  <2>1. CASE take = 0  BY <1>1, <1>5, <2>1
  <2>2. CASE take # 0
    <3>1. take \in 1..take  BY <1>1, <2>2
    <3>2. Len(del) + take \in 1..Len(log)  BY <1>2, <3>1
    <3> QED  BY <1>1, <1>5, <3>2
  <2> QED  BY <2>1, <2>2
<1>7. ASSUME NEW i \in 1..Len(del2) PROVE del2[i] = log[i]
  <2>1. CASE i <= Len(del)
    <3>1. i \in 1..Len(del)  BY <1>1, <2>1
    <3> QED  BY <1>5, <2>1, <3>1 DEF IsBeginning
  <2>2. CASE ~(i <= Len(del))
    <3>1. i - Len(del) \in 1..take /\ Len(del) + (i - Len(del)) = i
      BY <1>1, <1>5, <2>2
    <3>2. del2[i] = rels[i - Len(del)]  BY <1>5, <2>2
    <3>3. rels[i - Len(del)] = log[Len(del) + (i - Len(del))]  BY <1>2, <1>4, <3>1
    <3> QED  BY <3>1, <3>2, <3>3
  <2> QED  BY <2>1, <2>2
<1>8. /\ Len(win2) = Len(win) - take
      /\ \A j \in 1..(Len(win) - take) : win2[j] = win[take + j]
  <2>1. take \in 0..Len(win)  BY <1>1
  <2> QED  BY <2>1, DropElements
<1> HIDE DEF win2
<1>9. ASSUME NEW j \in 1..Len(win2)
      PROVE  take + j \in 1..Len(win) /\ win2[j] = win[take + j]
  <2>1. j \in 1..(Len(win) - take)  BY <1>8
  <2> QED  BY <1>1, <1>8, <2>1
<1>10. IsBeginning(del2, log)  BY <1>6, <1>7 DEF IsBeginning
<1> QED  BY <1>2, <1>5, <1>8, <1>9, <1>10 DEF del2, win2, rels

LEMMA DispatchedIsNumbered ==
    ASSUME TypeOK, NumbersLast, NEW n \in Node, NEW p \in Node, ChannelOf(n, p),
           NEW take \in 0..Ready(window[p][n]),
           delivered'[p][n] = delivered[p][n] \o Heads(window[p][n], take),
           lastAck'[p][n] = IF take > 0 THEN (window[p][n][take].seq + 1) % SeqMod
                                        ELSE lastAck[p][n],
           window'[p][n] = SubSeq(window[p][n], take + 1, Len(window[p][n])),
           sentLog'[n][p] = sentLog[n][p], nextSeq'[n][p] = nextSeq[n][p]
    PROVE  LogsAgree(n, p)' /\ WaitingIsNumbered(n, p)' /\ GotStays(n, p)
<1> DEFINE win  == window[p][n]
           win2 == window'[p][n]
           old  == Len(delivered[p][n])
           new  == Len(delivered'[p][n])
           log  == sentLog[n][p]
<1>1. /\ win \in Seq(Packet \cup {Gap}) /\ Len(win) \in Nat
      /\ delivered[p][n] \in Seq(Seq(Message)) /\ old \in Nat
      /\ log \in Seq(Seq(Message)) /\ Len(log) \in Nat
  BY ChannelTypes
<1>2. /\ old <= Len(log) /\ lastAck[p][n] = old /\ nextSeq[n][p] = Len(log)
      /\ \A i \in 1..old : delivered[p][n][i] = log[i]
  BY DEF ChannelOf, LogsAgree
<1>3. \A j \in 1..Len(win) : win[j] # Gap =>
         /\ win[j].seq = old + j - 1
         /\ win[j].seq + 1 \in 1..Len(log) /\ win[j].rel = log[win[j].seq + 1]
  BY DEF ChannelOf, WaitingIsNumbered, Went
<1>4. /\ new = old + take /\ new <= Len(log)
      /\ \A i \in 1..new : delivered'[p][n][i] = log[i]
      /\ \A j \in 1..take : win[j].seq = old + j - 1
      /\ Len(win2) = Len(win) - take
      /\ \A j \in 1..Len(win2) : take + j \in 1..Len(win) /\ win2[j] = win[take + j]
  <2> DEFINE del  == delivered[p][n]
             del3 == del \o Heads(win, take)
             win3 == SubSeq(win, take + 1, Len(win))
  <2>1. delivered'[p][n] = del3 /\ win2 = win3 /\ take \in 0..Ready(win)  OBVIOUS
  <2>2. del \in Logs /\ IsBeginning(del, log) /\ GoesOn(win, del, log)
    BY <1>1, <1>2, <1>3 DEF IsBeginning, GoesOn, Logs
  <2>b. log \in Logs /\ win \in Windows  BY <1>1 DEF Logs, Windows
  <2> HIDE DEF del, win, log, old, new, win2
  <2>3. /\ Len(del3) = Len(del) + take /\ IsBeginning(del3, log)
        /\ \A j \in 1..take : win[j].seq = Len(del) + j - 1
        /\ Len(win3) = Len(win) - take
        /\ \A j \in 1..Len(win3) : take + j \in 1..Len(win) /\ win3[j] = win[take + j]
    BY <2>1, <2>2, <2>b, DispatchedSeqs
  <2> HIDE DEF del3, win3, win2
  <2>4. old = Len(del) /\ new = Len(del3) /\ delivered'[p][n] = del3
    BY <2>1 DEF del, del3, old, new
  <2> QED  BY <2>1, <2>3, <2>4 DEF IsBeginning
<1>5. take \in Nat
  <2>1. Ready(win) \in Nat  BY <1>1, ReadyType
  <2> QED  BY <2>1
<1> HIDE DEF win, win2, old, new, log
<1>6. lastAck'[p][n] = new
  <2>1. CASE take = 0
    <3>1. lastAck'[p][n] = lastAck[p][n]  BY <2>1
    <3> QED  BY <1>1, <1>2, <1>4, <2>1, <3>1
  <2>2. CASE take # 0
    <3>0. take \in 1..take  BY <1>5, <2>2
    <3>1. win[take].seq = old + take - 1  BY <1>4, <3>0
    <3>2. new \in 0..(SeqMod - 1)
      <4>1. Len(log) <= SeqMod \div 2 /\ SeqMod \in Nat \ {0}
        BY SizeAssumption DEF NumbersLast, log
      <4> QED  BY <1>1, <1>4, <1>5, <2>2, <4>1
    <3>3. lastAck'[p][n] = (win[take].seq + 1) % SeqMod  BY <1>5, <2>2 DEF win
    <3>4. win[take].seq + 1 = new  BY <1>1, <1>4, <1>5, <3>1
    <3> QED  BY <3>2, <3>3, <3>4, ModSmall, SizeAssumption
  <2> QED  BY <2>1, <2>2
<1>7. LogsAgree(n, p)'
  BY <1>2, <1>4, <1>6 DEF LogsAgree, log, new
<1>8. WaitingIsNumbered(n, p)'
  <2>1. ASSUME NEW j \in 1..Len(win2), win2[j] # Gap
        PROVE  /\ win2[j].seq = new + j - 1
               /\ win2[j].seq + 1 \in 1..Len(log) /\ win2[j].rel = log[win2[j].seq + 1]
    <3>1. take + j \in 1..Len(win) /\ win2[j] = win[take + j]  BY <1>4
    <3>2. win2[j].seq = old + (take + j) - 1  BY <1>3, <2>1, <3>1
    <3>3. j \in Nat  BY <1>1, <1>4, <1>5
    <3>4. old + (take + j) - 1 = new + j - 1  BY <1>1, <1>4, <1>5, <3>3
    <3> QED  BY <1>3, <2>1, <3>1, <3>2, <3>4
  <2> QED  BY <2>1 DEF WaitingIsNumbered, Went, win2, new, log
<1>9. GotStays(n, p)
  <2>1. ASSUME NEW k, \/ k \in 0..(old - 1)
                       \/ \E j \in 1..Len(win) : win[j] # Gap /\ win[j].seq = k
        PROVE  k \in 0..(new - 1) \/ \E j \in 1..Len(win2) : win2[j] # Gap /\ win2[j].seq = k
    <3>1. ASSUME NEW j \in 1..Len(win), win[j] # Gap, win[j].seq = k
          PROVE  k \in 0..(new - 1) \/ \E i \in 1..Len(win2) : win2[i] # Gap /\ win2[i].seq = k
      <4>1. CASE j <= take
        <5>1. k = old + j - 1  BY <1>3, <3>1
        <5> QED  BY <1>1, <1>4, <1>5, <4>1, <5>1
      <4>2. CASE ~(j <= take)
        <5>1. j - take \in 1..Len(win2) /\ take + (j - take) = j
          BY <1>1, <1>4, <1>5, <4>2
        <5>2. win2[j - take] = win[take + (j - take)]  BY <1>4, <5>1
        <5> QED  BY <3>1, <5>1, <5>2
      <4> QED  BY <4>1, <4>2
    <3>2. CASE k \in 0..(old - 1)  BY <1>1, <1>4, <1>5, <3>2
    <3> QED  BY <2>1, <3>1, <3>2
  <2> QED  BY <2>1 DEF GotStays, Received, win, win2, old, new
<1> QED  BY <1>7, <1>8, <1>9

\* The end of UpdateReceivePvt dispatches at m what waits there for no other.
LEMMA FinishReceiveChannel ==
    ASSUME TypeOK, NumbersLast, ChannelInv, NEW m \in Node, FinishReceive(m)
    PROVE  ChannelInv'
<1> DEFINE take(n) == IF n \in peers[m] /\ ~hasError[m] THEN Ready(window[m][n]) ELSE 0
<1>1. /\ delivered' = [delivered EXCEPT ![m] = [n \in Node |->
             delivered[m][n] \o Heads(window[m][n], take(n))]]
      /\ lastAck' = [lastAck EXCEPT ![m] = [n \in Node |->
             IF take(n) > 0 THEN (window[m][n][take(n)].seq + 1) % SeqMod
                            ELSE lastAck[m][n]]]
      /\ window' = [window EXCEPT ![m] = [n \in Node |->
             SubSeq(window[m][n], take(n) + 1, Len(window[m][n]))]]
      /\ UNCHANGED <<plain, requests, sent, nextSeq, sentLog, peers, net>>
  BY DEF FinishReceive, queueVars, peerVars, Heads
<1> HIDE DEF take
<1>2. ASSUME NEW n \in Node, NEW p \in Node PROVE ChannelOf(n, p)'
  <2>1. ChannelOf(n, p) /\ Len(sentLog[n][p]) \in Nat
    BY ChannelTypes DEF ChannelInv
  <2>2. CASE p # m
    <3>1. /\ delivered'[p][n] = delivered[p][n] /\ lastAck'[p][n] = lastAck[p][n]
          /\ window'[p][n] = window[p][n]
      BY <1>1, <2>2 DEF TypeOK, RecvTypes
    <3> QED  BY <1>1, <2>1, <3>1, ChannelSame
  <2>3. CASE p = m
    <3>1. /\ delivered'[p][n] = delivered[p][n] \o Heads(window[p][n], take(n))
          /\ lastAck'[p][n] = IF take(n) > 0
                              THEN (window[p][n][take(n)].seq + 1) % SeqMod
                              ELSE lastAck[p][n]
          /\ window'[p][n] = SubSeq(window[p][n], take(n) + 1, Len(window[p][n]))
      BY <1>1, <2>3 DEF TypeOK, RecvTypes
    <3>2. take(n) \in 0..Ready(window[p][n])
      <4>1. Ready(window[p][n]) \in Nat  BY ChannelTypes, ReadyType
      <4> QED  BY <2>3, <4>1 DEF take
    <3>3. LogsAgree(n, p)' /\ WaitingIsNumbered(n, p)' /\ GotStays(n, p)
      BY <1>1, <2>1, <3>1, <3>2, DispatchedIsNumbered
    <3>4. LogStays(n, p)  BY <1>1 DEF LogStays, Went
    <3>5. FlyingIsNumbered(n, p)'
      BY <1>1, <2>1, <3>4, FlyingStep DEF ChannelOf
    <3>6. KeptIsNumbered(n, p)'
      <4>1. \A i \in 1..Len(sent[n][p]) : sent[n][p][i].seq \in Nat  BY EntryTypes
      <4> QED  BY <1>1, <2>1, <3>4, <4>1, KeptStep DEF ChannelOf
    <3>7. AcksAreTrue(n, p)'
      BY <1>1, <2>1, <3>3, AcksStep DEF ChannelOf
    <3> QED  BY <3>3, <3>5, <3>6, <3>7 DEF ChannelOf
  <2> QED  BY <2>2, <2>3
<1> QED  BY <1>2 DEF ChannelInv

\* A packet that is sent again goes out under its number, as it was.
LEMMA PopOldestChannel ==
    ASSUME TypeOK, RingInv, ChannelInv, NEW m \in Node, NEW r \in Node, PopOldest(m, r)
    PROVE  ChannelInv'
<1> DEFINE ring  == sent[m][r]
           entry == ring[Len(ring)]
           rest  == SubSeq(ring, 1, Len(ring) - 1)
           ring2 == IF ~entry.done /\ Len(rest) < SentCap THEN <<entry>> \o rest ELSE rest
           packet == [src |-> m, dst |-> r, seq |-> entry.seq, again |-> TRUE,
                      rel |-> requests[m][entry.slot].rel, msg |-> <<>>]
<1>1. /\ sent' = [sent EXCEPT ![m][r] = ring2] /\ popping[m][r] > 0
      /\ net' = net \/ (~entry.done /\ net' \in {net \cup {packet}, net})
      /\ UNCHANGED <<plain, requests, nextSeq, sentLog, recvVars, peers>>
  BY DEF PopOldest, Transmit, queueVars, requestVars, peerVars
<1>2. ring \in Seq(Entry) /\ Len(ring) > 0
  <2>1. ring \in Seq(Entry) /\ Len(ring) \in Nat  BY ChannelTypes
  <2>2. popping[m][r] <= Len(ring) /\ popping[m][r] \in Nat
    BY DEF RingInv, RingOf, TypeOK, FrameTypes
  <2>3. popping[m][r] > 0  BY <1>1
  <2> HIDE DEF ring
  <2> QED  BY <2>1, <2>2, <2>3
<1>3. Len(ring) \in 1..Len(ring) /\ Len(ring) \in Nat  BY <1>2
<1>4. entry \in Entry /\ entry.seq \in Nat /\ entry.slot \in RequestSlot
  BY <1>3, EntryTypes
<1>5. ASSUME NEW i \in 1..Len(ring2)
      PROVE  \E j \in 1..Len(ring) : ring2[i] = ring[j]
  <2>1. /\ rest \in Seq(Entry) /\ Len(rest) = Len(ring) - 1
        /\ \A j \in 1..Len(rest) : rest[j] = ring[j]
    <3>1. rest \in Seq(Entry) /\ Len(rest) = Len(ring) - 1  BY <1>2, PopType
    <3>2. \A j \in 1..(Len(ring) - 1) : rest[j] = ring[j]
      BY <1>2, <1>3, SubSeqProperties
    <3> QED  BY <3>1, <3>2
  <2> HIDE DEF rest, entry
  <2>2. CASE ring2 = rest  BY <1>3, <2>1, <2>2
  <2>3. CASE ring2 = <<entry>> \o rest
    <3>1. i \in 1..(Len(rest) + 1) /\ Len(rest) \in Nat
      BY <1>4, <2>1, <2>3, PrependType
    <3>2. ring2[i] = IF i = 1 THEN entry ELSE rest[i - 1]
      BY <1>4, <2>1, <2>3, <3>1, PrependElements
    <3>3. i # 1 => i - 1 \in 1..Len(rest) /\ i - 1 \in 1..Len(ring)
      BY <1>3, <2>1, <3>1
    <3> QED  BY <1>3, <2>1, <3>2, <3>3 DEF entry
  <2> QED  BY <2>2, <2>3
<1> HIDE DEF ring2
<1>6. ASSUME NEW n \in Node, NEW p \in Node PROVE ChannelOf(n, p)'
  <2>1. ChannelOf(n, p) /\ Len(sentLog[n][p]) \in Nat
    BY ChannelTypes DEF ChannelInv
  <2>2. sent'[n][p] = IF n = m /\ p = r THEN ring2 ELSE sent[n][p]
    BY <1>1 DEF TypeOK, SentTypes
  <2>3. ASSUME NEW i \in 1..Len(sent'[n][p])
        PROVE  \E j \in 1..Len(sent[n][p]) : sent'[n][p][i] = sent[n][p][j]
    BY <1>5, <2>2
  <2>4. LogsAgree(n, p)' /\ LogStays(n, p) /\ GotStays(n, p)
        /\ WaitingIsNumbered(n, p)'
    BY <1>1, <2>1, LogsSame, GotSame, WaitingSame DEF ChannelOf, recvVars
  <2>5. FlyingIsNumbered(n, p)'
    <3>1. ~entry.done => Went(m, r, entry.seq, requests[m][entry.slot].rel)
      <4>1. KeptIsNumbered(m, r)  BY DEF ChannelInv, ChannelOf
      <4> QED  BY <1>3, <4>1 DEF KeptIsNumbered
    <3>2. ASSUME NEW d \in net', d \notin net, d.src = n, d.dst = p
          PROVE  Went(n, p, d.seq, d.rel)'
      <4>1. d = packet /\ ~entry.done  BY <1>1, <3>2
      <4>2. d.src = m /\ d.dst = r /\ d.seq = entry.seq
            /\ d.rel = requests[m][entry.slot].rel
        BY <4>1
      <4> HIDE DEF entry, packet
      <4>3. Went(n, p, d.seq, d.rel)  BY <3>1, <3>2, <4>1, <4>2
      <4> QED  BY <2>4, <4>3 DEF LogStays
    <3> QED  BY <2>1, <2>4, <3>2, FlyingStep DEF ChannelOf
  <2>6. KeptIsNumbered(n, p)'
    <3>1. ASSUME NEW i \in 1..Len(sent'[n][p])
          PROVE  \E j \in 1..Len(sent[n][p]) :
                    /\ sent'[n][p][i].seq = sent[n][p][j].seq
                    /\ sent[n][p][j].seq \in Nat
                    /\ ~sent'[n][p][i].done =>
                         /\ ~sent[n][p][j].done
                         /\ requests'[n][sent'[n][p][i].slot].rel =
                              requests[n][sent[n][p][j].slot].rel
      <4>1. PICK j \in 1..Len(sent[n][p]) : sent'[n][p][i] = sent[n][p][j]  BY <2>3
      <4>2. sent[n][p][j].seq \in Nat /\ requests' = requests  BY <1>1, EntryTypes
      <4> QED  BY <4>1, <4>2
    <3>2. Len(sentLog[n][p]) <= Len(sentLog'[n][p]) /\ Len(sentLog'[n][p]) \in Nat
      BY <1>1, <2>1
    <3> QED  BY <2>1, <2>4, <3>1, <3>2, KeptStep DEF ChannelOf
  <2>7. AcksAreTrue(n, p)'
    <3>1. \A d \in net' : d \in net \/ ~IsAck(d)
      <4>1. \A d \in net' : d \in net \/ d = packet  BY <1>1
      <4>2. ~IsAck(packet)  BY DEF IsAck
      <4> QED  BY <4>1, <4>2
    <3>2. \A i \in 1..Len(sent'[n][p]) : sent'[n][p][i].done =>
             \E j \in 1..Len(sent[n][p]) :
                sent[n][p][j].done /\ sent[n][p][j].seq = sent'[n][p][i].seq
      BY <2>3
    <3> QED  BY <1>1, <2>1, <2>4, <3>1, <3>2, AcksStep DEF ChannelOf
  <2> QED  BY <2>4, <2>5, <2>6, <2>7 DEF ChannelOf
<1> QED  BY <1>6 DEF ChannelInv

\* The next number of a log, in eight and in twelve bits.
LEMMA NextNumber ==
    ASSUME TypeOK, NumbersLast', NEW n \in Node, NEW p \in Node, LogsAgree(n, p),
           NEW rel \in Seq(Message), sentLog'[n][p] = Append(sentLog[n][p], rel)
    PROVE  LET last == Len(sentLog[n][p])
           IN /\ nextSeq[n][p] = last /\ nextSeq[n][p] % EntryMod = last
              /\ (nextSeq[n][p] + 1) % SeqMod = last + 1
              /\ last \in Nat /\ Len(sentLog'[n][p]) = last + 1
              /\ sentLog'[n][p][last + 1] = rel
              /\ \A i \in 1..last : sentLog'[n][p][i] = sentLog[n][p][i]
<1> DEFINE log  == sentLog[n][p]
           last == Len(log)
<1>1. log \in Seq(Seq(Message)) /\ last \in Nat /\ nextSeq[n][p] = last
  BY ChannelTypes DEF LogsAgree
<1>2. /\ Len(Append(log, rel)) = last + 1 /\ Append(log, rel)[last + 1] = rel
      /\ \A i \in 1..last : Append(log, rel)[i] = log[i]
  <2> HIDE DEF log
  <2> QED  BY <1>1
<1>3. last + 1 <= EntryMod /\ last + 1 <= SeqMod \div 2
  <2>1. /\ Len(sentLog'[n][p]) <= EntryMod /\ Len(sentLog'[n][p]) <= SeqMod \div 2
    BY DEF NumbersLast
  <2> QED  BY <1>2, <2>1
<1> HIDE DEF log, last
<1>4. last \in 0..(EntryMod - 1) /\ last + 1 \in 0..(SeqMod - 1)
      /\ EntryMod \in Nat \ {0} /\ SeqMod \in Nat \ {0}
  BY <1>1, <1>3, SizeAssumption
<1>5. last % EntryMod = last /\ (last + 1) % SeqMod = last + 1
  BY <1>4, ModSmall
<1> QED  BY <1>1, <1>2, <1>5 DEF log, last

\* A new packet takes the next number, a slot no kept packet lies in, and the
\* oldest plain message of every peer that gets one.
LEMMA SendPacketChannel ==
    ASSUME TypeOK, RingInv, SlotsInv, NumbersLast', ChannelInv,
           NEW m \in Node, SendPacket(m)
    PROVE  ChannelInv'
<1>1. PICK q, rel, tracked, carry : Sends(m, q, rel, tracked, carry)
  BY SendPacketEffect
<1> DEFINE slot == NextSlot(m)
           entry(p) == [done |-> FALSE, slot |-> slot, seq |-> nextSeq[m][p] % EntryMod]
<1>2. /\ requests' = [requests EXCEPT ![m][slot] =
                         [nCountA |-> Cardinality(tracked), rel |-> rel]]
      /\ rel \in Seq(Message) /\ sendCount[m] < SentSlots
      /\ \A n, p \in Node :
            /\ n = m /\ p \in tracked =>
                 /\ sent'[n][p] = <<entry(p)>> \o sent[n][p]
                 /\ nextSeq'[n][p] = (nextSeq[n][p] + 1) % SeqMod
                 /\ sentLog'[n][p] = Append(sentLog[n][p], rel)
            /\ ~(n = m /\ p \in tracked) =>
                 /\ sent'[n][p] = sent[n][p] /\ nextSeq'[n][p] = nextSeq[n][p]
                 /\ sentLog'[n][p] = sentLog[n][p]
  BY <1>1 DEF Sends
<1>3. /\ \A n, p \in Node :
           IF n = m /\ p \in carry
           THEN plain[n][p] # <<>> /\ plain'[n][p] = Tail(plain[n][p])
           ELSE plain'[n][p] = plain[n][p]
      /\ \A d \in net' : d \in net \/
            /\ d.src = m
            /\ d.rel # <<>> => /\ d.dst \in tracked /\ d.rel = rel
                              /\ d.seq = nextSeq[m][d.dst]
            /\ d.msg # <<>> => d.dst \in carry /\ d.msg[1] = Head(plain[m][d.dst])
  BY <1>1 DEF Sends
<1>4. UNCHANGED <<delivered, lastAck, window, peers>>
  BY DEF SendPacket, recvVars, peerVars
<1>5. slot \in RequestSlot /\ ~InUse(m, slot)
  <2>1. RequestTypes  BY DEF TypeOK
  <2> QED  BY <1>2, <2>1, NextSlotIsFree, NextSlotType
<1>6. \A p \in Node : entry(p) \in Entry /\ ~entry(p).done /\ entry(p).slot = slot
         /\ entry(p).seq = nextSeq[m][p] % EntryMod
  <2>1. ASSUME NEW p \in Node PROVE nextSeq[m][p] % EntryMod \in 0..(EntryMod - 1)
    <3>1. nextSeq[m][p] \in Int  BY DEF TypeOK, SentTypes, SeqNum
    <3> QED  BY <3>1, ModType, SizeAssumption
  <2> QED  BY <1>5, <2>1 DEF Entry
<1> HIDE DEF entry
<1>7. \A n \in Node, s \in RequestSlot : n # m \/ s # slot =>
         requests'[n][s].rel = requests[n][s].rel
  BY <1>2, <1>5 DEF TypeOK, RequestTypes
<1>8. requests'[m][slot].rel = rel
  BY <1>2, <1>5 DEF TypeOK, RequestTypes
<1> HIDE DEF slot
<1>9. ASSUME NEW n \in Node, NEW p \in Node PROVE ChannelOf(n, p)'
  <2>1. ChannelOf(n, p) /\ LogsAgree(n, p) /\ Len(sentLog[n][p]) \in Nat
        /\ sent[n][p] \in Seq(Entry) /\ Len(sent[n][p]) \in Nat
    BY ChannelTypes DEF ChannelInv, ChannelOf
  <2> DEFINE last == Len(sentLog[n][p])
             new  == n = m /\ p \in tracked
  <2>2. ASSUME new
        PROVE  /\ nextSeq[n][p] = last /\ entry(p).seq = last
               /\ nextSeq'[n][p] = last + 1
               /\ Len(sentLog'[n][p]) = last + 1 /\ sentLog'[n][p][last + 1] = rel
               /\ \A i \in 1..last : sentLog'[n][p][i] = sentLog[n][p][i]
    <3>1. sentLog'[n][p] = Append(sentLog[n][p], rel) /\ rel \in Seq(Message)
          /\ nextSeq'[n][p] = (nextSeq[n][p] + 1) % SeqMod
      BY <1>2, <2>2
    <3>2. /\ nextSeq[n][p] = last /\ nextSeq[n][p] % EntryMod = last
          /\ (nextSeq[n][p] + 1) % SeqMod = last + 1
          /\ Len(sentLog'[n][p]) = last + 1 /\ sentLog'[n][p][last + 1] = rel
          /\ \A i \in 1..last : sentLog'[n][p][i] = sentLog[n][p][i]
      BY <2>1, <3>1, NextNumber
    <3>3. entry(p).seq = nextSeq[n][p] % EntryMod  BY <1>6, <2>2
    <3> HIDE DEF last
    <3> QED  BY <3>1, <3>2, <3>3
  <2>3. ASSUME ~new
        PROVE  /\ sent'[n][p] = sent[n][p] /\ nextSeq'[n][p] = nextSeq[n][p]
               /\ sentLog'[n][p] = sentLog[n][p]
    BY <1>2, <2>3
  <2>4. LogStays(n, p) /\ Len(sentLog'[n][p]) \in Nat /\ last <= Len(sentLog'[n][p])
    <3>1. CASE new
      <4>1. ASSUME NEW k, NEW r, Went(n, p, k, r) PROVE Went(n, p, k, r)'
        <5>1. k + 1 \in 1..last /\ r = sentLog[n][p][k + 1]  BY <4>1 DEF Went
        <5>2. k + 1 \in 1..(last + 1)  BY <2>1, <5>1
        <5> QED  BY <2>2, <3>1, <5>1, <5>2 DEF Went
      <4> QED  BY <2>1, <2>2, <3>1, <4>1 DEF LogStays
    <3>2. CASE ~new  BY <2>1, <2>3, <3>2 DEF LogStays, Went
    <3> QED  BY <3>1, <3>2
  <2>5. LogsAgree(n, p)'
    <3>1. CASE new
      <4>1. /\ Len(delivered[p][n]) <= last /\ lastAck[p][n] = Len(delivered[p][n])
            /\ \A i \in 1..Len(delivered[p][n]) : delivered[p][n][i] = sentLog[n][p][i]
            /\ Len(delivered[p][n]) \in Nat
        BY <2>1, ChannelTypes DEF LogsAgree
      <4>2. Len(delivered[p][n]) <= last + 1
            /\ \A i \in 1..Len(delivered[p][n]) : i \in 1..last
        BY <2>1, <4>1
      <4> QED  BY <1>4, <2>2, <3>1, <4>1, <4>2 DEF LogsAgree
    <3>2. CASE ~new  BY <1>4, <2>1, <2>3, <3>2, LogsSame
    <3> QED  BY <3>1, <3>2
  <2>6. WaitingIsNumbered(n, p)' /\ GotStays(n, p)
    BY <1>4, <2>1, <2>4, WaitingSame, GotSame DEF ChannelOf
  <2>7. FlyingIsNumbered(n, p)'
    <3>1. ASSUME NEW d \in net', d \notin net, d.src = n, d.dst = p, d.rel # <<>>
          PROVE  Went(n, p, d.seq, d.rel)'
      <4>1. new /\ d.rel = rel /\ d.seq = nextSeq[n][p]  BY <1>3, <3>1
      <4>2. d.seq = last /\ last + 1 \in 1..(last + 1)  BY <2>1, <2>2, <4>1
      <4> QED  BY <2>2, <4>1, <4>2 DEF Went
    <3> QED  BY <2>1, <2>4, <3>1, FlyingStep DEF ChannelOf
  <2>8. \A i \in 1..Len(sent'[n][p]) :
           \/ /\ new /\ sent'[n][p][i] = entry(p)
           \/ \E j \in 1..Len(sent[n][p]) : sent'[n][p][i] = sent[n][p][j]
    <3>1. CASE new
      <4>1. sent'[n][p] = <<entry(p)>> \o sent[n][p]  BY <1>2, <3>1
      <4>2. Len(<<entry(p)>> \o sent[n][p]) = Len(sent[n][p]) + 1
        BY <1>6, <2>1, PrependType
      <4>3. ASSUME NEW i \in 1..(Len(sent[n][p]) + 1)
            PROVE  (<<entry(p)>> \o sent[n][p])[i] =
                      IF i = 1 THEN entry(p) ELSE sent[n][p][i - 1]
        BY <1>6, <2>1, PrependElements
      <4>4. \A i \in 1..(Len(sent[n][p]) + 1) : i # 1 => i - 1 \in 1..Len(sent[n][p])
        BY <2>1
      <4> QED  BY <3>1, <4>1, <4>2, <4>3, <4>4
    <3>2. CASE ~new  BY <2>3, <3>2
    <3> QED  BY <3>1, <3>2
  <2>9. KeptIsNumbered(n, p)'
    <3>1. ASSUME NEW i \in 1..Len(sent'[n][p]), new, sent'[n][p][i] = entry(p)
          PROVE  Went(n, p, sent[n][p][i].seq, requests[n][sent[n][p][i].slot].rel)'
      <4>1. sent'[n][p][i].seq = last /\ requests'[n][sent'[n][p][i].slot].rel = rel
        BY <1>6, <1>8, <2>2, <3>1
      <4>2. last + 1 \in 1..(last + 1)  BY <2>1
      <4> QED  BY <2>2, <3>1, <4>1, <4>2 DEF Went
    <3>2. ASSUME NEW i \in 1..Len(sent'[n][p]), NEW j \in 1..Len(sent[n][p]),
                 sent'[n][p][i] = sent[n][p][j]
          PROVE  /\ sent'[n][p][i].seq = sent[n][p][j].seq
                 /\ sent[n][p][j].seq \in Nat
                 /\ ~sent'[n][p][i].done =>
                      /\ ~sent[n][p][j].done
                      /\ requests'[n][sent'[n][p][i].slot].rel =
                           requests[n][sent[n][p][j].slot].rel
      <4>1. sent[n][p][j].seq \in Nat /\ sent[n][p][j].slot \in RequestSlot
        BY EntryTypes
      <4>2. ~sent[n][p][j].done => InUse(n, sent[n][p][j].slot)
        <5>1. ~sent[n][p][j].done => sent[n][p][j].slot \in Owed(sent[n][p])
          BY DEF Owed, Undone
        <5> QED  BY <5>1 DEF SlotsInv, SlotsOf, OwedIsHeld
      <4>3. ~sent[n][p][j].done => n # m \/ sent[n][p][j].slot # slot
        BY <1>5, <4>2
      <4> QED  BY <1>7, <3>2, <4>1, <4>3
    <3> QED  BY <2>1, <2>4, <2>8, <3>1, <3>2, KeptStep DEF ChannelOf
  <2>10. AcksAreTrue(n, p)'
    <3> SUFFICES ASSUME n \in peers'[p] PROVE AcksAreTrue(n, p)'
      BY DEF AcksAreTrue
    <3>1. plain[p][n] \in Seq(Ack \cup {Data}) /\ Len(plain[p][n]) \in Nat
      BY ChannelTypes
    <3>2. ASSUME NEW i \in 1..Len(plain'[p][n])
          PROVE  \E j \in 1..Len(plain[p][n]) : plain[p][n][j] = plain'[p][n][i]
      <4>1. CASE plain'[p][n] = plain[p][n]  BY <4>1
      <4>2. CASE plain[p][n] # <<>> /\ plain'[p][n] = Tail(plain[p][n])
        <5>1. i \in 1..(Len(plain[p][n]) - 1) /\ i + 1 \in 1..Len(plain[p][n])
          BY <3>1, <4>2
        <5>2. plain'[p][n][i] = plain[p][n][i + 1]  BY <3>1, <4>2, <5>1
        <5> QED  BY <5>1, <5>2
      <4> QED  BY <1>3, <4>1, <4>2
    <3>3. ASSUME NEW d \in net', d \notin net, d.src = p, d.dst = n, IsAck(d)
          PROVE  Received(n, p, d.msg[1].seq)'
      <4>1. p = m /\ n \in carry /\ d.msg[1] = Head(plain[p][n]) /\ d.msg[1].kind = "ack"
        BY <1>3, <3>3 DEF IsAck
      <4>2. plain[p][n] # <<>>  BY <1>3, <4>1
      <4>3. Head(plain[p][n]) = plain[p][n][1] /\ 1 \in 1..Len(plain[p][n])
        BY <3>1, <4>2
      <4>4. Received(n, p, plain[p][n][1].seq)
        BY <1>4, <2>1, <4>1, <4>3 DEF ChannelOf, AcksAreTrue
      <4> QED  BY <1>4, <4>1, <4>3, <4>4 DEF Received
    <3>4. ASSUME NEW i \in 1..Len(sent'[n][p]), sent'[n][p][i].done
          PROVE  \E j \in 1..Len(sent[n][p]) :
                    sent[n][p][j].done /\ sent[n][p][j].seq = sent'[n][p][i].seq
      BY <1>6, <2>8, <3>4
    <3> QED  BY <1>4, <2>1, <2>6, <3>2, <3>3, <3>4, AcksStep DEF ChannelOf
  <2> QED  BY <2>5, <2>6, <2>7, <2>9, <2>10 DEF ChannelOf
<1> QED  BY <1>9 DEF ChannelInv

-----------------------------------------------------------------------------
(* The invariant of the channel *)

LEMMA NextChannel ==
    ASSUME IInv, SlotsInv, ChannelInv, NumbersLast, NumbersLast', [Next]_vars
    PROVE  ChannelInv'
<1> USE DEF IInv
<1>1. ASSUME NEW n \in Node, NEW q \in Queue, SendMessagePriority(n, q)
      PROVE  ChannelInv'
  BY <1>1, ChannelUnchanged DEF SendMessagePriority, requestVars, sentVars
<1>2. ASSUME NEW n \in Node, NEW p \in Node, SendMessage(n, p) PROVE ChannelInv'
  BY <1>2, SendMessageChannel
<1>3. ASSUME NEW n \in Node, NEW p \in Node, DisconnectPeer(n, p) PROVE ChannelInv'
  BY <1>3, DisconnectPeerChannel
<1>4. ASSUME NEW n \in Node, NEW d \in net, RecvPacket(n, d) PROVE ChannelInv'
  BY <1>4, RecvPacketChannel
<1>5. ASSUME NEW d \in net, Lose(d) PROVE ChannelInv'
  BY <1>5, ChannelUnchanged DEF Lose, queueVars, requestVars, sentVars, peerVars
<1>6. ASSUME NEW n \in Node, FinishReceive(n) PROVE ChannelInv'
  BY <1>6, FinishReceiveChannel
<1>7. ASSUME NEW n \in Node, NEW p \in Node, CheckPeer(n, p) PROVE ChannelInv'
  BY <1>7, ChannelUnchanged DEF CheckPeer, queueVars, requestVars, peerVars
<1>8. ASSUME NEW n \in Node, NEW p \in Node, PopOldest(n, p) PROVE ChannelInv'
  BY <1>8, PopOldestChannel
<1>9. ASSUME NEW n \in Node, SendPacket(n) PROVE ChannelInv'
  BY <1>9, SendPacketChannel
<1>10. ASSUME NEW n \in Node, EndSend(n) PROVE ChannelInv'
  BY <1>10, ChannelUnchanged DEF EndSend, queueVars, requestVars, sentVars, peerVars
<1>11. CASE UNCHANGED vars
  BY <1>11, ChannelUnchanged DEF vars, queueVars, requestVars, sentVars, peerVars
<1> QED
  BY <1>1, <1>2, <1>3, <1>4, <1>5, <1>6, <1>7, <1>8, <1>9, <1>10, <1>11 DEF Next

\* While no number is used twice, the packets on their way, those that wait and
\* those kept are what their numbers say, and every acknowledgement is true.
THEOREM ChannelInvariant == Spec /\ []NumbersLast => [](IInv /\ SlotsInv /\ ChannelInv)
<1>1. IInv /\ SlotsInv /\ ChannelInv /\ NumbersLast /\ NumbersLast' /\ [Next]_vars
         => ChannelInv'
  BY NextChannel
<1> QED  BY <1>1, InitChannel, SlotsInvariant, PTL DEF Spec

LEMMA LastIsNext ==
    ASSUME TypeOK, NumbersLast, NEW n \in Node, NEW p \in Node,
           NEW seq \in Nat, seq + 1 \in 1..Len(sentLog[n][p])
    PROVE  LastUnder(n, p, seq) = seq + 1
<1> DEFINE under == {k \in 1..Len(sentLog[n][p]) : (k - 1) % SeqMod = seq}
<1>1. Len(sentLog[n][p]) \in Nat /\ Len(sentLog[n][p]) <= SeqMod \div 2
      /\ SeqMod \in Nat \ {0}
  BY ChannelTypes, SizeAssumption DEF NumbersLast
<1>2. ASSUME NEW k \in 1..Len(sentLog[n][p]) PROVE (k - 1) % SeqMod = k - 1
  <2>1. k - 1 \in 0..(SeqMod - 1)  BY <1>1
  <2> QED  BY <1>1, <2>1, ModSmall
<1>3. under = {seq + 1}  BY <1>2
<1>4. LastUnder(n, p, seq) =
        IF under = {} THEN 0 ELSE CHOOSE k \in under : \A j \in under : j <= k
  BY DEF LastUnder
<1> HIDE DEF under
<1>5. \A k \in under : k = seq + 1  BY <1>3
<1>6. seq + 1 \in under /\ \A j \in under : j <= seq + 1  BY <1>3
<1>7. (CHOOSE k \in under : \A j \in under : j <= k) \in under  BY <1>6
<1> QED  BY <1>4, <1>5, <1>6, <1>7

LEMMA KeptAreSame ==
    ASSUME TypeOK, NumbersLast, ChannelInv
    PROVE  ResendsTheSamePacket
<1> SUFFICES ASSUME NEW n \in Node, NEW p \in Node, NEW i \in 1..Len(sent[n][p]),
                    ~sent[n][p][i].done
    PROVE  LET e == sent[n][p][i]
               k == LastUnder(n, p, e.seq)
           IN k # 0 /\ requests[n][e.slot].rel = sentLog[n][p][k]
  BY DEF ResendsTheSamePacket
<1> DEFINE e == sent[n][p][i]
<1>1. Went(n, p, e.seq, requests[n][e.slot].rel)
  BY DEF ChannelInv, ChannelOf, KeptIsNumbered
<1>2. e.seq \in Nat  BY EntryTypes
<1>3. e.seq + 1 \in 1..Len(sentLog[n][p])  BY <1>1 DEF Went
<1> HIDE DEF e
<1>4. LastUnder(n, p, e.seq) = e.seq + 1  BY <1>2, <1>3, LastIsNext
<1>5. LastUnder(n, p, e.seq) # 0  BY <1>2, <1>4
<1>6. requests[n][e.slot].rel = sentLog[n][p][LastUnder(n, p, e.seq)]
  BY <1>1, <1>4 DEF Went
<1> QED  BY <1>5, <1>6 DEF e

LEMMA MarkedAreReceived ==
    ASSUME TypeOK, NumbersLast, ChannelInv
    PROVE  AckedWasReceived
<1> SUFFICES ASSUME NEW n \in Node, NEW p \in Node, n \in peers[p],
                    NEW i \in 1..Len(sent[n][p]), sent[n][p][i].done
    PROVE  \/ LastUnder(n, p, sent[n][p][i].seq) \in 1..Len(delivered[p][n])
           \/ \E j \in 1..Len(window[p][n]) :
                 window[p][n][j] # Gap /\ window[p][n][j].seq = sent[n][p][i].seq
  BY DEF AckedWasReceived
<1> DEFINE seq == sent[n][p][i].seq
<1>1. Received(n, p, seq)  BY DEF ChannelInv, ChannelOf, AcksAreTrue
<1>2. seq \in Nat /\ Len(delivered[p][n]) \in Nat /\ Len(sentLog[n][p]) \in Nat
      /\ Len(delivered[p][n]) <= Len(sentLog[n][p])
  BY EntryTypes, ChannelTypes DEF ChannelInv, ChannelOf, LogsAgree
<1> HIDE DEF seq
<1>3. ASSUME seq \in 0..(Len(delivered[p][n]) - 1)
      PROVE  LastUnder(n, p, seq) \in 1..Len(delivered[p][n])
  <2>1. seq + 1 \in 1..Len(sentLog[n][p]) /\ seq + 1 \in 1..Len(delivered[p][n])
    BY <1>2, <1>3
  <2> QED  BY <1>2, <2>1, LastIsNext
<1> QED  BY <1>1, <1>3 DEF Received, seq

\* What UpdatePendingSent sends again under an entry's number is the packet that
\* went out under it, whatever acknowledgements, timeouts, resends and departures
\* came between: the slot an entry points at was not handed out meanwhile.
THEOREM ResendsAreSame == Spec /\ []NumbersLast => []ResendsTheSamePacket
<1>1. IInv /\ ChannelInv /\ NumbersLast => ResendsTheSamePacket
  BY KeptAreSame DEF IInv
<1> QED  BY <1>1, ChannelInvariant, PTL

\* HandleAckRecv marks no entry whose packet did not arrive: acknowledgements may
\* be lost, repeated or overtaken, and the window may refuse a packet, yet no
\* packet is taken for received that was not.
THEOREM AckedAreReceived == Spec /\ []NumbersLast => []AckedWasReceived
<1>1. IInv /\ ChannelInv /\ NumbersLast => AckedWasReceived
  BY MarkedAreReceived DEF IInv
<1> QED  BY <1>1, ChannelInvariant, PTL

-----------------------------------------------------------------------------
(* The refinement, step by step *)

LEMMA SameSeq ==
    ASSUME NEW S, NEW s \in Seq(S), NEW t \in Seq(S), Len(s) = Len(t),
           \A i \in 1..Len(s) : s[i] = t[i]
    PROVE  s = t
BY SeqEqual

\* The beginning of a log, as SubSeq gives it.
LEMMA BeginningIsSubSeq ==
    ASSUME NEW log \in Logs, NEW del \in Logs, IsBeginning(del, log)
    PROVE  del = SubSeq(log, 1, Len(del))
<1>1. log \in Seq(Seq(Message)) /\ del \in Seq(Seq(Message))  BY DEF Logs
<1>2. Len(log) \in Nat /\ Len(del) \in Nat /\ Len(del) <= Len(log)
      /\ \A i \in 1..Len(del) : del[i] = log[i]
  BY <1>1 DEF IsBeginning
<1> DEFINE front == SubSeq(log, 1, Len(del))
<1>3. \A i \in 1..Len(del) : log[i] \in Seq(Message)  BY <1>1, <1>2, ElementOfSeq
<1>4. /\ front \in Seq(Seq(Message)) /\ Len(front) = Len(del)
      /\ \A i \in 1..Len(del) : front[i] = log[i]
  <2>1. /\ front \in Seq(Seq(Message))
        /\ Len(front) = IF 1 <= Len(del) THEN Len(del) - 1 + 1 ELSE 0
        /\ \A i \in 1..(Len(del) - 1 + 1) : front[i] = log[1 + i - 1]
    BY <1>2, <1>3, SubSeqProperties
  <2> HIDE DEF front
  <2> QED  BY <1>2, <2>1
<1> HIDE DEF front
<1>5. del = front  BY <1>1, <1>2, <1>4, SameSeq
<1> QED  BY <1>5 DEF front

LogsBegin == \A n, p \in Node :
    /\ sentLog[n][p] \in Logs /\ delivered[p][n] \in Logs
    /\ IsBeginning(delivered[p][n], sentLog[n][p])

LEMMA BeginningOfLog == TypeOK /\ ChannelInv => LogsBegin
BY ChannelTypes DEF LogsBegin, ChannelInv, ChannelOf, LogsAgree, IsBeginning, Logs

LEMMA AppendLast ==
    ASSUME NEW S, NEW s \in Seq(S), NEW e \in S
    PROVE  Append(s, e) # <<>> /\ Append(s, e)[Len(Append(s, e))] = e
OBVIOUS

LEMMA DispatchMoves ==
    ASSUME TypeOK, ChannelInv, NEW m \in Node, FinishReceive(m), NEW n \in Node
    PROVE  Len(delivered[m][n]) <= Len(delivered'[m][n])
<1> DEFINE win  == window[m][n]
           del  == delivered[m][n]
           take == IF n \in peers[m] /\ ~hasError[m] THEN Ready(win) ELSE 0
           del2 == del \o Heads(win, take)
<1>1. delivered'[m][n] = del2
  <2>1. delivered' = [delivered EXCEPT ![m] = [r \in Node |->
           delivered[m][r] \o
              Heads(window[m][r],
                    IF r \in peers[m] /\ ~hasError[m] THEN Ready(window[m][r]) ELSE 0)]]
    BY DEF FinishReceive, Heads
  <2> QED  BY <2>1 DEF TypeOK, RecvTypes
<1>2. win \in Windows /\ Ready(win) \in Nat  BY ChannelTypes, ReadyType DEF Windows
<1>3. GoesOn(win, del, sentLog[n][m])
  BY DEF ChannelInv, ChannelOf, WaitingIsNumbered, GoesOn, Went
<1>4. /\ sentLog[n][m] \in Logs /\ del \in Logs /\ IsBeginning(del, sentLog[n][m])
      /\ Len(del) \in Nat
  BY BeginningOfLog, ChannelTypes DEF LogsBegin
<1>5. take \in 0..Ready(win) /\ take \in Nat  BY <1>2
<1> HIDE DEF win, take, del
<1>6. Len(del2) = Len(del) + take  BY <1>2, <1>3, <1>4, <1>5, DispatchedSeqs
<1> HIDE DEF del2
<1>7. Len(del) <= Len(del2)  BY <1>4, <1>5, <1>6
<1> QED  BY <1>1, <1>7 DEF del

LEMMA DeliverStep ==
    ASSUME TypeOK, TypeOK', ChannelInv, ChannelInv', NEW m \in Node, FinishReceive(m)
    PROVE  Channel!Deliver(m)
<1>1. sentLog' = sentLog  BY DEF FinishReceive
<1>2. ASSUME NEW n \in Node
      PROVE  /\ Len(delivered'[m][n]) \in Len(delivered[m][n])..Len(sentLog[n][m])
             /\ delivered'[m][n] = SubSeq(sentLog[n][m], 1, Len(delivered'[m][n]))
  <2>1. /\ sentLog[n][m] \in Logs /\ delivered'[m][n] \in Logs
        /\ IsBeginning(delivered'[m][n], sentLog[n][m])
    <3>1. LogsBegin'  BY BeginningOfLog, PTL
    <3> QED  BY <1>1, <3>1 DEF LogsBegin, IsBeginning, Logs
  <2>2. Len(delivered[m][n]) \in Nat /\ Len(sentLog[n][m]) \in Nat  BY ChannelTypes
  <2>3. Len(delivered'[m][n]) \in Nat  BY <2>1 DEF Logs
  <2>4. Len(delivered[m][n]) <= Len(delivered'[m][n])  BY DispatchMoves
  <2> QED  BY <2>1, <2>2, <2>3, <2>4, BeginningIsSubSeq DEF IsBeginning
<1>3. delivered' = [delivered EXCEPT ![m] = [n \in Node |-> delivered'[m][n]]]
  <2>1. delivered \in [Node -> [Node -> Seq(Seq(Message))]]
        /\ delivered' \in [Node -> [Node -> Seq(Seq(Message))]]
    BY DEF TypeOK, RecvTypes
  <2>2. \A p \in Node : p # m => delivered'[p] = delivered[p]
    BY <2>1 DEF FinishReceive
  <2>3. delivered'[m] = [n \in Node |-> delivered'[m][n]]  BY <2>1
  <2> QED  BY <2>1, <2>2, <2>3
<1> QED  BY <1>1, <1>2, <1>3 DEF Channel!Deliver

LEMMA SendStep ==
    ASSUME TypeOK, TypeOK', RingInv, NEW m \in Node, SendPacket(m)
    PROVE  Channel!Send(m) \/ UNCHANGED <<sentLog, delivered>>
<1>1. PICK q, rel, tracked, carry : Sends(m, q, rel, tracked, carry)
  BY SendPacketEffect
<1>2. /\ rel \in Seq(Message) /\ tracked \subseteq Node
      /\ \A n, p \in Node :
            /\ n = m /\ p \in tracked => sentLog'[n][p] = Append(sentLog[n][p], rel)
            /\ ~(n = m /\ p \in tracked) => sentLog'[n][p] = sentLog[n][p]
  <2>1. rel \in Seq(Message) /\ tracked \subseteq Node  BY <1>1 DEF Sends
  <2>2. ASSUME NEW n \in Node, NEW p \in Node
        PROVE  /\ n = m /\ p \in tracked => sentLog'[n][p] = Append(sentLog[n][p], rel)
               /\ ~(n = m /\ p \in tracked) => sentLog'[n][p] = sentLog[n][p]
    BY <1>1 DEF Sends
  <2> QED  BY <2>1, <2>2
<1>3. delivered' = delivered  BY DEF SendPacket, recvVars
<1>4. sentLog \in [Node -> [Node -> Seq(Seq(Message))]]
      /\ sentLog' \in [Node -> [Node -> Seq(Seq(Message))]]
  BY DEF TypeOK, SentTypes
<1> DEFINE row == [p \in Node |->
              IF p \in tracked THEN Append(sentLog[m][p], rel) ELSE sentLog[m][p]]
<1>5. sentLog' = [sentLog EXCEPT ![m] = row]
  <2>1. \A n \in Node : sentLog'[n] = IF n = m THEN row ELSE sentLog[n]
    <3>1. ASSUME NEW n \in Node PROVE sentLog'[n] = IF n = m THEN row ELSE sentLog[n]
      <4>1. sentLog'[n] \in [Node -> Seq(Seq(Message))]
            /\ sentLog[n] \in [Node -> Seq(Seq(Message))]
        BY <1>4
      <4>2. CASE n = m
        <5>1. \A p \in Node : sentLog'[n][p] = row[p]  BY <1>2, <4>2
        <5>2. row \in [Node -> {row[p] : p \in Node}]
              /\ sentLog'[n] \in [Node -> {row[p] : p \in Node}]
          BY <4>1, <5>1
        <5> HIDE DEF row
        <5> QED  BY <4>1, <4>2, <5>1, <5>2
      <4>3. CASE n # m
        <5>1. \A p \in Node : sentLog'[n][p] = sentLog[n][p]  BY <1>2, <4>3
        <5> QED  BY <4>1, <4>3, <5>1
      <4> QED  BY <4>2, <4>3
    <3> QED  BY <3>1
  <2> HIDE DEF row
  <2> QED  BY <1>4, <2>1
<1>6. CASE tracked = {}
  <2>1. \A n, p \in Node : sentLog'[n][p] = sentLog[n][p]  BY <1>2, <1>6
  <2>2. \A n \in Node : sentLog'[n] = sentLog[n]  BY <1>4, <2>1
  <2> QED  BY <1>3, <1>4, <2>2
<1>7. CASE tracked # {}
  <2>1. ASSUME NEW p \in tracked
        PROVE  sentLog'[m][p] # <<>> /\ sentLog'[m][p][Len(sentLog'[m][p])] = rel
    <3>1. sentLog'[m][p] = Append(sentLog[m][p], rel)  BY <1>2
    <3>2. sentLog[m][p] \in Seq(Seq(Message))  BY <1>2, <1>4
    <3>3. /\ Append(sentLog[m][p], rel) # <<>>
          /\ Append(sentLog[m][p], rel)[Len(Append(sentLog[m][p], rel))] = rel
      BY <1>2, <3>2, AppendLast
    <3> QED  BY <3>1, <3>3
  <2>2. tracked \in SUBSET {p \in Node : sentLog'[m][p] # <<>>}  BY <1>2, <2>1
  <2>3. rel \in {sentLog'[m][p][Len(sentLog'[m][p])] : p \in tracked}  BY <1>7, <2>1
  <2> QED  BY <1>3, <1>5, <2>2, <2>3 DEF Channel!Send
<1> QED  BY <1>6, <1>7

LEMMA NextRefines ==
    ASSUME IInv, IInv', ChannelInv, ChannelInv', [Next]_vars
    PROVE  [Channel!Next]_(Channel!vars)
<1> USE DEF IInv
<1> SUFFICES ASSUME sentLog' # sentLog \/ delivered' # delivered
             PROVE  \E m \in Node : Channel!Send(m) \/ Channel!Deliver(m)
  BY DEF Channel!Next, Channel!vars
<1>1. ASSUME NEW m \in Node, FinishReceive(m) PROVE Channel!Deliver(m)
  BY <1>1, DeliverStep
<1>2. ASSUME NEW m \in Node, SendPacket(m) PROVE Channel!Send(m)
  BY <1>2, SendStep
<1>3. ASSUME NEW n \in Node, NEW q \in Queue, SendMessagePriority(n, q) PROVE FALSE
  BY <1>3 DEF SendMessagePriority, sentVars, recvVars
<1>4. ASSUME NEW n \in Node, NEW p \in Node, SendMessage(n, p) PROVE FALSE
  BY <1>4 DEF SendMessage, sentVars, recvVars
<1>5. ASSUME NEW n \in Node, NEW p \in Node, DisconnectPeer(n, p) PROVE FALSE
  BY <1>5 DEF DisconnectPeer
<1>6. ASSUME NEW n \in Node, NEW d \in net, RecvPacket(n, d) PROVE FALSE
  BY <1>6 DEF RecvPacket
<1>7. ASSUME NEW d \in net, Lose(d) PROVE FALSE
  BY <1>7 DEF Lose, sentVars, recvVars
<1>8. ASSUME NEW n \in Node, NEW p \in Node, CheckPeer(n, p) PROVE FALSE
  BY <1>8 DEF CheckPeer, recvVars
<1>9. ASSUME NEW n \in Node, NEW p \in Node, PopOldest(n, p) PROVE FALSE
  BY <1>9 DEF PopOldest, recvVars
<1>10. ASSUME NEW n \in Node, EndSend(n) PROVE FALSE
  BY <1>10 DEF EndSend, sentVars, recvVars
<1>11. CASE UNCHANGED vars  BY <1>11 DEF vars, sentVars, recvVars
<1> QED
  BY <1>1, <1>2, <1>3, <1>4, <1>5, <1>6, <1>7, <1>8, <1>9, <1>10, <1>11 DEF Next

\* What UpdateReceivePvt dispatches of a peer is what that peer's SendPacket
\* numbered, in that order, each packet once and none left out: a step of
\* SendPacket is a Send of the channel, a step of FinishReceive a Deliver, and no
\* other step touches what was numbered or dispatched.
THEOREM SessionIsReliable == Spec /\ []NumbersLast => ImplementsChannel
<1>1. Init => Channel!Init  BY DEF Init, Channel!Init
<1>2. /\ IInv /\ IInv' /\ ChannelInv /\ ChannelInv' /\ [Next]_vars
         => [Channel!Next]_(Channel!vars)
  BY NextRefines
<1> QED  BY <1>1, <1>2, ChannelInvariant, PTL DEF Spec, ImplementsChannel, Channel!Spec

-----------------------------------------------------------------------------
(* The order of the messages.  The messages of a queue are numbered for    *)
(* its members in the order the game handed them over, and dispatched so.  *)

\* Logs of packets.

\* An earlier place of a log, or of the same packet of it.
Before(log, i, k, m) == \E j \in 1..i : \E l \in 1..Len(log[j]) :
    log[j][l] = m /\ (j < i \/ l < k)

InOrder(log) == \A i \in 1..Len(log) : \A k \in 1..Len(log[i]) :
    log[i][k].num > 1 => Before(log, i, k, [log[i][k] EXCEPT !.num = @ - 1])

Holds(log, m) == \E i \in 1..Len(log) : \E k \in 1..Len(log[i]) : log[i][k] = m

LEMMA AppendElements ==
    ASSUME NEW log \in Logs, NEW rel \in Seq(Message)
    PROVE  /\ Len(log) \in Nat /\ Len(Append(log, rel)) = Len(log) + 1
           /\ Append(log, rel)[Len(log) + 1] = rel
           /\ \A i \in 1..Len(log) : Append(log, rel)[i] = log[i]
BY DEF Logs

LEMMA HoldsMore ==
    ASSUME NEW log \in Logs, NEW rel \in Seq(Message), NEW m
    PROVE  /\ Holds(log, m) => Holds(Append(log, rel), m)
           /\ \A k \in 1..Len(rel) : rel[k] = m => Holds(Append(log, rel), m)
<1> DEFINE more == Append(log, rel)
<1>1. /\ Len(log) \in Nat /\ Len(more) = Len(log) + 1 /\ more[Len(log) + 1] = rel
      /\ \A i \in 1..Len(log) : more[i] = log[i]
  BY AppendElements
<1> HIDE DEF more
<1>2. \A i \in 1..Len(log) : i \in 1..Len(more)  BY <1>1
<1>3. Len(log) + 1 \in 1..Len(more)  BY <1>1
<1> QED  BY <1>1, <1>2, <1>3 DEF Holds, more

\* The beginning of a log in order is in order.
LEMMA BeginningInOrder ==
    ASSUME NEW log \in Logs, NEW del \in Logs, IsBeginning(del, log), InOrder(log)
    PROVE  InOrder(del)
<1>1. Len(del) \in Nat /\ Len(log) \in Nat /\ Len(del) <= Len(log)
      /\ \A i \in 1..Len(del) : del[i] = log[i]
  BY DEF IsBeginning, Logs
<1>2. ASSUME NEW i \in 1..Len(del), NEW k \in 1..Len(del[i]), del[i][k].num > 1
      PROVE  Before(del, i, k, [del[i][k] EXCEPT !.num = @ - 1])
  <2> DEFINE m == [del[i][k] EXCEPT !.num = @ - 1]
  <2>1. i \in 1..Len(log) /\ del[i] = log[i]  BY <1>1
  <2>2. Before(log, i, k, m)  BY <1>2, <2>1 DEF InOrder
  <2> HIDE DEF m
  <2>3. PICK j \in 1..i : \E l \in 1..Len(log[j]) : log[j][l] = m /\ (j < i \/ l < k)
    BY <2>2 DEF Before
  <2>4. del[j] = log[j]  BY <1>1, <2>1
  <2>5. Before(del, i, k, m)  BY <2>3, <2>4 DEF Before
  <2> QED  BY <2>5 DEF m
<1> QED  BY <1>2 DEF InOrder

\* The messages of a queue that go out next keep its log in order.
LEMMA AppendInOrder ==
    ASSUME NEW log \in Logs, NEW rel \in Seq(Message), InOrder(log), NEW t \in Nat,
           NEW n \in Node, NEW q \in Queue,
           \A k \in 1..Len(rel) : rel[k] = [from |-> n, queue |-> q, num |-> t + k],
           \A k \in 1..t : Holds(log, [from |-> n, queue |-> q, num |-> k])
    PROVE  InOrder(Append(log, rel))
<1> DEFINE more == Append(log, rel)
           last == Len(log) + 1
           msg(k) == [from |-> n, queue |-> q, num |-> k]
<1>1. /\ Len(log) \in Nat /\ Len(more) = last /\ more[last] = rel
      /\ \A i \in 1..Len(log) : more[i] = log[i]
  BY AppendElements
<1>2. Len(rel) \in Nat  OBVIOUS
<1>3. \A k \in Int : msg(k).num = k /\ [msg(k) EXCEPT !.num = @ - 1] = msg(k - 1)
  OBVIOUS
<1>a. /\ \A k \in 1..Len(rel) : rel[k] = msg(t + k)
      /\ \A k \in 1..t : Holds(log, msg(k))
  OBVIOUS
<1> HIDE DEF more, last, msg
<1>4. ASSUME NEW i \in 1..Len(log), NEW k \in 1..Len(more[i]), more[i][k].num > 1
      PROVE  Before(more, i, k, [more[i][k] EXCEPT !.num = @ - 1])
  <2> DEFINE m == [log[i][k] EXCEPT !.num = @ - 1]
  <2>1. more[i] = log[i]  BY <1>1
  <2>2. Before(log, i, k, m)  BY <1>4, <2>1 DEF InOrder
  <2> HIDE DEF m
  <2>3. PICK j \in 1..i : \E l \in 1..Len(log[j]) : log[j][l] = m /\ (j < i \/ l < k)
    BY <2>2 DEF Before
  <2>4. j \in 1..Len(log)  BY <1>1
  <2>5. more[j] = log[j]  BY <1>1, <2>4
  <2>6. Before(more, i, k, m)  BY <2>3, <2>5 DEF Before
  <2> QED  BY <2>1, <2>6 DEF m
<1>5. ASSUME NEW k \in 1..Len(rel), rel[k].num > 1
      PROVE  Before(more, last, k, [rel[k] EXCEPT !.num = @ - 1])
  <2>1. rel[k] = msg(t + k) /\ t + k > 1 /\ [rel[k] EXCEPT !.num = @ - 1] = msg(t + k - 1)
    <3>1. rel[k] = msg(t + k) /\ t + k \in Int  BY <1>2, <1>a
    <3>2. msg(t + k).num = t + k /\ [msg(t + k) EXCEPT !.num = @ - 1] = msg(t + k - 1)
      BY <1>3, <3>1
    <3> QED  BY <1>5, <3>1, <3>2
  <2>2. last \in 1..last /\ last \in Nat  BY <1>1 DEF last
  <2>3. CASE k > 1
    <3>1. k - 1 \in 1..Len(rel) /\ t + (k - 1) = t + k - 1 /\ k - 1 < k
      BY <1>2, <2>3
    <3>2. rel[k - 1] = msg(t + k - 1)  BY <1>a, <3>1
    <3>3. k - 1 \in 1..Len(more[last]) /\ more[last][k - 1] = msg(t + k - 1)
      BY <1>1, <3>1, <3>2
    <3> QED  BY <2>1, <2>2, <3>1, <3>3 DEF Before
  <2>4. CASE ~(k > 1)
    <3>1. k = 1 /\ t \in 1..t /\ t + k - 1 = t  BY <1>2, <2>1, <2>4
    <3>2. Holds(log, msg(t))  BY <1>a, <3>1
    <3>3. PICK j \in 1..Len(log) : \E l \in 1..Len(log[j]) : log[j][l] = msg(t)
      BY <3>2 DEF Holds
    <3>4. j \in 1..last /\ j < last /\ more[j] = log[j]  BY <1>1, <3>3 DEF last
    <3> QED  BY <2>1, <3>1, <3>3, <3>4 DEF Before
  <2> QED  BY <2>3, <2>4
<1>6. \A i \in 1..Len(more) : i \in 1..Len(log) \/ i = last  BY <1>1 DEF last
<1>7. InOrder(more)  BY <1>1, <1>4, <1>5, <1>6 DEF InOrder
<1> QED  BY <1>7 DEF more

-----------------------------------------------------------------------------
(* The inductive invariant *)

\* The messages of queue q that have left it.
Taken(n, q) == submitted[n][q] - Len(prio[n][q])

MessageOf(n, q, k) == [from |-> n, queue |-> q, num |-> k]

\* What waits in a queue is what it accepted last.
QueueWaits(n, q) ==
    /\ Len(prio[n][q]) <= submitted[n][q]
    /\ \A k \in 1..Len(prio[n][q]) : prio[n][q][k] = MessageOf(n, q, Taken(n, q) + k)

\* What left a queue was numbered for every member that is still a peer.
QueueWent(n, q) == \A p \in Members(n, q) : \A k \in 1..Taken(n, q) :
    Holds(sentLog[n][p], MessageOf(n, q, k))

QueuesOf(n) ==
    /\ \A q \in Queue : QueueWaits(n, q) /\ QueueWent(n, q)
    /\ \A p \in Node : InOrder(sentLog[n][p])

QueuesInv == \A n \in Node : QueuesOf(n)

LEMMA OrderTypes ==
    ASSUME TypeOK, NEW n \in Node, NEW q \in Queue
    PROVE  /\ prio[n][q] \in Seq(Message) /\ Len(prio[n][q]) \in Nat
           /\ submitted[n][q] \in Nat /\ Taken(n, q) \in Int
           /\ \A p \in Node : sentLog[n][p] \in Logs
<1>1. prio[n][q] \in Seq(Message) /\ submitted[n][q] \in Nat
  BY DEF TypeOK, QueueTypes
<1>2. \A p \in Node : sentLog[n][p] \in Logs  BY DEF TypeOK, SentTypes, Logs
<1>3. Len(prio[n][q]) \in Nat  BY <1>1
<1> QED  BY <1>1, <1>2, <1>3 DEF Taken

LEMMA InitQueues == Init => QueuesInv
<1> SUFFICES ASSUME Init, NEW n \in Node PROVE QueuesOf(n)  BY DEF QueuesInv
<1>1. ASSUME NEW q \in Queue PROVE QueueWaits(n, q) /\ QueueWent(n, q)
  <2>1. prio[n][q] = <<>> /\ submitted[n][q] = 0  BY <1>1 DEF Init
  <2>2. Len(prio[n][q]) = 0  BY <2>1
  <2>3. Taken(n, q) = submitted[n][q] - Len(prio[n][q])  BY DEF Taken
  <2>4. Taken(n, q) = 0  BY <2>1, <2>2, <2>3
  <2> QED  BY <2>1, <2>2, <2>4 DEF QueueWaits, QueueWent
<1>2. ASSUME NEW p \in Node PROVE InOrder(sentLog[n][p])
  <2>1. sentLog[n][p] = <<>>  BY DEF Init
  <2> QED  BY <2>1 DEF InOrder
<1> QED  BY <1>1, <1>2 DEF QueuesOf

\* A step that moves no message; peers may go.
LEMMA QueuesKept ==
    ASSUME QueuesInv, UNCHANGED <<prio, submitted, sentLog>>,
           \A n \in Node : peers'[n] \subseteq peers[n]
    PROVE  QueuesInv'
<1> SUFFICES ASSUME NEW n \in Node PROVE QueuesOf(n)'  BY DEF QueuesInv
<1>1. QueuesOf(n)  BY DEF QueuesInv
<1>2. ASSUME NEW q \in Queue PROVE QueueWaits(n, q)' /\ QueueWent(n, q)'
  <2>1. Taken(n, q)' = Taken(n, q)  BY DEF Taken
  <2>2. Members(n, q)' \subseteq Members(n, q)  BY DEF Members
  <2> QED  BY <1>1, <2>1, <2>2 DEF QueuesOf, QueueWaits, QueueWent
<1> QED  BY <1>1, <1>2 DEF QueuesOf

LEMMA SendMessagePriorityQueues ==
    ASSUME TypeOK, QueuesInv, NEW m \in Node, NEW r \in Queue, SendMessagePriority(m, r)
    PROVE  QueuesInv'
<1>1. UNCHANGED <<sentLog, peers>>  BY DEF SendMessagePriority, sentVars
<1> DEFINE msg == MessageOf(m, r, submitted[m][r] + 1)
<1>2. \/ UNCHANGED <<prio, submitted>>
      \/ /\ prio' = [prio EXCEPT ![m][r] = Append(@, msg)]
         /\ submitted' = [submitted EXCEPT ![m][r] = @ + 1]
  BY DEF SendMessagePriority, MessageOf
<1>3. CASE UNCHANGED <<prio, submitted>>  BY <1>1, <1>3, QueuesKept
<1>4. CASE /\ prio' = [prio EXCEPT ![m][r] = Append(@, msg)]
           /\ submitted' = [submitted EXCEPT ![m][r] = @ + 1]
  <2>1. ASSUME NEW n \in Node, NEW q \in Queue
        PROVE  /\ n = m /\ q = r => /\ prio'[n][q] = Append(prio[n][q], msg)
                                    /\ submitted'[n][q] = submitted[n][q] + 1
               /\ ~(n = m /\ q = r) => /\ prio'[n][q] = prio[n][q]
                                       /\ submitted'[n][q] = submitted[n][q]
    BY <1>4 DEF TypeOK, QueueTypes
  <2> HIDE DEF msg
  <2>2. ASSUME NEW n \in Node, NEW q \in Queue
        PROVE  QueueWaits(n, q)' /\ QueueWent(n, q)'
    <3>1. QueueWaits(n, q) /\ QueueWent(n, q)  BY DEF QueuesInv, QueuesOf
    <3>2. /\ prio[n][q] \in Seq(Message) /\ Len(prio[n][q]) \in Nat
          /\ submitted[n][q] \in Nat
      BY OrderTypes
    <3>3. CASE n = m /\ q = r
      <4>1. /\ Len(prio'[n][q]) = Len(prio[n][q]) + 1
            /\ prio'[n][q][Len(prio[n][q]) + 1] = msg
            /\ \A k \in 1..Len(prio[n][q]) : prio'[n][q][k] = prio[n][q][k]
        <5>1. prio'[n][q] = Append(prio[n][q], msg)  BY <2>1, <3>3
        <5> QED  BY <3>2, <5>1
      <4>2. submitted'[n][q] = submitted[n][q] + 1  BY <2>1, <3>3
      <4>3. Taken(n, q)' = Taken(n, q)
        <5>1. Taken(n, q) = submitted[n][q] - Len(prio[n][q])
              /\ Taken(n, q)' = submitted'[n][q] - Len(prio'[n][q])
          BY DEF Taken
        <5> QED  BY <3>2, <4>1, <4>2, <5>1
      <4>4. msg = MessageOf(n, q, Taken(n, q) + (Len(prio[n][q]) + 1))
        <5>1. Taken(n, q) + (Len(prio[n][q]) + 1) = submitted[n][q] + 1
          BY <3>2 DEF Taken
        <5> QED  BY <3>3, <5>1 DEF msg
      <4>5. \A k \in 1..Len(prio'[n][q]) : k \in 1..Len(prio[n][q]) \/ k = Len(prio[n][q]) + 1
        BY <3>2, <4>1
      <4>6. \A k \in 1..Len(prio'[n][q]) :
               prio'[n][q][k] = MessageOf(n, q, Taken(n, q) + k)
        BY <3>1, <4>1, <4>4, <4>5 DEF QueueWaits
      <4>7. Len(prio'[n][q]) <= submitted'[n][q]
        BY <3>1, <3>2, <4>1, <4>2 DEF QueueWaits
      <4>8. QueueWaits(n, q)'  BY <4>3, <4>6, <4>7 DEF QueueWaits, MessageOf
      <4>9. QueueWent(n, q)'
        BY <1>1, <3>1, <4>3 DEF QueueWent, Members, MessageOf
      <4> QED  BY <4>8, <4>9
    <3>4. CASE ~(n = m /\ q = r)
      <4>1. prio'[n][q] = prio[n][q] /\ submitted'[n][q] = submitted[n][q]
        BY <2>1, <3>4
      <4>2. Taken(n, q)' = Taken(n, q)  BY <4>1 DEF Taken
      <4> QED  BY <1>1, <3>1, <4>1, <4>2 DEF QueueWaits, QueueWent, Members
    <3> QED  BY <3>3, <3>4
  <2>3. \A n, p \in Node : InOrder(sentLog'[n][p])
    BY <1>1 DEF QueuesInv, QueuesOf
  <2> QED  BY <2>2, <2>3 DEF QueuesInv, QueuesOf
<1> QED  BY <1>2, <1>3, <1>4

\* The packet takes the first messages of its queue, for every member.
LEMMA SendPacketQueues ==
    ASSUME TypeOK, RingInv, QueuesInv, NEW m \in Node, SendPacket(m)
    PROVE  QueuesInv'
<1>1. PICK r, rel, tracked, carry : Sends(m, r, rel, tracked, carry)
  BY SendPacketEffect
<1>2. /\ r \in Queue /\ rel \in Seq(Message)
      /\ tracked = IF rel = <<>> THEN {} ELSE Members(m, r)
      /\ rel = <<>> \/ rel = SubSeq(prio[m][r], 1, Least(RelRoom, Len(prio[m][r])))
      /\ prio' = [prio EXCEPT ![m][r] = SubSeq(@, Len(rel) + 1, Len(@))]
      /\ \A n, p \in Node :
            /\ n = m /\ p \in tracked => sentLog'[n][p] = Append(sentLog[n][p], rel)
            /\ ~(n = m /\ p \in tracked) => sentLog'[n][p] = sentLog[n][p]
  <2>1. /\ r \in Queue /\ rel \in Seq(Message)
        /\ tracked = IF rel = <<>> THEN {} ELSE Members(m, r)
        /\ rel = <<>> \/ rel = SubSeq(prio[m][r], 1, Least(RelRoom, Len(prio[m][r])))
        /\ prio' = [prio EXCEPT ![m][r] = SubSeq(@, Len(rel) + 1, Len(@))]
    BY <1>1 DEF Sends
  <2>2. ASSUME NEW n \in Node, NEW p \in Node
        PROVE  /\ n = m /\ p \in tracked => sentLog'[n][p] = Append(sentLog[n][p], rel)
               /\ ~(n = m /\ p \in tracked) => sentLog'[n][p] = sentLog[n][p]
    BY <1>1 DEF Sends
  <2> QED  BY <2>1, <2>2
<1>3. UNCHANGED <<submitted, peers>>  BY DEF SendPacket, peerVars
<1> DEFINE queue == prio[m][r]
           size  == Len(rel)
           took  == Taken(m, r)
<1>4. /\ queue \in Seq(Message) /\ Len(queue) \in Nat /\ size \in Nat
      /\ submitted[m][r] \in Nat /\ took \in Nat /\ Len(queue) <= submitted[m][r]
      /\ took = submitted[m][r] - Len(queue)
      /\ \A k \in 1..Len(queue) : queue[k] = MessageOf(m, r, took + k)
      /\ \A p \in Members(m, r) : \A k \in 1..took :
            Holds(sentLog[m][p], MessageOf(m, r, k))
  <2>1. QueueWaits(m, r) /\ QueueWent(m, r)  BY <1>2 DEF QueuesInv, QueuesOf
  <2>2. /\ queue \in Seq(Message) /\ Len(queue) \in Nat /\ submitted[m][r] \in Nat
    BY <1>2, OrderTypes
  <2>3. size \in Nat  BY <1>2
  <2>4. took = submitted[m][r] - Len(queue)  BY DEF Taken
  <2>5. Len(queue) <= submitted[m][r] /\ \A k \in 1..Len(queue) :
           queue[k] = MessageOf(m, r, took + k)
    BY <2>1 DEF QueueWaits
  <2>6. \A p \in Members(m, r) : \A k \in 1..took : Holds(sentLog[m][p], MessageOf(m, r, k))
    BY <2>1 DEF QueueWent
  <2> HIDE DEF took, size, queue
  <2>7. took \in Nat  BY <2>2, <2>4, <2>5
  <2> QED  BY <2>2, <2>3, <2>4, <2>5, <2>6, <2>7
<1>5. size \in 0..Len(queue) /\ \A k \in 1..size : rel[k] = queue[k]
  <2>1. CASE rel = <<>>  BY <1>4, <2>1
  <2>2. CASE rel = SubSeq(queue, 1, Least(RelRoom, Len(queue)))
    <3>1. Least(RelRoom, Len(queue)) \in 0..Len(queue)
      BY <1>4, SizeAssumption DEF Least
    <3>2. \A k \in 1..Len(queue) : queue[k] \in Message  BY <1>4, ElementOfSeq
    <3> HIDE DEF queue
    <3> QED  BY <1>4, <2>2, <3>1, <3>2, SubSeqProperties
  <2> QED  BY <1>2, <2>1, <2>2
<1>6. \A n \in Node, q \in Queue :
         prio'[n][q] = IF n = m /\ q = r THEN SubSeq(queue, size + 1, Len(queue))
                                         ELSE prio[n][q]
  BY <1>2 DEF TypeOK, QueueTypes
<1>7. /\ Len(prio'[m][r]) = Len(queue) - size
      /\ \A k \in 1..(Len(queue) - size) : prio'[m][r][k] = queue[size + k]
  <2>1. prio'[m][r] = SubSeq(queue, size + 1, Len(queue))  BY <1>2, <1>6
  <2> HIDE DEF queue, size
  <2> QED  BY <1>4, <1>5, <2>1, DropElements
<1> HIDE DEF queue, size, took
<1>8. \A k \in 1..size : rel[k] = MessageOf(m, r, took + k)
  BY <1>4, <1>5
<1>9. ASSUME NEW n \in Node, NEW p \in Node, NEW msg, Holds(sentLog[n][p], msg)
      PROVE  Holds(sentLog'[n][p], msg)
  <2>1. sentLog[n][p] \in Logs  BY DEF TypeOK, SentTypes, Logs
  <2>2. Holds(Append(sentLog[n][p], rel), msg)  BY <1>2, <1>9, <2>1, HoldsMore
  <2>3. sentLog'[n][p] \in {Append(sentLog[n][p], rel), sentLog[n][p]}  BY <1>2
  <2> QED  BY <1>9, <2>2, <2>3
<1>10. ASSUME NEW n \in Node, NEW p \in Node PROVE InOrder(sentLog'[n][p])
  <2>1. InOrder(sentLog[n][p])  BY DEF QueuesInv, QueuesOf
  <2>2. CASE n = m /\ p \in tracked
    <3>1. p \in Members(m, r) /\ sentLog'[n][p] = Append(sentLog[n][p], rel)
      BY <1>2, <2>2
    <3>2. sentLog[n][p] \in Logs  BY DEF TypeOK, SentTypes, Logs
    <3>3. \A k \in 1..Len(rel) : rel[k] = [from |-> n, queue |-> r, num |-> took + k]
      BY <1>8, <2>2 DEF MessageOf, size
    <3>4. \A k \in 1..took : Holds(sentLog[n][p], [from |-> n, queue |-> r, num |-> k])
      BY <1>4, <2>2, <3>1 DEF MessageOf
    <3>5. InOrder(Append(sentLog[n][p], rel))
      BY <1>2, <1>4, <2>1, <3>2, <3>3, <3>4, AppendInOrder
    <3> QED  BY <3>1, <3>5
  <2>3. CASE ~(n = m /\ p \in tracked)  BY <1>2, <2>1, <2>3
  <2> QED  BY <2>2, <2>3
<1>11. ASSUME NEW n \in Node, NEW q \in Queue
       PROVE  QueueWaits(n, q)' /\ QueueWent(n, q)'
  <2>1. QueueWaits(n, q) /\ QueueWent(n, q)  BY DEF QueuesInv, QueuesOf
  <2>2. Members(n, q)' = Members(n, q) /\ Members(n, q) \subseteq Node
    BY <1>3 DEF Members, TypeOK, PeerTypes
  <2>3. CASE n = m /\ q = r
    <3>1. Taken(m, r)' = took + size
      BY <1>3, <1>4, <1>5, <1>7 DEF Taken
    <3>2. ASSUME NEW k \in 1..Len(prio'[m][r])
          PROVE  prio'[m][r][k] = MessageOf(m, r, (took + size) + k)
      <4>1. size + k \in 1..Len(queue) /\ k \in 1..(Len(queue) - size)
            /\ took + (size + k) = (took + size) + k
        BY <1>4, <1>5, <1>7
      <4> QED  BY <1>4, <1>7, <4>1
    <3>3. Len(prio'[m][r]) <= submitted'[m][r]  BY <1>3, <1>4, <1>5, <1>7
    <3>4. QueueWaits(n, q)'  BY <2>3, <3>1, <3>2, <3>3 DEF QueueWaits, MessageOf
    <3>5. ASSUME NEW p \in Members(m, r), NEW k \in 1..(took + size)
          PROVE  Holds(sentLog'[m][p], MessageOf(m, r, k))
      <4>1. p \in Node  BY <2>2, <2>3
      <4>2. CASE k \in 1..took  BY <1>4, <1>9, <4>1, <4>2
      <4>3. CASE k \notin 1..took
        <5>0. took \in Nat /\ size \in Nat  BY <1>4
        <5>1. k - took \in 1..size /\ took + (k - took) = k  BY <4>3, <5>0
        <5>2. rel[k - took] = MessageOf(m, r, k)  BY <1>8, <5>1
        <5>3. rel # <<>>  BY <5>1 DEF size
        <5>4. sentLog'[m][p] = Append(sentLog[m][p], rel)  BY <1>2, <4>1, <5>3
        <5>5. sentLog[m][p] \in Logs  BY <4>1 DEF TypeOK, SentTypes, Logs
        <5>6. Holds(Append(sentLog[m][p], rel), MessageOf(m, r, k))
          BY <1>2, <5>1, <5>2, <5>5, HoldsMore DEF size
        <5> QED  BY <5>4, <5>6
      <4> QED  BY <4>2, <4>3
    <3>6. QueueWent(n, q)'  BY <2>2, <2>3, <3>1, <3>5 DEF QueueWent, MessageOf
    <3> QED  BY <3>4, <3>6
  <2>4. CASE ~(n = m /\ q = r)
    <3>1. prio'[n][q] = prio[n][q]  BY <1>6, <2>4
    <3>2. Taken(n, q)' = Taken(n, q)  BY <1>3, <3>1 DEF Taken
    <3>3. QueueWaits(n, q)'  BY <1>3, <2>1, <3>1, <3>2 DEF QueueWaits, MessageOf
    <3>4. QueueWent(n, q)'
      BY <1>9, <2>1, <2>2, <3>2 DEF QueueWent, MessageOf
    <3> QED  BY <3>3, <3>4
  <2> QED  BY <2>3, <2>4
<1> QED  BY <1>10, <1>11 DEF QueuesInv, QueuesOf

-----------------------------------------------------------------------------
(* The theorem *)

LEMMA NextQueues == IInv /\ QueuesInv /\ [Next]_vars => QueuesInv'
<1> SUFFICES ASSUME TypeOK, RingInv, QueuesInv, [Next]_vars PROVE QueuesInv'
  BY DEF IInv
<1>1. ASSUME NEW n \in Node, NEW q \in Queue, SendMessagePriority(n, q)
      PROVE  QueuesInv'
  BY <1>1, SendMessagePriorityQueues
<1>2. ASSUME NEW n \in Node, NEW p \in Node, SendMessage(n, p) PROVE QueuesInv'
  BY <1>2, QueuesKept DEF SendMessage, sentVars, peerVars
<1>3. ASSUME NEW n \in Node, NEW p \in Node, DisconnectPeer(n, p) PROVE QueuesInv'
  <2>1. /\ UNCHANGED <<prio, submitted, sentLog>>
        /\ peers' = [peers EXCEPT ![n] = @ \ {p}]
    BY <1>3 DEF DisconnectPeer, queueVars
  <2>2. \A m \in Node : peers'[m] \subseteq peers[m]
    BY <2>1 DEF TypeOK, PeerTypes
  <2> QED  BY <2>1, <2>2, QueuesKept
<1>4. ASSUME NEW n \in Node, NEW d \in net, RecvPacket(n, d) PROVE QueuesInv'
  BY <1>4, QueuesKept DEF RecvPacket, peerVars
<1>5. ASSUME NEW d \in net, Lose(d) PROVE QueuesInv'
  BY <1>5, QueuesKept DEF Lose, queueVars, sentVars, peerVars
<1>6. ASSUME NEW n \in Node, FinishReceive(n) PROVE QueuesInv'
  BY <1>6, QueuesKept DEF FinishReceive, queueVars, peerVars
<1>7. ASSUME NEW n \in Node, NEW p \in Node, CheckPeer(n, p) PROVE QueuesInv'
  BY <1>7, QueuesKept DEF CheckPeer, queueVars, peerVars
<1>8. ASSUME NEW n \in Node, NEW p \in Node, PopOldest(n, p) PROVE QueuesInv'
  BY <1>8, QueuesKept DEF PopOldest, queueVars, peerVars
<1>9. ASSUME NEW n \in Node, SendPacket(n) PROVE QueuesInv'
  BY <1>9, SendPacketQueues
<1>10. ASSUME NEW n \in Node, EndSend(n) PROVE QueuesInv'
  BY <1>10, QueuesKept DEF EndSend, queueVars, sentVars, peerVars
<1>11. CASE UNCHANGED vars
  BY <1>11, QueuesKept DEF vars, queueVars, sentVars, peerVars
<1> QED
  BY <1>1, <1>2, <1>3, <1>4, <1>5, <1>6, <1>7, <1>8, <1>9, <1>10, <1>11 DEF Next

\* Every queue gives its messages away in the order SendMessagePriority accepted
\* them, to every member that is still a peer, however often packets of other
\* queues, and resends, come between.
THEOREM QueuesInvariant == Spec => [](IInv /\ QueuesInv)
<1> QED  BY InitIInv, InitQueues, NextIInv, NextQueues, PTL DEF Spec

LEMMA DispatchedInOrder ==
    ASSUME TypeOK, ChannelInv, QueuesInv
    PROVE  QueueInOrder
<1>1. ASSUME NEW n \in Node, NEW p \in Node PROVE InOrder(delivered[p][n])
  <2>1. /\ sentLog[n][p] \in Logs /\ delivered[p][n] \in Logs
        /\ IsBeginning(delivered[p][n], sentLog[n][p])
    BY BeginningOfLog DEF LogsBegin
  <2>2. InOrder(sentLog[n][p])  BY DEF QueuesInv, QueuesOf
  <2> QED  BY <2>1, <2>2, BeginningInOrder
<1> QED  BY <1>1 DEF QueueInOrder, InOrder, Before

\* What UpdateReceivePvt hands to the game of one queue comes in the order the
\* sender's game handed it to SendMessagePriority, and nothing is left out: in a
\* lossy network, past resends and refused packets, with the messages of other
\* queues in between.
THEOREM QueuesInOrder == Spec /\ []NumbersLast => []QueueInOrder
<1>1. IInv /\ ChannelInv /\ QueuesInv => QueueInOrder
  BY DispatchedInOrder DEF IInv
<1> QED  BY <1>1, ChannelInvariant, QueuesInvariant, PTL
=============================================================================
