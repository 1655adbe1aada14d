-------------------------- MODULE GameStartProofs ---------------------------
(***************************************************************************)
(* Theorems about GameStart and AdhocCtl, for any consoles, names, scans   *)
(* and bounds: a console and the server agree on where their exchange is,  *)
(* whatever the others do and whenever the server drops somebody.          *)
(***************************************************************************)
EXTENDS GameStart, ListProofs

-----------------------------------------------------------------------------
(* The invariant.                                                          *)

Leave == [op |-> "disconnect"]
Close == [op |-> "close"]
ToConnect(g) == [op |-> "connect", name |-> g]
ToScan == [op |-> "scan"]

\* The packets that answer a request; the others of a stream are about the
\* members of a group, and the results of a scan.
Answer == {"bssid", "complete"}
AnswerTo(r) == IF r.op = "scan" THEN "complete" ELSE "bssid"
EventOf(r) == IF r.op = "scan" THEN "scan" ELSE "connect"
Silent(s) == \A i \in DOMAIN s : s[i].op \notin Answer
Answered(s, a) ==
  \E k \in DOMAIN s : s[k].op = a /\ \A i \in DOMAIN s \ {k} : s[i].op \notin Answer

\* What the server has of c, unless it dropped it: c is in group g and asks for
\* nothing, c is outside any group or about to be, or c asks for r then.
In(c, g) == up[c] => toServer[c] = <<>> /\ group[c] = g
Outside(c) == up[c] =>
  \/ toServer[c] = <<>> /\ group[c] = None
  \/ toServer[c] = <<Leave>> /\ group[c] # None
Sent(c, r) == up[c] =>
  \/ toServer[c] = <<r>> /\ group[c] = None
  \/ toServer[c] = <<Leave, r>> /\ group[c] # None

\* Nothing is under way to the game.
Calm(c) == request[c] = NoRequest /\ events[c] = <<>> /\ Silent(toConsole[c])

\* The game waits for the answer to r, which is in one place at most: it waits
\* to be sent, it is in the stream, it is answered, its event is queued.
Asked(c, r, g) ==
  /\ flags[c] = {}
  /\ \/ request[c] = r /\ events[c] = <<>> /\ Silent(toConsole[c]) /\ Outside(c)
     \/ Calm(c) /\ Sent(c, r)
     \/ /\ request[c] = NoRequest /\ events[c] = <<>> /\ In(c, g)
        /\ Answered(toConsole[c], AnswerTo(r))
     \/ /\ request[c] = NoRequest /\ events[c] = <<EventOf(r)>> /\ In(c, g)
        /\ Silent(toConsole[c])

\* The event e has been seen, and c is in group g.
Done(c, e, g) ==
  /\ flags[c] = {e} /\ Calm(c) /\ ~busy[c] /\ In(c, g)
  /\ ctl[c] = IF e = "connect" THEN "connected" ELSE "disconnected"

\* The game has left its group, or has seen the event that says so.
Left(c) ==
  /\ request[c] = NoRequest /\ Silent(toConsole[c]) /\ Outside(c)
  /\ \/ flags[c] = {} /\ events[c] = <<"disconnect">>
     \/ flags[c] = {"disconnect"} /\ events[c] = <<>> /\ ~busy[c] /\ ctl[c] = "disconnected"

\* The connection is given up.
Gone(c) ==
  /\ Calm(c) /\ ~linked[c]
  /\ up[c] => \/ toServer[c] = <<Close>>
              \/ toServer[c] = <<Leave, Close>> /\ group[c] # None

Phase(c) ==
  /\ adhoc[c] = "lobby" => Done(c, "connect", Lobby)
  /\ adhoc[c] = "ingame" => Done(c, "connect", Game)
  /\ adhoc[c] = "lobbyconnect" =>
       Done(c, "connect", Lobby) \/ Asked(c, ToConnect(Lobby), Lobby)
  /\ adhoc[c] = "join" => Done(c, "connect", Game) \/ Asked(c, ToConnect(Game), Game)
  /\ adhoc[c] = "scan" => Done(c, "scan", None) \/ Asked(c, ToScan, None)
  /\ adhoc[c] \in {"creategame", "leaving"} => Left(c)
  /\ adhoc[c] = "shutdown" => Gone(c)

\* A console the server has dropped is in no group and sends nothing.
Dropped == \A c \in Console : ~up[c] => group[c] = None /\ toServer[c] = <<>>

\* Who waits for the game to start is in the lobby, and scans are counted.
Waiting ==
  /\ \A c \in inRoom : adhoc[c] = "lobby"
  /\ roster # {} => adhoc[Host] = "lobby"
Counted == \A c \in Console : adhoc[c] = "scan" => scans[c] < MaxScans

Phases == \A c \in Console : Phase(c)
IInv == TypeOK /\ Dropped /\ Waiting /\ Counted /\ Phases /\ KnowsGroup

-----------------------------------------------------------------------------
(* Streams.                                                                *)

USE DEF Leave, Close, ToConnect, ToScan

\* A packet has an op, which says what else it has.
LEMMA PacketIs ==
  ASSUME NEW p \in Packet
  PROVE  /\ p.op \in {"connect", "disconnect", "scan", "bssid", "complete"}
         /\ p.op \in {"connect", "disconnect"} => p.who \in Console /\ p = About(p.op, p.who)
         /\ p.op = "scan" => p.name \in Name
BY DEF Packet, About

\* A packet that answers nothing leaves a stream silent or answered.
LEMMA AppendIs ==
  ASSUME NEW s \in Seq(Packet), NEW p \in Packet, p.op \notin Answer, NEW a
  PROVE  /\ Append(s, p) \in Seq(Packet)
         /\ Silent(s) => Silent(Append(s, p))
         /\ Answered(s, a) => Answered(Append(s, p), a)
<1> DEFINE t == Append(s, p)
<1>1. /\ t \in Seq(Packet) /\ Len(t) = Len(s) + 1 /\ Len(s) \in Nat
      /\ \A i \in 1..Len(s) : t[i] = s[i]
      /\ t[Len(s) + 1] = p /\ DOMAIN s = 1..Len(s) /\ DOMAIN t = 1..(Len(s) + 1)
  OBVIOUS
<1>2. Silent(s) => Silent(t)
  BY <1>1 DEF Silent
<1>3. ASSUME Answered(s, a)
      PROVE  Answered(t, a)
  <2>1. PICK k \in DOMAIN s : s[k].op = a /\ \A i \in DOMAIN s \ {k} : s[i].op \notin Answer
    BY <1>3 DEF Answered
  <2>2. k \in DOMAIN t /\ t[k].op = a /\ \A i \in DOMAIN t \ {k} : t[i].op \notin Answer
    BY <2>1, <1>1
  <2> QED BY <2>2 DEF Answered
<1> QED BY <1>1, <1>2, <1>3

\* What reading the first packet of a stream leaves.
LEMMA TailIs ==
  ASSUME NEW s \in Seq(Packet), s # <<>>, NEW a
  PROVE  /\ Tail(s) \in Seq(Packet) /\ Head(s) \in Packet
         /\ Silent(s) => Silent(Tail(s)) /\ Head(s).op \notin Answer
         /\ Answered(s, a) =>
              \/ Head(s).op = a /\ Silent(Tail(s))
              \/ Head(s).op \notin Answer /\ Answered(Tail(s), a)
<1> DEFINE t == Tail(s)
<1>1. /\ t \in Seq(Packet) /\ Len(s) \in Nat \ {0} /\ Len(t) = Len(s) - 1
      /\ \A i \in 1..(Len(s) - 1) : t[i] = s[i + 1]
      /\ Head(s) = s[1] /\ Head(s) \in Packet
      /\ DOMAIN s = 1..Len(s) /\ DOMAIN t = 1..(Len(s) - 1)
  OBVIOUS
<1>2. Silent(s) => Silent(t) /\ Head(s).op \notin Answer
  BY <1>1 DEF Silent
<1>3. ASSUME Answered(s, a)
      PROVE  \/ Head(s).op = a /\ Silent(t)
             \/ Head(s).op \notin Answer /\ Answered(t, a)
  <2>1. PICK k \in DOMAIN s : s[k].op = a /\ \A i \in DOMAIN s \ {k} : s[i].op \notin Answer
    BY <1>3 DEF Answered
  <2>2. CASE k = 1
    BY <2>1, <2>2, <1>1 DEF Silent
  <2>3. CASE k # 1
    <3>1. k - 1 \in DOMAIN t /\ 1 \in DOMAIN s /\ k \in Nat
      BY <2>1, <2>3, <1>1
    <3>2. t[k - 1].op = a /\ Head(s).op \notin Answer
      BY <3>1, <2>1, <2>3, <1>1
    <3>3. ASSUME NEW i \in DOMAIN t \ {k - 1}
          PROVE  t[i].op \notin Answer
      <4>1. i + 1 \in DOMAIN s \ {k} /\ t[i] = s[i + 1]
        BY <3>1, <3>3, <1>1
      <4> QED BY <4>1, <2>1
    <3> QED BY <3>1, <3>2, <3>3 DEF Answered
  <2> QED BY <2>2, <2>3
<1> QED BY <1>1, <1>2, <1>3

\* A reply: packets that answer nothing, and the answer.
LEMMA ReplyIs ==
  ASSUME NEW s \in Seq(Packet), NEW t \in Seq(Packet), NEW p \in Packet,
         Silent(s), Silent(t)
  PROVE  s \o t \o <<p>> \in Seq(Packet) /\ Answered(s \o t \o <<p>>, p.op)
<1> DEFINE u == s \o t
           k == Len(s) + Len(t) + 1
<1>1. /\ Len(s) \in Nat /\ Len(t) \in Nat /\ DOMAIN s = 1..Len(s) /\ DOMAIN t = 1..Len(t)
      /\ u \in Seq(Packet) /\ Len(u) = Len(s) + Len(t)
      /\ \A i \in 1..Len(u) : u[i] = IF i <= Len(s) THEN s[i] ELSE t[i - Len(s)]
  BY ConcatProperties
<1>2. Silent(u)
  <2>1. ASSUME NEW i \in 1..Len(u)
        PROVE  u[i].op \notin Answer
    <3>1. CASE i <= Len(s)
      BY <3>1, <1>1 DEF Silent
    <3>2. CASE ~(i <= Len(s))
      <4>1. i - Len(s) \in DOMAIN t
        BY <3>2, <1>1
      <4> QED BY <4>1, <3>2, <1>1 DEF Silent
    <3> QED BY <3>1, <3>2
  <2> QED BY <2>1, <1>1 DEF Silent
<1> HIDE DEF u
<1>3. u \o <<p>> = Append(u, p)
  BY <1>1
<1> DEFINE v == Append(u, p)
<1>4. /\ v \in Seq(Packet) /\ DOMAIN v = 1..(Len(u) + 1) /\ DOMAIN u = 1..Len(u)
      /\ v[Len(u) + 1] = p /\ \A i \in 1..Len(u) : v[i] = u[i]
  BY <1>1
<1>5. Answered(v, p.op)
  <2>1. Len(u) + 1 \in DOMAIN v /\ Len(u) \in Nat
    BY <1>1, <1>4
  <2>2. \A i \in DOMAIN v \ {Len(u) + 1} : v[i].op \notin Answer
    BY <1>2, <1>4, <2>1 DEF Silent
  <2> QED BY <2>1, <2>2, <1>4 DEF Answered
<1> QED BY <1>3, <1>4, <1>5 DEF u

\* The members of a group, one after the other.
LEMMA MembersInTurn ==
  ASSUME NEW S \in SUBSET Console
  PROVE  /\ SetToSeq(S) \in Seq(S) /\ DOMAIN SetToSeq(S) = 1..Len(SetToSeq(S))
         /\ \A m \in S : \E i \in DOMAIN SetToSeq(S) : SetToSeq(S)[i] = m
<1> DEFINE n == Cardinality(S)
           q == SetToSeq(S)
<1>1. IsFiniteSet(S)
  BY ConsoleAssumption, FS_Subset
<1>2. n \in Nat /\ ExistsBijection(1..n, S)
  BY <1>1, FS_CardinalityType
<1>3. PICK f : f \in Bijection(1..n, S)
  BY <1>2 DEF ExistsBijection
<1>4. f \in [1..n -> S] /\ IsInjective(f)
  BY <1>3 DEF Bijection, Injection, IsInjective
<1>5. q \in [1..n -> S] /\ IsInjective(q)
  BY <1>4 DEF SetToSeq
<1>6. q \in Surjection(1..n, S)
  <2>1. q \in Injection(1..n, S)
    BY <1>5 DEF Injection, IsInjective
  <2>2. Cardinality(1..n) = n
    BY <1>2, FS_Interval
  <2> QED BY <2>1, <2>2, <1>1, FS_Injection
<1>7. \A m \in S : \E i \in 1..n : q[i] = m
  BY <1>6 DEF Surjection
<1>8. q \in Seq(S) /\ Len(q) = n /\ DOMAIN q = 1..n
  BY <1>5, <1>2
<1> QED BY <1>7, <1>8

-----------------------------------------------------------------------------
(* What a console has heard.                                               *)

NotGone(s, m, i) == \A k \in DOMAIN s : k > i => s[k] # About("disconnect", m)
HeardIn(F, s) ==
  {m \in F : NotGone(s, m, 0)}
  \cup {m \in Console : \E i \in DOMAIN s : s[i] = About("connect", m) /\ NotGone(s, m, i)}

LEMMA HeardIs ==
  \A c : /\ Heard(c) = HeardIn(friends[c], toConsole[c])
         /\ Heard(c)' = HeardIn(friends'[c], toConsole'[c])
BY DEF Heard, HeardIn, NotGone

\* One more packet takes away who it says is gone, and adds who it says came.
LEMMA HeardMore ==
  ASSUME NEW F, NEW s \in Seq(Packet), NEW p \in Packet
  PROVE  /\ \A m \in HeardIn(F, s) : p # About("disconnect", m) => m \in HeardIn(F, Append(s, p))
         /\ \A m \in Console : p = About("connect", m) => m \in HeardIn(F, Append(s, p))
<1> DEFINE t == Append(s, p)
<1>1. /\ DOMAIN t = 1..(Len(s) + 1) /\ DOMAIN s = 1..Len(s) /\ Len(s) \in Nat
      /\ \A i \in 1..Len(s) : t[i] = s[i]
      /\ t[Len(s) + 1] = p
  OBVIOUS
<1> HIDE DEF t
<1>2. ASSUME NEW m, p # About("disconnect", m), NEW i \in Nat, NotGone(s, m, i)
      PROVE  NotGone(t, m, i)
  BY <1>1, <1>2 DEF NotGone
<1>3. ASSUME NEW m \in HeardIn(F, s), p # About("disconnect", m)
      PROVE  m \in HeardIn(F, t)
  <2>1. CASE m \in F /\ NotGone(s, m, 0)
    BY <2>1, <1>2, <1>3 DEF HeardIn
  <2>2. CASE m \in Console /\ \E i \in DOMAIN s : s[i] = About("connect", m) /\ NotGone(s, m, i)
    <3>1. PICK i \in DOMAIN s : s[i] = About("connect", m) /\ NotGone(s, m, i)
      BY <2>2
    <3>2. i \in DOMAIN t /\ i \in Nat /\ t[i] = About("connect", m)
      BY <3>1, <1>1
    <3>3. NotGone(t, m, i)
      BY <3>1, <3>2, <1>2, <1>3
    <3> QED BY <2>2, <3>2, <3>3 DEF HeardIn
  <2> QED BY <1>3, <2>1, <2>2 DEF HeardIn
<1>4. ASSUME NEW m \in Console, p = About("connect", m)
      PROVE  m \in HeardIn(F, t)
  <2>1. Len(s) + 1 \in DOMAIN t /\ NotGone(t, m, Len(s) + 1)
    BY <1>1 DEF NotGone
  <2> QED BY <2>1, <1>1, <1>4 DEF HeardIn
<1> QED BY <1>3, <1>4 DEF t

\* Reading the first packet changes nothing of what has been heard, when what
\* it says is done to the friends.
LEMMA HeardRead ==
  ASSUME NEW F, NEW G, NEW s \in Seq(Packet), s # <<>>,
         \/ Head(s).op = "connect" /\ G = F \cup {Head(s).who}
         \/ Head(s).op = "disconnect" /\ G = F \ {Head(s).who}
         \/ Head(s).op \notin {"connect", "disconnect"} /\ G = F
  PROVE  HeardIn(F, s) \subseteq HeardIn(G, Tail(s))
<1> DEFINE t == Tail(s)
           p == Head(s)
<1>1. /\ DOMAIN t = 1..(Len(s) - 1) /\ DOMAIN s = 1..Len(s) /\ Len(s) \in Nat \ {0}
      /\ \A i \in 1..(Len(s) - 1) : t[i] = s[i + 1]
      /\ s[1] = p /\ p \in Packet
  OBVIOUS
<1>2. \A m : About("connect", m).op = "connect" /\ About("connect", m).who = m
             /\ About("disconnect", m).op = "disconnect" /\ About("disconnect", m).who = m
  BY DEF About
<1> HIDE DEF t, p
<1>3. ASSUME NEW m, NEW i \in Nat, i # 0, NotGone(s, m, i)
      PROVE  NotGone(t, m, i - 1)
  <2>1. ASSUME NEW k \in DOMAIN t, k > i - 1
        PROVE  t[k] # About("disconnect", m)
    <3>1. k + 1 \in DOMAIN s /\ k + 1 > i /\ t[k] = s[k + 1]
      BY <2>1, <1>1
    <3> QED BY <3>1, <1>3 DEF NotGone
  <2> QED BY <2>1 DEF NotGone
<1>4. ASSUME NEW m, NotGone(s, m, 0)
      PROVE  NotGone(t, m, 0) /\ p # About("disconnect", m)
  <2>1. ASSUME NEW k \in DOMAIN t
        PROVE  t[k] # About("disconnect", m)
    <3>1. k + 1 \in DOMAIN s /\ k + 1 > 0 /\ t[k] = s[k + 1]
      BY <2>1, <1>1
    <3> QED BY <3>1, <1>4 DEF NotGone
  <2>2. 1 \in DOMAIN s /\ s[1] # About("disconnect", m)
    BY <1>1, <1>4 DEF NotGone
  <2> QED BY <2>1, <2>2, <1>1 DEF NotGone
<1>5. ASSUME NEW m \in HeardIn(F, s)
      PROVE  m \in HeardIn(G, t)
  <2>1. CASE m \in F /\ NotGone(s, m, 0)
    <3>1. NotGone(t, m, 0) /\ p # About("disconnect", m)
      BY <2>1, <1>4
    <3>2. m \in G
      BY <3>1, <2>1, <1>1, PacketIs DEF p
    <3> QED BY <3>1, <3>2 DEF HeardIn
  <2>2. ASSUME m \in Console, NEW i \in DOMAIN s, s[i] = About("connect", m), NotGone(s, m, i)
        PROVE  m \in HeardIn(G, t)
    <3>1. i \in Nat /\ i # 0 /\ NotGone(t, m, i - 1)
      BY <2>2, <1>1, <1>3
    <3>2. CASE i = 1
      <4>1. m \in G
        BY <3>2, <2>2, <1>1, <1>2 DEF p
      <4> QED BY <4>1, <3>1, <3>2 DEF HeardIn
    <3>3. CASE i # 1
      <4>1. i - 1 \in DOMAIN t /\ t[i - 1] = About("connect", m)
        BY <3>1, <3>3, <2>2, <1>1
      <4> QED BY <4>1, <3>1, <2>2 DEF HeardIn
    <3> QED BY <3>2, <3>3
  <2> QED BY <2>1, <2>2, <1>5 DEF HeardIn
<1> QED BY <1>5 DEF t

\* A newcomer hears of the members.
LEMMA HeardJoining ==
  ASSUME NEW F, NEW s \in Seq(Packet), NEW q \in Seq(Console), NEW p \in Packet,
         p.op = "bssid"
  PROVE  \A j \in DOMAIN q :
           q[j] \in HeardIn(F, s \o [i \in DOMAIN q |-> About("connect", q[i])] \o <<p>>)
<1> DEFINE r == [i \in DOMAIN q |-> About("connect", q[i])]
           u == s \o r
           t == u \o <<p>>
<1>1. /\ Len(s) \in Nat /\ Len(q) \in Nat /\ DOMAIN q = 1..Len(q)
      /\ \A i \in 1..Len(q) : q[i] \in Console
  OBVIOUS
<1>2. /\ r \in Seq(Packet) /\ Len(r) = Len(q) /\ \A i \in 1..Len(q) : r[i] = About("connect", q[i])
  <2>1. \A i \in 1..Len(q) : About("connect", q[i]) \in Packet
    BY <1>1 DEF About, Packet
  <2> QED BY <1>1, <2>1
<1> HIDE DEF r
<1>3. /\ u \in Seq(Packet) /\ Len(u) = Len(s) + Len(q)
      /\ \A i \in 1..(Len(s) + Len(q)) : u[i] = IF i <= Len(s) THEN s[i] ELSE r[i - Len(s)]
  <2>1. /\ s \o r \in Seq(Packet) /\ Len(s \o r) = Len(s) + Len(r)
        /\ \A i \in 1..(Len(s) + Len(r)) : (s \o r)[i] = IF i <= Len(s) THEN s[i] ELSE r[i - Len(s)]
    BY <1>2, ConcatProperties
  <2> QED BY <2>1, <1>2
<1> HIDE DEF u
<1>4. /\ DOMAIN t = 1..(Len(u) + 1) /\ \A i \in 1..Len(u) : t[i] = u[i]
      /\ t[Len(u) + 1] = p
  <2>1. t = Append(u, p)
    BY <1>3
  <2> QED BY <2>1, <1>3
<1> HIDE DEF t
<1>5. ASSUME NEW j \in DOMAIN q
      PROVE  q[j] \in HeardIn(F, t)
  <2>1. /\ Len(s) + j \in DOMAIN t /\ t[Len(s) + j] = About("connect", q[j]) /\ q[j] \in Console
        /\ Len(s) + j \in Nat
    <3>1. Len(s) + j \in 1..(Len(s) + Len(q)) /\ ~(Len(s) + j <= Len(s)) /\ (Len(s) + j) - Len(s) = j
      BY <1>1
    <3>2. u[Len(s) + j] = r[j]
      BY <3>1, <1>3
    <3> QED BY <3>1, <3>2, <1>1, <1>2, <1>3, <1>4
  <2>2. ASSUME NEW k \in DOMAIN t, k > Len(s) + j
        PROVE  t[k] # About("disconnect", q[j])
    <3>1. CASE k = Len(u) + 1
      BY <3>1, <1>4 DEF About
    <3>2. CASE k # Len(u) + 1
      <4>1. k \in 1..(Len(s) + Len(q)) /\ ~(k <= Len(s)) /\ k - Len(s) \in 1..Len(q)
        <5>1. k \in 1..(Len(s) + Len(q) + 1) /\ k # Len(s) + Len(q) + 1 /\ j >= 1 /\ k \in Int
          BY <3>2, <2>2, <1>1, <1>3, <1>4
        <5> QED BY <5>1, <2>2, <1>1
      <4>2. t[k] = About("connect", q[k - Len(s)])
        BY <4>1, <1>2, <1>3, <1>4
      <4> QED BY <4>2 DEF About
    <3> QED BY <3>1, <3>2
  <2> QED BY <2>1, <2>2 DEF HeardIn, NotGone
<1> QED BY <1>5 DEF t, u, r

-----------------------------------------------------------------------------
(* Types.                                                                  *)

LEMMA AboutIs ==
  ASSUME NEW c \in Console
  PROVE  /\ About("connect", c) \in Packet /\ About("disconnect", c) \in Packet
         /\ About("connect", c).op = "connect" /\ About("disconnect", c).op = "disconnect"
         /\ About("connect", c).op \notin Answer /\ About("disconnect", c).op \notin Answer
BY DEF About, Packet, Answer

LEMMA GroupNames == Lobby \in Name /\ Game \in Name /\ Lobby # None /\ Game # None
BY GroupsAssumption, NoneAssumption

LEMMA OrderIs ==
  /\ Leave \in Order /\ Close \in Order /\ ToScan \in Request
  /\ ToConnect(Lobby) \in Request /\ ToConnect(Game) \in Request
  /\ \A r \in Request : r \in Order /\ r # NoRequest /\ r.op \in {"connect", "scan"}
  /\ \A r \in Order : r.op \in {"connect", "scan", "disconnect", "close"}
                      /\ (r.op = "connect" => r.name \in Name)
BY GroupNames DEF Order, Request, NoRequest

\* What the members of a group are sent.
LEMMA ToldIs ==
  ASSUME CtlTypeOK, NEW S, NEW p \in Packet
  PROVE  /\ Told(S, p) \in [Console -> Seq(Packet)]
         /\ \A d \in Console : Told(S, p)[d] = IF d \in S THEN Append(toConsole[d], p) ELSE toConsole[d]
BY DEF Told, CtlTypeOK

\* What a newcomer is sent of the members.
LEMMA ConnectsAre ==
  ASSUME NEW S \in SUBSET Console, NEW q, q = SetToSeq(S)
  PROVE  /\ [i \in DOMAIN q |-> About("connect", q[i])] \in Seq(Packet)
         /\ Silent([i \in DOMAIN q |-> About("connect", q[i])])
<1>1. q \in Seq(S) /\ DOMAIN q = 1..Len(q) /\ Len(q) \in Nat /\ \A i \in DOMAIN q : q[i] \in Console
  BY MembersInTurn
<1>2. \A i \in DOMAIN q : About("connect", q[i]) \in Packet /\ About("connect", q[i]).op \notin Answer
  BY <1>1, AboutIs
<1> QED BY <1>1, <1>2 DEF Silent

\* What a scan is answered.
LEMMA ScansAre ==
  ASSUME NEW s \in Seq(Name)
  PROVE  /\ [i \in DOMAIN s |-> [op |-> "scan", name |-> s[i]]] \in Seq(Packet)
         /\ Silent([i \in DOMAIN s |-> [op |-> "scan", name |-> s[i]]])
<1>1. DOMAIN s = 1..Len(s) /\ Len(s) \in Nat /\ \A i \in DOMAIN s : s[i] \in Name
  OBVIOUS
<1>2. \A g \in Name : [op |-> "scan", name |-> g] \in Packet /\ [op |-> "scan", name |-> g].op \notin Answer
  BY DEF Packet, Answer
<1> QED BY <1>1, <1>2 DEF Silent

LEMMA RepliesType ==
  ASSUME NEW s \in Seq(Packet), NEW t \in Seq(Packet), NEW p \in {[op |-> "bssid"], [op |-> "complete"]}
  PROVE  s \o t \o <<p>> \in Seq(Packet)
<1>1. p \in Packet
  BY DEF Packet
<1> QED BY <1>1

LEMMA LeaveGroupType ==
  ASSUME CtlTypeOK, NEW c \in Console, LeaveGroup(c)
  PROVE  /\ group' \in [Console -> Name \cup {None}] /\ order' \in Seq(Name)
         /\ toConsole' \in [Console -> Seq(Packet)]
<1>1. toConsole' \in [Console -> Seq(Packet)]
  BY AboutIs, ToldIs DEF LeaveGroup
<1>2. order' \in Seq(Name)
  BY RemoveFirstIs DEF LeaveGroup, CtlTypeOK
<1> QED BY <1>1, <1>2 DEF LeaveGroup, CtlTypeOK

LEMMA JoinGroupType ==
  ASSUME CtlTypeOK, NEW c \in Console, NEW g \in Name, JoinGroup(c, g)
  PROVE  /\ group' \in [Console -> Name \cup {None}] /\ order' \in Seq(Name)
         /\ toConsole' \in [Console -> Seq(Packet)]
<1> DEFINE q == SetToSeq(Members(g))
           t == [i \in DOMAIN q |-> About("connect", q[i])]
           T == Told(Members(g), About("connect", c))
<1>1. T \in [Console -> Seq(Packet)]
  BY AboutIs, ToldIs
<1>2. t \in Seq(Packet)
  BY ConnectsAre DEF Members
<1>3. toConsole' = [T EXCEPT ![c] = T[c] \o t \o <<[op |-> "bssid"]>>]
  BY <1>1 DEF JoinGroup
<1> HIDE DEF t, T
<1>4. toConsole' \in [Console -> Seq(Packet)]
  BY <1>1, <1>2, <1>3, RepliesType
<1>5. order' \in Seq(Name)
  BY DEF JoinGroup, CtlTypeOK
<1> QED BY <1>4, <1>5 DEF JoinGroup, CtlTypeOK

LEMMA ServeType ==
  ASSUME CtlTypeOK, NEW c \in Console, Serve(c)
  PROVE  CtlTypeOK'
<1>1. /\ toServer[c] \in Seq(Order) /\ toServer[c] # <<>>
      /\ Head(toServer[c]) \in Order /\ Tail(toServer[c]) \in Seq(Order)
  BY DEF Serve, CtlTypeOK
<1>2. ASSUME Read(c)
      PROVE  toServer' \in [Console -> Seq(Order)] /\ up' \in [Console -> BOOLEAN]
  BY <1>1, <1>2 DEF Read, CtlTypeOK
<1>3. ASSUME group' \in [Console -> Name \cup {None}], order' \in Seq(Name),
             toConsole' \in [Console -> Seq(Packet)],
             toServer' \in [Console -> Seq(Order)], up' \in [Console -> BOOLEAN]
      PROVE  CtlTypeOK'
  BY <1>3 DEF Serve, library, CtlTypeOK
<1>4. CASE Head(toServer[c]).op = "connect" /\ JoinGroup(c, Head(toServer[c]).name) /\ Read(c)
  BY <1>1, <1>2, <1>3, <1>4, JoinGroupType, OrderIs
<1>5. CASE ScanResults(c) /\ Read(c)
  <2> DEFINE t == [i \in DOMAIN order |-> [op |-> "scan", name |-> order[i]]]
  <2>1. t \in Seq(Packet)
    BY ScansAre DEF CtlTypeOK
  <2>2. toConsole' = [toConsole EXCEPT ![c] = @ \o t \o <<[op |-> "complete"]>>]
    BY <1>5 DEF ScanResults
  <2> HIDE DEF t
  <2>3. toConsole' \in [Console -> Seq(Packet)]
    BY <2>1, <2>2, RepliesType DEF CtlTypeOK
  <2>4. group' \in [Console -> Name \cup {None}] /\ order' \in Seq(Name)
    BY <1>5 DEF ScanResults, CtlTypeOK
  <2> QED BY <1>2, <1>3, <1>5, <2>3, <2>4
<1>6. CASE LeaveGroup(c) /\ Read(c)
  BY <1>2, <1>3, <1>6, LeaveGroupType
<1>7. CASE Logout(c)
  <2>1. toServer' \in [Console -> Seq(Order)] /\ up' \in [Console -> BOOLEAN]
    BY <1>7 DEF Logout, CtlTypeOK
  <2> QED BY <1>3, <1>7, <2>1, LeaveGroupType DEF Logout
<1> QED BY <1>4, <1>5, <1>6, <1>7, Zenon DEF Serve

LEMMA TimeOutType ==
  ASSUME CtlTypeOK, NEW c \in Console, TimeOut(c)
  PROVE  CtlTypeOK'
<1>1. toServer' \in [Console -> Seq(Order)] /\ up' \in [Console -> BOOLEAN]
  BY DEF TimeOut, Logout, CtlTypeOK
<1> QED BY <1>1, LeaveGroupType DEF TimeOut, Logout, library, CtlTypeOK

LEMMA ExceptType ==
  ASSUME NEW S, NEW f \in [Console -> S], NEW c \in Console, NEW v \in S
  PROVE  [f EXCEPT ![c] = v] \in [Console -> S]
OBVIOUS

LEMMA NotifyType ==
  ASSUME CtlTypeOK, NEW c \in Console, NEW e \in Event, Notify(c, e)
  PROVE  events' \in [Console -> Seq(Event)]
BY DEF Notify, CtlTypeOK

LEMMA FriendFinderType ==
  ASSUME CtlTypeOK, NEW c \in Console, FriendFinder(c)
  PROVE  CtlTypeOK'
<1>1. /\ toConsole[c] \in Seq(Packet) /\ toConsole[c] # <<>>
      /\ Head(toConsole[c]) \in Packet /\ Tail(toConsole[c]) \in Seq(Packet)
  BY DEF FriendFinder, CtlTypeOK
<1>2. toConsole' \in [Console -> Seq(Packet)]
  BY <1>1 DEF FriendFinder, CtlTypeOK
<1> DEFINE p == Head(toConsole[c])
<1> HIDE DEF p
<1>3. events' \in [Console -> Seq(Event)]
  <2>1. events' = events \/ Notify(c, "connect") \/ Notify(c, "scan")
    BY Zenon DEF FriendFinder
  <2> QED BY <2>1, NotifyType DEF CtlTypeOK, Event
<1>4. friends' \in [Console -> SUBSET Console]
  <2>1. \/ friends' = friends
        \/ p.op = "connect" /\ friends' = [friends EXCEPT ![c] = @ \cup {p.who}]
        \/ p.op = "disconnect" /\ friends' = [friends EXCEPT ![c] = @ \ {p.who}]
    BY Zenon DEF FriendFinder, p
  <2>2. p.op = "connect" => p.who \in Console
    BY <1>1, PacketIs DEF p
  <2>3. friends[c] \cup {p.who} \in SUBSET Console \/ p.op # "connect"
    BY <2>2 DEF CtlTypeOK
  <2>4. friends[c] \ {p.who} \in SUBSET Console
    BY DEF CtlTypeOK
  <2> QED BY <2>1, <2>3, <2>4, ExceptType DEF CtlTypeOK
<1>5. found' \in [Console -> Seq(Name)] /\ networks' \in [Console -> Seq(Name)]
  <2>1. \/ found' = found /\ networks' = networks
        \/ /\ p.op = "scan" /\ networks' = networks
           /\ found' = [found EXCEPT ![c] = <<p.name>> \o @]
        \/ /\ networks' = [networks EXCEPT ![c] = found[c]]
           /\ found' = [found EXCEPT ![c] = <<>>]
    BY Zenon DEF FriendFinder, p
  <2>2. p.op = "scan" => p.name \in Name
    BY <1>1, PacketIs DEF p
  <2>3. found[c] \in Seq(Name) /\ (p.op = "scan" => <<p.name>> \o found[c] \in Seq(Name))
    BY <2>2 DEF CtlTypeOK
  <2>4. found' \in [Console -> Seq(Name)]
    <3>1. \/ found' = found \/ found' = [found EXCEPT ![c] = <<>>]
          \/ p.op = "scan" /\ found' = [found EXCEPT ![c] = <<p.name>> \o @]
      BY <2>1, Zenon
    <3>2. found \in [Console -> Seq(Name)] /\ <<>> \in Seq(Name)
      BY DEF CtlTypeOK
    <3> QED BY <3>1, <3>2, <2>3
  <2>5. networks' \in [Console -> Seq(Name)]
    <3>1. networks' = networks \/ networks' = [networks EXCEPT ![c] = found[c]]
      BY <2>1, Zenon
    <3> QED BY <3>1, <2>3 DEF CtlTypeOK
  <2> QED BY <2>4, <2>5
<1> QED BY <1>2, <1>3, <1>4, <1>5 DEF FriendFinder, server, CtlTypeOK

LEMMA LoseServerType ==
  ASSUME CtlTypeOK, NEW c \in Console, LoseServer(c)
  PROVE  CtlTypeOK'
BY DEF LoseServer, server, CtlTypeOK

LEMMA LogInType ==
  ASSUME CtlTypeOK, NEW c \in Console, LogIn(c)
  PROVE  CtlTypeOK'
BY DEF LogIn, Fresh, CtlTypeOK

LEMMA SendType ==
  ASSUME CtlTypeOK, NEW c \in Console, NEW r \in Order, Send(c, r)
  PROVE  toServer' \in [Console -> Seq(Order)]
BY DEF Send, CtlTypeOK

LEMMA SendRequestType ==
  ASSUME CtlTypeOK, NEW c \in Console, SendRequest(c)
  PROVE  CtlTypeOK'
<1>1. request[c] \in Order
  BY OrderIs DEF SendRequest, CtlTypeOK
<1>2. toServer' \in [Console -> Seq(Order)]
  BY <1>1, SendType DEF SendRequest
<1> QED BY <1>2 DEF SendRequest, server, CtlTypeOK

LEMMA CallType ==
  ASSUME CtlTypeOK, NEW c \in Console, NEW r \in Request, Call(c, r)
  PROVE  CtlTypeOK'
<1>1. events' \in [Console -> Seq(Event)]
  <2>1. events' = events \/ Notify(c, "error")
    BY DEF Call
  <2> QED BY <2>1, NotifyType DEF Event, CtlTypeOK
<1>2. /\ busy' = busy \/ busy' = [busy EXCEPT ![c] = TRUE]
      /\ request' = request \/ request' = [request EXCEPT ![c] = r]
      /\ ctl' = ctl \/ ctl' = [ctl EXCEPT ![c] = "scanning"]
      /\ networks' = networks \/ networks' = [networks EXCEPT ![c] = <<>>]
  BY DEF Call
<1>3. /\ busy' \in [Console -> BOOLEAN] /\ request' \in [Console -> Request \cup {NoRequest}]
      /\ ctl' \in [Console -> {"disconnected", "scanning", "connected"}]
      /\ networks' \in [Console -> Seq(Name)]
  <2>1. busy' \in [Console -> BOOLEAN]
    BY <1>2 DEF CtlTypeOK
  <2>2. request' \in [Console -> Request \cup {NoRequest}]
    <3>1. request' = request \/ request' = [request EXCEPT ![c] = r]
      BY <1>2
    <3>2. request \in [Console -> Request \cup {NoRequest}] /\ r \in Request \cup {NoRequest}
      BY DEF CtlTypeOK
    <3> QED BY <3>1, <3>2, Zenon, ExceptType
  <2>3. ctl' \in [Console -> {"disconnected", "scanning", "connected"}]
    BY <1>2 DEF CtlTypeOK
  <2>4. networks' \in [Console -> Seq(Name)]
    <3>1. networks' = networks \/ networks' = [networks EXCEPT ![c] = <<>>]
      BY <1>2
    <3>2. networks \in [Console -> Seq(Name)] /\ <<>> \in Seq(Name)
      BY DEF CtlTypeOK
    <3> QED BY <3>1, <3>2
  <2> QED BY <2>1, <2>2, <2>3, <2>4
<1> QED BY <1>1, <1>3 DEF Call, server, streams, CtlTypeOK

LEMMA DisconnectType ==
  ASSUME CtlTypeOK, NEW c \in Console, Disconnect(c)
  PROVE  CtlTypeOK'
<1>1. events' \in [Console -> Seq(Event)]
  BY DEF Disconnect, Notify, Event, CtlTypeOK
<1>2. toServer' \in [Console -> Seq(Order)]
  BY SendType, OrderIs DEF Disconnect, CtlTypeOK
<1> QED BY <1>1, <1>2 DEF Disconnect, server, CtlTypeOK

LEMMA TermType ==
  ASSUME CtlTypeOK, NEW c \in Console, Term(c)
  PROVE  CtlTypeOK'
<1> DEFINE left == IF ctl[c] = "disconnected" \/ busy[c] THEN <<>> ELSE <<[op |-> "disconnect"]>>
<1>1. left \in Seq(Order) /\ toServer[c] \in Seq(Order) /\ <<[op |-> "close"]>> \in Seq(Order)
  BY OrderIs DEF CtlTypeOK
<1> HIDE DEF left
<1>2. toServer[c] \o left \o <<[op |-> "close"]>> \in Seq(Order)
  BY <1>1
<1>3. toServer' = [toServer EXCEPT ![c] =
          IF up[c] THEN toServer[c] \o left \o <<[op |-> "close"]>> ELSE toServer[c]]
  BY DEF Term, left, CtlTypeOK
<1>4. toServer' \in [Console -> Seq(Order)]
  BY <1>1, <1>2, <1>3 DEF CtlTypeOK
<1> QED BY <1>4 DEF Term, server, CtlTypeOK

LEMMA CallbackType ==
  ASSUME CtlTypeOK, NEW c \in Console, Callback(c)
  PROVE  CtlTypeOK' /\ Head(events[c]) \in Event
<1>1. events[c] \in Seq(Event) /\ events[c] # <<>>
  BY DEF Callback, CtlTypeOK
<1>2. Head(events[c]) \in Event /\ Tail(events[c]) \in Seq(Event)
  BY <1>1
<1>3. events' \in [Console -> Seq(Event)]
  BY <1>2 DEF Callback, CtlTypeOK
<1>4. ctl' \in [Console -> {"disconnected", "scanning", "connected"}]
  <2>1. (CASE Head(events[c]) = "connect" -> "connected"
           [] Head(events[c]) = "error" -> ctl[c]
           [] OTHER -> "disconnected") \in {"disconnected", "scanning", "connected"}
    BY DEF CtlTypeOK
  <2> QED BY <2>1 DEF Callback, CtlTypeOK
<1> QED BY <1>2, <1>3, <1>4 DEF Callback, server, streams, CtlTypeOK

LEMMA BecomesType ==
  ASSUME TypeOK, NEW c \in Console, NEW s \in AdhocState, Becomes(c, s)
  PROVE  adhoc' \in [Console -> AdhocState] /\ adhoc'[c] = s
         /\ \A d \in Console \ {c} : adhoc'[d] = adhoc[d]
BY DEF Becomes, TypeOK

LEMMA TerminateType ==
  ASSUME TypeOK, NEW c \in Console, Terminate(c)
  PROVE  CtlTypeOK' /\ Becomes(c, "shutdown") /\ "shutdown" \in AdhocState
BY TermType DEF Terminate, TypeOK, AdhocState

LEMMA CallsType ==
  ASSUME TypeOK, NEW c \in Console, NEW r \in Request, NEW s, NEW e, Calls(c, r, s, e)
  PROVE  CtlTypeOK' /\ (Becomes(c, s) \/ Becomes(c, e))
BY CallType, TermType DEF Calls, TypeOK

LEMMA ConnectType ==
  ASSUME TypeOK, NEW c \in Console, NEW g \in {Lobby, Game}, NEW s, NEW e, Connect(c, g, s, e)
  PROVE  CtlTypeOK' /\ (Becomes(c, s) \/ Becomes(c, e))
BY CallsType, OrderIs DEF Connect

LEMMA ScanType ==
  ASSUME TypeOK, NEW c \in Console, NEW e, Scan(c, e)
  PROVE  CtlTypeOK' /\ (Becomes(c, "scan") \/ Becomes(c, e))
BY CallsType, OrderIs DEF Scan

LEMMA DisconnectToType ==
  ASSUME TypeOK, NEW c \in Console, NEW s \in AdhocState, DisconnectTo(c, s)
  PROVE  /\ CtlTypeOK' /\ flags' \in [Console -> SUBSET Event] /\ UNCHANGED scans
         /\ Becomes(c, "shutdown") \/ Becomes(c, s)
<1>1. CtlTypeOK' /\ (Becomes(c, "shutdown") \/ Becomes(c, s))
  BY TerminateType, DisconnectType DEF DisconnectTo, TypeOK
<1> QED BY <1>1 DEF DisconnectTo, ResetEventsFlags, TypeOK

\* A state function keeps types, and the count of scans below its limit.
LEMMA NextStateType ==
  ASSUME TypeOK, Counted, NEW c \in Console, NextState(c)
  PROVE  TypeOK' /\ Counted'
<1>1. ASSUME CtlTypeOK', flags' \in [Console -> SUBSET Event], scans' \in [Console -> 0..MaxScans],
             NEW s \in AdhocState, Becomes(c, s), s = "scan" => scans'[c] < MaxScans,
             \A d \in Console \ {c} : scans'[d] = scans[d]
      PROVE  TypeOK' /\ Counted'
  <2>1. adhoc' \in [Console -> AdhocState] /\ adhoc'[c] = s
        /\ \A d \in Console \ {c} : adhoc'[d] = adhoc[d]
    BY <1>1, BecomesType
  <2>2. Counted'
    BY <1>1, <2>1 DEF Counted
  <2>3. UNCHANGED hvars
    BY DEF NextState
  <2> QED BY <1>1, <2>1, <2>2, <2>3 DEF TypeOK, hvars
<1>2. MaxScans \in Nat \ {0} /\ scans[c] \in 0..MaxScans
  BY GroupsAssumption DEF TypeOK
<1>3. UNCHANGED flags \/ ResetEventsFlags(c) => flags' \in [Console -> SUBSET Event]
  BY DEF ResetEventsFlags, TypeOK
<1>4. UNCHANGED cvars => CtlTypeOK'
  BY DEF cvars, server, streams, library, TypeOK, CtlTypeOK
<1>5. {"lobby", "lobbyconnect", "scan", "join", "ingame", "shutdown"} \subseteq AdhocState
  BY DEF AdhocState
<1>6. UNCHANGED scans => scans' \in [Console -> 0..MaxScans] /\ \A d \in Console \ {c} : scans'[d] = scans[d]
  BY DEF TypeOK
<1>7. CASE StateConnectLobbyGroup(c)
  <2>1. CASE Terminate(c)
    BY <1>1, <1>3, <1>5, <1>6, <1>7, <2>1, TerminateType DEF StateConnectLobbyGroup
  <2>2. CASE Becomes(c, "lobby") /\ UNCHANGED cvars
    BY <1>1, <1>3, <1>4, <1>5, <1>6, <1>7, <2>2 DEF StateConnectLobbyGroup
  <2> QED BY <1>7, <2>1, <2>2 DEF StateConnectLobbyGroup
<1>8. CASE StateCreateGameGroup(c)
  <2>1. CASE Connect(c, Game, "join", "join") /\ UNCHANGED scans /\ ResetEventsFlags(c)
    BY <1>1, <1>3, <1>5, <1>6, <2>1, ConnectType
  <2>2. CASE Scan(c, "scan") /\ scans' = [scans EXCEPT ![c] = 0] /\ ResetEventsFlags(c)
    <3>1. CtlTypeOK' /\ Becomes(c, "scan") /\ flags' \in [Console -> SUBSET Event]
      BY <1>3, <2>2, ScanType
    <3>2. /\ scans' \in [Console -> 0..MaxScans] /\ scans'[c] = 0
          /\ \A d \in Console \ {c} : scans'[d] = scans[d]
      BY <1>2, <2>2 DEF TypeOK
    <3> QED BY <1>1, <1>2, <1>5, <3>1, <3>2
  <2>3. CASE Terminate(c) /\ UNCHANGED <<flags, scans>>
    BY <1>1, <1>3, <1>5, <1>6, <2>3, TerminateType
  <2> QED BY <1>8, <2>1, <2>2, <2>3, Zenon DEF StateCreateGameGroup
<1>9. CASE StateAttemptGameScan(c)
  <2>1. CASE Terminate(c) /\ UNCHANGED <<flags, scans>>
    BY <1>1, <1>3, <1>5, <1>6, <2>1, TerminateType
  <2>2. CASE Connect(c, Game, "join", "shutdown") /\ UNCHANGED scans /\ ResetEventsFlags(c)
    BY <1>1, <1>3, <1>5, <1>6, <2>2, ConnectType
  <2>3. CASE /\ scans' = [scans EXCEPT ![c] = @ + 1] /\ ResetEventsFlags(c)
             /\ IF scans[c] + 1 < MaxScans THEN Scan(c, "shutdown") ELSE Terminate(c)
    <3>1. scans[c] < MaxScans
      BY <1>9 DEF StateAttemptGameScan, Counted
    <3>2. /\ scans' \in [Console -> 0..MaxScans] /\ scans'[c] = scans[c] + 1
          /\ \A d \in Console \ {c} : scans'[d] = scans[d]
      BY <1>2, <2>3, <3>1 DEF TypeOK
    <3>3. CASE scans[c] + 1 < MaxScans
      BY <1>1, <1>3, <1>5, <2>3, <3>2, <3>3, ScanType
    <3>4. CASE ~(scans[c] + 1 < MaxScans)
      BY <1>1, <1>3, <1>5, <2>3, <3>2, <3>4, TerminateType
    <3> QED BY <3>3, <3>4
  <2> QED BY <1>9, <2>1, <2>2, <2>3, Zenon DEF StateAttemptGameScan
<1>10. CASE StateHandleError(c)
  <2>1. CASE Terminate(c)
    BY <1>1, <1>3, <1>5, <1>6, <1>10, <2>1, TerminateType DEF StateHandleError
  <2>2. CASE Becomes(c, "ingame") /\ UNCHANGED cvars
    BY <1>1, <1>3, <1>4, <1>5, <1>6, <1>10, <2>2 DEF StateHandleError
  <2> QED BY <1>10, <2>1, <2>2 DEF StateHandleError
<1>11. CASE StateLobbyConnect(c)
  <2>1. CASE Connect(c, Lobby, "lobbyconnect", "shutdown") /\ ResetEventsFlags(c)
    BY <1>1, <1>3, <1>5, <1>6, <1>11, <2>1, ConnectType DEF StateLobbyConnect
  <2>2. CASE Terminate(c) /\ UNCHANGED flags
    BY <1>1, <1>3, <1>5, <1>6, <1>11, <2>2, TerminateType DEF StateLobbyConnect
  <2> QED BY <1>11, <2>1, <2>2 DEF StateLobbyConnect
<1> QED BY <1>7, <1>8, <1>9, <1>10, <1>11 DEF NextState

LEMMA PagesType ==
  ASSUME TypeOK, Counted, Pages
  PROVE  TypeOK' /\ Counted'
<1> USE DEF bounds, avars
<1>1. UNCHANGED cvars => CtlTypeOK'
  BY DEF cvars, server, streams, library, TypeOK, CtlTypeOK
<1>2. ASSUME NEW c \in Console, NEW s \in {"creategame", "leaving"}, DisconnectTo(c, s)
      PROVE  /\ CtlTypeOK' /\ flags' \in [Console -> SUBSET Event] /\ scans' = scans
             /\ adhoc' \in [Console -> AdhocState] /\ Counted'
  <2>1. /\ CtlTypeOK' /\ flags' \in [Console -> SUBSET Event] /\ scans' = scans
        /\ Becomes(c, "shutdown") \/ Becomes(c, s)
    BY <1>2, DisconnectToType DEF AdhocState
  <2>2. /\ adhoc' \in [Console -> AdhocState] /\ adhoc'[c] \in {"shutdown", s}
        /\ \A d \in Console \ {c} : adhoc'[d] = adhoc[d]
    BY <2>1, BecomesType DEF AdhocState
  <2> QED BY <2>1, <2>2 DEF Counted
<1>3. Host \in Console
  BY GroupsAssumption
<1>4. CASE PressStart
  BY <1>1, <1>4 DEF PressStart, TypeOK, Counted
<1>5. CASE SendStart
  BY <1>1, <1>5 DEF SendStart, TypeOK, Counted
<1>6. CASE GiveUp
  BY <1>1, <1>6 DEF GiveUp, ClosePage, TypeOK, Counted
<1>7. CASE Back
  <2>1. CtlTypeOK' /\ Becomes(Host, "shutdown") /\ "shutdown" \in AdhocState
    BY <1>3, <1>7, TerminateType DEF Back
  <2>2. adhoc' \in [Console -> AdhocState] /\ adhoc'[Host] = "shutdown"
        /\ \A d \in Console \ {Host} : adhoc'[d] = adhoc[d]
    BY <1>3, <2>1, BecomesType
  <2> QED BY <1>7, <2>1, <2>2 DEF Back, ClosePage, TypeOK, Counted
<1>8. CASE AllTold
  BY <1>2, <1>3, <1>8 DEF AllTold, OnStartGame, ClosePage, TypeOK
<1>9. ASSUME NEW c \in Console, EnterRoom(c)
      PROVE  TypeOK' /\ Counted'
  BY <1>1, <1>9 DEF EnterRoom, TypeOK, Counted
<1>10. ASSUME NEW c \in Console, LeaveRoom(c)
       PROVE  TypeOK' /\ Counted'
  BY <1>1, <1>10 DEF LeaveRoom, TypeOK, Counted
<1>11. ASSUME NEW c \in Console, OpenTo(c)
       PROVE  TypeOK' /\ Counted'
  BY <1>1, <1>11 DEF OpenTo, TypeOK, Counted
<1>12. ASSUME NEW c \in Console, ReceiveStart(c)
       PROVE  TypeOK' /\ Counted'
  BY <1>2, <1>12 DEF ReceiveStart, OnStartGame, TypeOK
<1>13. ASSUME NEW c \in Console, LeaveGame(c)
       PROVE  TypeOK' /\ Counted'
  BY <1>2, <1>13 DEF LeaveGame, hvars, TypeOK
<1>14. ASSUME NEW c \in Console, StateInitialise(c)
       PROVE  TypeOK' /\ Counted'
  <2>1. request' \in [Console -> Request \cup {NoRequest}]
    <3>1. [op |-> "connect", name |-> Lobby] \in Request \cup {NoRequest}
      BY OrderIs
    <3>2. request \in [Console -> Request \cup {NoRequest}]
      BY DEF TypeOK, CtlTypeOK
    <3> QED BY <1>14, <3>1, <3>2, ExceptType, Zenon DEF StateInitialise
  <2>2. CtlTypeOK'
    BY <1>14, <2>1 DEF StateInitialise, Fresh, TypeOK, CtlTypeOK
  <2>3. adhoc' \in [Console -> AdhocState] /\ adhoc'[c] = "lobbyconnect"
        /\ \A d \in Console \ {c} : adhoc'[d] = adhoc[d]
    BY <1>14, BecomesType DEF StateInitialise, AdhocState
  <2>4. flags' \in [Console -> SUBSET Event]
    BY <1>14 DEF StateInitialise, ResetEventsFlags, TypeOK
  <2> QED BY <1>14, <2>2, <2>3, <2>4 DEF StateInitialise, hvars, TypeOK, Counted
<1> QED BY <1>4, <1>5, <1>6, <1>7, <1>8, <1>9, <1>10, <1>11, <1>12, <1>13, <1>14, Zenon DEF Pages

LEMMA TypeStep ==
  ASSUME TypeOK, Counted, [Next]_vars
  PROVE  TypeOK' /\ Counted'
<1>1. CASE UNCHANGED vars
  BY <1>1 DEF vars, cvars, server, streams, library, avars, hvars, bounds, TypeOK, CtlTypeOK, Counted
<1>2. ASSUME NEW c \in Console, Library(c)
      PROVE  TypeOK' /\ Counted'
  <2>1. CtlTypeOK'
    BY <1>2, ServeType, FriendFinderType, LoseServerType, LogInType, SendRequestType DEF Library, TypeOK
  <2> QED BY <1>2, <2>1 DEF Library, avars, hvars, bounds, TypeOK, Counted
<1>3. ASSUME NEW c \in Console, ScanHandler(c)
      PROVE  TypeOK' /\ Counted'
  <2>1. CtlTypeOK' /\ Head(events[c]) \in Event
    BY <1>3, CallbackType DEF ScanHandler, TypeOK
  <2>2. flags' \in [Console -> SUBSET Event]
    BY <1>3, <2>1 DEF ScanHandler, TypeOK
  <2> QED BY <1>3, <2>1, <2>2 DEF ScanHandler, hvars, bounds, TypeOK, Counted
<1>4. ASSUME NEW c \in Console, Drop(c)
      PROVE  TypeOK' /\ Counted'
  BY <1>4, TimeOutType DEF Drop, avars, hvars, TypeOK, Counted
<1> QED BY <1>1, <1>2, <1>3, <1>4, NextStateType, PagesType DEF Next

LEMMA TypeInit == Init => TypeOK /\ Counted
<1> SUFFICES ASSUME Init PROVE TypeOK /\ Counted
  OBVIOUS
<1>1. CtlTypeOK
  <2>1. <<Lobby>> \in Seq(Name) /\ <<>> \in Seq(Name) /\ <<>> \in Seq(Order) /\ <<>> \in Seq(Packet)
        /\ <<>> \in Seq(Event)
    BY GroupNames
  <2> QED BY <2>1, GroupNames DEF Init, CtlInit, CtlTypeOK
<1>2. adhoc \in [Console -> AdhocState] /\ flags \in [Console -> SUBSET Event]
      /\ scans \in [Console -> 0..MaxScans]
  BY GroupsAssumption DEF Init, AdhocState, Event
<1> QED BY <1>1, <1>2 DEF Init, TypeOK, Counted

\* Streams, events, states and the tables of the room hold what the code gives
\* them room for, and scans are counted up to their limit.
THEOREM TypeCorrect == Spec => []TypeOK
<1>1. Init => TypeOK /\ Counted
  BY TypeInit
<1>2. TypeOK /\ Counted /\ [Next]_vars => (TypeOK /\ Counted)'
  BY TypeStep
<1> QED BY <1>1, <1>2, PTL DEF Spec

-----------------------------------------------------------------------------
(* What a step says of the consoles that do not take it.                   *)

Same(d) ==
  /\ adhoc'[d] = adhoc[d] /\ flags'[d] = flags[d] /\ ctl'[d] = ctl[d] /\ busy'[d] = busy[d]
  /\ request'[d] = request[d] /\ events'[d] = events[d] /\ linked'[d] = linked[d]
  /\ group'[d] = group[d] /\ up'[d] = up[d] /\ toServer'[d] = toServer[d]

\* A console whose stream at most gets a packet about another is where it was.
LEMMA Undisturbed ==
  ASSUME TypeOK, NEW d \in Console, Phase(d), Same(d),
         \/ toConsole'[d] = toConsole[d]
         \/ \E p \in Packet : p.op \notin Answer /\ toConsole'[d] = Append(toConsole[d], p)
  PROVE  Phase(d)'
<1>1. /\ Silent(toConsole[d]) => Silent(toConsole'[d])
      /\ \A a : Answered(toConsole[d], a) => Answered(toConsole'[d], a)
  <2>1. toConsole[d] \in Seq(Packet)
    BY DEF TypeOK, CtlTypeOK
  <2> QED BY <2>1, AppendIs
<1>2. /\ In(d, Lobby) = In(d, Lobby)' /\ In(d, Game) = In(d, Game)' /\ In(d, None) = In(d, None)'
      /\ Outside(d) = Outside(d)' /\ \A r : Sent(d, r) = Sent(d, r)'
  BY DEF Same, In, Outside, Sent
<1>3. Calm(d) => Calm(d)'
  BY <1>1 DEF Same, Calm
<1>4. ASSUME NEW e, NEW g \in {Lobby, Game, None}, Done(d, e, g)
      PROVE  Done(d, e, g)'
  BY <1>2, <1>3, <1>4 DEF Same, Done
<1>5. ASSUME NEW r, NEW g \in {Lobby, Game, None}, Asked(d, r, g)
      PROVE  Asked(d, r, g)'
  BY <1>1, <1>2, <1>3, <1>5 DEF Same, Asked
<1>6. Left(d) => Left(d)'
  BY <1>1, <1>2 DEF Same, Left
<1>7. Gone(d) => Gone(d)'
  BY <1>3 DEF Same, Gone
<1> QED BY <1>4, <1>5, <1>6, <1>7 DEF Same, Phase

\* A step in which no call is made keeps the state of the game.
LEMMA SamePhase ==
  ASSUME NEW c \in Console, Phase(c), adhoc'[c] = adhoc[c],
         \A e, g : Done(c, e, g) => Done(c, e, g)',
         \A r \in Request, g \in {Lobby, Game, None} :
           Asked(c, r, g) => Asked(c, r, g)' \/ Done(c, EventOf(r), g)',
         Left(c) => Left(c)', Gone(c) => Gone(c)'
  PROVE  Phase(c)'
<1>1. /\ ToConnect(Lobby) \in Request /\ ToConnect(Game) \in Request /\ ToScan \in Request
      /\ EventOf(ToConnect(Lobby)) = "connect" /\ EventOf(ToConnect(Game)) = "connect"
      /\ EventOf(ToScan) = "scan"
  BY OrderIs DEF EventOf
<1>2. adhoc[c] = "lobbyconnect" => Done(c, "connect", Lobby)' \/ Asked(c, ToConnect(Lobby), Lobby)'
  BY <1>1 DEF Phase
<1>3. adhoc[c] = "join" => Done(c, "connect", Game)' \/ Asked(c, ToConnect(Game), Game)'
  BY <1>1 DEF Phase
<1>4. adhoc[c] = "scan" => Done(c, "scan", None)' \/ Asked(c, ToScan, None)'
  BY <1>1 DEF Phase
<1> QED BY <1>2, <1>3, <1>4 DEF Phase

Knows(c) == up[c] /\ linked[c] /\ toServer[c] = <<>> => Others(c) \subseteq Heard(c)
DroppedIs(c) == ~up[c] => group[c] = None /\ toServer[c] = <<>>
CtlInv == Phases /\ Dropped /\ KnowsGroup

LEMMA CtlInvIs == CtlInv <=> \A c \in Console : Phase(c) /\ DroppedIs(c) /\ Knows(c)
BY DEF CtlInv, Phases, Dropped, DroppedIs, KnowsGroup, Knows

LEMMA CtlInvNext == CtlInv' <=> \A c \in Console : Phase(c)' /\ DroppedIs(c)' /\ Knows(c)'
BY DEF CtlInv, Phases, Dropped, DroppedIs, KnowsGroup, Knows

\* A step that is c's alone.
Alone(c) ==
  /\ group' = group
  /\ \A d \in Console \ {c} :
       Same(d) /\ toConsole'[d] = toConsole[d] /\ friends'[d] = friends[d]

LEMMA AloneStep ==
  ASSUME TypeOK, CtlInv, NEW c \in Console, Alone(c), Phase(c)', DroppedIs(c)', Knows(c)'
  PROVE  CtlInv'
<1>1. ASSUME NEW d \in Console \ {c}
      PROVE  Phase(d)' /\ DroppedIs(d)' /\ Knows(d)'
  <2>1. Same(d) /\ toConsole'[d] = toConsole[d] /\ friends'[d] = friends[d]
    BY DEF Alone
  <2>2. Phase(d)'
    BY <2>1, CtlInvIs, Undisturbed
  <2>3. DroppedIs(d)'
    BY <2>1, CtlInvIs DEF Same, DroppedIs
  <2>4. Heard(d)' = Heard(d) /\ Others(d)' = Others(d)
    BY <2>1 DEF Heard, Alone, Others, Members
  <2>5. Knows(d)'
    BY <2>1, <2>4, CtlInvIs DEF Knows, Same
  <2> QED BY <2>2, <2>3, <2>5
<1> QED BY <1>1, CtlInvNext

\* What c knows when its streams and its group are as they were.
LEMMA SameKnows ==
  ASSUME NEW c \in Console, Knows(c), group' = group, up'[c] = up[c], linked'[c] = linked[c],
         toServer'[c] = toServer[c], toConsole'[c] = toConsole[c], friends'[c] = friends[c]
  PROVE  Knows(c)'
BY DEF Knows, Heard, Others, Members

LEMMA NobodyKnown ==
  ASSUME NEW c \in Console, group'[c] = None \/ ~up'[c] \/ ~linked'[c] \/ toServer'[c] # <<>>
  PROVE  Knows(c)'
BY DEF Knows, Others

-----------------------------------------------------------------------------
(* The server.                                                             *)

LEMMA LeaveGroupIs ==
  ASSUME TypeOK, NEW c \in Console, LeaveGroup(c)
  PROVE  /\ group'[c] = None /\ toConsole'[c] = toConsole[c]
         /\ \A d \in Console \ {c} :
              /\ group'[d] = group[d]
              /\ toConsole'[d] = IF group[c] # None /\ group[d] = group[c]
                                 THEN Append(toConsole[d], About("disconnect", c))
                                 ELSE toConsole[d]
<1>1. c \notin Others(c)
  BY DEF Others
<1>2. \A d \in Console \ {c} : d \in Others(c) <=> group[c] # None /\ group[d] = group[c]
  BY DEF Others, Members
<1> QED BY <1>1, <1>2, AboutIs, ToldIs DEF LeaveGroup, TypeOK, CtlTypeOK

LEMMA JoinGroupIs ==
  ASSUME TypeOK, NEW c \in Console, NEW g \in Name, group[c] = None, JoinGroup(c, g)
  PROVE  /\ group'[c] = g
         /\ Silent(toConsole[c]) => Answered(toConsole'[c], "bssid")
         /\ Members(g) \subseteq HeardIn(friends[c], toConsole'[c])
         /\ \A d \in Console \ {c} :
              /\ group'[d] = group[d]
              /\ toConsole'[d] = IF group[d] = g THEN Append(toConsole[d], About("connect", c))
                                 ELSE toConsole[d]
<1> DEFINE q == SetToSeq(Members(g))
           t == [i \in DOMAIN q |-> About("connect", q[i])]
           p == [op |-> "bssid"]
           T == Told(Members(g), About("connect", c))
<1>1. c \notin Members(g)
  BY NoneAssumption DEF Members
<1>2. /\ T \in [Console -> Seq(Packet)]
      /\ \A d \in Console : T[d] = IF d \in Members(g) THEN Append(toConsole[d], About("connect", c))
                                   ELSE toConsole[d]
  BY AboutIs, ToldIs DEF TypeOK
<1>3. toConsole' = [T EXCEPT ![c] = T[c] \o t \o <<p>>]
  BY <1>2 DEF JoinGroup
<1>4. t \in Seq(Packet) /\ Silent(t)
  BY ConnectsAre DEF Members
<1>5. p \in Packet /\ p.op = "bssid"
  BY DEF Packet
<1>6. q \in Seq(Console) /\ \A m \in Members(g) : \E i \in DOMAIN q : q[i] = m
  <2>1. Members(g) \in SUBSET Console
    BY DEF Members
  <2>2. q \in Seq(Members(g)) /\ \A m \in Members(g) : \E i \in DOMAIN q : q[i] = m
    BY <2>1, MembersInTurn
  <2> QED BY <2>1, <2>2
<1>7. \A j \in DOMAIN q : q[j] \in HeardIn(friends[c], toConsole[c] \o t \o <<p>>)
  <2>1. toConsole[c] \in Seq(Packet)
    BY DEF TypeOK, CtlTypeOK
  <2> HIDE DEF q, p
  <2> QED BY <1>5, <1>6, <2>1, HeardJoining, Zenon
<1> HIDE DEF T, t, p, q
<1>8. toConsole'[c] = toConsole[c] \o t \o <<p>>
  BY <1>1, <1>2, <1>3
<1>9. Silent(toConsole[c]) => Answered(toConsole'[c], "bssid")
  BY <1>4, <1>5, <1>8, ReplyIs DEF TypeOK, CtlTypeOK
<1>10. Members(g) \subseteq HeardIn(friends[c], toConsole'[c])
  BY <1>6, <1>7, <1>8
<1>11. ASSUME NEW d \in Console \ {c}
       PROVE  /\ group'[d] = group[d]
              /\ toConsole'[d] = IF group[d] = g THEN Append(toConsole[d], About("connect", c))
                                 ELSE toConsole[d]
  BY <1>2, <1>3 DEF JoinGroup, Members, TypeOK, CtlTypeOK
<1> QED BY <1>9, <1>10, <1>11 DEF JoinGroup, TypeOK, CtlTypeOK

LEMMA ScanResultsIs ==
  ASSUME TypeOK, NEW c \in Console, ScanResults(c)
  PROVE  /\ group' = group
         /\ Silent(toConsole[c]) => Answered(toConsole'[c], "complete")
         /\ \A d \in Console \ {c} : toConsole'[d] = toConsole[d]
<1> DEFINE t == [i \in DOMAIN order |-> [op |-> "scan", name |-> order[i]]]
           p == [op |-> "complete"]
<1>1. t \in Seq(Packet) /\ Silent(t)
  BY ScansAre DEF TypeOK, CtlTypeOK
<1>2. p \in Packet /\ p.op = "complete"
  BY DEF Packet
<1>3. toConsole' = [toConsole EXCEPT ![c] = toConsole[c] \o t \o <<p>>] /\ group' = group
  BY DEF ScanResults
<1> HIDE DEF t, p
<1> QED BY <1>1, <1>2, <1>3, ReplyIs DEF TypeOK, CtlTypeOK

\* What the server does with what a console may have sent.
LEMMA ServeIs ==
  ASSUME TypeOK, NEW c \in Console, Serve(c)
  PROVE  /\ up[c] /\ toServer[c] # <<>> /\ UNCHANGED library
         /\ toServer[c] = <<Leave>> /\ group[c] # None =>
              LeaveGroup(c) /\ up' = up /\ toServer' = [toServer EXCEPT ![c] = <<>>]
         /\ \A r : toServer[c] = <<Leave, r>> /\ group[c] # None =>
              LeaveGroup(c) /\ up' = up /\ toServer' = [toServer EXCEPT ![c] = <<r>>]
         /\ \A g \in Name : toServer[c] = <<ToConnect(g)>> /\ group[c] = None =>
              JoinGroup(c, g) /\ up' = up /\ toServer' = [toServer EXCEPT ![c] = <<>>]
         /\ toServer[c] = <<ToScan>> /\ group[c] = None =>
              ScanResults(c) /\ up' = up /\ toServer' = [toServer EXCEPT ![c] = <<>>]
         /\ toServer[c] = <<Close>> => Logout(c)
<1> DEFINE r == Head(toServer[c])
<1>1. /\ up[c] /\ toServer[c] # <<>> /\ UNCHANGED library
      /\ \/ r.op = "connect" /\ Legal(c) /\ JoinGroup(c, r.name) /\ Read(c)
         \/ r.op = "scan" /\ Legal(c) /\ ScanResults(c) /\ Read(c)
         \/ r.op = "disconnect" /\ Legal(c) /\ LeaveGroup(c) /\ Read(c)
         \/ (r.op = "close" \/ ~Legal(c)) /\ Logout(c)
  BY Zenon DEF Serve
<1>2. Legal(c) <=> (r.op = "close" \/ (r.op = "disconnect" <=> group[c] # None))
  BY DEF Legal
<1>3. ASSUME toServer[c] = <<Leave>>, group[c] # None
      PROVE  LeaveGroup(c) /\ up' = up /\ toServer' = [toServer EXCEPT ![c] = <<>>]
  <2>1. r.op = "disconnect" /\ Tail(toServer[c]) = <<>>
    BY <1>3
  <2> QED BY <1>1, <1>2, <1>3, <2>1 DEF Read
<1>4. ASSUME NEW x, toServer[c] = <<Leave, x>>, group[c] # None
      PROVE  LeaveGroup(c) /\ up' = up /\ toServer' = [toServer EXCEPT ![c] = <<x>>]
  <2>1. r.op = "disconnect" /\ Tail(toServer[c]) = <<x>>
    BY <1>4
  <2> QED BY <1>1, <1>2, <1>4, <2>1 DEF Read
<1>5. ASSUME NEW g \in Name, toServer[c] = <<ToConnect(g)>>, group[c] = None
      PROVE  JoinGroup(c, g) /\ up' = up /\ toServer' = [toServer EXCEPT ![c] = <<>>]
  <2>1. r.op = "connect" /\ r.name = g /\ Tail(toServer[c]) = <<>>
    BY <1>5
  <2> QED BY <1>1, <1>2, <1>5, <2>1 DEF Read
<1>6. ASSUME toServer[c] = <<ToScan>>, group[c] = None
      PROVE  ScanResults(c) /\ up' = up /\ toServer' = [toServer EXCEPT ![c] = <<>>]
  <2>1. r.op = "scan" /\ Tail(toServer[c]) = <<>>
    BY <1>6
  <2> QED BY <1>1, <1>2, <1>6, <2>1 DEF Read
<1>7. ASSUME toServer[c] = <<Close>>
      PROVE  Logout(c)
  <2>1. r.op = "close"
    BY <1>7
  <2> QED BY <1>1, <2>1
<1> QED BY <1>1, <1>3, <1>4, <1>5, <1>6, <1>7

\* A console that leaves its group: the others hear of it.
LEMMA LeaveStep ==
  ASSUME TypeOK, CtlInv, NEW c \in Console, LeaveGroup(c), UNCHANGED <<library, adhoc, flags>>,
         \A d \in Console \ {c} : up'[d] = up[d] /\ toServer'[d] = toServer[d],
         Phase(c)', DroppedIs(c)'
  PROVE  CtlInv'
<1>1. /\ group'[c] = None /\ toConsole'[c] = toConsole[c]
      /\ \A d \in Console \ {c} :
           /\ group'[d] = group[d]
           /\ toConsole'[d] = IF group[c] # None /\ group[d] = group[c]
                              THEN Append(toConsole[d], About("disconnect", c))
                              ELSE toConsole[d]
  BY LeaveGroupIs
<1>2. Knows(c)'
  BY <1>1, NobodyKnown
<1>3. ASSUME NEW d \in Console \ {c}
      PROVE  Phase(d)' /\ DroppedIs(d)' /\ Knows(d)'
  <2>1. Same(d)
    BY <1>1, <1>3 DEF Same, library
  <2>2. /\ About("disconnect", c) \in Packet /\ About("disconnect", c).op \notin Answer
        /\ toConsole[d] \in Seq(Packet) /\ friends'[d] = friends[d]
    BY AboutIs DEF TypeOK, CtlTypeOK, library
  <2>3. Phase(d)'
    BY <1>1, <2>1, <2>2, CtlInvIs, Undisturbed
  <2>4. DroppedIs(d)'
    BY <2>1, CtlInvIs DEF Same, DroppedIs
  <2>5. \A m : m # c => About("disconnect", c) # About("disconnect", m)
    BY DEF About
  <2>6. \A m \in Heard(d) : m # c => m \in Heard(d)'
    <3>1. toConsole'[d] \in {toConsole[d], Append(toConsole[d], About("disconnect", c))}
      BY <1>1
    <3> QED BY <2>2, <2>5, <3>1, HeardIs, HeardMore
  <2>7. Others(d)' \subseteq Others(d) \ {c}
    BY <1>1 DEF Others, Members
  <2>8. Knows(d)'
    BY <2>1, <2>6, <2>7, CtlInvIs DEF Knows, Same
  <2> QED BY <2>3, <2>4, <2>8
<1> QED BY <1>2, <1>3, CtlInvNext

LEMMA JoinStep ==
  ASSUME TypeOK, CtlInv, NEW c \in Console, NEW g \in Name, group[c] = None, JoinGroup(c, g),
         up' = up, UNCHANGED <<library, adhoc, flags>>,
         \A d \in Console \ {c} : toServer'[d] = toServer[d],
         Phase(c)', DroppedIs(c)'
  PROVE  CtlInv'
<1>1. /\ group'[c] = g
      /\ Members(g) \subseteq HeardIn(friends[c], toConsole'[c])
      /\ \A d \in Console \ {c} :
           /\ group'[d] = group[d]
           /\ toConsole'[d] = IF group[d] = g THEN Append(toConsole[d], About("connect", c))
                              ELSE toConsole[d]
  BY JoinGroupIs
<1>2. Knows(c)'
  <2>1. Others(c)' \subseteq Members(g)
    BY <1>1, NoneAssumption DEF Others, Members
  <2>2. Members(g) \subseteq Heard(c)'
    BY <1>1, HeardIs DEF library
  <2> QED BY <2>1, <2>2 DEF Knows
<1>3. ASSUME NEW d \in Console \ {c}
      PROVE  Phase(d)' /\ DroppedIs(d)' /\ Knows(d)'
  <2>1. Same(d)
    BY <1>1, <1>3 DEF Same, library
  <2>2. /\ About("connect", c) \in Packet /\ About("connect", c).op \notin Answer
        /\ toConsole[d] \in Seq(Packet) /\ friends'[d] = friends[d]
    BY AboutIs DEF TypeOK, CtlTypeOK, library
  <2>3. Phase(d)'
    BY <1>1, <2>1, <2>2, CtlInvIs, Undisturbed
  <2>4. DroppedIs(d)'
    BY <2>1, CtlInvIs DEF Same, DroppedIs
  <2>5. \A m : About("connect", c) # About("disconnect", m)
    BY DEF About
  <2>6. Heard(d) \subseteq Heard(d)' /\ (group[d] = g => c \in Heard(d)')
    <3>1. IF group[d] = g THEN toConsole'[d] = Append(toConsole[d], About("connect", c))
                          ELSE toConsole'[d] = toConsole[d]
      BY <1>1
    <3> QED BY <2>2, <2>5, <3>1, HeardIs, HeardMore
  <2>7. Others(d)' \subseteq IF group[d] = g THEN Others(d) \cup {c} ELSE Others(d)
    BY <1>1 DEF Others, Members
  <2>8. Knows(d)'
    BY <2>1, <2>6, <2>7, CtlInvIs DEF Knows, Same
  <2> QED BY <2>3, <2>4, <2>8
<1> QED BY <1>2, <1>3, CtlInvNext

\* The server finishes what a console asked, or logs it out at its wish.
LEMMA ServeStep ==
  ASSUME TypeOK, CtlInv, NEW c \in Console, Serve(c), UNCHANGED <<adhoc, flags>>
  PROVE  CtlInv'
<1>1. /\ up[c] /\ toServer[c] # <<>> /\ UNCHANGED library
      /\ group \in [Console -> Name \cup {None}] /\ up \in [Console -> BOOLEAN]
      /\ toServer \in [Console -> Seq(Order)]
  BY ServeIs DEF TypeOK, CtlTypeOK
<1>2. /\ request'[c] = request[c] /\ events'[c] = events[c] /\ flags'[c] = flags[c]
      /\ linked'[c] = linked[c] /\ busy'[c] = busy[c] /\ ctl'[c] = ctl[c] /\ adhoc'[c] = adhoc[c]
  BY <1>1 DEF library
<1>3. Phase(c)
  BY CtlInvIs
<1>4. \A e, g : ~Done(c, e, g)
  BY <1>1 DEF Done, In
<1>5. CASE toServer[c] = <<Leave>> /\ group[c] # None
  <2>1. LeaveGroup(c) /\ up' = up /\ toServer' = [toServer EXCEPT ![c] = <<>>]
    BY <1>5, ServeIs
  <2>2. /\ group'[c] = None /\ toConsole'[c] = toConsole[c] /\ toServer'[c] = <<>> /\ up'[c]
        /\ \A d \in Console \ {c} : up'[d] = up[d] /\ toServer'[d] = toServer[d]
    BY <1>1, <2>1, LeaveGroupIs
  <2>3. ASSUME NEW r \in Request, NEW g \in {Lobby, Game, None}, Asked(c, r, g)
        PROVE  Asked(c, r, g)'
    <3>1. /\ flags[c] = {} /\ request[c] = r /\ events[c] = <<>> /\ Silent(toConsole[c])
      <4>1. toServer[c] # <<r>> /\ toServer[c] # <<Leave, r>>
        BY <1>5 DEF Request
      <4> QED BY <1>1, <1>5, <2>3, <4>1 DEF Asked, Sent, In
    <3>2. Outside(c)'
      BY <2>2 DEF Outside
    <3> QED BY <1>2, <2>2, <3>1, <3>2 DEF Asked
  <2>4. Left(c) => Left(c)'
    BY <1>2, <2>2 DEF Left, Outside
  <2>5. ~Gone(c)
    BY <1>1, <1>5 DEF Gone
  <2>6. Phase(c)'
    BY <1>2, <1>3, <1>4, <2>3, <2>4, <2>5, SamePhase
  <2>7. DroppedIs(c)'
    BY <2>2 DEF DroppedIs
  <2> QED BY <1>1, <2>1, <2>2, <2>6, <2>7, LeaveStep
<1>6. ASSUME NEW r, toServer[c] = <<Leave, r>>, group[c] # None
      PROVE  CtlInv'
  <2>1. LeaveGroup(c) /\ up' = up /\ toServer' = [toServer EXCEPT ![c] = <<r>>]
    BY <1>6, ServeIs
  <2>2. /\ group'[c] = None /\ toConsole'[c] = toConsole[c] /\ toServer'[c] = <<r>> /\ up'[c]
        /\ \A d \in Console \ {c} : up'[d] = up[d] /\ toServer'[d] = toServer[d]
    BY <1>1, <2>1, LeaveGroupIs
  <2>3. ASSUME NEW x \in Request, NEW g \in {Lobby, Game, None}, Asked(c, x, g)
        PROVE  Asked(c, x, g)'
    <3>1. /\ x = r /\ flags[c] = {} /\ Calm(c)
      BY <1>1, <1>6, <2>3 DEF Asked, Sent, In, Outside
    <3>2. Sent(c, x)' /\ Calm(c)'
      BY <1>2, <2>2, <3>1 DEF Sent, Calm
    <3> QED BY <1>2, <3>1, <3>2 DEF Asked
  <2>4. ~Left(c)
    BY <1>1, <1>6 DEF Left, Outside
  <2>5. Gone(c) => Gone(c)'
    BY <1>1, <1>2, <1>6, <2>2 DEF Gone, Calm
  <2>6. Phase(c)'
    BY <1>2, <1>3, <1>4, <2>3, <2>4, <2>5, SamePhase
  <2>7. DroppedIs(c)'
    BY <2>2 DEF DroppedIs
  <2> QED BY <1>1, <2>1, <2>2, <2>6, <2>7, LeaveStep
<1>7. ASSUME NEW g \in {Lobby, Game}, toServer[c] = <<ToConnect(g)>>, group[c] = None,
             Asked(c, ToConnect(g), g)
      PROVE  CtlInv'
  <2>1. JoinGroup(c, g) /\ up' = up /\ toServer' = [toServer EXCEPT ![c] = <<>>] /\ g \in Name
    BY <1>7, ServeIs, GroupNames
  <2>2. /\ group'[c] = g /\ toServer'[c] = <<>> /\ up'[c]
        /\ Silent(toConsole[c]) => Answered(toConsole'[c], "bssid")
        /\ \A d \in Console \ {c} : toServer'[d] = toServer[d]
    BY <1>1, <1>7, <2>1, JoinGroupIs
  <2>3. flags[c] = {} /\ Calm(c)
    BY <1>1, <1>7 DEF Asked, In, Outside
  <2>4. Asked(c, ToConnect(g), g)'
    <3>1. AnswerTo(ToConnect(g)) = "bssid" /\ In(c, g)'
      BY <2>2 DEF AnswerTo, In
    <3> QED BY <1>2, <2>2, <2>3, <3>1 DEF Asked, Calm
  <2>5. Phase(c)'
    <3>1. ~Left(c) /\ ~Gone(c)
      BY <1>1, <1>7 DEF Left, Outside, Gone
    <3>2. \A x \in Request, h \in {Lobby, Game, None} : Asked(c, x, h) => toServer[c] = <<x>>
      BY <1>1, <1>7 DEF Asked, Sent, In, Outside
    <3>3. ASSUME NEW x, NEW h, Asked(c, x, h), toServer[c] = <<x>>
          PROVE  x = ToConnect(g)
      BY <1>7, <3>3
    <3>4. adhoc[c] \in {"lobbyconnect", "join"} /\ (adhoc[c] = "lobbyconnect" <=> g = Lobby)
      <4>1. Lobby # Game /\ ToConnect(Lobby) # ToConnect(Game) /\ ToScan # ToConnect(g)
        BY GroupsAssumption
      <4>2. adhoc[c] \in AdhocState
        BY DEF TypeOK
      <4>3. adhoc[c] # "lobby" /\ adhoc[c] # "ingame" /\ adhoc[c] # "creategame"
            /\ adhoc[c] # "leaving" /\ adhoc[c] # "shutdown"
        BY <1>3, <1>4, <3>1 DEF Phase
      <4>4. adhoc[c] # "scan"
        BY <1>3, <1>4, <3>2, <3>3, <4>1, OrderIs DEF Phase
      <4>5. adhoc[c] = "lobbyconnect" => g = Lobby
        BY <1>3, <1>4, <3>2, <3>3, <4>1, OrderIs DEF Phase
      <4>6. adhoc[c] = "join" => g = Game
        BY <1>3, <1>4, <3>2, <3>3, <4>1, OrderIs DEF Phase
      <4> QED BY <4>1, <4>2, <4>3, <4>4, <4>5, <4>6 DEF AdhocState
    <3> QED BY <1>2, <2>4, <3>4 DEF Phase
  <2>6. DroppedIs(c)'
    BY <2>2 DEF DroppedIs
  <2> QED BY <1>1, <1>7, <2>1, <2>2, <2>5, <2>6, JoinStep
<1>8. CASE toServer[c] = <<ToScan>> /\ group[c] = None
  <2>1. ScanResults(c) /\ up' = up /\ toServer' = [toServer EXCEPT ![c] = <<>>]
    BY <1>8, ServeIs
  <2>2. /\ group' = group /\ toServer'[c] = <<>> /\ up'[c]
        /\ Silent(toConsole[c]) => Answered(toConsole'[c], "complete")
        /\ \A d \in Console \ {c} : toConsole'[d] = toConsole[d] /\ toServer'[d] = toServer[d]
    BY <1>1, <2>1, ScanResultsIs
  <2>3. ASSUME NEW x \in Request, NEW g \in {Lobby, Game, None}, Asked(c, x, g)
        PROVE  x = ToScan /\ flags[c] = {} /\ Calm(c)
    BY <1>1, <1>8, <2>3 DEF Asked, Sent, In, Outside
  <2>4. ~Left(c) /\ ~Gone(c)
    BY <1>1, <1>8 DEF Left, Outside, Gone
  <2>5. Phase(c)'
    <3>1. adhoc[c] = "scan" /\ Asked(c, ToScan, None)
      <4>1. ToConnect(Lobby) # ToScan /\ ToConnect(Game) # ToScan /\ adhoc[c] \in AdhocState
        BY DEF TypeOK
      <4>2. \A x \in {Lobby, Game}, g \in {Lobby, Game, None} : ~Asked(c, ToConnect(x), g)
        BY <2>3, <4>1, OrderIs
      <4> QED BY <1>3, <1>4, <2>4, <4>1, <4>2 DEF Phase, AdhocState
    <3>2. AnswerTo(ToScan) = "complete" /\ In(c, None)'
      BY <1>8, <2>2 DEF AnswerTo, In
    <3>3. Asked(c, ToScan, None)'
      BY <1>2, <2>2, <2>3, <3>1, <3>2, OrderIs DEF Asked, Calm
    <3> QED BY <1>2, <3>1, <3>3 DEF Phase
  <2>6. DroppedIs(c)' /\ Knows(c)'
    BY <1>8, <2>2, NobodyKnown DEF DroppedIs
  <2>7. Alone(c)
    BY <1>1, <2>1, <2>2 DEF Alone, Same, library
  <2> QED BY <2>5, <2>6, <2>7, AloneStep
<1>9. CASE toServer[c] = <<Close>>
  <2>1. Logout(c)
    BY <1>9, ServeIs
  <2>2. /\ LeaveGroup(c) /\ ~up'[c] /\ toServer'[c] = <<>>
        /\ group'[c] = None /\ toConsole'[c] = toConsole[c]
        /\ \A d \in Console \ {c} : up'[d] = up[d] /\ toServer'[d] = toServer[d]
    BY <1>1, <2>1, LeaveGroupIs DEF Logout
  <2>3. \A x \in Request, g \in {Lobby, Game, None} : ~Asked(c, x, g)
    BY <1>1, <1>9 DEF Asked, Sent, In, Outside, Request
  <2>4. ~Left(c) /\ (Gone(c) => Gone(c)')
    BY <1>1, <1>2, <1>9, <2>2 DEF Left, Outside, Gone, Calm
  <2>5. Phase(c)'
    BY <1>2, <1>3, <1>4, <2>3, <2>4, SamePhase
  <2>6. DroppedIs(c)'
    BY <2>2 DEF DroppedIs
  <2> QED BY <1>1, <2>2, <2>5, <2>6, LeaveStep
<1>10. ASSUME NEW x \in Request, NEW g, Asked(c, x, g)
       PROVE  \/ toServer[c] = <<Leave>> /\ group[c] # None
              \/ toServer[c] = <<x>> /\ group[c] = None
              \/ toServer[c] = <<Leave, x>> /\ group[c] # None
  BY <1>1, <1>10 DEF Asked, Sent, In, Outside
<1>11. \/ toServer[c] = <<Leave>> /\ group[c] # None
       \/ \E r : toServer[c] = <<Leave, r>> /\ group[c] # None
       \/ \E g \in {Lobby, Game} :
            toServer[c] = <<ToConnect(g)>> /\ group[c] = None /\ Asked(c, ToConnect(g), g)
       \/ toServer[c] = <<ToScan>> /\ group[c] = None
       \/ toServer[c] = <<Close>>
  <2>1. adhoc[c] \in AdhocState
    BY DEF TypeOK
  <2>2. CASE Left(c) \/ Gone(c)
    BY <1>1, <2>2 DEF Left, Outside, Gone
  <2>3. CASE Asked(c, ToConnect(Lobby), Lobby) \/ Asked(c, ToConnect(Game), Game) \/ Asked(c, ToScan, None)
    BY <1>10, <2>3, OrderIs
  <2> QED BY <1>3, <1>4, <2>1, <2>2, <2>3 DEF Phase, AdhocState
<1> QED BY <1>5, <1>6, <1>7, <1>8, <1>9, <1>11

\* The server drops a console that it has not heard.
LEMMA TimeOutStep ==
  ASSUME TypeOK, CtlInv, NEW c \in Console, TimeOut(c), UNCHANGED <<adhoc, flags>>
  PROVE  CtlInv'
<1>1. /\ LeaveGroup(c) /\ ~up'[c] /\ toServer'[c] = <<>> /\ UNCHANGED library
      /\ \A d \in Console \ {c} : up'[d] = up[d] /\ toServer'[d] = toServer[d]
  BY DEF TimeOut, Logout, TypeOK, CtlTypeOK
<1>2. group'[c] = None /\ toConsole'[c] = toConsole[c]
  BY <1>1, LeaveGroupIs
<1>3. /\ request'[c] = request[c] /\ events'[c] = events[c] /\ flags'[c] = flags[c]
      /\ linked'[c] = linked[c] /\ busy'[c] = busy[c] /\ ctl'[c] = ctl[c] /\ adhoc'[c] = adhoc[c]
  BY <1>1 DEF library
<1>4. Phase(c)'
  <2>1. Outside(c)' /\ (\A r : Sent(c, r)') /\ (\A g : In(c, g)')
    BY <1>1 DEF Outside, Sent, In
  <2>2. \A e, g : Done(c, e, g) => Done(c, e, g)'
    BY <1>2, <1>3, <2>1 DEF Done, Calm
  <2>3. \A r, g : Asked(c, r, g) => Asked(c, r, g)'
    BY <1>2, <1>3, <2>1 DEF Asked, Calm
  <2>4. (Left(c) => Left(c)') /\ (Gone(c) => Gone(c)')
    BY <1>1, <1>2, <1>3, <2>1 DEF Left, Gone, Calm
  <2> QED BY <1>3, <2>2, <2>3, <2>4, CtlInvIs, SamePhase
<1>5. DroppedIs(c)'
  BY <1>1, <1>2 DEF DroppedIs
<1> QED BY <1>1, <1>4, <1>5, LeaveStep

-----------------------------------------------------------------------------
(* The friend finder.                                                      *)

LEMMA FriendFinderIs ==
  ASSUME TypeOK, NEW c \in Console, FriendFinder(c)
  PROVE  /\ toConsole[c] # <<>> /\ toConsole'[c] = Tail(toConsole[c])
         /\ Head(toConsole[c]).op = "bssid" => events'[c] = Append(events[c], "connect")
         /\ Head(toConsole[c]).op = "complete" => events'[c] = Append(events[c], "scan")
         /\ Head(toConsole[c]).op \notin Answer => events'[c] = events[c]
         /\ Head(toConsole[c]).op = "connect" =>
              friends'[c] = friends[c] \cup {Head(toConsole[c]).who}
         /\ Head(toConsole[c]).op = "disconnect" =>
              friends'[c] = friends[c] \ {Head(toConsole[c]).who}
         /\ Head(toConsole[c]).op \notin {"connect", "disconnect"} => friends'[c] = friends[c]
         /\ \A d \in Console \ {c} :
              toConsole'[d] = toConsole[d] /\ events'[d] = events[d] /\ friends'[d] = friends[d]
         /\ UNCHANGED <<server, toServer, linked, ctl, busy, request>>
<1> DEFINE p == Head(toConsole[c])
<1>1. /\ toConsole[c] # <<>> /\ toConsole' = [toConsole EXCEPT ![c] = Tail(@)]
      /\ UNCHANGED <<server, toServer, linked, ctl, busy, request>>
      /\ \/ p.op = "bssid" /\ Notify(c, "connect") /\ friends' = friends
         \/ p.op = "connect" /\ friends' = [friends EXCEPT ![c] = @ \cup {p.who}] /\ events' = events
         \/ p.op = "disconnect" /\ friends' = [friends EXCEPT ![c] = @ \ {p.who}] /\ events' = events
         \/ p.op = "scan" /\ friends' = friends /\ events' = events
         \/ p.op = "complete" /\ Notify(c, "scan") /\ friends' = friends
  BY Zenon DEF FriendFinder
<1>2. /\ toConsole'[c] = Tail(toConsole[c])
      /\ \A d \in Console \ {c} : toConsole'[d] = toConsole[d]
  BY <1>1 DEF TypeOK, CtlTypeOK
<1>3. ASSUME NEW e, Notify(c, e)
      PROVE  /\ events'[c] = Append(events[c], e)
             /\ \A d \in Console \ {c} : events'[d] = events[d]
  BY <1>3 DEF Notify, TypeOK, CtlTypeOK
<1>4. ASSUME NEW S, friends' = [friends EXCEPT ![c] = S]
      PROVE  friends'[c] = S /\ \A d \in Console \ {c} : friends'[d] = friends[d]
  BY <1>4 DEF TypeOK, CtlTypeOK
<1> HIDE DEF p
<1>5. CASE p.op = "bssid" /\ Notify(c, "connect") /\ friends' = friends
  BY <1>1, <1>2, <1>3, <1>5 DEF Answer, p
<1>6. CASE p.op = "complete" /\ Notify(c, "scan") /\ friends' = friends
  BY <1>1, <1>2, <1>3, <1>6 DEF Answer, p
<1>7. CASE p.op = "connect" /\ friends' = [friends EXCEPT ![c] = @ \cup {p.who}] /\ events' = events
  BY <1>1, <1>2, <1>4, <1>7 DEF Answer, p
<1>8. CASE p.op = "disconnect" /\ friends' = [friends EXCEPT ![c] = @ \ {p.who}] /\ events' = events
  BY <1>1, <1>2, <1>4, <1>8 DEF Answer, p
<1>9. CASE p.op = "scan" /\ friends' = friends /\ events' = events
  BY <1>1, <1>2, <1>9 DEF Answer, p
<1> QED BY <1>1, <1>5, <1>6, <1>7, <1>8, <1>9 DEF p

LEMMA FriendFinderStep ==
  ASSUME TypeOK, CtlInv, NEW c \in Console, FriendFinder(c), UNCHANGED <<adhoc, flags>>
  PROVE  CtlInv'
<1> DEFINE s == toConsole[c]
           p == Head(s)
<1>1. /\ s \in Seq(Packet) /\ s # <<>> /\ toConsole'[c] = Tail(s) /\ p \in Packet
      /\ p.op = "bssid" => events'[c] = Append(events[c], "connect")
      /\ p.op = "complete" => events'[c] = Append(events[c], "scan")
      /\ p.op \notin Answer => events'[c] = events[c]
  BY FriendFinderIs DEF TypeOK, CtlTypeOK
<1>2. /\ request'[c] = request[c] /\ flags'[c] = flags[c] /\ group' = group /\ up'[c] = up[c]
      /\ toServer'[c] = toServer[c] /\ linked'[c] = linked[c] /\ busy'[c] = busy[c]
      /\ ctl'[c] = ctl[c] /\ adhoc'[c] = adhoc[c]
  BY FriendFinderIs DEF server
<1>3. /\ (\A g : In(c, g) => In(c, g)') /\ (Outside(c) => Outside(c)')
      /\ \A r : Sent(c, r) => Sent(c, r)'
  BY <1>2 DEF In, Outside, Sent
<1>4. /\ Silent(s) => Silent(Tail(s)) /\ p.op \notin Answer
      /\ \A a : Answered(s, a) =>
           \/ p.op = a /\ Silent(Tail(s))
           \/ p.op \notin Answer /\ Answered(Tail(s), a)
  BY <1>1, TailIs
<1> HIDE DEF s, p
<1>5. Silent(toConsole[c]) => Silent(toConsole'[c]) /\ events'[c] = events[c]
  BY <1>1, <1>4 DEF s
<1>6. Phase(c)'
  <2>1. \A e, g : Done(c, e, g) => Done(c, e, g)'
    BY <1>2, <1>3, <1>5 DEF Done, Calm
  <2>2. ASSUME NEW r \in Request, NEW g, Asked(c, r, g)
        PROVE  Asked(c, r, g)'
    <3>1. CASE request[c] = r /\ events[c] = <<>> /\ Silent(toConsole[c]) /\ Outside(c)
      BY <1>2, <1>3, <1>5, <2>2, <3>1 DEF Asked
    <3>2. CASE Calm(c) /\ Sent(c, r)
      BY <1>2, <1>3, <1>5, <2>2, <3>2 DEF Asked, Calm
    <3>3. CASE /\ request[c] = NoRequest /\ events[c] = <<>> /\ In(c, g)
               /\ Answered(toConsole[c], AnswerTo(r))
      <4>1. CASE p.op = AnswerTo(r) /\ Silent(Tail(s))
        <5>1. events'[c] = <<EventOf(r)>>
          BY <1>1, <3>3, <4>1, OrderIs DEF AnswerTo, EventOf
        <5> QED BY <1>1, <1>2, <1>3, <2>2, <3>3, <4>1, <5>1 DEF Asked
      <4>2. CASE p.op \notin Answer /\ Answered(Tail(s), AnswerTo(r))
        BY <1>1, <1>2, <1>3, <2>2, <3>3, <4>2 DEF Asked
      <4> QED BY <1>4, <3>3, <4>1, <4>2 DEF s
    <3>4. CASE /\ request[c] = NoRequest /\ events[c] = <<EventOf(r)>> /\ In(c, g)
               /\ Silent(toConsole[c])
      BY <1>2, <1>3, <1>5, <2>2, <3>4 DEF Asked
    <3> QED BY <2>2, <3>1, <3>2, <3>3, <3>4 DEF Asked
  <2>3. Left(c) => Left(c)'
    BY <1>2, <1>3, <1>5 DEF Left
  <2>4. Gone(c) => Gone(c)'
    BY <1>2, <1>5 DEF Gone, Calm
  <2> QED BY <1>2, <2>1, <2>2, <2>3, <2>4, CtlInvIs, SamePhase
<1>7. Knows(c)'
  <2>1. HeardIn(friends[c], s) \subseteq HeardIn(friends'[c], Tail(s))
    <3>1. \/ p.op = "connect" /\ friends'[c] = friends[c] \cup {p.who}
          \/ p.op = "disconnect" /\ friends'[c] = friends[c] \ {p.who}
          \/ p.op \notin {"connect", "disconnect"} /\ friends'[c] = friends[c]
      BY FriendFinderIs DEF p, s
    <3> QED BY <1>1, <3>1, HeardRead DEF p
  <2>2. Heard(c) \subseteq Heard(c)' /\ Others(c)' = Others(c)
    BY <1>1, <1>2, <2>1, HeardIs DEF s, Others, Members
  <2> QED BY <1>2, <2>2, CtlInvIs DEF Knows
<1>8. DroppedIs(c)'
  BY <1>2, CtlInvIs DEF DroppedIs
<1>9. Alone(c)
  BY FriendFinderIs DEF Alone, Same, server
<1> QED BY <1>6, <1>7, <1>8, <1>9, AloneStep

LEMMA LoseServerStep ==
  ASSUME TypeOK, CtlInv, NEW c \in Console, LoseServer(c), UNCHANGED <<adhoc, flags>>
  PROVE  CtlInv'
<1>1. /\ ~up[c] /\ ~linked'[c] /\ toConsole'[c] = <<>> /\ up'[c] = up[c] /\ group' = group
      /\ toServer'[c] = toServer[c] /\ request'[c] = request[c] /\ events'[c] = events[c]
      /\ flags'[c] = flags[c] /\ busy'[c] = busy[c] /\ ctl'[c] = ctl[c] /\ adhoc'[c] = adhoc[c]
  BY DEF LoseServer, server, TypeOK, CtlTypeOK
<1>2. Silent(toConsole'[c])
  BY <1>1 DEF Silent
<1>3. Phase(c)'
  <2>1. Outside(c)' /\ (\A r : Sent(c, r)') /\ (\A g : In(c, g)')
    BY <1>1 DEF Outside, Sent, In
  <2>2. \A e, g : Done(c, e, g) => Done(c, e, g)'
    BY <1>1, <1>2, <2>1 DEF Done, Calm
  <2>3. \A r, g : Asked(c, r, g) => Asked(c, r, g)'
    BY <1>1, <1>2, <2>1 DEF Asked, Calm
  <2>4. (Left(c) => Left(c)') /\ (Gone(c) => Gone(c)')
    BY <1>1, <1>2, <2>1 DEF Left, Gone, Calm
  <2> QED BY <1>1, <2>2, <2>3, <2>4, CtlInvIs, SamePhase
<1>4. Knows(c)' /\ DroppedIs(c)'
  BY <1>1, CtlInvIs, NobodyKnown DEF DroppedIs
<1>5. Alone(c)
  BY DEF LoseServer, Alone, Same, server, TypeOK, CtlTypeOK
<1> QED BY <1>3, <1>4, <1>5, AloneStep

LEMMA FreshIs ==
  ASSUME TypeOK, NEW c \in Console, Fresh(c)
  PROVE  /\ up'[c] /\ linked'[c] /\ toServer'[c] = <<>> /\ toConsole'[c] = <<>>
         /\ ctl'[c] = "disconnected" /\ group' = group /\ Silent(toConsole'[c])
         /\ \A d \in Console \ {c} :
              /\ up'[d] = up[d] /\ linked'[d] = linked[d] /\ toServer'[d] = toServer[d]
              /\ toConsole'[d] = toConsole[d] /\ ctl'[d] = ctl[d]
BY DEF Fresh, Silent, TypeOK, CtlTypeOK

LEMMA LogInStep ==
  ASSUME TypeOK, CtlInv, NEW c \in Console, LogIn(c), UNCHANGED <<adhoc, flags>>
  PROVE  CtlInv'
<1>1. /\ ~up[c] /\ request[c] # NoRequest /\ Fresh(c) /\ request'[c] = request[c]
      /\ events'[c] = events[c] /\ flags'[c] = flags[c] /\ adhoc'[c] = adhoc[c]
  BY DEF LogIn
<1>2. /\ up'[c] /\ toServer'[c] = <<>> /\ group' = group /\ Silent(toConsole'[c]) /\ group[c] = None
  BY <1>1, FreshIs, CtlInvIs DEF DroppedIs
<1>3. Phase(c)'
  <2>1. Outside(c)'
    BY <1>2 DEF Outside
  <2>2. \A e, g : ~Done(c, e, g)
    BY <1>1 DEF Done, Calm
  <2>3. \A r, g : Asked(c, r, g) => Asked(c, r, g)'
    BY <1>1, <1>2, <2>1 DEF Asked, Calm
  <2>4. ~Left(c) /\ ~Gone(c)
    BY <1>1 DEF Left, Gone, Calm
  <2> QED BY <1>1, <2>2, <2>3, <2>4, CtlInvIs, SamePhase
<1>4. Knows(c)' /\ DroppedIs(c)'
  BY <1>2, NobodyKnown DEF DroppedIs
<1>5. Alone(c)
  BY <1>1, FreshIs DEF LogIn, Alone, Same, TypeOK, CtlTypeOK
<1> QED BY <1>3, <1>4, <1>5, AloneStep

LEMMA AppendLast ==
  ASSUME NEW S, NEW s \in Seq(S), NEW b \in S, NEW i \in Nat, i = Len(s) + 1
  PROVE  Append(s, b)[i] = b
<1>1. Append(s, b)[Len(s) + 1] = b
  OBVIOUS
<1> QED BY <1>1, Zenon

\* Streams of one order and of two.
LEMMA ShortStreams ==
  ASSUME NEW S, NEW a \in S, NEW b \in S
  PROVE  /\ Append(<<>>, a) = <<a>> /\ Append(<<a>>, b) = <<a, b>>
         /\ <<>> \o <<>> \o <<a>> = <<a>> /\ <<>> \o <<a>> \o <<b>> = <<a, b>>
<1>1. Append(<<>>, a) = <<a>>
  OBVIOUS
<1>2. Append(<<a>>, b) = <<a, b>>
  <2>1. <<a>> \in Seq(S) /\ Len(<<a>>) = 1 /\ <<a>>[1] = a /\ 2 \in Nat /\ 2 = Len(<<a>>) + 1
    OBVIOUS
  <2>2. Append(<<a>>, b)[2] = b
    BY <2>1, AppendLast, Zenon
  <2>3. Append(<<a>>, b) \in Seq(S) /\ Append(<<a>>, b)[1] = a /\ Len(Append(<<a>>, b)) = 2
    BY <2>1
  <2>4. <<a, b>> \in Seq(S) /\ Len(<<a, b>>) = 2 /\ <<a, b>>[1] = a /\ <<a, b>>[2] = b
    OBVIOUS
  <2>5. \A i \in 1..2 : i = 1 \/ i = 2
    OBVIOUS
  <2>6. \A i \in 1..2 : Append(<<a>>, b)[i] = <<a, b>>[i]
    BY <2>2, <2>3, <2>4, <2>5, Zenon
  <2> QED BY <2>3, <2>4, <2>6, SeqEqual, Zenon
<1>3. <<>> \o <<>> = <<>> /\ <<>> \o <<a>> = <<a>> /\ <<a>> \o <<b>> = Append(<<a>>, b)
  OBVIOUS
<1> QED BY <1>1, <1>2, <1>3, Zenon

\* What a console sends comes after what it has sent, unless it was dropped.
LEMMA SendIs ==
  ASSUME TypeOK, NEW c \in Console, NEW r, Send(c, r)
  PROVE  /\ toServer'[c] = IF up[c] THEN Append(toServer[c], r) ELSE toServer[c]
         /\ \A d \in Console \ {c} : toServer'[d] = toServer[d]
BY DEF Send, TypeOK, CtlTypeOK

LEMMA SendRequestStep ==
  ASSUME TypeOK, CtlInv, NEW c \in Console, SendRequest(c), UNCHANGED <<adhoc, flags>>
  PROVE  CtlInv'
<1>1. /\ request[c] # NoRequest /\ Send(c, request[c]) /\ request'[c] = NoRequest
      /\ UNCHANGED <<server, toConsole, linked, ctl, busy, events, friends, found, networks>>
      /\ \A d \in Console \ {c} : request'[d] = request[d]
  BY DEF SendRequest, TypeOK, CtlTypeOK
<1>2. /\ toServer'[c] = IF up[c] THEN Append(toServer[c], request[c]) ELSE toServer[c]
      /\ \A d \in Console \ {c} : toServer'[d] = toServer[d]
  BY <1>1, SendIs
<1>3. up[c] => toServer'[c] # <<>>
  <2>1. toServer[c] \in Seq(Order) /\ request[c] \in Order
    BY <1>1, OrderIs DEF TypeOK, CtlTypeOK
  <2>2. Append(toServer[c], request[c]) # <<>>
    BY <2>1
  <2> QED BY <1>2, <2>2
<1>4. Phase(c)'
  <2>1. \A e, g : ~Done(c, e, g)
    BY <1>1 DEF Done, Calm
  <2>2. ASSUME NEW r \in Request, NEW g, Asked(c, r, g)
        PROVE  Asked(c, r, g)'
    <3>1. /\ request[c] = r /\ events[c] = <<>> /\ Silent(toConsole[c]) /\ Outside(c) /\ flags[c] = {}
      BY <1>1, <2>2 DEF Asked, Calm
    <3>2. /\ Append(<<>>, r) = <<r>> /\ Append(<<Leave>>, r) = <<Leave, r>>
      BY OrderIs, ShortStreams, Zenon
    <3>3. Sent(c, r)'
      BY <1>1, <1>2, <3>1, <3>2 DEF Outside, Sent, server
    <3> QED BY <1>1, <3>1, <3>3 DEF Asked, Calm
  <2>3. ~Left(c) /\ ~Gone(c)
    BY <1>1 DEF Left, Gone, Calm
  <2> QED BY <2>1, <2>2, <2>3, CtlInvIs, SamePhase
<1>5. Knows(c)'
  BY <1>1, <1>3, NobodyKnown DEF server
<1>6. DroppedIs(c)'
  BY <1>1, <1>2, CtlInvIs DEF DroppedIs, server
<1>7. Alone(c)
  BY <1>1, <1>2 DEF Alone, Same, server
<1> QED BY <1>4, <1>5, <1>6, <1>7, AloneStep

\* The callback of an event tells the game of it.
LEMMA ScanHandlerStep ==
  ASSUME TypeOK, CtlInv, NEW c \in Console, ScanHandler(c)
  PROVE  CtlInv'
<1> DEFINE e == Head(events[c])
<1>1. /\ events[c] # <<>> /\ events'[c] = Tail(events[c]) /\ ~busy'[c]
      /\ ctl'[c] = (CASE e = "connect" -> "connected" [] e = "error" -> ctl[c]
                      [] OTHER -> "disconnected")
      /\ flags'[c] = flags[c] \cup {e}
      /\ UNCHANGED <<server, streams, linked, request, friends, found, networks, adhoc>>
      /\ \A d \in Console \ {c} : /\ events'[d] = events[d] /\ busy'[d] = busy[d]
                                  /\ ctl'[d] = ctl[d] /\ flags'[d] = flags[d]
  BY DEF ScanHandler, Callback, TypeOK, CtlTypeOK
<1>2. /\ (\A g : In(c, g) => In(c, g)') /\ (Outside(c) => Outside(c)')
  BY <1>1 DEF In, Outside, server, streams
<1>3. Phase(c)'
  <2>1. \A a, g : ~Done(c, a, g)
    BY <1>1 DEF Done, Calm
  <2>2. ASSUME NEW r \in Request, NEW g, Asked(c, r, g)
        PROVE  Done(c, EventOf(r), g)'
    <3>1. /\ request[c] = NoRequest /\ events[c] = <<EventOf(r)>> /\ In(c, g)
          /\ Silent(toConsole[c]) /\ flags[c] = {}
      BY <1>1, <2>2 DEF Asked, Calm
    <3>2. events'[c] = <<>> /\ e = EventOf(r) /\ e \in {"connect", "scan"}
      BY <1>1, <3>1 DEF EventOf
    <3>3. ctl'[c] = IF e = "connect" THEN "connected" ELSE "disconnected"
      BY <1>1, <3>2
    <3> HIDE DEF e
    <3> QED BY <1>1, <1>2, <3>1, <3>2, <3>3 DEF Done, Calm, streams
  <2>3. ASSUME Left(c)
        PROVE  Left(c)'
    <3>1. /\ request[c] = NoRequest /\ Silent(toConsole[c]) /\ Outside(c)
          /\ flags[c] = {} /\ events[c] = <<"disconnect">>
      BY <1>1, <2>3 DEF Left
    <3>2. events'[c] = <<>> /\ e = "disconnect" /\ ctl'[c] = "disconnected"
      BY <1>1, <3>1
    <3> HIDE DEF e
    <3> QED BY <1>1, <1>2, <3>1, <3>2 DEF Left, streams
  <2>4. ~Gone(c)
    BY <1>1 DEF Gone, Calm
  <2> QED BY <1>1, <2>1, <2>2, <2>3, <2>4, CtlInvIs, SamePhase
<1>4. Knows(c)'
  BY <1>1, CtlInvIs, SameKnows DEF server, streams
<1>5. DroppedIs(c)'
  BY <1>1, CtlInvIs DEF DroppedIs, server, streams
<1>6. Alone(c)
  BY <1>1 DEF Alone, Same, server, streams
<1> QED BY <1>3, <1>4, <1>5, <1>6, AloneStep

-----------------------------------------------------------------------------
(* The calls of the main thread, and what the game makes of them.          *)

LEMMA BecomesIs ==
  ASSUME TypeOK, NEW c \in Console, NEW s, Becomes(c, s)
  PROVE  adhoc'[c] = s /\ \A d \in Console \ {c} : adhoc'[d] = adhoc[d]
BY DEF Becomes, TypeOK

LEMMA ResetIs ==
  ASSUME TypeOK, NEW c \in Console, ResetEventsFlags(c)
  PROVE  flags'[c] = {} /\ \A d \in Console \ {c} : flags'[d] = flags[d]
BY DEF ResetEventsFlags, TypeOK

\* Nothing becomes of the consoles when only a page or the counts change.
LEMMA Unmoved ==
  ASSUME TypeOK, CtlInv, UNCHANGED <<cvars, adhoc, flags>>
  PROVE  CtlInv'
<1>1. ASSUME NEW d \in Console
      PROVE  Phase(d)' /\ DroppedIs(d)' /\ Knows(d)'
  <2>1. Same(d) /\ toConsole'[d] = toConsole[d] /\ friends'[d] = friends[d] /\ group' = group
    BY DEF Same, cvars, server, streams, library
  <2>2. Phase(d)'
    BY <2>1, CtlInvIs, Undisturbed
  <2>3. DroppedIs(d)'
    BY <2>1, CtlInvIs DEF Same, DroppedIs
  <2>4. Knows(d)'
    BY <2>1, CtlInvIs, SameKnows DEF Same
  <2> QED BY <2>2, <2>3, <2>4
<1> QED BY <1>1, CtlInvNext

\* A call made when the library is free is accepted, and its answer is awaited.
LEMMA CallAsks ==
  ASSUME TypeOK, CtlInv, NEW c \in Console, NEW r \in Request, NEW g, NEW s, NEW e,
         ctl[c] = "disconnected", ~busy[c], Calm(c), Outside(c),
         Calls(c, r, s, e), ResetEventsFlags(c)
  PROVE  /\ Asked(c, r, g)' /\ Becomes(c, s) /\ Alone(c) /\ Knows(c)' /\ DroppedIs(c)'
         /\ UNCHANGED <<server, streams, linked>>
<1>1. Accepts(c) /\ Call(c, r) /\ Becomes(c, s)
  BY DEF Calls, Accepts
<1>2. /\ UNCHANGED <<server, streams, linked, friends, found, events>>
      /\ request' = [request EXCEPT ![c] = r] /\ busy' = [busy EXCEPT ![c] = TRUE]
      /\ ctl' = ctl \/ ctl' = [ctl EXCEPT ![c] = "scanning"]
  BY <1>1 DEF Call
<1>3. /\ request'[c] = r
      /\ \A d \in Console \ {c} : /\ request'[d] = request[d] /\ busy'[d] = busy[d]
                                  /\ ctl'[d] = ctl[d]
  BY <1>2 DEF TypeOK, CtlTypeOK
<1>4. flags'[c] = {} /\ adhoc'[c] = s
      /\ \A d \in Console \ {c} : flags'[d] = flags[d] /\ adhoc'[d] = adhoc[d]
  BY <1>1, BecomesIs, ResetIs
<1>5. Asked(c, r, g)'
  BY <1>2, <1>3, <1>4 DEF Asked, Calm, Outside, server, streams
<1>6. Knows(c)' /\ DroppedIs(c)'
  BY <1>2, CtlInvIs, SameKnows DEF DroppedIs, server, streams
<1>7. Alone(c)
  BY <1>2, <1>3, <1>4 DEF Alone, Same, server, streams
<1> QED BY <1>1, <1>2, <1>5, <1>6, <1>7

\* Who is in a group and has seen its event can leave it.
LEMMA DisconnectLeaves ==
  ASSUME TypeOK, CtlInv, NEW c \in Console, NEW g \in {Lobby, Game}, NEW s,
         Done(c, "connect", g), DisconnectTo(c, s)
  PROVE  /\ Left(c)' /\ Becomes(c, s) /\ Alone(c) /\ Knows(c)' /\ DroppedIs(c)'
         /\ UNCHANGED <<server, linked>>
<1>1. /\ ~busy[c] /\ ctl[c] = "connected" /\ Calm(c)
      /\ up[c] => toServer[c] = <<>> /\ group[c] = g /\ g # None
  BY GroupNames DEF Done, In
<1>2. Disconnect(c) /\ Becomes(c, s) /\ ResetEventsFlags(c)
  BY <1>1 DEF DisconnectTo
<1>3. /\ UNCHANGED <<server, toConsole, linked, request, found, networks>>
      /\ Send(c, [op |-> "disconnect"]) /\ Notify(c, "disconnect")
      /\ friends' = [friends EXCEPT ![c] = {}] /\ busy' = [busy EXCEPT ![c] = TRUE]
      /\ ctl' = [ctl EXCEPT ![c] = IF linked[c] THEN @ ELSE "disconnected"]
  BY <1>1, <1>2 DEF Disconnect
<1>4. /\ events' = [events EXCEPT ![c] = Append(events[c], "disconnect")]
      /\ events \in [Console -> Seq(Event)] /\ toServer \in [Console -> Seq(Order)]
  BY <1>3 DEF Notify, TypeOK, CtlTypeOK
<1>5. events'[c] = <<"disconnect">>
  BY <1>1, <1>4 DEF Calm, Event
<1>6. /\ toServer'[c] = IF up[c] THEN <<Leave>> ELSE toServer[c]
      /\ \A d \in Console \ {c} : toServer'[d] = toServer[d]
  <2>1. /\ toServer'[c] = IF up[c] THEN Append(toServer[c], Leave) ELSE toServer[c]
        /\ \A d \in Console \ {c} : toServer'[d] = toServer[d]
    BY <1>3, SendIs
  <2>2. Append(<<>>, Leave) = <<Leave>>
    BY ShortStreams, OrderIs, Zenon
  <2> QED BY <1>1, <2>1, <2>2
<1>7. flags'[c] = {} /\ adhoc'[c] = s
      /\ \A d \in Console \ {c} : flags'[d] = flags[d] /\ adhoc'[d] = adhoc[d]
  BY <1>2, BecomesIs, ResetIs
<1>8. Outside(c)'
  BY <1>1, <1>3, <1>6 DEF Outside, server
<1>9. Left(c)'
  BY <1>1, <1>3, <1>5, <1>7, <1>8 DEF Left, Calm
<1>10. up[c] => toServer'[c] # <<>>
  <2>1. <<Leave>> # <<>>
    OBVIOUS
  <2> QED BY <1>6, <2>1
<1>11. Knows(c)' /\ DroppedIs(c)'
  BY <1>3, <1>6, <1>10, CtlInvIs, NobodyKnown DEF DroppedIs, server
<1>12. Alone(c)
  <2>1. \A d \in Console \ {c} : events'[d] = events[d] /\ friends'[d] = friends[d]
                                 /\ busy'[d] = busy[d] /\ ctl'[d] = ctl[d]
    BY <1>3, <1>4 DEF TypeOK, CtlTypeOK
  <2> QED BY <1>3, <1>6, <1>7, <2>1 DEF Alone, Same, server
<1> QED BY <1>2, <1>3, <1>9, <1>11, <1>12

\* Whoever is calm may give up the connection: the server is told if need be.
LEMMA TerminateGoes ==
  ASSUME TypeOK, CtlInv, NEW c \in Console, ~busy[c], Calm(c),
         \A d \in Console \ {c} : flags'[d] = flags[d],
         \/ ctl[c] = "disconnected" /\ In(c, None)
         \/ ctl[c] = "connected" /\ \E g \in {Lobby, Game} : In(c, g),
         Terminate(c)
  PROVE  Gone(c)' /\ Alone(c) /\ Knows(c)' /\ DroppedIs(c)'
<1> DEFINE left == IF ctl[c] = "disconnected" \/ busy[c] THEN <<>> ELSE <<[op |-> "disconnect"]>>
<1>1. /\ toServer' = [toServer EXCEPT ![c] =
             IF up[c] THEN toServer[c] \o left \o <<[op |-> "close"]>> ELSE toServer[c]]
      /\ toConsole' = [toConsole EXCEPT ![c] = <<>>] /\ linked' = [linked EXCEPT ![c] = FALSE]
      /\ ctl' = [ctl EXCEPT ![c] = "disconnected"] /\ busy' = [busy EXCEPT ![c] = FALSE]
      /\ friends' = [friends EXCEPT ![c] = {}] /\ events' = [events EXCEPT ![c] = <<>>]
      /\ UNCHANGED <<server, request>> /\ Becomes(c, "shutdown")
  BY DEF Terminate, Term
<1>2. /\ toConsole'[c] = <<>> /\ ~linked'[c] /\ events'[c] = <<>> /\ request'[c] = NoRequest
      /\ toServer'[c] = IF up[c] THEN toServer[c] \o left \o <<Close>> ELSE toServer[c]
      /\ \A d \in Console \ {c} :
           /\ toServer'[d] = toServer[d] /\ toConsole'[d] = toConsole[d] /\ linked'[d] = linked[d]
           /\ ctl'[d] = ctl[d] /\ busy'[d] = busy[d] /\ friends'[d] = friends[d]
           /\ events'[d] = events[d]
  BY <1>1 DEF Calm, TypeOK, CtlTypeOK
<1>3. adhoc'[c] = "shutdown" /\ \A d \in Console \ {c} : adhoc'[d] = adhoc[d]
  BY <1>1, BecomesIs
<1>4. /\ <<>> \o <<>> \o <<Close>> = <<Close>>
      /\ <<>> \o <<Leave>> \o <<Close>> = <<Leave, Close>>
  BY ShortStreams, OrderIs, Zenon
<1>5. up[c] => \/ toServer'[c] = <<Close>>
               \/ toServer'[c] = <<Leave, Close>> /\ group[c] # None
  BY <1>2, <1>4, GroupNames DEF In
<1>6. Gone(c)'
  BY <1>1, <1>2, <1>5 DEF Gone, Calm, Silent, server
<1>7. Knows(c)' /\ DroppedIs(c)'
  BY <1>1, <1>2, CtlInvIs, NobodyKnown DEF DroppedIs, server
<1>8. Alone(c)
  BY <1>1, <1>2, <1>3 DEF Alone, Same, server
<1> QED BY <1>6, <1>7, <1>8

\* An event that says an error is never seen, so that a state function goes on.
LEMMA NoError ==
  ASSUME TypeOK, CtlInv, NEW c \in Console, adhoc[c] # "shutdown"
  PROVE  "error" \notin flags[c]
BY CtlInvIs DEF Phase, Done, Asked, Left, TypeOK, AdhocState

LEMMA Settled ==
  ASSUME TypeOK, NEW c \in Console, NEW e, NEW g, Done(c, e, g)
  PROVE  /\ ~busy[c] /\ Calm(c) /\ In(c, g) /\ flags[c] = {e}
         /\ g = None => Outside(c)
BY DEF Done, In, Outside

LEMMA NextStateStep ==
  ASSUME TypeOK, CtlInv, NEW c \in Console, NextState(c)
  PROVE  CtlInv'
<1>1. Phase(c)
  BY CtlInvIs
<1>2. ASSUME NEW s \in {"lobby", "ingame"}, NEW g, Done(c, "connect", g), Becomes(c, s),
             UNCHANGED <<cvars, flags>>, g = IF s = "lobby" THEN Lobby ELSE Game
      PROVE  CtlInv'
  <2>1. adhoc'[c] = s /\ \A d \in Console \ {c} : adhoc'[d] = adhoc[d]
    BY <1>2, BecomesIs
  <2>2. Done(c, "connect", g)'
    BY <1>2 DEF Done, Calm, In, cvars, server, streams, library
  <2>3. Phase(c)'
    BY <1>2, <2>1, <2>2 DEF Phase
  <2>4. Knows(c)' /\ DroppedIs(c)' /\ Alone(c)
    BY <1>2, <2>1, CtlInvIs, SameKnows DEF DroppedIs, Alone, Same, cvars, server, streams, library
  <2> QED BY <2>3, <2>4, AloneStep
<1>3. ASSUME NEW r \in Request, NEW s, NEW e, NEW g, Calls(c, r, s, e), ResetEventsFlags(c),
             ctl[c] = "disconnected", ~busy[c], Calm(c), Outside(c),
             \/ s = "join" /\ r = ToConnect(Game) /\ g = Game
             \/ s = "lobbyconnect" /\ r = ToConnect(Lobby) /\ g = Lobby
             \/ s = "scan" /\ r = ToScan /\ g = None
      PROVE  CtlInv'
  <2>1. Asked(c, r, g)' /\ Becomes(c, s) /\ Alone(c) /\ Knows(c)' /\ DroppedIs(c)'
    BY <1>3, CallAsks
  <2>2. adhoc'[c] = s
    BY <2>1, BecomesIs
  <2>3. Phase(c)'
    BY <1>3, <2>1, <2>2 DEF Phase
  <2> QED BY <2>1, <2>3, AloneStep
<1>4. CASE StateConnectLobbyGroup(c)
  <2>1. "connect" \in flags[c] /\ Becomes(c, "lobby") /\ UNCHANGED <<cvars, flags>>
        /\ adhoc[c] = "lobbyconnect"
    BY <1>4, NoError DEF StateConnectLobbyGroup
  <2>2. Done(c, "connect", Lobby)
    BY <1>1, <2>1 DEF Phase, Asked
  <2> QED BY <1>2, <2>1, <2>2
<1>5. CASE StateCreateGameGroup(c)
  <2>1. /\ "disconnect" \in flags[c] /\ ResetEventsFlags(c) /\ adhoc[c] = "creategame"
        /\ IF c = Host THEN Connect(c, Game, "join", "join") ELSE Scan(c, "scan")
    BY <1>5, NoError, Zenon DEF StateCreateGameGroup
  <2>2. Left(c) /\ flags[c] # {}
    BY <1>1, <2>1 DEF Phase
  <2>3. ctl[c] = "disconnected" /\ ~busy[c] /\ Calm(c) /\ Outside(c)
    BY <2>2 DEF Left, Calm
  <2> QED BY <1>3, <2>1, <2>3, OrderIs DEF Connect, Scan
<1>6. CASE StateAttemptGameScan(c)
  <2>1. /\ "scan" \in flags[c] /\ ResetEventsFlags(c) /\ adhoc[c] = "scan"
        /\ \/ Connect(c, Game, "join", "shutdown")
           \/ Scan(c, "shutdown") \/ Terminate(c)
    BY <1>6, NoError, Zenon DEF StateAttemptGameScan
  <2>2. Done(c, "scan", None)
    BY <1>1, <2>1 DEF Phase, Asked
  <2>3. ctl[c] = "disconnected" /\ ~busy[c] /\ Calm(c) /\ Outside(c) /\ In(c, None)
    BY <2>2, Settled DEF Done
  <2>4. CASE Terminate(c)
    <3>1. Gone(c)' /\ Alone(c) /\ Knows(c)' /\ DroppedIs(c)'
      BY <2>1, <2>3, <2>4, ResetIs, TerminateGoes
    <3>2. adhoc'[c] = "shutdown"
      BY <2>4, BecomesIs DEF Terminate
    <3>3. Phase(c)'
      BY <3>1, <3>2 DEF Phase
    <3> QED BY <3>1, <3>3, AloneStep
  <2> QED BY <1>3, <2>1, <2>3, <2>4, OrderIs DEF Connect, Scan
<1>7. CASE StateHandleError(c)
  <2>1. "connect" \in flags[c] /\ Becomes(c, "ingame") /\ UNCHANGED <<cvars, flags>>
        /\ adhoc[c] = "join"
    BY <1>7, NoError DEF StateHandleError
  <2>2. Done(c, "connect", Game)
    BY <1>1, <2>1 DEF Phase, Asked
  <2> QED BY <1>2, <2>1, <2>2
<1>8. CASE StateLobbyConnect(c)
  <2>1. /\ "disconnect" \in flags[c] /\ ResetEventsFlags(c) /\ adhoc[c] = "leaving"
        /\ Connect(c, Lobby, "lobbyconnect", "shutdown")
    BY <1>8, NoError, Zenon DEF StateLobbyConnect
  <2>2. Left(c) /\ flags[c] # {}
    BY <1>1, <2>1 DEF Phase
  <2>3. ctl[c] = "disconnected" /\ ~busy[c] /\ Calm(c) /\ Outside(c)
    BY <2>2 DEF Left, Calm
  <2> QED BY <1>3, <2>1, <2>3, OrderIs DEF Connect
<1> QED BY <1>4, <1>5, <1>6, <1>7, <1>8 DEF NextState

\* A page moves a console when it starts, leaves the game or comes back.
LEMMA PagesStep ==
  ASSUME TypeOK, CtlInv, Waiting, Pages
  PROVE  CtlInv'
<1>1. ASSUME UNCHANGED <<cvars, avars>>
      PROVE  CtlInv'
  BY <1>1, Unmoved DEF avars
<1>2. ASSUME NEW c \in Console, NEW s \in {"creategame", "leaving"}, NEW g \in {Lobby, Game},
             Done(c, "connect", g), DisconnectTo(c, s)
      PROVE  CtlInv'
  <2>1. Left(c)' /\ Becomes(c, s) /\ Alone(c) /\ Knows(c)' /\ DroppedIs(c)'
    BY <1>2, DisconnectLeaves
  <2>2. adhoc'[c] = s
    BY <2>1, BecomesIs
  <2>3. Phase(c)'
    BY <2>1, <2>2 DEF Phase
  <2> QED BY <2>1, <2>3, AloneStep
<1>3. Host \in Console /\ Client \subseteq Console /\ \A c \in Console : Phase(c)
  BY GroupsAssumption, CtlInvIs
<1>4. CASE PressStart \/ SendStart \/ GiveUp
  BY <1>1, <1>4 DEF PressStart, SendStart, GiveUp
<1>5. ASSUME NEW c \in Console, EnterRoom(c) \/ LeaveRoom(c) \/ OpenTo(c)
      PROVE  CtlInv'
  BY <1>1, <1>5 DEF EnterRoom, LeaveRoom, OpenTo
<1>6. CASE Back
  <2>1. Terminate(Host) /\ Done(Host, "connect", Lobby) /\ UNCHANGED flags
    BY <1>3, <1>6 DEF Back, Waiting, Phase
  <2>2. /\ ~busy[Host] /\ Calm(Host) /\ In(Host, Lobby) /\ ctl[Host] = "connected"
    BY <1>3, <2>1 DEF Done
  <2>3. Gone(Host)' /\ Alone(Host) /\ Knows(Host)' /\ DroppedIs(Host)'
    BY <1>3, <2>1, <2>2, TerminateGoes
  <2>4. adhoc'[Host] = "shutdown"
    BY <1>3, <2>1, BecomesIs DEF Terminate
  <2>5. Phase(Host)'
    BY <2>3, <2>4 DEF Phase
  <2> QED BY <1>3, <2>3, <2>5, AloneStep
<1>7. CASE AllTold
  <2>1. DisconnectTo(Host, "creategame") /\ Done(Host, "connect", Lobby)
    BY <1>3, <1>7 DEF AllTold, OnStartGame, Waiting, Phase
  <2> QED BY <1>2, <1>3, <2>1
<1>8. ASSUME NEW c \in Console, ReceiveStart(c)
      PROVE  CtlInv'
  <2>1. DisconnectTo(c, "creategame") /\ c \in inRoom
    BY <1>8 DEF ReceiveStart, OnStartGame, TypeOK
  <2>2. Done(c, "connect", Lobby)
    BY <1>3, <2>1 DEF Waiting, Phase
  <2> QED BY <1>2, <2>1, <2>2
<1>9. ASSUME NEW c \in Console, LeaveGame(c)
      PROVE  CtlInv'
  <2>1. DisconnectTo(c, "leaving") /\ Done(c, "connect", Game)
    BY <1>3, <1>9 DEF LeaveGame, Phase
  <2> QED BY <1>2, <2>1
<1>10. ASSUME NEW c \in Console, StateInitialise(c)
       PROVE  CtlInv'
  <2>1. /\ adhoc[c] = "shutdown" /\ ~up[c] /\ Fresh(c) /\ Becomes(c, "lobbyconnect")
        /\ ResetEventsFlags(c) /\ UNCHANGED <<events, friends>>
        /\ busy' = [busy EXCEPT ![c] = TRUE]
        /\ request' = [request EXCEPT ![c] = ToConnect(Lobby)]
    BY <1>10 DEF StateInitialise
  <2>2. /\ up'[c] /\ toServer'[c] = <<>> /\ group' = group /\ Silent(toConsole'[c])
        /\ group[c] = None
    BY <2>1, FreshIs, CtlInvIs DEF DroppedIs
  <2>3. /\ request'[c] = ToConnect(Lobby)
        /\ \A d \in Console \ {c} : request'[d] = request[d] /\ busy'[d] = busy[d]
    BY <2>1 DEF TypeOK, CtlTypeOK
  <2>4. /\ flags'[c] = {} /\ adhoc'[c] = "lobbyconnect"
        /\ \A d \in Console \ {c} : flags'[d] = flags[d] /\ adhoc'[d] = adhoc[d]
    BY <2>1, BecomesIs, ResetIs
  <2>5. events'[c] = <<>>
    BY <1>3, <2>1 DEF Phase, Gone, Calm
  <2>6. Phase(c)'
    <3>1. Outside(c)'
      BY <2>2 DEF Outside
    <3>2. Asked(c, ToConnect(Lobby), Lobby)'
      BY <2>2, <2>3, <2>4, <2>5, <3>1 DEF Asked
    <3> QED BY <2>4, <3>2 DEF Phase
  <2>7. Knows(c)' /\ DroppedIs(c)'
    BY <2>2, NobodyKnown DEF DroppedIs
  <2>8. Alone(c)
    BY <2>1, <2>3, <2>4, FreshIs DEF Alone, Same
  <2> QED BY <2>6, <2>7, <2>8, AloneStep
<1> QED BY <1>4, <1>5, <1>6, <1>7, <1>8, <1>9, <1>10, Zenon DEF Pages

-----------------------------------------------------------------------------
(* The theorems.                                                           *)

\* Nobody leaves the lobby's states while it waits for the game to start.
LEMMA WaitingStep ==
  ASSUME TypeOK, CtlInv, Waiting, [Next]_vars
  PROVE  Waiting'
<1>1. Host \in Console /\ Host \notin Client /\ inRoom \subseteq Client /\ Client \subseteq Console
      /\ start \subseteq inRoom
  BY GroupsAssumption DEF TypeOK
<1>2. ASSUME UNCHANGED <<adhoc, roster, inRoom>>
      PROVE  Waiting'
  BY <1>2 DEF Waiting
<1>3. ASSUME NEW c \in Console, NextState(c)
      PROVE  Waiting'
  <2>1. /\ adhoc[c] # "lobby" /\ UNCHANGED <<roster, inRoom>>
        /\ \E s : Becomes(c, s)
    BY <1>3 DEF NextState, hvars, StateConnectLobbyGroup, StateCreateGameGroup,
         StateAttemptGameScan, StateHandleError, StateLobbyConnect, Terminate, Connect, Scan, Calls
  <2>2. \A d \in Console \ {c} : adhoc'[d] = adhoc[d]
    BY <2>1, BecomesIs
  <2> QED BY <1>1, <2>1, <2>2 DEF Waiting
<1>4. ASSUME NEW c \in Console, NEW s, DisconnectTo(c, s)
      PROVE  \A d \in Console \ {c} : adhoc'[d] = adhoc[d]
  <2>1. \E x : Becomes(c, x)
    BY <1>4 DEF DisconnectTo, Terminate
  <2> QED BY <2>1, BecomesIs
<1>5. CASE Pages
  <2>1. CASE PressStart
    BY <2>1 DEF PressStart, Waiting, avars
  <2>2. CASE SendStart
    BY <1>2, <2>2 DEF SendStart, avars
  <2>3. CASE GiveUp
    BY <2>3 DEF GiveUp, ClosePage, Waiting, avars
  <2>4. CASE Back
    <3>1. \A d \in Console \ {Host} : adhoc'[d] = adhoc[d]
      BY <1>1, <2>4, BecomesIs DEF Back, Terminate
    <3> QED BY <1>1, <2>4, <3>1 DEF Back, ClosePage, Waiting
  <2>5. CASE AllTold
    <3>1. \A d \in Console \ {Host} : adhoc'[d] = adhoc[d]
      BY <1>1, <1>4, <2>5 DEF AllTold, OnStartGame
    <3> QED BY <1>1, <2>5, <3>1 DEF AllTold, ClosePage, Waiting
  <2>6. ASSUME NEW c \in Console, EnterRoom(c)
        PROVE  Waiting'
    BY <2>6 DEF EnterRoom, Waiting, avars
  <2>7. ASSUME NEW c \in Console, LeaveRoom(c)
        PROVE  Waiting'
    BY <2>7 DEF LeaveRoom, Waiting, avars
  <2>8. ASSUME NEW c \in Console, OpenTo(c)
        PROVE  Waiting'
    BY <1>2, <2>8 DEF OpenTo, avars, Waiting
  <2>9. ASSUME NEW c \in Console, ReceiveStart(c)
        PROVE  Waiting'
    <3>1. \A d \in Console \ {c} : adhoc'[d] = adhoc[d]
      BY <1>4, <2>9 DEF ReceiveStart, OnStartGame
    <3>2. c # Host /\ inRoom' = inRoom \ {c} /\ roster' = roster
      BY <1>1, <2>9 DEF ReceiveStart
    <3> QED BY <1>1, <3>1, <3>2 DEF Waiting
  <2>10. ASSUME NEW c \in Console, LeaveGame(c)
         PROVE  Waiting'
    <3>1. \A d \in Console \ {c} : adhoc'[d] = adhoc[d]
      BY <1>4, <2>10 DEF LeaveGame
    <3> QED BY <1>1, <2>10, <3>1 DEF LeaveGame, Waiting, hvars
  <2>11. ASSUME NEW c \in Console, StateInitialise(c)
         PROVE  Waiting'
    <3>1. \A d \in Console \ {c} : adhoc'[d] = adhoc[d]
      BY <2>11, BecomesIs DEF StateInitialise
    <3> QED BY <1>1, <2>11, <3>1 DEF StateInitialise, Waiting, hvars
  <2> QED BY <1>5, <2>1, <2>2, <2>3, <2>4, <2>5, <2>6, <2>7, <2>8, <2>9, <2>10, <2>11, Zenon DEF Pages
<1>6. ASSUME NEW c \in Console, Library(c) \/ ScanHandler(c) \/ Drop(c)
      PROVE  Waiting'
  BY <1>2, <1>6 DEF Library, ScanHandler, Drop, avars, hvars
<1>7. CASE UNCHANGED vars
  BY <1>2, <1>7 DEF vars, avars, hvars
<1> QED BY <1>3, <1>5, <1>6, <1>7 DEF Next

LEMMA CtlStep ==
  ASSUME TypeOK, CtlInv, Waiting, [Next]_vars
  PROVE  CtlInv'
<1>1. CASE UNCHANGED vars
  BY <1>1, Unmoved DEF vars, avars
<1>2. ASSUME NEW c \in Console, Library(c)
      PROVE  CtlInv'
  BY <1>2, ServeStep, FriendFinderStep, LoseServerStep, LogInStep, SendRequestStep
     DEF Library, avars
<1>3. ASSUME NEW c \in Console, Drop(c)
      PROVE  CtlInv'
  BY <1>3, TimeOutStep DEF Drop, avars
<1> QED BY <1>1, <1>2, <1>3, ScanHandlerStep, NextStateStep, PagesStep DEF Next

LEMMA CtlInit0 == Init => CtlInv /\ Waiting
<1> SUFFICES ASSUME Init PROVE CtlInv /\ Waiting
  OBVIOUS
<1>1. ASSUME NEW c \in Console
      PROVE  Phase(c) /\ DroppedIs(c) /\ Knows(c)
  <2>1. /\ adhoc[c] = "lobby" /\ flags[c] = {"connect"} /\ group[c] = Lobby /\ up[c]
        /\ toServer[c] = <<>> /\ toConsole[c] = <<>> /\ linked[c] /\ ctl[c] = "connected"
        /\ ~busy[c] /\ request[c] = NoRequest /\ events[c] = <<>> /\ friends[c] = Console \ {c}
    BY DEF Init, CtlInit
  <2>2. Phase(c)
    BY <2>1 DEF Phase, Done, Calm, In, Silent
  <2>3. Others(c) \subseteq Console \ {c} /\ Console \ {c} \subseteq Heard(c)
    BY <2>1 DEF Others, Members, Heard
  <2> QED BY <2>1, <2>2, <2>3 DEF DroppedIs, Knows
<1> QED BY <1>1, CtlInvIs DEF Init, Waiting

\* What a console, its stream and the server hold of an exchange agrees at any
\* time, in every state of the game: IInv holds and keeps.
THEOREM InductiveInvariant == Spec => []IInv
<1>1. Init => IInv
  BY TypeInit, CtlInit0 DEF IInv, CtlInv
<1>2. IInv /\ [Next]_vars => IInv'
  BY TypeStep, CtlStep, WaitingStep DEF IInv, CtlInv
<1> QED BY <1>1, <1>2, PTL DEF Spec

\* A console never asks the server for what it is logged out for: every request
\* waits until the last group is left, however late the answers are.
THEOREM NobodyIsKicked == Spec => []NoKick
<1>1. IInv => NoKick
  <2> SUFFICES ASSUME IInv, NEW c \in Console, up[c], toServer[c] # <<>>
               PROVE  Legal(c)
    BY DEF NoKick
  <2>1. Phase(c) /\ adhoc[c] \in AdhocState
    BY DEF IInv, Phases, TypeOK
  <2>2. \A e, g : ~Done(c, e, g)
    BY DEF Done, In
  <2> DEFINE op == Head(toServer[c]).op
  <2>3. CASE Left(c)
    <3>1. toServer[c] = <<Leave>> /\ group[c] # None
      BY <2>3 DEF Left, Outside
    <3>2. op = "disconnect"
      BY <3>1
    <3> QED BY <3>1, <3>2 DEF Legal
  <2>4. CASE Gone(c)
    <3>1. \/ toServer[c] = <<Close>>
          \/ toServer[c] = <<Leave, Close>> /\ group[c] # None
      BY <2>4 DEF Gone
    <3>2. \/ op = "close"
          \/ op = "disconnect" /\ group[c] # None
      <4>1. Head(<<Close>>) = Close /\ Head(<<Leave, Close>>) = Leave
        OBVIOUS
      <4>2. Close.op = "close" /\ Leave.op = "disconnect"
        BY DEF Close, Leave
      <4> QED BY <3>1, <4>1, <4>2
    <3> QED BY <3>2 DEF Legal
  <2>5. ASSUME NEW r \in Request, NEW g, Asked(c, r, g)
        PROVE  Legal(c)
    <3>1. \/ toServer[c] = <<Leave>> /\ group[c] # None
          \/ toServer[c] = <<r>> /\ group[c] = None
          \/ toServer[c] = <<Leave, r>> /\ group[c] # None
      BY <2>5 DEF Asked, Outside, Sent, In
    <3>2. \/ op = "disconnect" /\ group[c] # None
          \/ op \in {"connect", "scan"} /\ group[c] = None
      BY <3>1, OrderIs
    <3> QED BY <3>2 DEF Legal
  <2> QED BY <2>1, <2>2, <2>3, <2>4, <2>5, OrderIs DEF Phase, AdhocState
<1> QED BY <1>1, InductiveInvariant, PTL

\* Every member of a group knows the others, or is about to: who comes and who
\* goes is told in the order of the server, and nothing of the last group is
\* left over.
THEOREM MembersKnowGroup == Spec => []KnowsGroup
<1>1. IInv => KnowsGroup
  BY DEF IInv
<1> QED BY <1>1, InductiveInvariant, PTL

\* A console that takes itself to be in the game is a member of its group.
THEOREM PlayersAreMembers == Spec => []InGameIsMember
<1>1. IInv => InGameIsMember
  BY DEF IInv, Phases, Phase, Done, In, InGameIsMember
<1> QED BY <1>1, InductiveInvariant, PTL

\* A state function gives up a session of the library only after the last scan.
LEMMA NextStateEnds ==
  ASSUME TypeOK, CtlInv, Counted, NEW d \in Console, NextState(d)
  PROVE  \/ UNCHANGED linked
         \/ /\ adhoc[d] = "scan" /\ scans'[d] = MaxScans
            /\ \A c \in Console \ {d} : linked'[c] = linked[c]
<1>1. Phase(d)
  BY CtlInvIs
<1>2. ASSUME NEW r \in Request, NEW s, NEW e, Calls(d, r, s, e), ResetEventsFlags(d),
             ctl[d] = "disconnected", ~busy[d], Calm(d), Outside(d)
      PROVE  UNCHANGED linked
  BY <1>2, CallAsks
<1>3. ASSUME Left(d), flags[d] # {}
      PROVE  ctl[d] = "disconnected" /\ ~busy[d] /\ Calm(d) /\ Outside(d)
  BY <1>3 DEF Left, Calm
<1>4. CASE StateConnectLobbyGroup(d) \/ StateHandleError(d)
  BY <1>4, NoError DEF StateConnectLobbyGroup, StateHandleError, cvars, library
<1>5. CASE StateCreateGameGroup(d)
  <2>1. /\ "disconnect" \in flags[d] /\ ResetEventsFlags(d) /\ adhoc[d] = "creategame"
        /\ IF d = Host THEN Connect(d, Game, "join", "join") ELSE Scan(d, "scan")
    BY <1>5, NoError, Zenon DEF StateCreateGameGroup
  <2>2. ctl[d] = "disconnected" /\ ~busy[d] /\ Calm(d) /\ Outside(d)
    BY <1>1, <1>3, <2>1 DEF Phase
  <2> QED BY <1>2, <2>1, <2>2, OrderIs DEF Connect, Scan
<1>6. CASE StateLobbyConnect(d)
  <2>1. /\ "disconnect" \in flags[d] /\ ResetEventsFlags(d) /\ adhoc[d] = "leaving"
        /\ Connect(d, Lobby, "lobbyconnect", "shutdown")
    BY <1>6, NoError, Zenon DEF StateLobbyConnect
  <2>2. ctl[d] = "disconnected" /\ ~busy[d] /\ Calm(d) /\ Outside(d)
    BY <1>1, <1>3, <2>1 DEF Phase
  <2> QED BY <1>2, <2>1, <2>2, OrderIs DEF Connect
<1>7. CASE StateAttemptGameScan(d)
  <2>1. /\ "scan" \in flags[d] /\ ResetEventsFlags(d) /\ adhoc[d] = "scan"
        /\ \/ Connect(d, Game, "join", "shutdown")
           \/ Scan(d, "shutdown")
           \/ /\ scans' = [scans EXCEPT ![d] = @ + 1]
              /\ ~(scans[d] + 1 < MaxScans) /\ Terminate(d)
    BY <1>7, NoError, Zenon DEF StateAttemptGameScan
  <2>2. Done(d, "scan", None)
    BY <1>1, <2>1 DEF Phase, Asked
  <2>3. ctl[d] = "disconnected" /\ ~busy[d] /\ Calm(d) /\ Outside(d)
    BY <2>2, Settled DEF Done
  <2>4. CASE Connect(d, Game, "join", "shutdown") \/ Scan(d, "shutdown")
    BY <1>2, <2>1, <2>3, <2>4, OrderIs DEF Connect, Scan
  <2>5. CASE /\ scans' = [scans EXCEPT ![d] = @ + 1]
             /\ ~(scans[d] + 1 < MaxScans) /\ Terminate(d)
    <3>1. scans[d] \in 0 .. MaxScans /\ MaxScans \in Nat /\ scans[d] < MaxScans
      BY <2>1, GroupsAssumption DEF TypeOK, Counted
    <3>2. scans'[d] = scans[d] + 1
      BY <2>5 DEF TypeOK
    <3>3. scans'[d] = MaxScans
      BY <2>5, <3>1, <3>2
    <3>4. \A c \in Console \ {d} : linked'[c] = linked[c]
      BY <2>5 DEF Terminate, Term, TypeOK, CtlTypeOK
    <3> QED BY <2>1, <3>3, <3>4
  <2> QED BY <2>1, <2>4, <2>5
<1> QED BY <1>4, <1>5, <1>6, <1>7 DEF NextState

\* Of the pages only the way back from the start page gives up a session.
LEMMA PagesEnd ==
  ASSUME TypeOK, CtlInv, Waiting, Pages, NEW c \in Console, Ended(c)
  PROVE  c = Host /\ roster # {}
<1>1. Host \in Console /\ Client \subseteq Console /\ \A d \in Console : Phase(d)
  BY GroupsAssumption, CtlInvIs
<1>2. ~UNCHANGED linked
  BY DEF Ended
<1>3. ASSUME NEW d \in Console, NEW s, NEW g \in {Lobby, Game}, Done(d, "connect", g),
             DisconnectTo(d, s)
      PROVE  FALSE
  BY <1>2, <1>3, DisconnectLeaves
<1>4. ~PressStart /\ ~SendStart /\ ~GiveUp
  BY <1>2 DEF PressStart, SendStart, GiveUp, cvars, library
<1>5. \A d \in Console : ~EnterRoom(d) /\ ~LeaveRoom(d) /\ ~OpenTo(d)
  BY <1>2 DEF EnterRoom, LeaveRoom, OpenTo, cvars, library
<1>6. ~AllTold
  BY <1>1, <1>3 DEF AllTold, OnStartGame, Waiting, Phase
<1>7. ASSUME NEW d \in Console, ReceiveStart(d)
      PROVE  FALSE
  <2>1. DisconnectTo(d, "creategame") /\ d \in inRoom
    BY <1>7 DEF ReceiveStart, OnStartGame, TypeOK
  <2>2. Done(d, "connect", Lobby)
    BY <1>1, <2>1 DEF Waiting, Phase
  <2> QED BY <1>3, <2>1, <2>2
<1>8. ASSUME NEW d \in Console, LeaveGame(d)
      PROVE  FALSE
  BY <1>1, <1>3, <1>8 DEF LeaveGame, Phase
<1>9. ASSUME NEW d \in Console, StateInitialise(d)
      PROVE  FALSE
  <2>1. linked' = [linked EXCEPT ![d] = TRUE]
    BY <1>9 DEF StateInitialise, Fresh
  <2> QED BY <2>1 DEF Ended, TypeOK, CtlTypeOK
<1>10. CASE Back
  <2>1. linked' = [linked EXCEPT ![Host] = FALSE] /\ roster # {}
    BY <1>10 DEF Back, Terminate, Term
  <2> QED BY <2>1 DEF Ended, TypeOK, CtlTypeOK
<1> QED BY <1>4, <1>5, <1>6, <1>7, <1>8, <1>9, <1>10, Zenon DEF Pages

LEMMA EndsAtWish ==
  ASSUME TypeOK, CtlInv, Waiting, Counted, Next, NEW c \in Console, Ended(c)
  PROVE  (c = Host /\ roster # {}) \/ (adhoc[c] = "scan" /\ scans'[c] = MaxScans)
<1>1. up[c] /\ linked[c] /\ ~linked'[c]
  BY DEF Ended
<1>2. ASSUME NEW d \in Console, Library(d)
      PROVE  FALSE
  <2>1. \/ UNCHANGED linked
        \/ ~up[d] /\ linked' = [linked EXCEPT ![d] = FALSE]
        \/ linked' = [linked EXCEPT ![d] = TRUE]
    <3>1. Serve(d) => UNCHANGED linked
      BY DEF Serve, library
    <3>2. FriendFinder(d) \/ SendRequest(d) => UNCHANGED linked
      BY DEF FriendFinder, SendRequest
    <3>3. LoseServer(d) => ~up[d] /\ linked' = [linked EXCEPT ![d] = FALSE]
      BY DEF LoseServer
    <3>4. LogIn(d) => linked' = [linked EXCEPT ![d] = TRUE]
      BY DEF LogIn, Fresh
    <3> QED BY <1>2, <3>1, <3>2, <3>3, <3>4, Zenon DEF Library
  <2> QED BY <1>1, <2>1 DEF TypeOK, CtlTypeOK
<1>3. ASSUME NEW d \in Console, ScanHandler(d) \/ Drop(d)
      PROVE  FALSE
  BY <1>1, <1>3 DEF ScanHandler, Callback, Drop, TimeOut, library
<1>4. ASSUME NEW d \in Console, NextState(d)
      PROVE  adhoc[c] = "scan" /\ scans'[c] = MaxScans
  BY <1>1, <1>4, NextStateEnds
<1> QED BY <1>2, <1>3, <1>4, PagesEnd, Zenon DEF Next

\* The library ends a session that the server keeps only when the host goes back
\* from the start page or a client has scanned in vain: no call is refused.
THEOREM SessionsEndAtWish == Spec => CallsSucceed
<1>1. IInv /\ [Next]_vars =>
        [\A c \in Console :
           Ended(c) => (c = Host /\ roster # {}) \/ (adhoc[c] = "scan" /\ scans'[c] = MaxScans)]_vars
  BY EndsAtWish DEF IInv, CtlInv
<1> QED BY <1>1, InductiveInvariant, PTL DEF Spec, CallsSucceed
=============================================================================
