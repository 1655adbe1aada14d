-------------------------- MODULE MembershipProofs --------------------------
(***************************************************************************)
(* Proofs about Membership: for every number of clients, and every length  *)
(* of the time-outs and of the clock, a client drops nobody the host keeps.*)
(* FollowsHost is not inductive alone: a kick under way could be about a   *)
(* player the host still has.  It never is, since the host removes a       *)
(* player in the step that sends the kick, and nobody comes back.          *)
(***************************************************************************)
EXTENDS Membership, TLAPS

\* Kicks under way are about players the host has removed.
KicksAreRemoved == \A c \in Client : kicks[c] \cap players[Host] = {}

\* The host is told of no removal: it is not one of its own players.
HostIsNotTold == kicks[Host] = {} /\ Host \notin players[Host]

IInv == TypeOK /\ FollowsHost /\ KicksAreRemoved /\ HostIsNotTold

-----------------------------------------------------------------------------
(* The ids, and the parts of a frame.                                       *)

LEMMA Ids == /\ Host \in Console /\ Client \subseteq Console /\ Host \notin Client
             /\ \A c \in Console : c # Host => c \in Client
             /\ \A c \in Console : Watched(c) \subseteq Console
  BY MembershipAssumption DEF Host, Client, Console, Watched

LEMMA ErasedIsLate == \A here, late : Erased(here, late) \subseteq late
  BY DEF Erased

LEMMA NextIsTime == \A t \in Time : Next16(t) \in Time
  BY MembershipAssumption DEF Time, Next16

LEMMA LastIsTime == TimeMod - 1 \in Time
  BY MembershipAssumption DEF Time

LEMMA BroadcastType ==
  ASSUME TypeOK, NEW to, NEW gone \in SUBSET Client
  PROVE  Broadcast(to, gone) \in [Console -> SUBSET Client]
  BY DEF TypeOK, Broadcast

\* The host's list only gets shorter, and so do the kicks to be told.
LEMMA BroadcastRemoved ==
  ASSUME TypeOK, KicksAreRemoved, NEW to, NEW gone \in SUBSET Client,
         players'[Host] \subseteq players[Host], players'[Host] \cap gone = {},
         kicks' = Broadcast(to, gone)
  PROVE  KicksAreRemoved'
<1> SUFFICES ASSUME NEW c \in Client PROVE kicks'[c] \cap players'[Host] = {}
  BY DEF KicksAreRemoved, Host
<1>1. kicks'[c] \subseteq kicks[c] \cup gone  BY Ids DEF Broadcast
<1>2. kicks[c] \cap players[Host] = {}  BY DEF KicksAreRemoved
<1> QED  BY <1>1, <1>2

-----------------------------------------------------------------------------
(* The type invariant, one step per action.                                 *)

LEMMA InitType == Init => TypeOK
<1> SUFFICES ASSUME Init PROVE TypeOK  OBVIOUS
<1>1. \A c \in Console : nAck[c] \in [Watched(c) -> Time \cup {Never}]
  BY DEF Init, Unheard
<1> QED  BY <1>1, LastIsTime, Ids DEF Init, TypeOK

LEMMA LeaveType ==
  ASSUME TypeOK, NEW c \in Console, Leave(c)
  PROVE  TypeOK'
<1>1. Unheard(c) \in [Watched(c) -> Time \cup {Never}]  BY DEF Unheard
<1>2. \A d \in Console : nAck'[d] \in [Watched(d) -> Time \cup {Never}]
  BY <1>1 DEF TypeOK, Leave
<1> QED  BY <1>2, LastIsTime DEF TypeOK, Leave

LEMMA ConnectType ==
  ASSUME TypeOK, NEW c \in Console, NEW H \in SUBSET Audible(c), NEW K \in SUBSET kicks[c],
         PerformInitialConnection(c, H, K)
  PROVE  TypeOK'
<1>1. /\ players[c] \subseteq Console /\ heard[c] \subseteq Console
      /\ H \subseteq Console /\ kicks[c] \subseteq Client
  BY DEF TypeOK, Audible
<1> DEFINE known == (heard[c] \cup H \cup (IF K # {} THEN {Host} ELSE {})) \ K
<1>2. known \subseteq Console  BY <1>1, Ids
<1>3. players' \in [Console -> SUBSET Console] /\ heard' \in [Console -> SUBSET Console]
  BY <1>1, <1>2 DEF TypeOK, PerformInitialConnection
<1>4. kicks' \in [Console -> SUBSET Client]
  BY <1>1 DEF TypeOK, PerformInitialConnection
<1>5. phase' \in [Console -> {"connecting", "grace", "playing", "left"}]
  BY DEF TypeOK, PerformInitialConnection
<1>6. UNCHANGED <<time, nAck>>  BY DEF PerformInitialConnection
<1> QED  BY <1>3, <1>4, <1>5, <1>6 DEF TypeOK

LEMMA FrameType ==
  ASSUME TypeOK, NEW c \in Console, NEW R \in SUBSET Sending(c), NEW K \in SUBSET kicks[c],
         Frame(c, R, K)
  PROVE  TypeOK'
<1> DEFINE now == Next16(time[c])
           here == players[c] \ K
           acks == [p \in Watched(c) |-> IF p \in R THEN now ELSE nAck[c][p]]
           late == IF phase[c] = "grace" THEN {}
                   ELSE {p \in here \cap Watched(c) : TooOld(now, acks[p])}
           gone == Erased(here, late)
<1>1. CASE Leave(c)  BY <1>1, LeaveType
<1>2. CASE ~Leave(c)
  <2>1. /\ UNCHANGED phase /\ time' = [time EXCEPT ![c] = now]
        /\ nAck' = [nAck EXCEPT ![c] = Forget(acks, gone)]
        /\ \/ /\ c = Host
              /\ players' = [players EXCEPT ![c] = here \ gone]
              /\ heard' = [heard EXCEPT ![c] = @ \ gone]
              /\ kicks' = Broadcast(here \ gone, gone)
           \/ /\ c # Host
              /\ players' = [players EXCEPT ![c] = here]
              /\ heard' = [heard EXCEPT ![c] = @ \ K]
              /\ kicks' = [kicks EXCEPT ![c] = @ \ K]
    BY <1>2 DEF Frame
  <2>2. now \in Time  BY NextIsTime DEF TypeOK
  <2>3. nAck[c] \in [Watched(c) -> Time \cup {Never}]  BY DEF TypeOK
  <2>4. acks \in [Watched(c) -> Time \cup {Never}]  BY <2>2, <2>3
  <2> HIDE DEF acks, late, gone
  <2>5. Forget(acks, gone) \in [Watched(c) -> Time \cup {Never}]  BY <2>4 DEF Forget
  <2>6. \A d \in Console : nAck'[d] \in [Watched(d) -> Time \cup {Never}]
    BY <2>1, <2>5 DEF TypeOK
  <2>7. players' \in [Console -> SUBSET Console] /\ heard' \in [Console -> SUBSET Console]
    BY <2>1 DEF TypeOK
  <2>8. c = Host => gone \subseteq Client
    BY ErasedIsLate DEF gone, late, Watched
  <2>9. kicks' \in [Console -> SUBSET Client]
    <3>1. CASE c = Host  BY <2>1, <2>8, <3>1, BroadcastType
    <3>2. CASE c # Host  BY <2>1, <3>2 DEF TypeOK
    <3> QED  BY <3>1, <3>2
  <2>10. DOMAIN nAck' = Console /\ time' \in [Console -> Time]
    BY <2>1, <2>2 DEF TypeOK
  <2>11. phase' \in [Console -> {"connecting", "grace", "playing", "left"}]
    BY <2>1 DEF TypeOK
  <2> QED  BY <2>6, <2>7, <2>9, <2>10, <2>11 DEF TypeOK
<1> QED  BY <1>1, <1>2

LEMMA KickType ==
  ASSUME TypeOK, NEW p \in Client, MultigameKickPlayer(p)
  PROVE  TypeOK'
<1>1. kicks' \in [Console -> SUBSET Client]
  BY BroadcastType DEF MultigameKickPlayer
<1>2. nAck[Host] \in [Watched(Host) -> Time \cup {Never}]  BY Ids DEF TypeOK
<1>3. Forget(nAck[Host], {p}) \in [Watched(Host) -> Time \cup {Never}]
  BY <1>2 DEF Forget
<1>4. nAck' = [nAck EXCEPT ![Host] = Forget(nAck[Host], {p})]
  BY DEF MultigameKickPlayer
<1>5. /\ DOMAIN nAck' = Console
      /\ \A d \in Console : nAck'[d] \in [Watched(d) -> Time \cup {Never}]
  BY <1>3, <1>4 DEF TypeOK
<1>6. players' \in [Console -> SUBSET Console] /\ heard' \in [Console -> SUBSET Console]
  BY Ids DEF TypeOK, MultigameKickPlayer
<1>7. UNCHANGED <<phase, time>>  BY DEF MultigameKickPlayer
<1> QED  BY <1>1, <1>5, <1>6, <1>7 DEF TypeOK

-----------------------------------------------------------------------------
(* The steps keep the rest.                                                 *)

LEMMA LeaveFollows ==
  ASSUME IInv, NEW c \in Console, Leave(c)
  PROVE  FollowsHost' /\ KicksAreRemoved'
<1>1. /\ players' = [players EXCEPT ![c] = {}] /\ kicks' = [kicks EXCEPT ![c] = {}]
      /\ phase' = [phase EXCEPT ![c] = "left"]
  BY DEF Leave
<1>2. \A d \in Console : /\ players'[d] \subseteq players[d] /\ kicks'[d] \subseteq kicks[d]
                         /\ d # c => players'[d] = players[d] /\ phase'[d] = phase[d]
  BY <1>1 DEF IInv, TypeOK
<1>3. phase'[c] = "left"  BY <1>1 DEF IInv, TypeOK
<1>4. KicksAreRemoved'  BY <1>2, Ids DEF IInv, KicksAreRemoved, Host
<1>5. ASSUME NEW d \in Client, Running(d)' PROVE players'[Host] \ {d} \subseteq players'[d]
  <2>1. d # c /\ d \in Console  BY <1>3, <1>5, Ids DEF Running
  <2>2. Running(d)  BY <1>2, <1>5, <2>1 DEF Running
  <2> QED  BY <1>2, <2>1, <2>2, Ids DEF IInv, FollowsHost
<1> QED  BY <1>4, <1>5 DEF FollowsHost, Host, Client

\* A console that takes kicks, and whose other steps change nobody's list.
LEMMA KicksTaken ==
  ASSUME IInv, NEW c \in Console, NEW K \in SUBSET kicks[c], c = Host => K = {},
         players' = [players EXCEPT ![c] = players[c] \ K],
         kicks' = [kicks EXCEPT ![c] = kicks[c] \ K],
         \A d \in Console : Running(d)' => Running(d)
  PROVE  FollowsHost' /\ KicksAreRemoved'
<1>1. players'[Host] = players[Host]  BY Ids DEF IInv, TypeOK
<1>2. \A d \in Console : kicks'[d] \subseteq kicks[d]  BY DEF IInv, TypeOK
<1>3. KicksAreRemoved'  BY <1>1, <1>2, Ids DEF IInv, KicksAreRemoved, Host
<1>4. ASSUME NEW d \in Client, Running(d)' PROVE players'[Host] \ {d} \subseteq players'[d]
  <2>1. d \in Console /\ d # Host /\ players[Host] \ {d} \subseteq players[d]
    BY <1>4, Ids DEF IInv, FollowsHost
  <2>2. CASE d # c  BY <1>1, <2>1, <2>2 DEF IInv, TypeOK
  <2>3. CASE d = c
    <3>1. K \cap players[Host] = {}  BY <2>3 DEF IInv, KicksAreRemoved
    <3>2. players'[d] = players[d] \ K  BY <2>1, <2>3 DEF IInv, TypeOK
    <3> QED  BY <1>1, <2>1, <3>1, <3>2
  <2> QED  BY <2>2, <2>3
<1> QED  BY <1>3, <1>4 DEF FollowsHost, Host, Client

\* The host removes players and tells those who stay.
LEMMA HostRemoves ==
  ASSUME IInv, NEW gone \in SUBSET Client, NEW to,
         players' = [players EXCEPT ![Host] = players[Host] \ gone],
         kicks' = Broadcast(to, gone), UNCHANGED phase
  PROVE  FollowsHost' /\ KicksAreRemoved'
<1>1. players'[Host] = players[Host] \ gone  BY Ids DEF IInv, TypeOK
<1>2. KicksAreRemoved'  BY <1>1, BroadcastRemoved DEF IInv
<1>3. ASSUME NEW d \in Client, Running(d)' PROVE players'[Host] \ {d} \subseteq players'[d]
  <2>1. d \in Console /\ d # Host  BY Ids
  <2>2. players'[d] = players[d]  BY <2>1 DEF IInv, TypeOK
  <2>3. Running(d)  BY <1>3 DEF Running
  <2> QED  BY <1>1, <2>2, <2>3 DEF IInv, FollowsHost
<1> QED  BY <1>2, <1>3 DEF FollowsHost, Host, Client

LEMMA BroadcastSkipsHost ==
  ASSUME TypeOK, HostIsNotTold, NEW to \in SUBSET players[Host], NEW gone,
         players'[Host] \subseteq players[Host], kicks' = Broadcast(to, gone)
  PROVE  HostIsNotTold'
<1>1. Host \notin to  BY DEF HostIsNotTold
<1>2. kicks'[Host] = {}  BY <1>1, Ids DEF HostIsNotTold, Broadcast
<1> QED  BY <1>2 DEF HostIsNotTold, Host

\* Steps that add neither players nor kicks.
LEMMA NothingAdded ==
  ASSUME HostIsNotTold, players'[Host] \subseteq players[Host],
         kicks'[Host] \subseteq kicks[Host]
  PROVE  HostIsNotTold'
  BY DEF HostIsNotTold, Host

-----------------------------------------------------------------------------
(* Every action keeps the inductive invariant.                              *)

LEMMA InitInv == Init => IInv
<1> SUFFICES ASSUME Init PROVE IInv  OBVIOUS
<1>1. TypeOK  BY InitType
<1>2. \A c \in Console : players[c] = Console \ {c} /\ kicks[c] = {}  BY DEF Init
<1>3. FollowsHost  BY <1>2, Ids DEF FollowsHost
<1>4. KicksAreRemoved  BY <1>2, Ids DEF KicksAreRemoved
<1>5. HostIsNotTold  BY <1>2, Ids DEF HostIsNotTold
<1> QED  BY <1>1, <1>3, <1>4, <1>5 DEF IInv

LEMMA LeaveInv ==
  ASSUME IInv, NEW c \in Console, Leave(c)
  PROVE  IInv'
<1>1. players' = [players EXCEPT ![c] = {}] /\ kicks' = [kicks EXCEPT ![c] = {}]
  BY DEF Leave
<1>2. players'[Host] \subseteq players[Host] /\ kicks'[Host] \subseteq kicks[Host]
  BY <1>1, Ids DEF IInv, TypeOK
<1>3. HostIsNotTold'  BY <1>2, NothingAdded DEF IInv
<1>4. TypeOK'  BY LeaveType DEF IInv
<1> QED  BY <1>3, <1>4, LeaveFollows DEF IInv

\* The host takes no kicks, since it gets none.
LEMMA KicksTakenInv ==
  ASSUME IInv, TypeOK', NEW c \in Console, NEW K \in SUBSET kicks[c],
         players' = [players EXCEPT ![c] = players[c] \ K],
         kicks' = [kicks EXCEPT ![c] = kicks[c] \ K],
         \A d \in Console : Running(d)' => Running(d)
  PROVE  IInv'
<1>1. c = Host => K = {}  BY DEF IInv, HostIsNotTold
<1>2. players'[Host] \subseteq players[Host] /\ kicks'[Host] \subseteq kicks[Host]
  BY Ids DEF IInv, TypeOK
<1>3. HostIsNotTold'  BY <1>2, NothingAdded DEF IInv
<1> QED  BY <1>1, <1>3, KicksTaken DEF IInv

LEMMA HostRemovesInv ==
  ASSUME IInv, TypeOK', NEW gone \in SUBSET Client, NEW to \in SUBSET players[Host],
         players' = [players EXCEPT ![Host] = players[Host] \ gone],
         kicks' = Broadcast(to, gone), UNCHANGED phase
  PROVE  IInv'
<1>1. players'[Host] \subseteq players[Host]  BY Ids DEF IInv, TypeOK
<1>2. HostIsNotTold'  BY <1>1, BroadcastSkipsHost DEF IInv
<1> QED  BY <1>2, HostRemoves DEF IInv

LEMMA ConnectInv ==
  ASSUME IInv, NEW c \in Console, NEW H \in SUBSET Audible(c), NEW K \in SUBSET kicks[c],
         PerformInitialConnection(c, H, K)
  PROVE  IInv'
<1>1. TypeOK'  BY ConnectType DEF IInv
<1>2. /\ players' = [players EXCEPT ![c] = players[c] \ K]
      /\ kicks' = [kicks EXCEPT ![c] = kicks[c] \ K]
  BY DEF PerformInitialConnection
<1>3. ASSUME NEW d \in Console, Running(d)' PROVE Running(d)
  <2>1. phase[c] = "connecting"  BY DEF PerformInitialConnection
  <2>2. d # c => phase'[d] = phase[d]
    BY DEF PerformInitialConnection, IInv, TypeOK
  <2> QED  BY <1>3, <2>1, <2>2 DEF Running
<1> QED  BY <1>1, <1>2, <1>3, KicksTakenInv

LEMMA FrameInv ==
  ASSUME IInv, NEW c \in Console, NEW R \in SUBSET Sending(c), NEW K \in SUBSET kicks[c],
         Frame(c, R, K)
  PROVE  IInv'
<1> DEFINE now == Next16(time[c])
           here == players[c] \ K
           acks == [p \in Watched(c) |-> IF p \in R THEN now ELSE nAck[c][p]]
           late == IF phase[c] = "grace" THEN {}
                   ELSE {p \in here \cap Watched(c) : TooOld(now, acks[p])}
           gone == Erased(here, late)
<1>1. TypeOK'  BY FrameType DEF IInv
<1>2. CASE Leave(c)  BY <1>2, LeaveInv
<1>3. CASE ~Leave(c) /\ c = Host
  <2>1. /\ UNCHANGED phase
        /\ players' = [players EXCEPT ![Host] = here \ gone]
        /\ kicks' = Broadcast(here \ gone, gone)
    BY <1>3 DEF Frame
  <2>2. K = {}  BY <1>3 DEF IInv, HostIsNotTold
  <2>3. here = players[Host]  BY <1>3, <2>2
  <2>4. gone \subseteq Client  BY <1>3, ErasedIsLate DEF Watched
  <2> QED  BY <1>1, <2>1, <2>3, <2>4, HostRemovesInv
<1>4. CASE ~Leave(c) /\ c # Host
  <2>1. /\ UNCHANGED phase
        /\ players' = [players EXCEPT ![c] = players[c] \ K]
        /\ kicks' = [kicks EXCEPT ![c] = kicks[c] \ K]
    BY <1>4 DEF Frame
  <2>2. \A d \in Console : Running(d)' => Running(d)  BY <2>1 DEF Running
  <2> QED  BY <1>1, <2>1, <2>2, KicksTakenInv
<1> QED  BY <1>2, <1>3, <1>4

LEMMA KickInv ==
  ASSUME IInv, NEW p \in Client, MultigameKickPlayer(p)
  PROVE  IInv'
<1>1. TypeOK'  BY KickType DEF IInv
<1>2. /\ players' = [players EXCEPT ![Host] = players[Host] \ {p}]
      /\ kicks' = Broadcast(players[Host] \ {p}, {p}) /\ UNCHANGED phase
  BY DEF MultigameKickPlayer
<1> QED  BY <1>1, <1>2, HostRemovesInv

LEMMA NextInv == IInv /\ [Next]_vars => IInv'
<1> SUFFICES ASSUME IInv, [Next]_vars PROVE IInv'  OBVIOUS
<1>1. ASSUME NEW c \in Console, Connecting(c) PROVE IInv'
  BY <1>1, ConnectInv DEF Connecting
<1>2. ASSUME NEW c \in Console, GraceEnds(c) PROVE IInv'
  <2>1. phase' = [phase EXCEPT ![c] = "playing"] /\ phase[c] = "grace"
    BY <1>2 DEF GraceEnds
  <2>2. UNCHANGED <<players, heard, time, nAck, kicks>>  BY <1>2 DEF GraceEnds
  <2>3. TypeOK'  BY <2>1, <2>2 DEF IInv, TypeOK
  <2>4. \A d \in Client : Running(d)' => Running(d)
    BY <2>1, Ids DEF IInv, TypeOK, Running
  <2>5. FollowsHost'  BY <2>2, <2>4 DEF IInv, FollowsHost, Host, Client
  <2>6. KicksAreRemoved' /\ HostIsNotTold'
    BY <2>2 DEF IInv, KicksAreRemoved, HostIsNotTold, Host, Client
  <2> QED  BY <2>3, <2>5, <2>6 DEF IInv
<1>3. ASSUME NEW c \in Console, Playing(c) PROVE IInv'
  BY <1>3, FrameInv DEF Playing
<1>4. ASSUME NEW c \in Console, Close(c) PROVE IInv'
  BY <1>4, LeaveInv DEF Close
<1>5. CASE NoPeersConnected  BY <1>5, LeaveInv, Ids DEF NoPeersConnected
<1>6. ASSUME NEW p \in Client, MultigameKickPlayer(p) PROVE IInv'  BY <1>6, KickInv
<1>7. CASE UNCHANGED vars
  <2>1. UNCHANGED <<phase, players, heard, time, nAck, kicks>>  BY <1>7 DEF vars
  <2>2. TypeOK'  BY <2>1 DEF IInv, TypeOK
  <2>3. FollowsHost'  BY <2>1 DEF IInv, FollowsHost, Running, Host, Client
  <2>4. KicksAreRemoved' /\ HostIsNotTold'
    BY <2>1 DEF IInv, KicksAreRemoved, HostIsNotTold, Host, Client
  <2> QED  BY <2>2, <2>3, <2>4 DEF IInv
<1> QED  BY <1>1, <1>2, <1>3, <1>4, <1>5, <1>6, <1>7 DEF Next

-----------------------------------------------------------------------------
(* Theorems.                                                                *)

\* Time stamps stay 16-bit times, and only clients are ever kicked, for every
\* number of clients (UpdateZonePeersTimeouts, MultigameKickPlayer).
THEOREM TypeCorrect == Spec => []TypeOK
<1>1. Init => IInv  BY InitInv
<1>2. IInv /\ [Next]_vars => IInv'  BY NextInv
<1>3. IInv => TypeOK  BY DEF IInv
<1> QED  BY <1>1, <1>2, <1>3, PTL DEF Spec

\* A client never drops a player the host keeps, however frames, time-outs,
\* kicks and exits interleave (RemovePlayerFromGame, on_recv_kick_player).
THEOREM HostIsFollowed == Spec => []FollowsHost
<1>1. Init => IInv  BY InitInv
<1>2. IInv /\ [Next]_vars => IInv'  BY NextInv
<1>3. IInv => FollowsHost  BY DEF IInv
<1> QED  BY <1>1, <1>2, <1>3, PTL DEF Spec
=============================================================================
