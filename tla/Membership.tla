----------------------------- MODULE Membership -----------------------------
(***************************************************************************)
(* Who is in the game: the way into a session, time-outs, kicks and the    *)
(* way out (cMultiGame in MultiGame.cpp, cPeerManager in net/Peers.cpp,    *)
(* events/ev_base_mp.cpp).                                                 *)
(*                                                                         *)
(* Connect has run on every console: all have the host's list of players   *)
(* and number them alike, the host 0.  Each waits until it has heard every *)
(* other one, then plays.  In play the host drops a player it has not      *)
(* heard for a while and tells the rest; a client leaves when it does not  *)
(* hear the host.  Nobody joins later.                                     *)
(*                                                                         *)
(* A frame of a console is one action: what arrived is handled, the clock  *)
(* goes on, the time-outs are looked at.  A game state may be lost.  A     *)
(* kick is a Guaranteed message (module ReliableChannel): it comes at most *)
(* once, and comes if host and client both stay.  Kicks are about          *)
(* different players, so their order is left out.                          *)
(***************************************************************************)
EXTENDS Integers, FiniteSets, FiniteSetsExt

CONSTANTS
  N,                        \* number of clients
  TimeMod,                  \* 2^16, the range of a time
  MULTI_TIME_OUT_2,         \* ticks without a game state that are too many
  MULTI_ABORT_PLAYER_COUNT  \* players, the host among them, a game needs

ASSUME MembershipAssumption ==
  /\ N \in Nat \ {0} /\ TimeMod \in Nat \ {0}
  /\ MULTI_TIME_OUT_2 \in Nat /\ MULTI_ABORT_PLAYER_COUNT \in Nat

Host == 0
Client == 1 .. N
Console == 0 .. N
Time == 0 .. TimeMod - 1
Never == -1   \* no acknowledgement yet: acks is empty, whatever m_nCurTime is

\* The time-outs of others decide nothing: a client looks at the host only.
Watched(c) == IF c = Host THEN Client ELSE {Host}

VARIABLES
  phase,    \* "connecting", "grace" (connected, the first 25 seconds since
            \* Open not over), "playing", "left"
  players,  \* m_vPlayers without the console itself
  heard,    \* players whose bCheckSender is set
  time,     \* m_nUpdateSendTime
  nAck,     \* m_nCurTime of a player, or Never
  kicks     \* kick messages under way to a console

vars == <<phase, players, heard, time, nAck, kicks>>

InPlay(c) == phase[c] \in {"grace", "playing"}
Running(c) == phase[c] # "left"

TypeOK ==
  /\ phase \in [Console -> {"connecting", "grace", "playing", "left"}]
  /\ players \in [Console -> SUBSET Console]
  /\ heard \in [Console -> SUBSET Console]
  /\ time \in [Console -> Time]
  /\ DOMAIN nAck = Console
  /\ \A c \in Console : nAck[c] \in [Watched(c) -> Time \cup {Never}]
  /\ kicks \in [Console -> SUBSET Client]

Unheard(c) == [p \in Watched(c) |-> Never]

Init ==
  /\ phase = [c \in Console |-> "connecting"]
  /\ players = [c \in Console |-> Console \ {c}]
  /\ heard = [c \in Console |-> {}]
  /\ time = [c \in Console |-> TimeMod - 1]
  /\ nAck = [c \in Console |-> Unheard(c)]
  /\ kicks = [c \in Console |-> {}]

-----------------------------------------------------------------------------
(* Getting in.                                                              *)

\* A mutant: heart beats are sent in play only.
Audible_InPlay(c) == {p \in players[c] : InPlay(p) /\ c \in players[p]}

\* Players whose heart beat can reach c; it is repeated until c has it.
Audible(c) == {p \in players[c] : Running(p) /\ c \in players[p]}

\* One call: the heart beats of H and the kicks K arrive, then c looks
\* whether everyone left has been heard.  The 25 seconds count from Open and
\* may be over by then.
PerformInitialConnection(c, H, K) ==
  LET here == players[c] \ K
      known == (heard[c] \cup H \cup (IF K # {} THEN {Host} ELSE {})) \ K
  IN  /\ phase[c] = "connecting"
      /\ players' = [players EXCEPT ![c] = here]
      /\ heard' = [heard EXCEPT ![c] = known]
      /\ kicks' = [kicks EXCEPT ![c] = @ \ K]
      /\ IF here \subseteq known
         THEN \E f \in {"grace", "playing"} : phase' = [phase EXCEPT ![c] = f]
         ELSE UNCHANGED phase
      /\ UNCHANGED <<time, nAck>>

GraceEnds(c) ==
  /\ phase[c] = "grace"
  /\ phase' = [phase EXCEPT ![c] = "playing"]
  /\ UNCHANGED <<players, heard, time, nAck, kicks>>

-----------------------------------------------------------------------------
(* Getting out.                                                             *)

\* Close, after an error or because the player leaves.  Nobody is told.
Leave(c) ==
  /\ phase' = [phase EXCEPT ![c] = "left"]
  /\ players' = [players EXCEPT ![c] = {}]
  /\ heard' = [heard EXCEPT ![c] = {}]
  /\ time' = [time EXCEPT ![c] = TimeMod - 1]
  /\ nAck' = [nAck EXCEPT ![c] = Unheard(c)]
  /\ kicks' = [kicks EXCEPT ![c] = {}]

Close(c) == Running(c) /\ Leave(c)

\* ProcessMultiGame: the host is alone.
NoPeersConnected ==
  /\ InPlay(Host)
  /\ Cardinality(players[Host]) + 1 < MULTI_ABORT_PLAYER_COUNT
  /\ Leave(Host)

-----------------------------------------------------------------------------
(* Frames.                                                                  *)

\* A mutant: the time is kept in an int.
Next16_NoWrap(t) == t + 1

Next16(t) == (t + 1) % TimeMod

\* A mutant: a player without acknowledgements is left alone.
TooOld_NotEmpty(now, ack) == ack # Never /\ now - ack > MULTI_TIME_OUT_2

\* The difference is taken in int: it is negative once the clock has wrapped.
TooOld(now, ack) == ack = Never \/ now - ack > MULTI_TIME_OUT_2

\* The loop of UpdateZonePeersTimeouts erases the player it stands at and
\* goes on to the next index, which skips the one behind.
Erased(here, late) ==
  LET removed[p \in Client] ==
        LET before == {q \in here : q < p}
        IN  p \in late /\ (before # {} => ~removed[Max(before)])
  IN  {p \in late : removed[p]}

\* A mutant: the message goes to those it is about.
Broadcast_ToThem(to, gone) ==
  [q \in Console |-> IF q \in gone /\ Running(q) THEN kicks[q] \cup gone ELSE kicks[q]]

\* A message to the broadcast group: a console that has left reads no more.
Broadcast(to, gone) ==
  [q \in Console |-> IF q \in to /\ Running(q) THEN kicks[q] \cup gone ELSE kicks[q]]

\* sPeerState goes with the player.
Forget(acks, gone) == [p \in DOMAIN acks |-> IF p \in gone THEN Never ELSE acks[p]]

\* Players whose game states can reach c.
Sending(c) == {p \in players[c] \cap Watched(c) : InPlay(p) /\ c \in players[p]}

\* UpdateReceive takes the game states of R and the kicks K; UpdateSend looks
\* at the time-outs.
Frame(c, R, K) ==
  LET now == Next16(time[c])
      here == players[c] \ K
      acks == [p \in Watched(c) |-> IF p \in R THEN now ELSE nAck[c][p]]
      late == IF phase[c] = "grace" THEN {}
              ELSE {p \in here \cap Watched(c) : TooOld(now, acks[p])}
      gone == Erased(here, late)
  IN  /\ InPlay(c)
      /\ \/ c # Host /\ Leave(c) /\ Host \in late
         \/ /\ UNCHANGED phase
            /\ time' = [time EXCEPT ![c] = now]
            /\ c = Host \/ Host \notin late
            /\ nAck' = [nAck EXCEPT ![c] = Forget(acks, gone)]
            /\ IF c = Host
               THEN /\ players' = [players EXCEPT ![c] = here \ gone]
                    /\ heard' = [heard EXCEPT ![c] = @ \ gone]
                    /\ kicks' = Broadcast(here \ gone, gone)
               ELSE /\ players' = [players EXCEPT ![c] = here]
                    /\ heard' = [heard EXCEPT ![c] = @ \ K]
                    /\ kicks' = [kicks EXCEPT ![c] = @ \ K]

\* A mutant: the host tells the others, but keeps the player itself.
MultigameKickPlayer_Kept(p) ==
  /\ InPlay(Host) /\ p \in players[Host]
  /\ kicks' = Broadcast(players[Host] \ {p}, {p})
  /\ UNCHANGED <<phase, players, heard, time, nAck>>

\* The chat command of the host, or the request of a player to the host: the
\* message is queued first, but sent only after p has left the group.
MultigameKickPlayer(p) ==
  /\ InPlay(Host) /\ p \in players[Host]
  /\ players' = [players EXCEPT ![Host] = @ \ {p}]
  /\ heard' = [heard EXCEPT ![Host] = @ \ {p}]
  /\ nAck' = [nAck EXCEPT ![Host] = Forget(@, {p})]
  /\ kicks' = Broadcast(players[Host] \ {p}, {p})
  /\ UNCHANGED <<phase, time>>

-----------------------------------------------------------------------------
Connecting(c) ==
  \E H \in SUBSET Audible(c), K \in SUBSET kicks[c] : PerformInitialConnection(c, H, K)
Playing(c) ==
  \E R \in SUBSET Sending(c), K \in SUBSET kicks[c] : Frame(c, R, K)

Next ==
  \/ \E c \in Console : Connecting(c) \/ GraceEnds(c) \/ Playing(c) \/ Close(c)
  \/ NoPeersConnected
  \/ \E p \in Client : MultigameKickPlayer(p)

Spec == Init /\ [][Next]_vars

\* While both stay, Guaranteed messages come: heart beats and kicks.
HearsNew(c) == \E p \in Audible(c) \ heard[c] : PerformInitialConnection(c, {p}, {})
TakesKick(c) ==
  /\ Running(Host) /\ c \in players[Host]
  /\ \E p \in kicks[c] :
       PerformInitialConnection(c, {}, {p}) \/ \E R \in SUBSET Sending(c) : Frame(c, R, {p})

\* In play consoles run frames, and the 25 seconds end.
Fairness ==
  /\ \A c \in Console : WF_vars(HearsNew(c)) /\ WF_vars(GraceEnds(c)) /\ WF_vars(Playing(c))
  /\ \A c \in Client : WF_vars(TakesKick(c))

LiveSpec == Spec /\ Fairness

-----------------------------------------------------------------------------
(* Properties.                                                              *)

\* The players of the host are among the players of every client: a client
\* drops nobody on its own, however frames, kicks and exits interleave
\* (RemovePlayerFromGame on a client follows a removal by the host).
FollowsHost ==
  \A c \in Client : Running(c) => players[Host] \ {c} \subseteq players[c]

\* Whom the host removed, by time-out or kick, everybody it still plays with
\* removes in the end (kick_player, events/ev_base_mp.cpp): nobody goes on
\* seeing a player the others do not.
Agree ==
  \A c \in players[Host] : Running(c) => players[c] \ {Host} \subseteq players[Host]
Agreement == <>[]Agree

\* A player that plays no more, or has removed c, is silent for c for good.
Silent(c, p) == phase[p] = "left" \/ c \notin players[p]

\* The host notices in the end that a client is silent, and a client that the
\* host is: also a kicked player, who is told nothing, so leaves the game.
\* Not so for a player last heard in the last MULTI_TIME_OUT_2 ticks before
\* the 16-bit clock wraps (UpdateZonePeersTimeouts, MultiGame.cpp).
Unnoticed(c, p) ==
  /\ InPlay(c) /\ p \in players[c] /\ Silent(c, p)
  /\ nAck[c][p] + MULTI_TIME_OUT_2 < TimeMod - 1
SilenceIsNoticed == <>[](\A c \in Console : \A p \in Watched(c) : ~Unnoticed(c, p))

\* Everybody gets into the game, unless somebody leaves or is removed on the
\* way (PerformInitialConnection has no time-out).
AllGetIn ==
  <>[](\/ \A c \in Console : InPlay(c)
       \/ \E c \in Console : players[c] # Console \ {c})
=============================================================================
