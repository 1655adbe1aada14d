----------------------------- MODULE LobbyRoom ------------------------------
(***************************************************************************)
(* The lobby over the matching library: cAdhoc (net/Adhoc.cpp) from the    *)
(* moment the console is in the lobby group, and the two lobby pages       *)
(* (Lobby.cpp) that drive it: browsing the rooms and being in one.         *)
(*                                                                         *)
(* A console keeps a table of the consoles it has heard of (recv, written  *)
(* by the matching callbacks), a copy of it taken once a frame (shown,     *)
(* which the pages read), the slot of its room's host (server), a state    *)
(* (adhoc) and, when it hosts, the roster of its room by slot, which is    *)
(* what its hellos announce.  Callbacks and pages run on one thread.       *)
(* The choice of the game, teams and models is left out, and so is the     *)
(* start of the game (GameStart).                                          *)
(***************************************************************************)
EXTENDS Matching

CONSTANTS
  MaxHellos,  \* bound: hello events under way to a console
  NumPeers,   \* MP_NUM_PEERS: slots of the tables and of the roster
  None        \* the broadcast address: no console

ASSUME RoomAssumption == \A n \in Node : NumPeers = MaxPeers[n] + 1

VARIABLES
  adhoc,    \* "cancelall", "idle" or "ifnotjoined" (cAdhoc's state function)
  server,   \* m_nServerPeerID, -1 for none
  hoster,   \* m_LobbyHosterMacAddr, the room last asked for or joined
  isHost,   \* m_bHasStartedMatching
  recv,     \* m_aMatchingInfoRecv: slot -> state and address
  shown,    \* m_aMatchingInfo: slot -> state, as of the last frame
  roster,   \* m_nPeersConnInfo of the room this console hosts
  counted,  \* the connected players in the copy of that roster
  page      \* "browse" or "room"

avars == <<adhoc, server, hoster, isHost, recv, shown, roster, counted, page>>
vars == <<mvars, calls, avars>>

Slot == 0 .. NumPeers - 1
SlotState == {"disconnected", "pending", "helloed", "accepted", "selected", "joined"}
Nobody == [s \in Slot |-> None]
Empty == [s \in Slot |-> [state |-> "disconnected", mac |-> None]]
StatesOf(table) == [s \in Slot |-> table[s].state]

TypeOK ==
  /\ MatchingTypeOK
  /\ adhoc \in [Node -> {"cancelall", "idle", "ifnotjoined"}]
  /\ server \in [Node -> {-1} \cup Slot]
  /\ hoster \in [Node -> Node \cup {None}]
  /\ isHost \in [Node -> BOOLEAN]
  /\ recv \in [Node -> [Slot -> [state : SlotState, mac : Node \cup {None}]]]
  /\ shown \in [Node -> [Slot -> SlotState]]
  /\ roster \in [Node -> [Slot -> Node \cup {None}]]
  /\ counted \in [Node -> 0 .. NumPeers]
  /\ page \in [Node -> {"browse", "room"}]

HostTable == [Empty EXCEPT ![0].state = "joined"]
OwnPlace(n) == [Nobody EXCEPT ![0] = n]

Init ==
  /\ MatchingInit /\ calls = MaxCalls
  /\ adhoc = [n \in Node |-> IF n \in Hosts THEN "idle" ELSE "cancelall"]
  /\ server = [n \in Node |-> IF n \in Hosts THEN 0 ELSE -1]
  /\ hoster = [n \in Node |-> None]
  /\ isHost = [n \in Node |-> n \in Hosts]
  /\ recv = [n \in Node |-> IF n \in Hosts THEN HostTable ELSE Empty]
  /\ shown = [n \in Node |-> StatesOf(recv[n])]
  /\ roster = [n \in Node |-> IF n \in Hosts THEN OwnPlace(n) ELSE Nobody]
  /\ counted = [n \in Node |-> IF n \in Hosts THEN 1 ELSE 0]
  /\ page = [n \in Node |-> IF n \in Hosts THEN "room" ELSE "browse"]

-----------------------------------------------------------------------------
(* The tables.                                                             *)

Known(n, m) == {s \in Slot : recv[n][s].state # "disconnected" /\ recv[n][s].mac = m}
Free(n) == {s \in Slot : recv[n][s].state = "disconnected"}
Least(S) == CHOOSE s \in S : \A t \in S : s <= t

\* The slot of m: the one that has it, else the first free one, else none.
FindMacAddr(n, m) ==
  IF Known(n, m) # {} THEN Least(Known(n, m))
  ELSE IF Free(n) # {} THEN Least(Free(n)) ELSE -1

\* Mutant: the state is written whatever it is.
Found_Blank(n, m, st) ==
  recv' = [recv EXCEPT ![n][FindMacAddr(n, m)] = [state |-> st, mac |-> m]]

\* m's slot gets the state st ("" leaves the state that FindMacAddr found or
\* gave: a slot taken for a newcomer is pending).
Found(n, m, st) ==
  LET s == FindMacAddr(n, m)
      old == IF Known(n, m) # {} THEN recv[n][s].state ELSE "pending"
  IN recv' = [recv EXCEPT ![n][s] = [state |-> IF st = "" THEN old ELSE st, mac |-> m]]
SlotStateOf(n, m) == IF Known(n, m) # {} THEN recv[n][FindMacAddr(n, m)].state ELSE "pending"

-----------------------------------------------------------------------------
(* The callbacks, one event per frame: __NetMatchingCallbacks.             *)

MatchingRest == UNCHANGED <<mode, next, at, events, net, calls>>
AdhocRest == UNCHANGED <<adhoc, server, isHost, shown, counted, page>>
Leaves(n, s) == roster' = [roster EXCEPT ![n][s] = None]

\* A request is granted while the room is open, by selecting its sender.
OnJoin(n, m) ==
  LET open == adhoc[n] = "idle" /\ counted[n] < NumPeers IN
  /\ UNCHANGED roster
  /\ CASE open /\ SelectSucceeds(n, m) ->
            SelectTarget(n, m) /\ Found(n, m, "accepted")
       [] ~open /\ CancelConcerns(n, m) ->
            CancelTarget(n, m) /\ Found(n, m, "")
       [] OTHER -> Found(n, m, "") /\ UNCHANGED <<peers, input>>

\* Both LEFT / CANCEL and TIMEOUT / DISCONNECT free the slot, and the place of
\* a member that had joined.
OnGone(n, m) ==
  /\ Found(n, m, "disconnected")
  /\ IF SlotStateOf(n, m) = "joined" THEN Leaves(n, FindMacAddr(n, m)) ELSE UNCHANGED roster
  /\ UNCHANGED <<peers, input>>

OnMatchHost(n, e) ==
  CASE e.type = "request" -> OnJoin(n, e.mac)
    [] e.type \in {"leave", "cancel", "timeout", "bye"} -> OnGone(n, e.mac)
    [] e.type = "established" ->
         /\ Found(n, e.mac, "joined")
         /\ roster' = [roster EXCEPT ![n][FindMacAddr(n, e.mac)] = e.mac]
         /\ UNCHANGED <<peers, input>>
    [] OTHER -> Found(n, e.mac, "") /\ UNCHANGED <<roster, peers, input>>

\* Mutant: an answer is taken to be the server's, and a bye for the room's.
OnMatchClient_AtServer(n, e) ==
  LET atServer == FindMacAddr(n, e.mac) = server[n]
      joined == SlotStateOf(n, e.mac) = "joined"
  IN
  /\ UNCHANGED <<roster, peers, input>>
  /\ hoster' = [hoster EXCEPT ![n] = IF e.type = "established" THEN e.mac ELSE @]
  /\ CASE e.type = "hello" /\ ~joined -> Found(n, e.mac, "helloed")
       [] e.type = "established" -> recv' = [recv EXCEPT ![n][server[n]].state = "joined"]
       [] e.type \in {"bye", "deny"} /\ atServer -> Found(n, e.mac, "disconnected")
       [] OTHER -> Found(n, e.mac, "")

OnMatchClient(n, e) ==
  LET atServer == FindMacAddr(n, e.mac) = server[n]
      joined == SlotStateOf(n, e.mac) = "joined"
  IN
  /\ UNCHANGED <<roster, peers, input>>
  /\ hoster' = [hoster EXCEPT ![n] = IF e.type = "established" THEN e.mac ELSE @]
  /\ CASE e.type = "hello" /\ ~joined -> Found(n, e.mac, "helloed")
       [] e.type = "deny" /\ atServer -> Found(n, e.mac, "disconnected")
       [] e.type = "established" -> Found(n, e.mac, "joined")
       [] e.type = "bye" /\ (atServer \/ ~joined) -> Found(n, e.mac, "disconnected")
       [] OTHER -> Found(n, e.mac, "")

MatchingCallback(n) ==
  /\ MainReady(n) /\ pending[n] # <<>>
  /\ pending' = [pending EXCEPT ![n] = Tail(@)]
  /\ IF FindMacAddr(n, Head(pending[n]).mac) < 0 
     THEN UNCHANGED <<recv, hoster, roster, peers, input>>
     ELSE IF mode[n] = "parent" THEN OnMatchHost(n, Head(pending[n])) /\ UNCHANGED hoster
     ELSE OnMatchClient(n, Head(pending[n]))
  /\ MatchingRest /\ AdhocRest

-----------------------------------------------------------------------------
(* cAdhoc::Update, which every page calls once a frame.                    *)

StaysJoined(n) == server[n] # -1 /\ recv[n][server[n]].state = "joined"

\* Consoles that are joined though they are not the room that was asked for:
\* StateCancelAllTargets cancels them, wherever their slot is.
Strays(n) == IF adhoc[n] # "cancelall" THEN {}
             ELSE {s \in Slot : s # server[n] /\ recv[n][s].state = "joined"}
CancelStrays(n) ==
  LET concerned == {s \in Strays(n) : CancelConcerns(n, recv[n][s].mac)}
  IN IF concerned = {} THEN UNCHANGED <<peers, input>>
     ELSE CancelTarget(n, recv[n][Least(concerned)].mac)

\* The copy is taken first, then a room not heard of for GTA_DEFAULT_WAIT_TIME
\* frames is dropped from the table, then the state function reads the copy.
Update(n, aged) ==
  /\ shown' = [shown EXCEPT ![n] =
       [s \in Slot |-> IF s \in Strays(n) THEN "helloed" ELSE recv[n][s].state]]
  /\ counted' = [counted EXCEPT ![n] = Cardinality({s \in Slot : roster[n][s] # None})]
  /\ recv' = [recv EXCEPT ![n] =
       [s \in Slot |-> [mac |-> recv[n][s].mac, state |->
          IF s \in Strays(n) THEN "helloed"
          ELSE IF s \in aged THEN "disconnected" ELSE recv[n][s].state]]]
  /\ adhoc' = [adhoc EXCEPT ![n] =
       IF adhoc[n] = "cancelall" /\ StaysJoined(n) THEN "ifnotjoined" ELSE @]
  /\ CancelStrays(n)

-----------------------------------------------------------------------------
(* The pages: one frame each.                                              *)

Press(n) == calls[n] > 0 /\ calls' = [calls EXCEPT ![n] = @ - 1]
ThreadsRest == UNCHANGED <<mode, at, events, pending, net>>

\* The room has gone: the state function goes back to StateCancelAllTargets
\* and the page of the room is left in the same frame.
RoomLost(n) == adhoc[n] = "ifnotjoined" /\ ~StaysJoined(n)

\* HandleMainGameState and HandleJoinGameState, or HandleHostGameState, with
\* no key: a client whose room accepted it goes to the page of the room.
Frame(n) ==
  /\ MainReady(n) /\ ~RoomLost(n)
  /\ \E aged \in SUBSET {s \in Slot : recv[n][s].state = "helloed"} :
       Cardinality(aged) <= 1 /\ Update(n, aged)
  /\ page' = [page EXCEPT ![n] = IF adhoc'[n] = "cancelall" THEN "browse" ELSE "room"]
  /\ UNCHANGED <<next, calls, server, hoster, isHost, roster>> /\ ThreadsRest

\* SelectServer: the slot is judged by the copy, its address is the table's.
SelectServer(n, s) ==
  /\ MainReady(n) /\ page[n] = "browse" /\ Press(n)
  /\ shown[n][s] = "helloed" /\ recv[n][s].mac # None /\ SelectSucceeds(n, recv[n][s].mac)
  /\ SelectTarget(n, recv[n][s].mac)
  /\ recv' = [recv EXCEPT ![n][s].state = "selected"]
  /\ server' = [server EXCEPT ![n] = s]
  /\ hoster' = [hoster EXCEPT ![n] = recv[n][s].mac]
  /\ UNCHANGED <<next, adhoc, isHost, shown, roster, counted, page>> /\ ThreadsRest

\* StartHosting on the browse page: slot 0 becomes the console's own, with the
\* address that was in it, and the rest of the table is kept.
StartHosting(n) ==
  /\ MainReady(n) /\ page[n] = "browse" /\ Press(n)
  /\ recv' = [recv EXCEPT ![n][0].state = "joined"]
  /\ shown' = [shown EXCEPT ![n][0] = "joined"]
  /\ roster' = [roster EXCEPT ![n] = OwnPlace(n)]
  /\ counted' = [counted EXCEPT ![n] = 1]
  /\ server' = [server EXCEPT ![n] = 0]
  /\ isHost' = [isHost EXCEPT ![n] = TRUE]
  /\ adhoc' = [adhoc EXCEPT ![n] = "idle"]
  /\ page' = [page EXCEPT ![n] = "room"]
  /\ Stop(n, "parent") /\ UNCHANGED <<hoster, peers, input>> /\ ThreadsRest

\* StartListening: a new client context and empty tables.
StartListening(n) ==
  /\ Stop(n, "child")
  /\ recv' = [recv EXCEPT ![n] = Empty]
  /\ shown' = [shown EXCEPT ![n] = StatesOf(Empty)]
  /\ roster' = [roster EXCEPT ![n] = Nobody]
  /\ counted' = [counted EXCEPT ![n] = 0]
  /\ server' = [server EXCEPT ![n] = -1]
  /\ isHost' = [isHost EXCEPT ![n] = FALSE]
  /\ adhoc' = [adhoc EXCEPT ![n] = "cancelall"]
  /\ page' = [page EXCEPT ![n] = "browse"]

\* CancelMatchingTarget: back was pressed (or the room's information did not
\* come for MAX_LOBBY_WAIT_DELAY), or the room was lost.
CancelMatchingTarget(n) ==
  LET target == IF server[n] = -1 THEN None ELSE recv[n][server[n]].mac
      asks == server[n] # -1 /\ ~RoomLost(n) /\ ~isHost[n] /\ target # None
  IN
  /\ MainReady(n)
  /\ IF RoomLost(n) THEN UNCHANGED calls ELSE Press(n)
  /\ IF asks /\ CancelConcerns(n, target) THEN CancelTarget(n, target)
     ELSE UNCHANGED <<peers, input>>
  /\ StartListening(n) /\ UNCHANGED hoster /\ ThreadsRest

SwitchOff(n) ==
  /\ Press(n) /\ (Crash(n) \/ (Running(n) /\ Stop(n, "off")
                   /\ UNCHANGED <<mode, peers, at, input, events, pending, net>>))
  /\ UNCHANGED avars

\* Bound: hello events under way to a console.
HellosBounded ==
  \A n \in Node :
    Len(SelectSeq(events[n] \o pending[n], LAMBDA e : e.type = "hello")) <= MaxHellos

Next ==
  \E n \in Node :
    \/ Threads(n) /\ HellosBounded' /\ UNCHANGED <<calls, avars>>
    \/ MatchingCallback(n) \/ Frame(n) \/ StartHosting(n) \/ CancelMatchingTarget(n)
    \/ SwitchOff(n)
    \/ \E s \in Slot : SelectServer(n, s)

Spec == Init /\ [][Next]_vars

-----------------------------------------------------------------------------
(* Properties.                                                             *)

\* A console asks for a room only when no answer of an earlier room waits for its
\* callbacks.
AnswerWaits(n) == \E e \in Range(events[n]) \cup Range(pending[n]) : e.type = "established"
Prompt == \A n \in Node : \A s \in Slot : SelectServer(n, s) => ~AnswerWaits(n)

\* The room a client is in is the one it asked for last.  A request names a
\* console, m_nServerPeerID a slot of the table; while the answer is under way
\* the slot may be aged out and given to another room, and the answer marks
\* whatever slot its sender has by then.  It takes Prompt: events leave the
\* library last in first out, so the "established" of a room that closed while its
\* answer was under way may be handed out after that of the next one, and names
\* the wrong host.  (Prompt holds in the run, where the client asks once.)
RoomIsAsked ==
  \A n \in Node : adhoc[n] = "ifnotjoined" /\ StaysJoined(n) => recv[n][server[n]].mac = hoster[n]
=============================================================================
