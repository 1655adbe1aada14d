----------------------------- MODULE GameStart ------------------------------
(***************************************************************************)
(* The start of a game, and the way back: the group states of cAdhoc       *)
(* (net/Adhoc.cpp) over the control library, and the start page of the     *)
(* host with the room page of its clients (Lobby.cpp).                     *)
(*                                                                         *)
(* The host sends the start packet to the members of its room one by one.  *)
(* Host and clients then leave the lobby's group; the host creates the     *)
(* group of the game, whose name the packet carried, and the clients scan  *)
(* until they find it.  When the game is left all return to the lobby.     *)
(*                                                                         *)
(* The room and its members are LobbyRoom's; here a console is in the      *)
(* host's room (it listens for the start packet) or is not.  The streams   *)
(* over which the packet is sent are external: a connection succeeds when  *)
(* the client listens, and what it sent is there until it stops.           *)
(***************************************************************************)
EXTENDS AdhocCtl

CONSTANTS
  Host,       \* the console whose room it is
  Client,     \* consoles that enter that room; others stay in the lobby
  Lobby,      \* the name of the lobby's group, m_sGameRoom
  Game,       \* the name of the game's group, m_sGroupName
  MaxScans,   \* GTA_SCAN_ATTEMPT_COUNT
  MaxDrops,   \* bound: time-outs of the server
  MaxEntries, \* bound: times a room is entered, or the lobby again
  MaxStarts   \* bound: times the host presses start

ASSUME GroupsAssumption ==
  /\ Host \in Console /\ Client \subseteq Console \ {Host}
  /\ Name = {Lobby, Game} /\ Lobby # Game /\ MaxScans \in Nat \ {0}

VARIABLES
  adhoc,    \* cAdhoc's state function
  flags,    \* bConnEvent, bDisconnEvent, bScanEvent, bHasError
  scans,    \* m_nScanAttemptCount
  inRoom,   \* clients in the host's room: m_nSocketID_2 listens
  start,    \* clients that have a start packet to read
  roster,   \* m_remoteInfo's members while the start page is up, else {}
  told,     \* m_aConnections
  link,     \* the client m_nSocketID_1 of the host is open to, or None
  drops, entries, starts

avars == <<adhoc, flags, scans>>
hvars == <<inRoom, start, roster, told, link>>
bounds == <<drops, entries, starts>>
vars == <<cvars, avars, hvars, bounds>>

AdhocState == {"lobbyconnect", "lobby", "creategame", "scan", "join", "ingame",
               "leaving", "shutdown"}

TypeOK ==
  /\ CtlTypeOK
  /\ adhoc \in [Console -> AdhocState]
  /\ flags \in [Console -> SUBSET Event]
  /\ scans \in [Console -> 0 .. MaxScans]
  /\ start \subseteq inRoom /\ inRoom \subseteq Client
  /\ told \subseteq roster /\ roster \subseteq Client
  /\ link \in told \cup {None}

Init ==
  /\ CtlInit(Lobby)
  /\ adhoc = [c \in Console |-> "lobby"]
  /\ flags = [c \in Console |-> {"connect"}]
  /\ scans = [c \in Console |-> 0]
  /\ inRoom = {} /\ start = {} /\ roster = {} /\ told = {} /\ link = None
  /\ drops = 0 /\ entries = 0 /\ starts = 0

-----------------------------------------------------------------------------
(* What the states have in common.                                         *)

Becomes(c, s) == adhoc' = [adhoc EXCEPT ![c] = s]
ResetEventsFlags(c) == flags' = [flags EXCEPT ![c] = {}]

\* TerminateWithError, with m_sExitReason left out.
Terminate(c) == Term(c) /\ Becomes(c, "shutdown")

\* A call that fails ends the library.  Where the code then sets its next
\* state all the same, that state is the second one.
Calls(c, r, s, onError) ==
  IF Accepts(c) THEN Call(c, r) /\ Becomes(c, s) ELSE Term(c) /\ Becomes(c, onError)
Connect(c, g, s, onError) == Calls(c, [op |-> "connect", name |-> g], s, onError)
Scan(c, onError) == Calls(c, [op |-> "scan"], "scan", onError)

\* sceNetAdhocctlDisconnect of OnStartGame and of cAdhoc::Disconnect.
DisconnectTo(c, s) ==
  /\ ResetEventsFlags(c) /\ UNCHANGED scans
  /\ IF busy[c] THEN Terminate(c) ELSE Disconnect(c) /\ Becomes(c, s)

OnStartGame(c) == DisconnectTo(c, "creategame")

-----------------------------------------------------------------------------
(* The state functions, once per frame.                                    *)

StateConnectLobbyGroup(c) ==
  /\ adhoc[c] = "lobbyconnect"
  /\ IF "error" \in flags[c] THEN Terminate(c)
     ELSE "connect" \in flags[c] /\ Becomes(c, "lobby") /\ UNCHANGED cvars
  /\ UNCHANGED <<flags, scans>>

\* Mutant: does not wait for the event that the old group has been left.
StateCreateGameGroup_AtOnce(c) ==
  /\ adhoc[c] = "creategame" /\ ResetEventsFlags(c)
  /\ IF c = Host THEN Connect(c, Game, "join", "join") /\ UNCHANGED scans
     ELSE Scan(c, "scan") /\ scans' = [scans EXCEPT ![c] = 0]

\* Mutant: the host opens the room's group again.
StateCreateGameGroup_Lobby(c) ==
  /\ adhoc[c] = "creategame" /\ "disconnect" \in flags[c]
  /\ ResetEventsFlags(c)
  /\ IF c = Host THEN Connect(c, Lobby, "join", "join") /\ UNCHANGED scans
     ELSE Scan(c, "scan") /\ scans' = [scans EXCEPT ![c] = 0]

StateCreateGameGroup(c) ==
  /\ adhoc[c] = "creategame"
  /\ IF "disconnect" \in flags[c]
     THEN /\ ResetEventsFlags(c)
          /\ IF c = Host THEN Connect(c, Game, "join", "join") /\ UNCHANGED scans
             ELSE Scan(c, "scan") /\ scans' = [scans EXCEPT ![c] = 0]
     ELSE "error" \in flags[c] /\ Terminate(c) /\ UNCHANGED <<flags, scans>>

\* GetScanInfo is given room for one network: the first of the list is all
\* that the game looks at.
Matches(c) == ctl[c] # "connected" /\ networks[c] # <<>> /\ Head(networks[c]) = Game

\* Mutant: an empty list is not counted as an attempt.
StateAttemptGameScan_Uncounted(c) ==
  /\ adhoc[c] = "scan" /\ "scan" \in flags[c] /\ ResetEventsFlags(c)
  /\ IF Matches(c) THEN Connect(c, Game, "join", "shutdown") ELSE Scan(c, "shutdown")
  /\ UNCHANGED scans

StateAttemptGameScan(c) ==
  /\ adhoc[c] = "scan"
  /\ \/ "error" \in flags[c] /\ Terminate(c) /\ UNCHANGED <<flags, scans>>
     \/ /\ "error" \notin flags[c] /\ "scan" \in flags[c] /\ ResetEventsFlags(c)
        /\ \/ Matches(c) /\ Connect(c, Game, "join", "shutdown") /\ UNCHANGED scans
           \/ /\ ~Matches(c) /\ scans' = [scans EXCEPT ![c] = @ + 1]
              /\ IF scans[c] + 1 < MaxScans THEN Scan(c, "shutdown") ELSE Terminate(c)

StateHandleError(c) ==
  /\ adhoc[c] = "join"
  /\ IF "error" \in flags[c] THEN Terminate(c)
     ELSE "connect" \in flags[c] /\ Becomes(c, "ingame") /\ UNCHANGED cvars
  /\ UNCHANGED <<flags, scans>>

StateLobbyConnect(c) ==
  /\ adhoc[c] = "leaving"
  /\ IF "disconnect" \in flags[c]
     THEN ResetEventsFlags(c) /\ Connect(c, Lobby, "lobbyconnect", "shutdown")
     ELSE "error" \in flags[c] /\ Terminate(c) /\ UNCHANGED flags
  /\ UNCHANGED scans

NextState(c) ==
  /\ Ready(c)
  /\ \/ StateConnectLobbyGroup(c) \/ StateCreateGameGroup(c) \/ StateAttemptGameScan(c)
     \/ StateHandleError(c) \/ StateLobbyConnect(c)
  /\ UNCHANGED <<hvars, bounds>>

\* ScanHandler: each event raises its flag.
ScanHandler(c) ==
  /\ Ready(c) /\ Callback(c)
  /\ flags' = [flags EXCEPT ![c] = @ \cup {Head(events[c])}]
  /\ UNCHANGED <<adhoc, scans, hvars, bounds>>

Library(c) ==
  /\ Serve(c) \/ FriendFinder(c) \/ LoseServer(c) \/ LogIn(c) \/ SendRequest(c)
  /\ UNCHANGED <<avars, hvars, bounds>>

-----------------------------------------------------------------------------
(* The pages.                                                              *)

\* A client enters the room, and it may leave it.
EnterRoom(c) ==
  /\ c \in Client \ inRoom /\ adhoc[c] = "lobby" /\ entries < MaxEntries
  /\ inRoom' = inRoom \cup {c} /\ entries' = entries + 1
  /\ UNCHANGED <<cvars, avars, start, roster, told, link, drops, starts>>

\* Mutant: the packet is still read after the room was left.
LeaveRoom_KeepsStart(c) ==
  /\ c \in inRoom /\ inRoom' = inRoom \ {c}
  /\ UNCHANGED <<cvars, avars, start, roster, told, link, bounds>>

LeaveRoom(c) ==
  /\ c \in inRoom
  /\ inRoom' = inRoom \ {c} /\ start' = start \ {c}
  /\ UNCHANGED <<cvars, avars, roster, told, link, bounds>>

ClosePage == roster' = {} /\ told' = {} /\ link' = None

\* The start button of HandleHostGameState.
PressStart ==
  /\ roster = {} /\ adhoc[Host] = "lobby" /\ inRoom # {} /\ starts < MaxStarts
  /\ roster' = inRoom /\ told' = {} /\ link' = None /\ starts' = starts + 1
  /\ UNCHANGED <<cvars, avars, inRoom, start, drops, entries>>

\* HandleHostStartGameState.  A member counts as told once its socket is open.
OpenTo(m) ==
  /\ link = None /\ m \in roster \ told
  /\ told' = told \cup {m} /\ link' = m
  /\ UNCHANGED <<cvars, avars, inRoom, start, roster, bounds>>

SendStart ==
  /\ link \in inRoom
  /\ start' = start \cup {link} /\ link' = None
  /\ UNCHANGED <<cvars, avars, inRoom, roster, told, bounds>>

\* Fifty frames with errors: the page is left, the host stays in the lobby.
GiveUp ==
  /\ link # None /\ link \notin inRoom /\ ClosePage
  /\ UNCHANGED <<cvars, avars, inRoom, start, bounds>>

Back ==
  /\ roster # {} /\ Ready(Host) /\ Terminate(Host) /\ ClosePage
  /\ UNCHANGED <<flags, scans, inRoom, start, bounds>>

AllTold ==
  /\ roster # {} /\ told = roster /\ link = None /\ Ready(Host)
  /\ OnStartGame(Host) /\ ClosePage
  /\ UNCHANGED <<inRoom, start, bounds>>

\* The end of UpdateClient: the client reads the packet and starts.
ReceiveStart(c) ==
  /\ c \in start /\ Ready(c) /\ OnStartGame(c)
  /\ inRoom' = inRoom \ {c} /\ start' = start \ {c}
  /\ UNCHANGED <<roster, told, link, bounds>>

\* cAdhoc::Disconnect, when the game is left.
LeaveGame(c) ==
  /\ adhoc[c] = "ingame" /\ Ready(c) /\ DisconnectTo(c, "leaving")
  /\ UNCHANGED <<hvars, bounds>>

\* Configure and StateInitialise, once the server has seen the end of the last
\* connection: the library logs in and asks for the lobby's group.
StateInitialise(c) ==
  /\ adhoc[c] = "shutdown" /\ ~up[c] /\ Ready(c) /\ entries < MaxEntries
  /\ Fresh(c)
  /\ busy' = [busy EXCEPT ![c] = TRUE]
  /\ request' = [request EXCEPT ![c] = [op |-> "connect", name |-> Lobby]]
  /\ Becomes(c, "lobbyconnect") /\ ResetEventsFlags(c) /\ entries' = entries + 1
  /\ UNCHANGED <<events, friends, found, networks, scans, hvars, drops, starts>>

Drop(c) ==
  /\ drops < MaxDrops /\ drops' = drops + 1 /\ TimeOut(c)
  /\ UNCHANGED <<avars, hvars, entries, starts>>

Pages ==
  \/ PressStart \/ SendStart \/ GiveUp \/ Back \/ AllTold
  \/ \E c \in Console : EnterRoom(c) \/ LeaveRoom(c) \/ OpenTo(c) \/ ReceiveStart(c)
                        \/ LeaveGame(c) \/ StateInitialise(c)

Next ==
  \/ \E c \in Console : Library(c) \/ ScanHandler(c) \/ NextState(c) \/ Drop(c)
  \/ Pages

Spec == Init /\ [][Next]_vars

\* The server and the friend finder poll, the game runs its callbacks and its
\* state function in every frame.  Nobody has to press a button.
Fairness == \A c \in Console :
  WF_vars(Library(c)) /\ WF_vars(ScanHandler(c)) /\ WF_vars(NextState(c))
LiveSpec == Spec /\ Fairness

-----------------------------------------------------------------------------
(* Properties.                                                             *)

\* A console that believes it is in the game is in its group at the server,
\* unless it was dropped: events of the lobby that come late do not count.
InGameIsMember == \A c \in Console :
  adhoc[c] = "ingame" /\ up[c] => group[c] = Game

\* A console that sets out for the game ends up in it or back at the menu,
\* whether or not the host comes and however the others move meanwhile, unless
\* the server drops it: then it may wait for an answer for ever.
StartEnds == \A c \in Console :
  adhoc[c] \in {"creategame", "scan", "join"}
    ~> (adhoc[c] \in {"ingame", "shutdown"} \/ ~up[c])

\* No call to the library fails and no event is an error while the server keeps
\* the console: the session only ends early when the host cancels the start or
\* a client has scanned in vain.
Ended(c) == up[c] /\ linked[c] /\ ~linked'[c]
CallsSucceed == [][\A c \in Console :
  Ended(c) => (c = Host /\ roster # {}) \/ (adhoc[c] = "scan" /\ scans'[c] = MaxScans)]_vars
=============================================================================
