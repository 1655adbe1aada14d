------------------------------ MODULE AdhocCtl ------------------------------
(***************************************************************************)
(* Groups of consoles: the ad hoc server (net/emu/proAdhocServer.cpp) and  *)
(* the control library of a console (sceNetAdhocctl* in                    *)
(* net/emu/sceNetAdhoc.cpp, the friend finder in net/emu/proAdhoc.cpp).    *)
(*                                                                         *)
(* A console asks the server for a group over a stream; the server answers *)
(* and tells the members of a group of each other.  Per console there are  *)
(* two threads: the main thread makes the calls and runs the callbacks,    *)
(* the friend finder reads the server's packets one at a time and queues   *)
(* events for the callbacks.  A request to connect or to scan is sent by   *)
(* the main thread, which waits until the friend finder has a connection.  *)
(*                                                                         *)
(* Addresses are taken to be unique: a friend is found by its hardware     *)
(* address when it connects and by its IP when it disconnects.  Pings,     *)
(* chat, the game mode, and names other than the group's are left out.     *)
(***************************************************************************)
EXTENDS Integers, Sequences, FiniteSets, SequencesExt

CONSTANTS
  Console,  \* consoles that play the same product
  Name,     \* names of groups
  None      \* no group

ASSUME NoneAssumption == None \notin Name
ASSUME ConsoleAssumption == IsFiniteSet(Console)

VARIABLES
  group,      \* the server: user->group of each user, None outside any group
  order,      \* game->group, the names of the groups that exist, newest first
  up,         \* whether the console is in _db_user, logged in
  toServer,   \* stream from the console, oldest first
  toConsole,  \* stream to the console, oldest first
  linked,     \* g_adhocServerConnected
  ctl,        \* adhocctlState
  busy,       \* isAdhocctlBusy
  request,    \* the request WaitBlockingAdhocctlSocket waits to send
  events,     \* adhocctlEvents, oldest first
  friends,    \* those in the friend list whose last_recv is not 0
  found,      \* newnetworks, the names of a scan under way
  networks    \* the names the last complete scan found, head first

server == <<group, order, up>>
streams == <<toServer, toConsole>>
library == <<linked, ctl, busy, request, events, friends, found, networks>>
cvars == <<server, streams, library>>

Request == [op : {"connect"}, name : Name] \cup [op : {"scan"}]
Order == Request \cup [op : {"disconnect", "close"}]
NoRequest == [op |-> "none"]
Packet == [op : {"connect", "disconnect"}, who : Console]
          \cup [op : {"scan"}, name : Name] \cup [op : {"bssid", "complete"}]
Event == {"connect", "disconnect", "scan", "error"}

CtlTypeOK ==
  /\ group \in [Console -> Name \cup {None}]
  /\ order \in Seq(Name)
  /\ up \in [Console -> BOOLEAN]
  /\ toServer \in [Console -> Seq(Order)]
  /\ toConsole \in [Console -> Seq(Packet)]
  /\ linked \in [Console -> BOOLEAN]
  /\ ctl \in [Console -> {"disconnected", "scanning", "connected"}]
  /\ busy \in [Console -> BOOLEAN]
  /\ request \in [Console -> Request \cup {NoRequest}]
  /\ events \in [Console -> Seq(Event)]
  /\ friends \in [Console -> SUBSET Console]
  /\ found \in [Console -> Seq(Name)]
  /\ networks \in [Console -> Seq(Name)]

\* Every console has logged in and has been told of all others in group g.
CtlInit(g) ==
  /\ group = [c \in Console |-> g]
  /\ order = <<g>>
  /\ up = [c \in Console |-> TRUE]
  /\ toServer = [c \in Console |-> <<>>]
  /\ toConsole = [c \in Console |-> <<>>]
  /\ linked = [c \in Console |-> TRUE]
  /\ ctl = [c \in Console |-> "connected"]
  /\ busy = [c \in Console |-> FALSE]
  /\ request = [c \in Console |-> NoRequest]
  /\ events = [c \in Console |-> <<>>]
  /\ friends = [c \in Console |-> Console \ {c}]
  /\ found = [c \in Console |-> <<>>]
  /\ networks = [c \in Console |-> <<>>]

-----------------------------------------------------------------------------
(* The server: server_loop and the handlers it calls.  They say what       *)
(* becomes of group, order, up, toConsole and the console's own stream.    *)

Members(g) == {m \in Console : group[m] = g}
Others(c) == IF group[c] = None THEN {} ELSE Members(group[c]) \ {c}
About(op, c) == [op |-> op, who |-> c]
Told(S, p) == [m \in Console |-> IF m \in S THEN Append(toConsole[m], p) ELSE toConsole[m]]

\* disconnect_user of a member: those left hear of it, an empty group goes.
LeaveGroup(c) ==
  /\ group' = [group EXCEPT ![c] = None]
  /\ order' = IF Others(c) = {} THEN RemoveFirst(order, group[c]) ELSE order
  /\ toConsole' = Told(Others(c), About("disconnect", c))

\* logout_user: what the console has sent since is not read.
Logout(c) ==
  /\ LeaveGroup(c)
  /\ up' = [up EXCEPT ![c] = FALSE]
  /\ toServer' = [toServer EXCEPT ![c] = <<>>]

Read(c) == toServer' = [toServer EXCEPT ![c] = Tail(@)] /\ UNCHANGED up

\* Mutant: the members do not hear of the newcomer.
JoinGroup_NewcomerOnly(c, g) ==
  LET friendsOf == SetToSeq(Members(g)) IN
  /\ group' = [group EXCEPT ![c] = g]
  /\ order' = IF Members(g) = {} THEN <<g>> \o order ELSE order
  /\ toConsole' = [toConsole EXCEPT ![c] =
       @ \o [i \in DOMAIN friendsOf |-> About("connect", friendsOf[i])] \o <<[op |-> "bssid"]>>]

\* connect_user: the members and the newcomer hear of each other, then the
\* newcomer is told that it is in.
JoinGroup(c, g) ==
  LET friendsOf == SetToSeq(Members(g)) IN
  /\ group' = [group EXCEPT ![c] = g]
  /\ order' = IF Members(g) = {} THEN <<g>> \o order ELSE order
  /\ toConsole' = [Told(Members(g), About("connect", c)) EXCEPT ![c] =
       @ \o [i \in DOMAIN friendsOf |-> About("connect", friendsOf[i])] \o <<[op |-> "bssid"]>>]

\* send_scan_results: the groups in the server's order, then the end.
ScanResults(c) ==
  /\ toConsole' = [toConsole EXCEPT ![c] =
       @ \o [i \in DOMAIN order |-> [op |-> "scan", name |-> order[i]]] \o <<[op |-> "complete"]>>]
  /\ UNCHANGED <<group, order>>

\* A user who is in a group may only leave it, one who is not may only join
\* or scan; for anything else it is logged out.
Legal(c) ==
  LET op == Head(toServer[c]).op
  IN op = "close" \/ (op = "disconnect" <=> group[c] # None)

Serve(c) ==
  /\ up[c] /\ toServer[c] # <<>>
  /\ LET r == Head(toServer[c]) IN
       \/ r.op = "connect" /\ Legal(c) /\ JoinGroup(c, r.name) /\ Read(c)
       \/ r.op = "scan" /\ Legal(c) /\ ScanResults(c) /\ Read(c)
       \/ r.op = "disconnect" /\ Legal(c) /\ LeaveGroup(c) /\ Read(c)
       \/ (r.op = "close" \/ ~Legal(c)) /\ Logout(c)
  /\ UNCHANGED library

\* The server has not heard the console's pings for SERVER_USER_TIMEOUT.
TimeOut(c) == up[c] /\ Logout(c) /\ UNCHANGED library

-----------------------------------------------------------------------------
(* The friend finder.                                                      *)

Notify(c, e) == events' = [events EXCEPT ![c] = Append(@, e)]

\* One packet of the stream.
FriendFinder(c) ==
  /\ linked[c] /\ toConsole[c] # <<>>
  /\ toConsole' = [toConsole EXCEPT ![c] = Tail(@)]
  /\ LET p == Head(toConsole[c]) IN
       \/ /\ p.op = "bssid" /\ Notify(c, "connect")
          /\ UNCHANGED <<friends, found, networks>>
       \/ /\ p.op = "connect" /\ friends' = [friends EXCEPT ![c] = @ \cup {p.who}]
          /\ UNCHANGED <<events, found, networks>>
       \/ /\ p.op = "disconnect" /\ friends' = [friends EXCEPT ![c] = @ \ {p.who}]
          /\ UNCHANGED <<events, found, networks>>
       \/ /\ p.op = "scan" /\ found' = [found EXCEPT ![c] = <<p.name>> \o @]
          /\ UNCHANGED <<events, friends, networks>>
       \/ /\ p.op = "complete" /\ Notify(c, "scan")
          /\ networks' = [networks EXCEPT ![c] = found[c]]
          /\ found' = [found EXCEPT ![c] = <<>>]
          /\ UNCHANGED friends
  /\ UNCHANGED <<server, toServer, linked, ctl, busy, request>>

\* A ping cannot be sent: the connection is given up and every friend is
\* marked as gone.
LoseServer(c) ==
  /\ linked[c] /\ ~up[c]
  /\ linked' = [linked EXCEPT ![c] = FALSE]
  /\ friends' = [friends EXCEPT ![c] = {}]
  /\ toConsole' = [toConsole EXCEPT ![c] = <<>>]
  /\ UNCHANGED <<server, toServer, ctl, busy, request, events, found, networks>>

Fresh(c) ==
  /\ up' = [up EXCEPT ![c] = TRUE]
  /\ linked' = [linked EXCEPT ![c] = TRUE]
  /\ toServer' = [toServer EXCEPT ![c] = <<>>]
  /\ toConsole' = [toConsole EXCEPT ![c] = <<>>]
  /\ ctl' = [ctl EXCEPT ![c] = "disconnected"]
  /\ UNCHANGED <<group, order>>

\* A request needs the connection: the friend finder logs in again.
LogIn(c) ==
  /\ ~linked[c] /\ ~up[c] /\ request[c] # NoRequest
  /\ Fresh(c) /\ busy' = [busy EXCEPT ![c] = FALSE]
  /\ UNCHANGED <<request, events, friends, found, networks>>

-----------------------------------------------------------------------------
(* The main thread.  A call says what becomes of the library and of the    *)
(* stream to the server; GameStart says what the game makes of its result. *)

Ready(c) == request[c] = NoRequest
Send(c, r) == toServer' = [toServer EXCEPT ![c] = IF up[c] THEN Append(@, r) ELSE @]

\* The thread stops waiting once the request is in the stream, which the
\* server may have closed.
SendRequest(c) ==
  /\ request[c] # NoRequest /\ linked[c]
  /\ Send(c, request[c])
  /\ request' = [request EXCEPT ![c] = NoRequest]
  /\ UNCHANGED <<server, toConsole, linked, ctl, busy, events, friends, found, networks>>

\* NetAdhocctl_Create, which Create, Connect and Join share, and Scan: the
\* result is not negative, or SCE_NET_ADHOCCTL_ERROR_BUSY.
Accepts(c) == ctl[c] = "connected" \/ (ctl[c] = "disconnected" /\ ~busy[c])

Call(c, r) ==
  /\ Accepts(c)
  /\ IF ctl[c] = "connected"
     THEN Notify(c, "error") /\ UNCHANGED <<busy, request, ctl, networks>>
     ELSE /\ busy' = [busy EXCEPT ![c] = TRUE]
          /\ request' = [request EXCEPT ![c] = r]
          /\ IF r.op = "scan"
             THEN /\ ctl' = [ctl EXCEPT ![c] = "scanning"]
                  /\ networks' = [networks EXCEPT ![c] = <<>>]
             ELSE UNCHANGED <<ctl, networks>>
          /\ UNCHANGED events
  /\ UNCHANGED <<server, streams, linked, friends, found>>

\* Mutant: the server is not told.
Disconnect_Silent(c) ==
  /\ ~busy[c]
  /\ ctl' = [ctl EXCEPT ![c] = IF linked[c] THEN @ ELSE "disconnected"]
  /\ busy' = [busy EXCEPT ![c] = ctl[c] # "disconnected"]
  /\ friends' = [friends EXCEPT ![c] = {}]
  /\ Notify(c, "disconnect")
  /\ UNCHANGED <<server, streams, linked, request, found, networks>>

\* sceNetAdhocctlDisconnect, which fails while the library is busy.  The event
\* does not wait for the server.
Disconnect(c) ==
  /\ ~busy[c]
  /\ IF ctl[c] = "disconnected" THEN UNCHANGED <<busy, ctl, toServer>>
     ELSE /\ busy' = [busy EXCEPT ![c] = TRUE]
          /\ ctl' = [ctl EXCEPT ![c] = IF linked[c] THEN @ ELSE "disconnected"]
          /\ Send(c, [op |-> "disconnect"])
  /\ friends' = [friends EXCEPT ![c] = {}]
  /\ Notify(c, "disconnect")
  /\ UNCHANGED <<server, toConsole, linked, request, found, networks>>

\* sceNetAdhocctlTerm: disconnects if it can, and closes the stream.
Term(c) ==
  LET left == IF ctl[c] = "disconnected" \/ busy[c] THEN <<>> ELSE <<[op |-> "disconnect"]>>
  IN
  /\ toServer' = [toServer EXCEPT ![c] = IF up[c] THEN @ \o left \o <<[op |-> "close"]>> ELSE @]
  /\ toConsole' = [toConsole EXCEPT ![c] = <<>>]
  /\ linked' = [linked EXCEPT ![c] = FALSE]
  /\ ctl' = [ctl EXCEPT ![c] = "disconnected"]
  /\ busy' = [busy EXCEPT ![c] = FALSE]
  /\ friends' = [friends EXCEPT ![c] = {}]
  /\ events' = [events EXCEPT ![c] = <<>>]
  /\ UNCHANGED <<server, request, found, networks>>

\* __NetTriggerCallbacks: one event; the handler is the game's.
Callback(c) ==
  /\ events[c] # <<>>
  /\ events' = [events EXCEPT ![c] = Tail(@)]
  /\ busy' = [busy EXCEPT ![c] = FALSE]
  /\ ctl' = [ctl EXCEPT ![c] =
       CASE Head(events[c]) = "connect" -> "connected"
         [] Head(events[c]) = "error" -> @
         [] OTHER -> "disconnected"]
  /\ UNCHANGED <<server, streams, linked, request, friends, found, networks>>

-----------------------------------------------------------------------------
(* Properties.                                                             *)

\* What the friends of c will be once it has read what is under way: of what
\* the stream says of a console the last counts.
Heard(c) ==
  LET stream == toConsole[c]
      NotGone(m, i) == \A k \in DOMAIN stream : k > i => stream[k] # About("disconnect", m)
  IN {m \in friends[c] : NotGone(m, 0)}
     \cup {m \in Console : \E i \in DOMAIN stream :
             stream[i] = About("connect", m) /\ NotGone(m, i)}

\* A member of a group that has nothing under way to the server has heard, or
\* is about to hear, of every other member, whatever the order in which they
\* left the last group and came to this one: datagrams and streams go only to
\* friends.
KnowsGroup == \A c \in Console :
  up[c] /\ linked[c] /\ toServer[c] = <<>> => Others(c) \subseteq Heard(c)

\* The server is never asked for what it logs the user out for: "Only scan
\* when in Disconnected state, otherwise AdhocServer will kick you out".
NoKick == \A c \in Console : up[c] /\ toServer[c] # <<>> => Legal(c)
=============================================================================
