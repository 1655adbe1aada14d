------------------------------ MODULE Matching ------------------------------
(***************************************************************************)
(* The matching library under the lobby (net/emu/sceNetAdhocMatching.cpp   *)
(* and its helpers in net/emu/proAdhoc.cpp): a host (PARENT mode) offers a *)
(* room with hellos, a client (CHILD mode) asks for a place, the host      *)
(* accepts or cancels, and keepalives, byes and deaths take members away.  *)
(*                                                                         *)
(* Per console there are three threads.  The main thread calls             *)
(* SelectTarget, CancelTarget and Stop and runs the callbacks; the input   *)
(* thread repeats "time out, drain the input stack, receive a datagram"    *)
(* (it is "receive" while it has nothing on its stack, or has not noticed);*)
(* the event thread moves events from its stack to the callback queue.     *)
(* Both stacks are last-in first-out: linkIOMessage and linkEVMessage put  *)
(* the new message at the head, and the threads take the head.             *)
(*                                                                         *)
(* Data kept: the peer list in its order, and of lastping only whether it  *)
(* was zeroed ("fresh" is FALSE), which is how the code marks a peer to    *)
(* time out.  Option data, ports and the unused P2P mode are left out.     *)
(***************************************************************************)
EXTENDS Integers, Sequences, FiniteSets, SequencesExt

CONSTANTS
  Node,      \* consoles of one lobby group, each a friend of every other
  Hosts,     \* those that host from the start
  MaxPeers,  \* by host: sceNetAdhocMatchingCreate's maxnum, itself included
  MaxNet,    \* bound: datagrams in flight
  Lossy,     \* whether the network may lose a datagram
  Partition, \* whether a running console may go unheard for a timeout
  MaxCalls   \* bound, by console: calls of the game, or presses of its user

ASSUME MaxPeersAssumption == \A n \in Node : MaxPeers[n] \in Nat /\ MaxPeers[n] > 1

VARIABLES
  mode,     \* context->mode: "parent", "child", or "off" (no context)
  next,     \* while Stop waits for the threads, the mode of the next context
  peers,    \* context->peerlist, head first
  at,       \* where the input thread is: "receive" or "drain"
  input,    \* context->input_stack, head first
  events,   \* context->event_stack, head first
  pending,  \* matchingEvents, the callbacks still to be run, oldest first
  net,      \* datagrams in flight, in no order
  calls     \* calls left to the game

mvars == <<mode, next, peers, at, input, events, pending, net>>

PeerState == {"offer", "parent", "child", "incoming", "outgoing", "cancel", "self"}
Opcode == {"birth", "accept", "join", "cancel", "death"}
EventType == {"hello", "request", "leave", "deny", "cancel", "accept",
              "established", "timeout", "bye"}
Peer == [mac : Node, state : PeerState, fresh : BOOLEAN]
Message(T) == [type : T, mac : Node]

MatchingTypeOK ==
  /\ mode \in [Node -> {"parent", "child", "off"}]
  /\ next \in [Node -> {"none", "parent", "child", "off"}]
  /\ peers \in [Node -> Seq(Peer)]
  /\ at \in [Node -> {"drain", "receive"}]
  /\ input \in [Node -> Seq(Message(Opcode))]
  /\ events \in [Node -> Seq(Message(EventType))]
  /\ pending \in [Node -> Seq(Message(EventType))]
  /\ \A d \in net : d.from \in Node /\ d.to \in Node

MatchingInit ==
  /\ mode = [n \in Node |-> IF n \in Hosts THEN "parent" ELSE "child"]
  /\ next = [n \in Node |-> "none"]
  /\ peers = [n \in Node |-> <<>>]
  /\ at = [n \in Node |-> "receive"]
  /\ input = [n \in Node |-> <<>>]
  /\ events = [n \in Node |-> <<>>]
  /\ pending = [n \in Node |-> <<>>]
  /\ net = {}

-----------------------------------------------------------------------------
(* The peer list.                                                          *)

\* The first entry for m, 0 if there is none.
FindPeer(n, m) == SelectInSeq(peers[n], LAMBDA p : p.mac = m)
FindState(n, s) == SelectInSeq(peers[n], LAMBDA p : p.state = s)
IsIn(n, m, S) == FindPeer(n, m) # 0 /\ peers[n][FindPeer(n, m)].state \in S

Children(l) == {i \in DOMAIN l : l[i].state = "child"}
HasPlace(n) == Cardinality(Children(peers[n])) < MaxPeers[n] - 1

Entry(m, s) == [mac |-> m, state |-> s, fresh |-> TRUE]
Added(l, m, s) == <<Entry(m, s)>> \o l
Marked(l, i) == [l EXCEPT ![i].fresh = FALSE]

\* What a child keeps of its list once a host has accepted it: the host, the
\* siblings the host named and itself, whose state is 0 ("self").
PutState(l, m, s) ==
  LET i == SelectInSeq(l, LAMBDA p : p.mac = m)
  IN IF i = 0 THEN Added(l, m, s) ELSE [l EXCEPT ![i] = Entry(m, s)]
Kept(l) ==
  FoldLeft(LAMBDA acc, p : IF p.state \in {"child", "parent", "self"} THEN Append(acc, p) ELSE acc,
           <<>>, l)
WithSiblings(l, siblings) ==
  FoldRight(LAMBDA m, acc : PutState(acc, m, "child"), siblings, l)
PostAccept(n, l, siblings) == PutState(WithSiblings(Kept(l), siblings), n, "self")

-----------------------------------------------------------------------------
(* Stacks and datagrams.                                                   *)

Push(stack, type, m) == <<[type |-> type, mac |-> m]>> \o stack

\* A walk through the list pushes a message for each entry that is in S.
PushFor(stack, l, S, type) ==
  FoldLeft(LAMBDA acc, p : IF p \in S THEN Push(acc, type, p.mac) ELSE acc, stack, l)

SpawnLocalEvent(n, type, m) == events' = [events EXCEPT ![n] = Push(@, type, m)]
NoEvent == UNCHANGED events

To(n, type, m, arg) == [from |-> n, to |-> m, type |-> type, arg |-> arg]
Fits(ms) == Cardinality(net \cup ms) <= MaxNet
Send(ms) == Fits(ms) /\ net' = net \cup ms
SetPeers(n, l) == peers' = [peers EXCEPT ![n] = l]
KeepPeers == UNCHANGED peers
Running(n) == mode[n] # "off" /\ next[n] = "none"

-----------------------------------------------------------------------------
(* Calls of the main thread.  linkIOMessage waits for the input lock, which *)
(* the input thread holds while it drains the stack.  The calls say what   *)
(* becomes of peers, input and next.                                       *)

MainReady(n) == Running(n) /\ at[n] = "receive"

\* Mutant: the places are not counted again.
SelectSucceeds_Uncounted(n, m) ==
  IF mode[n] = "parent" THEN IsIn(n, m, {"incoming"})
  ELSE IsIn(n, m, {"offer"}) /\ FindState(n, "parent") = 0 /\ FindState(n, "outgoing") = 0
\* sceNetAdhocMatchingSelectTarget returns 0.
SelectSucceeds(n, m) ==
  IF mode[n] = "parent"
  THEN IsIn(n, m, {"incoming"}) /\ Cardinality(Children(peers[n])) # MaxPeers[n] - 1
  ELSE IsIn(n, m, {"offer"}) /\ FindState(n, "parent") = 0 /\ FindState(n, "outgoing") = 0

\* The host takes a requester as its child: the accept lies on top of the
\* birth and is sent first.  A client asks a room that said hello.
SelectTarget(n, m) ==
  /\ SelectSucceeds(n, m)
  /\ LET parent == mode[n] = "parent" IN
       /\ SetPeers(n, [peers[n] EXCEPT ![FindPeer(n, m)].state =
                                          IF parent THEN "child" ELSE "outgoing"])
       /\ input' = [input EXCEPT ![n] =
                      IF parent THEN Push(Push(@, "birth", m), "accept", m)
                      ELSE Push(@, "join", m)]

\* NetAdhocMatching_CancelTargetWithOpt changes something.
CancelConcerns(n, m) ==
  IsIn(n, m, IF mode[n] = "parent" THEN {"child", "incoming"} ELSE {"parent", "outgoing"})

CancelTarget(n, m) ==
  /\ CancelConcerns(n, m)
  /\ LET dead == IF mode[n] = "parent" /\ IsIn(n, m, {"child"})
                 THEN Push(input[n], "death", m) ELSE input[n]
     IN input' = [input EXCEPT ![n] = Push(dead, "cancel", m)]
  /\ SetPeers(n, [peers[n] EXCEPT ![FindPeer(n, m)] =
                    [mac |-> m, state |-> "cancel", fresh |-> FALSE]])

\* NetAdhocMatching_Stop, Delete and the Create of the next context: the main
\* thread waits while the input thread sends what is left on its stack.
Stop(n, nextMode) == next' = [next EXCEPT ![n] = nextMode]

\* The threads have ended: byes are sent, the list and the events are gone.
Stopped(n) ==
  /\ next[n] # "none" /\ input[n] = <<>>
  /\ Send({To(n, "bye", peers[n][i].mac, <<>>) :
             i \in {j \in DOMAIN peers[n] : peers[n][j].state \in {"parent", "child", "cancel"}}})
  /\ mode' = [mode EXCEPT ![n] = next[n]]
  /\ next' = [next EXCEPT ![n] = "none"]
  /\ at' = [at EXCEPT ![n] = "receive"]
  /\ SetPeers(n, <<>>)
  /\ events' = [events EXCEPT ![n] = <<>>]
  /\ pending' = [pending EXCEPT ![n] = <<>>]
  /\ UNCHANGED input

\* The program ends without a word.
Ends(n) ==
  /\ mode' = [mode EXCEPT ![n] = "off"]
  /\ at' = [at EXCEPT ![n] = "receive"]
  /\ SetPeers(n, <<>>)
  /\ input' = [input EXCEPT ![n] = <<>>]
  /\ events' = [events EXCEPT ![n] = <<>>]
  /\ pending' = [pending EXCEPT ![n] = <<>>]
  /\ UNCHANGED next

\* The console is switched off.
Crash(n) == Running(n) /\ Ends(n) /\ UNCHANGED net

-----------------------------------------------------------------------------
(* The input thread: matchingInputThread.                                  *)

AfterStack(n) == at' = [at EXCEPT ![n] = IF input'[n] = <<>> THEN "receive" ELSE "drain"]

\* n may miss m's keepalives for a whole timeout, which outlasts whatever is
\* under way.
Silent(n, m) == input[n] = <<>> /\ net = {} /\ (Partition \/ mode[m] = "off")

\* One turn of the loop up to the receive.  When a keepalive is due, every
\* member marked to time out, and any silent one, is reported and its death
\* (or, at a child, the parent's cancel) is put on the input stack.
Poll(n, lost) ==
  LET kin == IF mode[n] = "parent" THEN "child" ELSE "parent"
      out == {p \in Range(peers[n]) : p.state = kin /\ p.mac \in lost}
  IN
  /\ MainReady(n)
  /\ \/ lost = {} /\ input[n] # <<>>
     \/ /\ \A p \in out : ~p.fresh \/ Silent(n, p.mac)
        /\ lost # {} /\ \A m \in lost : \E p \in out : p.mac = m
        /\ \A p \in Range(peers[n]) : p.state = kin /\ ~p.fresh => p.mac \in lost
  /\ events' = [events EXCEPT ![n] = PushFor(@, peers[n], out, "timeout")]
  /\ input' = [input EXCEPT ![n] =
       PushFor(@, peers[n], out, IF kin = "child" THEN "death" ELSE "cancel")]
  /\ AfterStack(n)
  /\ UNCHANGED <<mode, next, peers, pending, net>>

\* The other children of a list, as an accept names them.
OtherChildren(l, m) ==
  FoldLeft(LAMBDA acc, p : IF p.state = "child" /\ p.mac # m THEN Append(acc, p.mac) ELSE acc,
           <<>>, l)

SendAccept(n, m) ==
  IF IsIn(n, m, {"child"})
  THEN /\ Send({To(n, "accept", m, OtherChildren(peers[n], m))})
       /\ SpawnLocalEvent(n, "established", m) /\ KeepPeers
  ELSE Send({}) /\ NoEvent /\ KeepPeers

SendJoin(n, m) ==
  /\ Send(IF IsIn(n, m, {"outgoing"}) THEN {To(n, "join", m, <<>>)} ELSE {})
  /\ NoEvent /\ KeepPeers

\* A child forgets everybody it knew; a host notes the time, which unmarks.
SendCancel(n, m) ==
  /\ Send({To(n, "cancel", m, <<>>)}) /\ NoEvent
  /\ SetPeers(n, IF FindPeer(n, m) = 0 THEN peers[n]
                 ELSE IF mode[n] = "child" THEN <<>>
                 ELSE [peers[n] EXCEPT ![FindPeer(n, m)].fresh = TRUE])

SiblingsOf(n, m) ==
  {peers[n][i].mac : i \in {j \in Children(peers[n]) : j # FindPeer(n, m)}}

SendBirth(n, m) ==
  /\ Send(IF FindPeer(n, m) = 0 THEN {}
          ELSE {To(n, "birth", c, <<m>>) : c \in SiblingsOf(n, m)})
  /\ NoEvent /\ KeepPeers

SendDeath(n, m) ==
  /\ NoEvent
  /\ IF FindPeer(n, m) = 0 THEN Send({}) /\ KeepPeers
     ELSE /\ Send({To(n, "bye", m, <<>>)} \cup
                  {To(n, "death", c, <<m>>) : c \in SiblingsOf(n, m)})
          /\ SetPeers(n, RemoveAt(peers[n], FindPeer(n, m)))

\* The head of the input stack is carried out, also once Stop was called.
Drain(n) ==
  /\ mode[n] # "off" /\ input[n] # <<>> /\ (at[n] = "drain" \/ next[n] # "none")
  /\ LET m == Head(input[n]).mac
         op == Head(input[n]).type
     IN \/ op = "accept" /\ SendAccept(n, m)
        \/ op = "join" /\ SendJoin(n, m)
        \/ op = "cancel" /\ SendCancel(n, m)
        \/ op = "birth" /\ SendBirth(n, m)
        \/ op = "death" /\ SendDeath(n, m)
  /\ input' = [input EXCEPT ![n] = Tail(@)]
  /\ AfterStack(n)
  /\ UNCHANGED <<mode, next, pending>>

-----------------------------------------------------------------------------
(* Datagrams.  Each handler says what becomes of the list, the events and  *)
(* the answers; d is the datagram and n its receiver.                      *)

Quiet == KeepPeers /\ NoEvent
NoAnswer(d) == net' = net \ {d}

\* Mutant: a known sender gets a second entry.
Requesting_AddedAgain(l, i, m) == Added(l, m, "incoming")
\* The sender of a join, whose entry is the i-th, if any.
Requesting(l, i, m) ==
  IF i = 0 THEN Added(l, m, "incoming") ELSE [l EXCEPT ![i] = Entry(m, "incoming")]

\* A join is answered once: it is an event if the sender is unknown or marked,
\* nothing at all if the sender is known, and a cancel if there is no place.
ActOnJoin(n, d) ==
  LET i == FindPeer(n, d.from)
  IN
  CASE mode[n] = "child" -> Quiet /\ NoAnswer(d)
    [] mode[n] = "parent" /\ ~HasPlace(n) ->
         /\ net' = (net \ {d}) \cup {To(n, "cancel", d.from, <<>>)}
         /\ SetPeers(n, IF i = 0 THEN peers[n] ELSE [peers[n] EXCEPT ![i].fresh = TRUE])
         /\ NoEvent
    [] mode[n] = "parent" /\ HasPlace(n) /\ i # 0 /\ peers[n][i].fresh ->
         Quiet /\ NoAnswer(d)
    [] OTHER ->
         /\ SetPeers(n, Requesting(peers[n], i, d.from))
         /\ SpawnLocalEvent(n, "request", d.from) /\ NoAnswer(d)

\* Only the answer to the request under way makes its sender the parent.
ActOnAccept(n, d) ==
  /\ NoAnswer(d)
  /\ IF /\ mode[n] = "child" /\ FindState(n, "parent") = 0
        /\ FindState(n, "outgoing") # 0 /\ FindState(n, "outgoing") = FindPeer(n, d.from)
     THEN /\ SetPeers(n, PostAccept(n, [peers[n] EXCEPT ![FindPeer(n, d.from)].state = "parent"],
                                    d.arg))
          /\ events' = [events EXCEPT ![n] =
                          Push(Push(@, "established", d.from), "accept", d.from)]
     ELSE Quiet

ActOnCancel(n, d) ==
  LET i == FindPeer(n, d.from)
      Told(type) == SetPeers(n, Marked(peers[n], i)) /\ SpawnLocalEvent(n, type, d.from)
      kin == {p \in Range(peers[n]) : p.state \in {"child", "parent"}}
  IN
  /\ NoAnswer(d)
  /\ CASE i = 0 -> Quiet
       [] i # 0 /\ mode[n] = "child" /\ FindState(n, "outgoing") = i -> Told("deny")
       [] i # 0 /\ mode[n] = "child" /\ FindState(n, "outgoing") # i
            /\ FindState(n, "parent") = i ->
            /\ SetPeers(n, <<>>)
            /\ events' = [events EXCEPT ![n] = PushFor(@, peers[n], kin, "leave")]
       [] i # 0 /\ mode[n] = "parent" /\ peers[n][i].state = "incoming" -> Told("cancel")
       [] i # 0 /\ mode[n] = "parent" /\ peers[n][i].state = "child" -> Told("leave")
       [] OTHER -> Quiet

FromParent(n, d) ==
  mode[n] = "child" /\ FindPeer(n, d.from) # 0 /\ FindPeer(n, d.from) = FindState(n, "parent")

ActOnBirth(n, d) ==
  /\ NoAnswer(d) /\ NoEvent
  /\ SetPeers(n, IF FromParent(n, d) THEN Added(peers[n], Head(d.arg), "child") ELSE peers[n])

\* The handler reads the sibling's entry without asking whether there is one:
\* a death that finds none ends the program.
UnknownSibling(n, d) == d.type = "death" /\ FromParent(n, d) /\ FindPeer(n, Head(d.arg)) = 0

ActOnDeath(n, d) ==
  /\ NoAnswer(d) /\ ~UnknownSibling(n, d)
  /\ IF FromParent(n, d) /\ IsIn(n, Head(d.arg), {"child"})
     THEN /\ SetPeers(n, RemoveAt(peers[n], FindPeer(n, Head(d.arg))))
          /\ SpawnLocalEvent(n, "leave", Head(d.arg))
     ELSE Quiet

ActOnBye(n, d) ==
  /\ NoAnswer(d)
  /\ CASE IsIn(n, d.from, {"child"}) ->
            /\ SetPeers(n, RemoveAt(peers[n], FindPeer(n, d.from)))
            /\ IF mode[n] = "parent" THEN SpawnLocalEvent(n, "bye", d.from) ELSE NoEvent
       [] mode[n] = "child" /\ IsIn(n, d.from, {"parent"}) ->
            SetPeers(n, <<>>) /\ SpawnLocalEvent(n, "bye", d.from)
       [] OTHER -> Quiet

Receive(n, d) ==
  /\ Running(n) /\ at[n] = "receive" /\ d \in net /\ d.to = n
  /\ \/ d.type = "join" /\ ActOnJoin(n, d)
     \/ d.type = "accept" /\ ActOnAccept(n, d)
     \/ d.type = "cancel" /\ ActOnCancel(n, d)
     \/ d.type = "birth" /\ ActOnBirth(n, d)
     \/ d.type = "death" /\ ActOnDeath(n, d)
     \/ d.type = "bye" /\ ActOnBye(n, d)
  /\ UNCHANGED <<mode, next, input, pending>> /\ AfterStack(n)

ReadNull(n, d) ==
  /\ Running(n) /\ at[n] = "receive" /\ d \in net /\ d.to = n /\ UnknownSibling(n, d)
  /\ Ends(n) /\ NoAnswer(d)

\* A ping of m refreshes m's entry at n.
ActOnPing(n, m) ==
  /\ Running(n) /\ at[n] = "receive" /\ mode[m] # "off"
  /\ FindPeer(n, m) # 0 /\ ~peers[n][FindPeer(n, m)].fresh
  /\ SetPeers(n, [peers[n] EXCEPT ![FindPeer(n, m)].fresh = TRUE])
  /\ UNCHANGED <<mode, next, input, events, pending, net>> /\ AfterStack(n)

\* A host with a place left says hello to its friends, over and over: a hello
\* is taken in the step that sends it, a later or a lost one being the same
\* as the next.
Hello(n, m) ==
  /\ MainReady(n) /\ mode[n] = "parent" /\ HasPlace(n)
  /\ MainReady(m) /\ mode[m] = "child" /\ FindState(m, "parent") = 0
  /\ SetPeers(m, IF FindPeer(m, n) = 0 THEN Added(peers[m], n, "offer") ELSE peers[m])
  /\ IF IsIn(m, n, {"outgoing", "incoming"}) THEN NoEvent ELSE SpawnLocalEvent(m, "hello", n)
  /\ UNCHANGED <<mode, next, input, pending, net>> /\ AfterStack(m)

\* A datagram is lost, or reaches a console that has no socket.
Lose(d) ==
  /\ d \in net /\ (Lossy \/ mode[d.to] = "off")
  /\ net' = net \ {d}
  /\ UNCHANGED <<mode, next, peers, at, input, events, pending>>

\* The event thread takes the newest event first.
Dispatch(n) ==
  /\ Running(n) /\ events[n] # <<>>
  /\ pending' = [pending EXCEPT ![n] = Append(@, Head(events[n]))]
  /\ events' = [events EXCEPT ![n] = Tail(@)]
  /\ UNCHANGED <<mode, next, peers, at, input, net>>

Threads(n) ==
  \/ Stopped(n) \/ Drain(n) \/ Dispatch(n)
  \/ \E lost \in SUBSET (Node \ {n}) : Poll(n, lost)
  \/ \E m \in Node \ {n} : ActOnPing(n, m) \/ Hello(n, m)
  \/ \E d \in net : Receive(n, d) \/ ReadNull(n, d) \/ (d.to = n /\ Lose(d))

(***************************************************************************)
(* The library alone, under a game that makes any calls in any order.  It  *)
(* runs no callbacks: what an event makes the game do is one of the calls. *)
(***************************************************************************)
Calls(n) ==
  /\ calls[n] > 0 /\ calls' = [calls EXCEPT ![n] = @ - 1]
  /\ \/ /\ MainReady(n)
        /\ \E m \in Node \ {n} : SelectTarget(n, m) \/ CancelTarget(n, m)
        /\ UNCHANGED <<mode, next, at, events, pending, net>>
     \/ /\ Running(n)
        /\ \E to \in {"parent", "child", "off"} : Stop(n, to)
        /\ UNCHANGED <<mode, peers, at, input, events, pending, net>>
     \/ Crash(n)

MatchingNext ==
  \E n \in Node : (Threads(n) /\ UNCHANGED calls) \/ Calls(n)

AloneInit == MatchingInit /\ calls = MaxCalls
MatchingSpec == AloneInit /\ [][MatchingNext]_<<mvars, calls>>

-----------------------------------------------------------------------------
(* Properties.                                                             *)

\* A host never has more members than the room has places: the places are
\* counted when a join arrives and again when the game selects its sender,
\* and members come and go in between.
RoomLimit == \A n \in Node : mode[n] = "parent" =>
               Cardinality(Children(peers[n])) <= MaxPeers[n] - 1

\* A host has one entry for a console, however often it asks, leaves and asks
\* again: its places are counted by entries, and every handler takes the first
\* entry it finds.
HostListsOnce == \A n \in Node : mode[n] = "parent" =>
                   \A i, j \in DOMAIN peers[n] : peers[n][i].mac = peers[n][j].mac => i = j
=============================================================================
