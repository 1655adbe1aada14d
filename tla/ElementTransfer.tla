--------------------------- MODULE ElementTransfer ---------------------------
(***************************************************************************)
(* The owner of an element of the game (a car, an object, a pedestrian)    *)
(* may change: a player asks for it, its owner marks it and hands it over, *)
(* and the new owner announces it under a new name, with the old name to   *)
(* be deleted (MultiGame.cpp, events/ev_base_mp.cpp, InterestZone.cpp,     *)
(* elements/sElementPhysical.cpp).                                         *)
(*                                                                         *)
(* There is one element, and every name it gets: its owner and a number    *)
(* that the owner has not used before.  Requests, transfers and the        *)
(* confirmations of a creation are Guaranteed messages: they arrive once   *)
(* and in order.  Game states may be lost, and come in order on each link; *)
(* of their contents only the items are kept.  What InterestZone shows is  *)
(* used here: an element is sent as a difference only if every peer has    *)
(* acknowledged a game state with it.                                      *)
(***************************************************************************)
EXTENDS Integers, Sequences, FiniteSets

CONSTANTS
  Player,      \* the players of the session
  First,       \* the one that creates the element
  None,        \* no name
  MaxCalls,    \* bound: times the game asks for the element or deletes it
  MayLeave,    \* players that may leave the game
  Lossy,       \* players to which game states, and their answers, may be lost
  NetCap       \* bound: game states under way on a link

ASSUME FirstAssumption == First \in Player /\ None \notin [owner : Player, id : Nat]

VARIABLES
  up,       \* players in the game
  peers,    \* m_vPlayers of each player, itself excepted
  own,      \* m_vElements of the player itself
  copies,   \* m_vElements of the other players
  ids,      \* m_nElementsIDs
  entities, \* m_vEntities: removals being announced, and who has heard
  orders,   \* Guaranteed messages on the way, by sender and receiver
  frames,   \* game states on the way
  calls

vars == <<up, peers, own, copies, ids, entities, orders, frames, calls>>

Id == Nat
Handle == [owner : Player, id : Id]
Name(n, i) == [owner |-> n, id |-> i]
\* m_bWasTransfered; m_nPrevOwnerID and m_nPrevID; m_nAcks; and the peers that
\* acknowledged a game state with the element.
Owned == [id : Id, marked : BOOLEAN, prev : Handle \cup {None},
          acks : SUBSET Player, known : SUBSET Player]
\* pckt_transfer_entity; pckt_ack_entity_create, those of one game state in one
Created == [created : SUBSET Id]
Order == [src : Player, elem : Id, dest : Player] \cup Created
Item == [kind : {"full"}, id : Id, prev : Handle \cup {None}]
        \cup [kind : {"delta", "destroy"}, id : Id]

TypeOK ==
  /\ up \subseteq Player
  /\ peers \in [Player -> SUBSET Player] /\ \A n \in Player : n \notin peers[n]
  /\ own \in [Player -> SUBSET Owned]
  /\ \A n \in Player : \A e, f \in own[n] : e.id = f.id => e = f
  /\ \A n \in Player : \A e \in own[n] : e.id < ids[n]
  /\ copies \in [Player -> SUBSET Handle]
  /\ \A n \in Player : \A h \in copies[n] : h.owner \in peers[n]
  /\ ids \in [Player -> Nat]
  /\ entities \in [Player -> SUBSET [id : Id, told : SUBSET Player]]
  /\ orders \in [Player -> [Player -> Seq(Order)]]
  /\ frames \in [Player -> [Player -> Seq(SUBSET Item)]]
  /\ calls \in Nat

NewElement(i, prev) ==
  [id |-> i, marked |-> FALSE, prev |-> prev, acks |-> {}, known |-> {}]

Init ==
  /\ up = Player
  /\ peers = [n \in Player |-> Player \ {n}]
  /\ own = [n \in Player |-> IF n = First THEN {NewElement(0, None)} ELSE {}]
  /\ copies = [n \in Player |-> {}]
  /\ ids = [n \in Player |-> IF n = First THEN 1 ELSE 0]
  /\ entities = [n \in Player |-> {}]
  /\ orders = [n \in Player |-> [m \in Player |-> <<>>]]
  /\ frames = [n \in Player |-> [m \in Player |-> <<>>]]
  /\ calls = 0

-----------------------------------------------------------------------------
(* Asking for an element, and handing it over.                             *)

Has(n, i) == \E e \in own[n] : e.id = i
Replaced(S, e, f) == (S \ {e}) \cup {f}

HasAcksFromAllPeers(n, e) == peers[n] \subseteq e.acks

\* SendMessagePriority to everybody, on top of what is under way; of account
\* to the owner the order names and to the player it is handed to.
Broadcast(way, n, o) ==
  [way EXCEPT ![n] = [m \in Player |->
     IF m \in peers[n] /\ (m = o.src \/ (n = o.src /\ m = o.dest))
     THEN Append(@[m], o) ELSE @[m]]]

\* Mutant: SendTransferPacket does not look at the confirmations.
TransferEntity_Hasty(way, n, e, dest) ==
  /\ own' = [own EXCEPT ![n] = Replaced(@, e, [e EXCEPT !.marked = TRUE])]
  /\ orders' = Broadcast(way, n, [src |-> n, elem |-> e.id, dest |-> dest])

\* sElement::TransferEntity and SendTransferPacket: the mark is set first, and
\* then nothing is sent while a peer has not confirmed the creation.
TransferEntity(way, n, e, dest) ==
  /\ own' = [own EXCEPT ![n] = Replaced(@, e, [e EXCEPT !.marked = TRUE])]
  /\ orders' = IF HasAcksFromAllPeers(n, e)
               THEN Broadcast(way, n, [src |-> n, elem |-> e.id, dest |-> dest])
               ELSE way

\* SendDemandEntityMsg and TransferEntity for the element of another player.
RequestEntity(n) ==
  /\ calls < MaxCalls /\ calls' = calls + 1
  /\ \E h \in copies[n] :
       orders' = Broadcast(orders, n, [src |-> h.owner, elem |-> h.id, dest |-> n])
  /\ UNCHANGED <<up, peers, own, copies, ids, entities, frames>>

\* The same calls for an element of one's own: it is handed over to oneself.
RequestOwn(n) ==
  /\ calls < MaxCalls /\ calls' = calls + 1
  /\ \E e \in own[n] :
       ~e.marked /\ HasAcksFromAllPeers(n, e) /\ TransferEntity(orders, n, e, n)
  /\ UNCHANGED <<up, peers, copies, ids, entities, frames>>

Read(m, n) == [orders EXCEPT ![m][n] = Tail(@)]
Transfers(m, n) ==
  IF orders[m][n] # <<>> THEN {Head(orders[m][n])} \ Created ELSE {}

\* Mutant: a marked element is handed over again.
OnRequest_Again(n, m) ==
  /\ \E o \in Transfers(m, n) :
       /\ o.src = n
       /\ \/ \E e \in own[n] : e.id = o.elem /\ TransferEntity(Read(m, n), n, e, o.dest)
          \/ orders' = Read(m, n) /\ UNCHANGED own
  /\ UNCHANGED <<up, peers, copies, ids, entities, frames, calls>>

\* OnTransferEntity at the owner.  An element that is gone or marked is not
\* handed over again, nor a vehicle while its driver gets in or out.
OnRequest(n, m) ==
  /\ \E o \in Transfers(m, n) :
       /\ o.src = n
       /\ \/ \E e \in own[n] :
               e.id = o.elem /\ ~e.marked /\ TransferEntity(Read(m, n), n, e, o.dest)
          \/ orders' = Read(m, n) /\ UNCHANGED own
  /\ UNCHANGED <<up, peers, copies, ids, entities, frames, calls>>

\* OnTransferEntity at the new owner: ReceiveEntity gives the copy a new name
\* and forgets who has it.
OnTransfer(n, m) ==
  /\ \E o \in Transfers(m, n) : LET h == Name(o.src, o.elem) IN
       /\ o.src = m /\ o.dest = n /\ h \in copies[n]
       /\ copies' = [copies EXCEPT ![n] = @ \ {h}]
       /\ own' = [own EXCEPT ![n] = @ \cup {NewElement(ids[n], h)}]
  /\ ids' = [ids EXCEPT ![n] = @ + 1]
  /\ orders' = Read(m, n)
  /\ UNCHANGED <<up, peers, entities, frames, calls>>

-----------------------------------------------------------------------------
(* Players that go.                                                        *)

\* n is out of the game, whatever the reason: nothing reaches it any more.
Gone(n) ==
  /\ up' = up \ {n}
  /\ own' = [own EXCEPT ![n] = {}]
  /\ copies' = [copies EXCEPT ![n] = {}]
  /\ peers' = [peers EXCEPT ![n] = {}]
  /\ entities' = [entities EXCEPT ![n] = {}]
  /\ orders' = [m \in Player |-> [orders[m] EXCEPT ![n] = <<>>]]
  /\ frames' = [m \in Player |-> [frames[m] EXCEPT ![n] = <<>>]]
  /\ UNCHANGED <<ids, calls>>

Leave(n) == n \in up \cap MayLeave /\ Gone(n)

\* The element is not there: OnTransferEntity removes a null pointer from the
\* map, which ends the program.
ReadNull(n, m) ==
  /\ \E o \in Transfers(m, n) :
       o.src = m /\ o.dest = n /\ Name(m, o.elem) \notin copies[n]
  /\ Gone(n)

\* Mutant: the elements of the player stay.
RemovePlayerFromGame_Keeps(n, m) ==
  /\ n \in up /\ m \in peers[n] \ up
  /\ peers' = [peers EXCEPT ![n] = @ \ {m}]
  /\ orders' = [orders EXCEPT ![m][n] = <<>>]
  /\ frames' = [frames EXCEPT ![m][n] = <<>>]
  /\ UNCHANGED <<up, own, copies, ids, entities, calls>>

\* RemovePlayerFromGame: the elements of the player are deleted.
RemovePlayerFromGame(n, m) ==
  /\ n \in up /\ m \in peers[n] \ up
  /\ peers' = [peers EXCEPT ![n] = @ \ {m}]
  /\ copies' = [copies EXCEPT ![n] = {h \in @ : h.owner # m}]
  /\ orders' = [orders EXCEPT ![m][n] = <<>>]
  /\ frames' = [frames EXCEPT ![m][n] = <<>>]
  /\ UNCHANGED <<up, own, ids, entities, calls>>

-----------------------------------------------------------------------------
(* Game states.                                                            *)

\* The end of sElement: the zone announces the removal.
Removed(n, es) ==
  entities' = [entities EXCEPT ![n] = @ \cup {[id |-> e.id, told |-> {}] : e \in es}]

\* The game deletes the element.
RemoveElement(n) ==
  /\ calls < MaxCalls /\ calls' = calls + 1
  /\ \E e \in own[n] : own' = [own EXCEPT ![n] = @ \ {e}] /\ Removed(n, {e})
  /\ UNCHANGED <<up, peers, copies, ids, orders, frames>>

Full(e) == [kind |-> "full", id |-> e.id, prev |-> e.prev]
Delta(e) == [kind |-> "delta", id |-> e.id]
Destroy(x) == [kind |-> "destroy", id |-> x.id]

\* UpdateSend of the zone.  A marked element is not sent.  The new name goes
\* with the old one until the first difference; a removal is announced until
\* everybody has acknowledged one.
SendGameState(n) ==
  /\ peers[n] # {}
  /\ entities[n] # {} \/ \E e \in own[n] : ~e.marked
  /\ \A m \in peers[n] \cap up : Len(frames[n][m]) < NetCap
  /\ \E deltas \in SUBSET {e \in own[n] : ~e.marked /\ peers[n] \subseteq e.known} :
       LET fulls == {e \in own[n] : ~e.marked} \ deltas
           items == {Full(e) : e \in fulls} \cup {Delta(e) : e \in deltas}
                    \cup {Destroy(x) : x \in entities[n]}
       IN /\ own' = [own EXCEPT ![n] =
               {IF e \in deltas THEN [e EXCEPT !.prev = None] ELSE e : e \in @}]
          /\ frames' = [frames EXCEPT ![n] = [m \in Player |->
               IF m \in peers[n] \cap up THEN Append(@[m], items) ELSE @[m]]]
  /\ entities' = [entities EXCEPT ![n] = {x \in @ : ~(peers[n] \subseteq x.told)}]
  /\ UNCHANGED <<up, peers, copies, ids, orders, calls>>

LoseGameState(n, m) ==
  /\ n \in Lossy /\ frames[m][n] # <<>>
  /\ frames' = [frames EXCEPT ![m][n] = Tail(@)]
  /\ UNCHANGED <<up, peers, own, copies, ids, entities, orders, calls>>

Items(n, m, kind) == {x \in Head(frames[m][n]) : x.kind = kind}
Cockup(n, m) == \E x \in Items(n, m, "delta") : Name(m, x.id) \notin copies[n]

\* What m makes of an acknowledgement: who knows its elements and removals.
Acknowledged(n, m, S) ==
  {IF \E x \in Head(frames[m][n]) : x.kind # "destroy" /\ x.id = e.id
   THEN [e EXCEPT !.known = @ \cup {n}] ELSE e : e \in S}
Told(n, m, S) ==
  {IF Destroy(x) \in Head(frames[m][n]) THEN [x EXCEPT !.told = @ \cup {n}] ELSE x : x \in S}

\* ReceiveGameState.  A new name deletes the old one, be it a copy or n's own
\* element; what n does not have it creates, and tells its owner so.  The
\* acknowledgement (heard) may be lost.
ReceiveGameState(n, m) ==
  /\ frames[m][n] # <<>> /\ ~Cockup(n, m)
  /\ frames' = [frames EXCEPT ![m][n] = Tail(@)]
  /\ LET fulls == Items(n, m, "full")
         names == {Name(m, x.id) : x \in fulls}
         dead == {x.prev : x \in fulls} \cup {Name(m, x.id) : x \in Items(n, m, "destroy")}
         new == names \ (copies[n] \ dead)
         lost == {e \in own[n] : Name(n, e.id) \in dead}
     IN /\ copies' = [copies EXCEPT ![n] = (@ \ dead) \cup names]
        /\ orders' = [orders EXCEPT ![n][m] =
             IF new = {} THEN @ ELSE Append(@, [created |-> {h.id : h \in new}])]
        /\ \E heard \in {TRUE, n \notin Lossy} :
             /\ own' = [own EXCEPT ![n] = @ \ lost,
                                   ![m] = IF heard THEN Acknowledged(n, m, @) ELSE @]
             /\ entities' = [entities EXCEPT
                  ![n] = @ \cup {[id |-> e.id, told |-> {}] : e \in lost},
                  ![m] = IF heard THEN Told(n, m, @) ELSE @]
  /\ UNCHANGED <<up, peers, ids, calls>>

\* A difference to an element n does not have: the session ends for n.
ReceiveCockup(n, m) == frames[m][n] # <<>> /\ Cockup(n, m) /\ Gone(n)

\* Mutant: whatever element was created.
OnAckEntityCreate_Any(n, m) ==
  /\ orders[m][n] # <<>> /\ Head(orders[m][n]) \in Created
  /\ own' = [own EXCEPT ![n] = {[e EXCEPT !.acks = @ \cup {m}] : e \in @}]
  /\ orders' = Read(m, n)
  /\ UNCHANGED <<up, peers, copies, ids, entities, frames, calls>>

\* on_recv_ack_entity_create.
OnAckEntityCreate(n, m) ==
  /\ orders[m][n] # <<>> /\ Head(orders[m][n]) \in Created
  /\ own' = [own EXCEPT ![n] =
       {IF e.id \in Head(orders[m][n]).created THEN [e EXCEPT !.acks = @ \cup {m}] ELSE e : e \in @}]
  /\ orders' = Read(m, n)
  /\ UNCHANGED <<up, peers, copies, ids, entities, frames, calls>>

Next ==
  \E n \in Player :
    \/ RequestEntity(n) \/ RequestOwn(n) \/ RemoveElement(n) \/ Leave(n)
    \/ SendGameState(n)
    \/ \E m \in Player \ {n} :
         \/ OnRequest(n, m) \/ OnTransfer(n, m) \/ ReadNull(n, m)
         \/ RemovePlayerFromGame(n, m)
         \/ LoseGameState(n, m) \/ ReceiveGameState(n, m) \/ ReceiveCockup(n, m)
         \/ OnAckEntityCreate(n, m)

Spec == Init /\ [][Next]_vars

-----------------------------------------------------------------------------
(* Properties.                                                             *)

\* At most one player moves the element and sends its state, whoever asked for
\* it at the same time.
Owners == {n \in Player : \E e \in own[n] : ~e.marked}
OneOwner == Cardinality(Owners) <= 1 /\ \A n \in Owners :
              Cardinality({e \in own[n] : ~e.marked}) = 1

\* A player that confirmed the creation has the element until it changes hands:
\* "HasAcksFromAllPeers" asks that before the element goes on.
AcksAreCopies ==
  \A n \in up : \A e \in own[n] :
    ~e.marked => \A p \in e.acks \cap up : Name(n, e.id) \in copies[p]

\* While somebody owns the element, a player that still has it under another
\* name will be told: the owner names the old name with the new, or the old
\* owner announces the removal, or is gone.
StaleIsDoomed ==
  \A o \in Owners : \A e \in own[o] : ~e.marked =>
    \A p \in up :
      \A h \in copies[p] \cup {Name(p, f.id) : f \in own[p]} :
        \/ h = Name(o, e.id) \/ h = e.prev
        \/ h.owner \notin up
        \/ ~Has(h.owner, h.id) /\ \E x \in entities[h.owner] : x.id = h.id /\ p \notin x.told
=============================================================================
