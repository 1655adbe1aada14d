----------------------- MODULE ElementTransferProofs -----------------------
(***************************************************************************)
(* Proofs about ElementTransfer, for every number of players and whatever  *)
(* the game asks for: type correctness, that the element never has two     *)
(* owners, that who confirmed its creation has it as long as the owner     *)
(* does, and that who still has it under another name will be told.        *)
(***************************************************************************)
EXTENDS ElementTransfer, FiniteSetTheorems, SequenceTheorems, TLAPS

(* The players and the links between them.  Somebody who left knows nobody, *)
(* players of the game know each other, and game states on the way come     *)
(* from somebody their receiver knows.                                      *)
Mesh ==
  /\ \A n \in Player : n \notin up => peers[n] = {}
  /\ \A n, m \in up : n # m => m \in peers[n]
  /\ \A n, m \in Player : frames[m][n] # <<>> => m \in peers[n]

\* Where n is going to read from m that an element of m is now its own.
Handing(m, n) ==
  {i \in DOMAIN orders[m][n] : /\ orders[m][n][i] \notin Created
                               /\ orders[m][n][i].src = m /\ orders[m][n][i].dest = n}

(* The title to the element is with the one who sends its state, or under   *)
(* way, but never in two places.                                            *)
OneHolder ==
  \A n, m \in Player : \A e \in own[n], f \in own[m] :
    ~e.marked /\ ~f.marked => n = m /\ e = f
HeldOrHanded ==
  \A m, n, p \in Player : \A i \in Handing(m, n), e \in own[p] : e.marked
OneHanding ==
  \A m, n, k, l \in Player : \A i \in Handing(m, n), j \in Handing(k, l) :
    m = k /\ n = l /\ i = j
OneTitle == OneHolder /\ HeldOrHanded /\ OneHanding

IInv == TypeOK /\ Mesh /\ OneTitle

-----------------------------------------------------------------------------
(* The operators.                                                           *)

Links == [Player -> [Player -> Seq(Order)]]

\* What a broadcast leaves on the links.
Sent(way, after, n, o) ==
  \A m, k \in Player : after[m][k] =
    IF m = n /\ k \in peers[n] /\ (k = o.src \/ (n = o.src /\ k = o.dest))
    THEN Append(way[m][k], o) ELSE way[m][k]

\* A message is added to the end of some links of one sender.
LEMMA BroadcastSent ==
  ASSUME TypeOK, NEW way \in Links, NEW n \in Player, NEW o \in Order
  PROVE  Sent(way, Broadcast(way, n, o), n, o)
<1> DEFINE row == [k \in Player |->
             IF k \in peers[n] /\ (k = o.src \/ (n = o.src /\ k = o.dest))
             THEN Append(way[n][k], o) ELSE way[n][k]]
<1>1. Broadcast(way, n, o) = [way EXCEPT ![n] = row]  BY DEF Broadcast, Links
<1>2. \A k \in Player : row[k] =
        IF k \in peers[n] /\ (k = o.src \/ (n = o.src /\ k = o.dest))
        THEN Append(way[n][k], o) ELSE way[n][k]
  OBVIOUS
<1> HIDE DEF row
<1>3. \A k \in Player : Broadcast(way, n, o)[n][k] = row[k]  BY <1>1 DEF Links
<1>4. \A m, k \in Player : m # n => Broadcast(way, n, o)[m][k] = way[m][k]  BY <1>1 DEF Links
<1> QED  BY <1>2, <1>3, <1>4 DEF Sent

LEMMA BroadcastType ==
  ASSUME TypeOK, NEW way \in [Player -> [Player -> Seq(Order)]], NEW n \in Player, NEW o \in Order
  PROVE  /\ Broadcast(way, n, o) \in [Player -> [Player -> Seq(Order)]]
         /\ \A m, k \in Player : Broadcast(way, n, o)[m][k] =
              IF m = n /\ k \in peers[n] /\ (k = o.src \/ (n = o.src /\ k = o.dest))
              THEN Append(way[n][k], o) ELSE way[m][k]
<1> DEFINE row == [k \in Player |->
             IF k \in peers[n] /\ (k = o.src \/ (n = o.src /\ k = o.dest))
             THEN Append(way[n][k], o) ELSE way[n][k]]
<1>1. \A k \in Player : way[n][k] \in Seq(Order)  OBVIOUS
<1>2. \A k \in Player : Append(way[n][k], o) \in Seq(Order)  BY <1>1
<1>3. row \in [Player -> Seq(Order)]  BY <1>1, <1>2
<1>4. Broadcast(way, n, o) = [way EXCEPT ![n] = row]  BY DEF Broadcast
<1> HIDE DEF row
<1>5. Broadcast(way, n, o) \in [Player -> [Player -> Seq(Order)]]  BY <1>3, <1>4
<1>6. \A k \in Player : Broadcast(way, n, o)[n][k] = row[k]  BY <1>4
<1>7. \A m, k \in Player : m # n => Broadcast(way, n, o)[m][k] = way[m][k]  BY <1>4
<1> QED  BY <1>5, <1>6, <1>7 DEF row

LEMMA ReadType ==
  ASSUME TypeOK, NEW m \in Player, NEW n \in Player, orders[m][n] # <<>>
  PROVE  /\ Read(m, n) \in [Player -> [Player -> Seq(Order)]]
         /\ \A k, l \in Player : Read(m, n)[k][l] =
              IF k = m /\ l = n THEN Tail(orders[m][n]) ELSE orders[k][l]
         /\ Head(orders[m][n]) \in Order
<1>1. orders[m][n] \in Seq(Order)  BY DEF TypeOK
<1>2. Tail(orders[m][n]) \in Seq(Order) /\ Head(orders[m][n]) \in Order  BY <1>1
<1> QED  BY <1>2 DEF Read, TypeOK

\* What is read is a hand-over or a request, with players in it.
LEMMA TransfersType ==
  ASSUME TypeOK, NEW m \in Player, NEW n \in Player, NEW o \in Transfers(m, n)
  PROVE  /\ orders[m][n] # <<>> /\ o = Head(orders[m][n]) /\ o \notin Created
         /\ o \in [src : Player, elem : Id, dest : Player]
<1>1. orders[m][n] # <<>> /\ o = Head(orders[m][n]) /\ o \notin Created  BY DEF Transfers
<1>2. o \in Order  BY <1>1, ReadType
<1> QED  BY <1>1, <1>2 DEF Order

-----------------------------------------------------------------------------
(* Type correctness, an action at a time.                                   *)

\* What is known of the names of a player's own elements.
LEMMA NamesType ==
  ASSUME TypeOK
  PROVE  \A k \in Player : /\ ids[k] \in Nat
                           /\ \A g \in own[k] : g \in Owned /\ g.id \in Nat /\ g.id < ids[k]
                           /\ \A f, g \in own[k] : f.id = g.id => f = g
<1>1. \A k \in Player : own[k] \in SUBSET Owned  BY DEF TypeOK
<1>2. \A g \in Owned : g.id \in Nat  BY DEF Owned, Id
<1>3. \A k \in Player : ids[k] \in Nat  BY DEF TypeOK
<1>4. \A k \in Player : \A g \in own[k] : g.id < ids[k]  BY DEF TypeOK
<1>5. \A k \in Player : \A f, g \in own[k] : f.id = g.id => f = g  BY DEF TypeOK
<1> QED  BY <1>1, <1>2, <1>3, <1>4, <1>5

LEMMA InitType == Init => TypeOK
<1> SUFFICES ASSUME Init PROVE TypeOK  OBVIOUS
<1>1. NewElement(0, None) \in Owned /\ NewElement(0, None).id = 0
  BY DEF NewElement, Owned, Id
<1>2. \A n \in Player : own[n] \subseteq {NewElement(0, None)}  BY DEF Init
<1>3. own \in [Player -> SUBSET Owned]  BY <1>1 DEF Init
<1>4. \A n \in Player : \A e \in own[n] : e.id < ids[n]  BY <1>1, FirstAssumption DEF Init
<1>5. orders \in [Player -> [Player -> Seq(Order)]]  BY DEF Init
<1>6. frames \in [Player -> [Player -> Seq(SUBSET Item)]]  BY DEF Init
<1>7. /\ up \subseteq Player /\ peers \in [Player -> SUBSET Player]
      /\ \A n \in Player : n \notin peers[n]
      /\ copies \in [Player -> SUBSET Handle] /\ \A n \in Player : copies[n] = {}
      /\ ids \in [Player -> Nat] /\ calls \in Nat
  BY DEF Init
<1>8. entities \in [Player -> SUBSET [id : Id, told : SUBSET Player]]  BY DEF Init
<1> QED  BY <1>2, <1>3, <1>4, <1>5, <1>6, <1>7, <1>8 DEF TypeOK

\* Marking an element keeps its name, and hands over what has been read.
LEMMA TransferType ==
  ASSUME TypeOK, NEW way \in [Player -> [Player -> Seq(Order)]], NEW n \in Player,
         NEW e \in own[n], NEW d \in Player, TransferEntity(way, n, e, d)
  PROVE  /\ own' \in [Player -> SUBSET Owned]
         /\ \A k \in Player : k # n => own'[k] = own[k]
         /\ own'[n] = Replaced(own[n], e, [e EXCEPT !.marked = TRUE])
         /\ \A f \in own'[n] : \E g \in own[n] : f.id = g.id
         /\ \A f, g \in own'[n] : f.id = g.id => f = g
         /\ orders' \in [Player -> [Player -> Seq(Order)]]
<1> DEFINE f == [e EXCEPT !.marked = TRUE]
<1>1. e \in Owned /\ own[n] \in SUBSET Owned  BY DEF TypeOK
<1>2. f \in Owned /\ f.id = e.id  BY <1>1 DEF Owned
<1>3. own' = [own EXCEPT ![n] = Replaced(own[n], e, f)]  BY DEF TransferEntity
<1> HIDE DEF f
<1>4. own'[n] = (own[n] \ {e}) \cup {f} /\ \A k \in Player : k # n => own'[k] = own[k]
  BY <1>3 DEF TypeOK, Replaced
<1>5. own' \in [Player -> SUBSET Owned]  BY <1>1, <1>2, <1>3 DEF TypeOK, Replaced
<1>6. \A g, h \in own'[n] : g.id = h.id => g = h
  BY <1>2, <1>4 DEF TypeOK
<1>7. \A g \in own'[n] : \E h \in own[n] : g.id = h.id  BY <1>2, <1>4
<1>8. [src |-> n, elem |-> e.id, dest |-> d] \in Order  BY <1>1 DEF Owned, Order
<1>9. orders' \in [Player -> [Player -> Seq(Order)]]
  BY <1>8, BroadcastType DEF TransferEntity
<1> QED  BY <1>4, <1>5, <1>6, <1>7, <1>9 DEF f, Replaced

LEMMA RequestEntityType ==
  ASSUME TypeOK, NEW n \in Player, RequestEntity(n)
  PROVE  TypeOK'
<1>1. PICK h \in copies[n] :
        orders' = Broadcast(orders, n, [src |-> h.owner, elem |-> h.id, dest |-> n])
  BY DEF RequestEntity
<1>2. [src |-> h.owner, elem |-> h.id, dest |-> n] \in Order  BY DEF TypeOK, Handle, Order
<1> orders \in [Player -> [Player -> Seq(Order)]]  BY DEF TypeOK
<1>3. orders' \in [Player -> [Player -> Seq(Order)]]  BY <1>1, <1>2, BroadcastType
<1>4. UNCHANGED <<up, peers, own, copies, ids, entities, frames>> /\ calls' = calls + 1
  BY DEF RequestEntity
<1>5. calls' \in Nat  BY <1>4 DEF TypeOK
<1>6. UNCHANGED <<up, peers, own, copies, ids, entities, frames>>  BY <1>4
<1> QED  BY <1>3, <1>5, <1>6 DEF TypeOK

LEMMA RequestOwnType ==
  ASSUME TypeOK, NEW n \in Player, RequestOwn(n)
  PROVE  TypeOK'
<1>1. PICK e \in own[n] : TransferEntity(orders, n, e, n)  BY DEF RequestOwn
<1>2. orders \in [Player -> [Player -> Seq(Order)]]  BY DEF TypeOK
<1>3. UNCHANGED <<up, peers, copies, ids, entities, frames>> /\ calls' = calls + 1
  BY DEF RequestOwn
<1>4. /\ own' \in [Player -> SUBSET Owned]
      /\ \A k \in Player : k # n => own'[k] = own[k]
      /\ \A f \in own'[n] : \E g \in own[n] : f.id = g.id
      /\ \A f, g \in own'[n] : f.id = g.id => f = g
      /\ orders' \in [Player -> [Player -> Seq(Order)]]
  BY <1>1, <1>2, TransferType
<1>5. \A k \in Player : \A f, g \in own'[k] : f.id = g.id => f = g  BY <1>4 DEF TypeOK
<1>6. \A k \in Player : \A f \in own'[k] : f.id < ids'[k]  BY <1>3, <1>4, NamesType
<1>7. calls' \in Nat  BY <1>3 DEF TypeOK
<1>8. \A k \in Player : \A h \in copies'[k] : h.owner \in peers'[k]  BY <1>3 DEF TypeOK
<1>9. UNCHANGED <<up, peers, copies, ids, entities, frames>>  BY <1>3
<1> QED  BY <1>4, <1>5, <1>6, <1>7, <1>8, <1>9 DEF TypeOK

LEMMA OnRequestType ==
  ASSUME TypeOK, NEW n \in Player, NEW m \in Player, OnRequest(n, m)
  PROVE  TypeOK'
<1>1. PICK o \in Transfers(m, n) :
        \/ \E e \in own[n] : TransferEntity(Read(m, n), n, e, o.dest)
        \/ orders' = Read(m, n) /\ UNCHANGED own
  BY DEF OnRequest
<1>2. orders[m][n] # <<>> /\ o.dest \in Player  BY TransfersType
<1>3. Read(m, n) \in [Player -> [Player -> Seq(Order)]]  BY <1>2, ReadType
<1>4. UNCHANGED <<up, peers, copies, ids, entities, frames, calls>>  BY DEF OnRequest
<1>5. CASE orders' = Read(m, n) /\ UNCHANGED own
  BY <1>3, <1>4, <1>5 DEF TypeOK
<1>6. CASE \E e \in own[n] : TransferEntity(Read(m, n), n, e, o.dest)
  <2>1. /\ own' \in [Player -> SUBSET Owned]
        /\ \A k \in Player : k # n => own'[k] = own[k]
        /\ \A f \in own'[n] : \E g \in own[n] : f.id = g.id
        /\ \A f, g \in own'[n] : f.id = g.id => f = g
        /\ orders' \in [Player -> [Player -> Seq(Order)]]
    BY <1>2, <1>3, <1>6, TransferType
  <2>2. \A k \in Player : \A f, g \in own'[k] : f.id = g.id => f = g  BY <2>1 DEF TypeOK
  <2>3. \A k \in Player : \A f \in own'[k] : f.id < ids'[k]  BY <1>4, <2>1, NamesType
  <2> QED  BY <1>4, <2>1, <2>2, <2>3 DEF TypeOK
<1> QED  BY <1>1, <1>5, <1>6

\* The new owner's element: its number is one the owner has not used.
LEMMA OnTransferOwn ==
  ASSUME TypeOK, NEW n \in Player, NEW m \in Player, OnTransfer(n, m)
  PROVE  \E h \in copies[n] :
           /\ copies' = [copies EXCEPT ![n] = @ \ {h}]
           /\ own' = [own EXCEPT ![n] = @ \cup {NewElement(ids[n], h)}]
           /\ orders' = Read(m, n) /\ orders[m][n] # <<>>
           /\ Head(orders[m][n]) \notin Created
           /\ Head(orders[m][n]).src = m /\ Head(orders[m][n]).dest = n
           /\ h = Name(m, Head(orders[m][n]).elem)
<1>1. PICK o \in Transfers(m, n) :
        /\ o.src = m /\ o.dest = n /\ Name(o.src, o.elem) \in copies[n]
        /\ copies' = [copies EXCEPT ![n] = @ \ {Name(o.src, o.elem)}]
        /\ own' = [own EXCEPT ![n] = @ \cup {NewElement(ids[n], Name(o.src, o.elem))}]
  BY DEF OnTransfer
<1>2. orders[m][n] # <<>> /\ o = Head(orders[m][n]) /\ o \notin Created  BY TransfersType
<1> QED  BY <1>1, <1>2 DEF OnTransfer

LEMMA OnTransferType ==
  ASSUME TypeOK, NEW n \in Player, NEW m \in Player, OnTransfer(n, m)
  PROVE  TypeOK'
<1>1. PICK h \in copies[n] :
           /\ copies' = [copies EXCEPT ![n] = @ \ {h}]
           /\ own' = [own EXCEPT ![n] = @ \cup {NewElement(ids[n], h)}]
           /\ orders' = Read(m, n) /\ orders[m][n] # <<>>
  BY OnTransferOwn
<1> DEFINE e == NewElement(ids[n], h)
<1>2. e \in Owned /\ e.id = ids[n]  BY DEF TypeOK, NewElement, Owned, Id
<1> HIDE DEF e
<1>3. own'[n] = own[n] \cup {e} /\ \A k \in Player : k # n => own'[k] = own[k]
  BY <1>1 DEF TypeOK, e
<1>4. own' \in [Player -> SUBSET Owned]  BY <1>1, <1>2 DEF TypeOK, e
<1>5. ids' = [ids EXCEPT ![n] = @ + 1] /\ UNCHANGED <<up, peers, entities, frames, calls>>
  BY DEF OnTransfer
<1>6. ids' \in [Player -> Nat] /\ ids'[n] = ids[n] + 1 /\ \A k \in Player : k # n => ids'[k] = ids[k]
  BY <1>5 DEF TypeOK
<1>7. \A k \in Player : \A f, g \in own'[k] : f.id = g.id => f = g
  <2> SUFFICES ASSUME NEW f \in own'[n], NEW g \in own'[n], f.id = g.id PROVE f = g
    BY <1>3 DEF TypeOK
  <2> QED  BY <1>2, <1>3, NamesType
<1>8. \A k \in Player : \A f \in own'[k] : f.id < ids'[k]
  BY <1>2, <1>3, <1>6, NamesType
<1>9. /\ copies' \in [Player -> SUBSET Handle]
      /\ \A k \in Player : copies'[k] \subseteq copies[k]
  BY <1>1 DEF TypeOK
<1>10. orders' \in [Player -> [Player -> Seq(Order)]]  BY <1>1, ReadType
<1> QED  BY <1>4, <1>5, <1>6, <1>7, <1>8, <1>9, <1>10 DEF TypeOK

LEMMA GoneOrders ==
  ASSUME TypeOK, NEW n \in Player, Gone(n)
  PROVE  /\ orders' \in [Player -> [Player -> Seq(Order)]]
         /\ frames' \in [Player -> [Player -> Seq(SUBSET Item)]]
         /\ \A k, l \in Player : orders'[k][l] = IF l = n THEN <<>> ELSE orders[k][l]
         /\ \A k, l \in Player : frames'[k][l] = IF l = n THEN <<>> ELSE frames[k][l]
<1>1. \A k \in Player : /\ [orders[k] EXCEPT ![n] = <<>>] \in [Player -> Seq(Order)]
                        /\ [frames[k] EXCEPT ![n] = <<>>] \in [Player -> Seq(SUBSET Item)]
  <2>1. \A k \in Player : orders[k] \in [Player -> Seq(Order)]  BY DEF TypeOK
  <2>2. \A k \in Player : frames[k] \in [Player -> Seq(SUBSET Item)]  BY DEF TypeOK
  <2> QED  BY <2>1, <2>2
<1>2. /\ orders' \in [Player -> [Player -> Seq(Order)]]
      /\ frames' \in [Player -> [Player -> Seq(SUBSET Item)]]
  BY <1>1 DEF Gone
<1> QED  BY <1>2 DEF TypeOK, Gone

LEMMA GoneType ==
  ASSUME TypeOK, NEW n \in Player, Gone(n)
  PROVE  TypeOK'
<1>1. /\ orders' \in [Player -> [Player -> Seq(Order)]]
      /\ frames' \in [Player -> [Player -> Seq(SUBSET Item)]]
  BY GoneOrders
<1>2. /\ own' = [own EXCEPT ![n] = {}] /\ copies' = [copies EXCEPT ![n] = {}]
      /\ peers' = [peers EXCEPT ![n] = {}] /\ entities' = [entities EXCEPT ![n] = {}]
      /\ up' = up \ {n} /\ UNCHANGED <<ids, calls>>
  BY DEF Gone
<1>3. own' \in [Player -> SUBSET Owned] /\ \A k \in Player : own'[k] \subseteq own[k]
  BY <1>2 DEF TypeOK
<1>4. /\ copies' \in [Player -> SUBSET Handle] /\ peers' \in [Player -> SUBSET Player]
      /\ \A k \in Player : copies'[k] = IF k = n THEN {} ELSE copies[k]
      /\ \A k \in Player : peers'[k] = IF k = n THEN {} ELSE peers[k]
      /\ entities' \in [Player -> SUBSET [id : Id, told : SUBSET Player]]
  BY <1>2 DEF TypeOK
<1>5. \A k \in Player : \A f, g \in own'[k] : f.id = g.id => f = g  BY <1>3, NamesType
<1>6. \A k \in Player : \A f \in own'[k] : f.id < ids'[k]  BY <1>2, <1>3, NamesType
<1>7. \A k \in Player : \A h \in copies'[k] : h.owner \in peers'[k]  BY <1>4 DEF TypeOK
<1>8. up' \subseteq Player /\ \A k \in Player : k \notin peers'[k]  BY <1>2, <1>4 DEF TypeOK
<1>9. ids' \in [Player -> Nat] /\ calls' \in Nat  BY <1>2 DEF TypeOK
<1> QED  BY <1>1, <1>3, <1>4, <1>5, <1>6, <1>7, <1>8, <1>9 DEF TypeOK

LEMMA RemovePlayerType ==
  ASSUME TypeOK, NEW n \in Player, NEW m \in Player, RemovePlayerFromGame(n, m)
  PROVE  TypeOK'
<1>1. /\ peers' = [peers EXCEPT ![n] = @ \ {m}]
      /\ copies' = [copies EXCEPT ![n] = {h \in @ : h.owner # m}]
      /\ orders' = [orders EXCEPT ![m][n] = <<>>] /\ frames' = [frames EXCEPT ![m][n] = <<>>]
      /\ UNCHANGED <<up, own, ids, entities, calls>>
  BY DEF RemovePlayerFromGame
<1>2. /\ orders' \in [Player -> [Player -> Seq(Order)]]
      /\ frames' \in [Player -> [Player -> Seq(SUBSET Item)]]
  <2>1. \A k \in Player : orders[k] \in [Player -> Seq(Order)]  BY DEF TypeOK
  <2>2. \A k \in Player : frames[k] \in [Player -> Seq(SUBSET Item)]  BY DEF TypeOK
  <2>3. <<>> \in Seq(Order) /\ <<>> \in Seq(SUBSET Item)  OBVIOUS
  <2>4. orders' = [orders EXCEPT ![m] = [orders[m] EXCEPT ![n] = <<>>]]  BY <1>1 DEF TypeOK
  <2>5. frames' = [frames EXCEPT ![m] = [frames[m] EXCEPT ![n] = <<>>]]  BY <1>1 DEF TypeOK
  <2> QED  BY <2>1, <2>2, <2>3, <2>4, <2>5 DEF TypeOK
<1>3. /\ copies' \in [Player -> SUBSET Handle] /\ peers' \in [Player -> SUBSET Player]
      /\ \A k \in Player : copies'[k] = IF k = n THEN {h \in copies[n] : h.owner # m} ELSE copies[k]
      /\ \A k \in Player : peers'[k] = IF k = n THEN peers[n] \ {m} ELSE peers[k]
  BY <1>1 DEF TypeOK
<1>4. \A k \in Player : \A h \in copies'[k] : h.owner \in peers'[k]
  <2>1. \A k \in Player : \A h \in copies[k] : h.owner \in peers[k]  BY DEF TypeOK
  <2> QED  BY <1>3, <2>1
<1>5. \A k \in Player : k \notin peers'[k]  BY <1>3 DEF TypeOK
<1>6. UNCHANGED <<up, own, ids, entities, calls>>  BY <1>1
<1> QED  BY <1>2, <1>3, <1>4, <1>5, <1>6 DEF TypeOK

LEMMA RemoveElementType ==
  ASSUME TypeOK, NEW n \in Player, RemoveElement(n)
  PROVE  TypeOK'
<1>1. PICK e \in own[n] : own' = [own EXCEPT ![n] = @ \ {e}] /\ Removed(n, {e})
  BY DEF RemoveElement
<1>2. UNCHANGED <<up, peers, copies, ids, orders, frames>> /\ calls' = calls + 1
  BY DEF RemoveElement
<1>3. own' \in [Player -> SUBSET Owned] /\ \A k \in Player : own'[k] \subseteq own[k]
  BY <1>1 DEF TypeOK
<1>4. entities' = [entities EXCEPT ![n] = @ \cup {[id |-> e.id, told |-> {}]}]
  BY <1>1 DEF Removed
<1>5. [id |-> e.id, told |-> {}] \in [id : Id, told : SUBSET Player]  BY DEF TypeOK, Owned
<1>6. entities' \in [Player -> SUBSET [id : Id, told : SUBSET Player]]
  BY <1>4, <1>5 DEF TypeOK
<1>7. \A k \in Player : \A f, g \in own'[k] : f.id = g.id => f = g  BY <1>3, NamesType
<1>8. \A k \in Player : \A f \in own'[k] : f.id < ids'[k]  BY <1>2, <1>3, NamesType
<1>9. calls' \in Nat  BY <1>2 DEF TypeOK
<1>10. UNCHANGED <<up, peers, copies, ids, orders, frames>>  BY <1>2
<1> QED  BY <1>3, <1>6, <1>7, <1>8, <1>9, <1>10 DEF TypeOK

\* The items of a game state.
LEMMA ItemTypes ==
  ASSUME TypeOK, NEW m \in Player, NEW n \in Player, frames[m][n] # <<>>
  PROVE  /\ Tail(frames[m][n]) \in Seq(SUBSET Item)
         /\ \A x \in Head(frames[m][n]) : x \in Item /\ x.id \in Id
         /\ \A x \in Items(n, m, "full") : x.id \in Id /\ x.prev \in Handle \cup {None}
         /\ \A i \in Id : Name(m, i) \in Handle /\ Name(m, i).owner = m /\ Name(m, i).id = i
<1>1. frames[m][n] \in Seq(SUBSET Item)  BY DEF TypeOK
<1>2. Head(frames[m][n]) \in SUBSET Item /\ Tail(frames[m][n]) \in Seq(SUBSET Item)  BY <1>1
<1>3. \A x \in Item : x.id \in Id  BY DEF Item
<1>4. \A x \in Item : x.kind = "full" => x.prev \in Handle \cup {None}  BY DEF Item
<1>5. \A i \in Id : Name(m, i) \in Handle /\ Name(m, i).owner = m /\ Name(m, i).id = i
  BY DEF Name, Handle
<1> QED  BY <1>2, <1>3, <1>4, <1>5 DEF Items

\* Elements of which only what others know of them has changed, and removals.
Same(e, f) == f.id = e.id /\ f.marked = e.marked /\ f.prev \in {e.prev, None}
Kept(e, f) == Same(e, f) /\ f.acks = e.acks

LEMMA AcknowledgedType ==
  ASSUME TypeOK, NEW n \in Player, NEW m \in Player
  PROVE  /\ Acknowledged(n, m, own[m]) \in SUBSET Owned
         /\ \A f \in Acknowledged(n, m, own[m]) : \E e \in own[m] : Kept(e, f)
         /\ \A f, g \in Acknowledged(n, m, own[m]) : f.id = g.id => f = g
<1> DEFINE h(e) == IF \E x \in Head(frames[m][n]) : x.kind # "destroy" /\ x.id = e.id
                   THEN [e EXCEPT !.known = @ \cup {n}] ELSE e
<1>1. \A e \in Owned : h(e) \in Owned /\ Kept(e, h(e))  BY DEF Owned, Same, Kept
<1>2. Acknowledged(n, m, own[m]) = {h(e) : e \in own[m]}  BY DEF Acknowledged
<1> HIDE DEF h
<1>3. own[m] \in SUBSET Owned /\ \A e, f \in own[m] : e.id = f.id => e = f  BY NamesType
<1>4. \A f, g \in Acknowledged(n, m, own[m]) : f.id = g.id => f = g
  <2> SUFFICES ASSUME NEW e \in own[m], NEW d \in own[m], h(e).id = h(d).id PROVE h(e) = h(d)
    BY <1>2
  <2>1. e.id = d.id  BY <1>1, <1>3 DEF Same, Kept
  <2> QED  BY <2>1, <1>3
<1> QED  BY <1>1, <1>2, <1>3, <1>4

LEMMA ToldType ==
  ASSUME TypeOK, NEW n \in Player, NEW m \in Player
  PROVE  \A S \in SUBSET [id : Id, told : SUBSET Player] :
           Told(n, m, S) \in SUBSET [id : Id, told : SUBSET Player]
<1>1. \A x \in [id : Id, told : SUBSET Player] :
        [x EXCEPT !.told = @ \cup {n}] \in [id : Id, told : SUBSET Player]  OBVIOUS
<1> QED  BY <1>1 DEF Told

LEMMA LoseType ==
  ASSUME TypeOK, NEW n \in Player, NEW m \in Player, LoseGameState(n, m)
  PROVE  TypeOK'
<1>1. frames' = [frames EXCEPT ![m][n] = Tail(@)] /\ frames[m][n] # <<>>
  BY DEF LoseGameState
<1>2. Tail(frames[m][n]) \in Seq(SUBSET Item)  BY <1>1, ItemTypes
<1>3. frames' \in [Player -> [Player -> Seq(SUBSET Item)]]  BY <1>1, <1>2 DEF TypeOK
<1> QED  BY <1>3 DEF TypeOK, LoseGameState

\* What the sender keeps: the same elements, perhaps without an old name.
LEMMA SendOwn ==
  ASSUME TypeOK, NEW n \in Player, SendGameState(n)
  PROVE  /\ own' \in [Player -> SUBSET Owned]
         /\ \A k \in Player : k # n => own'[k] = own[k]
         /\ \A f \in own'[n] : \E e \in own[n] : Kept(e, f)
         /\ \A f, g \in own'[n] : f.id = g.id => f = g
<1>1. PICK deltas : own' = [own EXCEPT ![n] =
        {IF e \in deltas THEN [e EXCEPT !.prev = None] ELSE e : e \in @}]
  BY DEF SendGameState
<1> DEFINE h(e) == IF e \in deltas THEN [e EXCEPT !.prev = None] ELSE e
<1>2. \A e \in Owned : h(e) \in Owned /\ Kept(e, h(e))  BY DEF Owned, Same, Kept
<1>3. own'[n] = {h(e) : e \in own[n]} /\ \A k \in Player : k # n => own'[k] = own[k]
  BY <1>1 DEF TypeOK
<1>4. own' = [own EXCEPT ![n] = {h(e) : e \in own[n]}]  BY <1>1 DEF TypeOK
<1> HIDE DEF h
<1>5. own[n] \in SUBSET Owned /\ \A e, f \in own[n] : e.id = f.id => e = f  BY NamesType
<1>6. own' \in [Player -> SUBSET Owned]  BY <1>2, <1>4, <1>5 DEF TypeOK
<1>7. \A f, g \in own'[n] : f.id = g.id => f = g
  <2> SUFFICES ASSUME NEW e \in own[n], NEW d \in own[n], h(e).id = h(d).id PROVE h(e) = h(d)
    BY <1>3
  <2>1. e.id = d.id  BY <1>2, <1>5 DEF Same, Kept
  <2> QED  BY <2>1, <1>5
<1> QED  BY <1>2, <1>3, <1>5, <1>6, <1>7

LEMMA SendFrames ==
  ASSUME TypeOK, NEW n \in Player, SendGameState(n)
  PROVE  /\ frames' \in [Player -> [Player -> Seq(SUBSET Item)]]
         /\ \A k, l \in Player : frames'[k][l] # frames[k][l] => k = n /\ l \in peers[n] \cap up
<1> DEFINE fulls(deltas) == {e \in own[n] : ~e.marked} \ deltas
           items(deltas) == {Full(e) : e \in fulls(deltas)} \cup {Delta(e) : e \in deltas}
                            \cup {Destroy(x) : x \in entities[n]}
           row(it) == [m \in Player |-> IF m \in peers[n] \cap up
                                        THEN Append(frames[n][m], it) ELSE frames[n][m]]
<1>1. PICK deltas \in SUBSET {e \in own[n] : ~e.marked /\ peers[n] \subseteq e.known} :
        frames' = [frames EXCEPT ![n] = row(items(deltas))]
  BY DEF SendGameState
<1>2. \A e \in own[n] : e.id \in Id /\ e.prev \in Handle \cup {None}  BY DEF TypeOK, Owned
<1>3. \A x \in entities[n] : x.id \in Id  BY DEF TypeOK
<1>4. \A e \in own[n] : Full(e) \in Item /\ Delta(e) \in Item
  BY <1>2 DEF Full, Delta, Item
<1>5. \A x \in entities[n] : Destroy(x) \in Item  BY <1>3 DEF Destroy, Item
<1>6. items(deltas) \in SUBSET Item  BY <1>4, <1>5
<1> HIDE DEF items
<1>7. \A m \in Player : frames[n][m] \in Seq(SUBSET Item)  BY DEF TypeOK
<1>8. \A m \in Player : Append(frames[n][m], items(deltas)) \in Seq(SUBSET Item)  BY <1>6, <1>7
<1>9. row(items(deltas)) \in [Player -> Seq(SUBSET Item)]  BY <1>7, <1>8
<1>10. \A l \in Player : row(items(deltas))[l] # frames[n][l] => l \in peers[n] \cap up  OBVIOUS
<1> HIDE DEF row
<1> QED  BY <1>1, <1>9, <1>10 DEF TypeOK

LEMMA SendType ==
  ASSUME TypeOK, NEW n \in Player, SendGameState(n)
  PROVE  TypeOK'
<1>1. frames' \in [Player -> [Player -> Seq(SUBSET Item)]]  BY SendFrames
<1>2. /\ own' \in [Player -> SUBSET Owned]
      /\ \A k \in Player : k # n => own'[k] = own[k]
      /\ \A f \in own'[n] : \E e \in own[n] : f.id = e.id
      /\ \A f, g \in own'[n] : f.id = g.id => f = g
  BY SendOwn DEF Same, Kept
<1>3. entities' = [entities EXCEPT ![n] = {x \in @ : ~(peers[n] \subseteq x.told)}]
  BY DEF SendGameState
<1>4. entities' \in [Player -> SUBSET [id : Id, told : SUBSET Player]]  BY <1>3 DEF TypeOK
<1>5. UNCHANGED <<up, peers, copies, ids, orders, calls>>  BY DEF SendGameState
<1>6. \A k \in Player : \A f \in own'[k] : f.id < ids'[k]  BY <1>2, <1>5, NamesType
<1>7. \A k \in Player : \A f, g \in own'[k] : f.id = g.id => f = g  BY <1>2, NamesType
<1> QED  BY <1>1, <1>2, <1>4, <1>5, <1>6, <1>7 DEF TypeOK

\* A creation is confirmed: the same elements.
LEMMA AckOwn ==
  ASSUME TypeOK, NEW n \in Player, NEW m \in Player, OnAckEntityCreate(n, m)
  PROVE  /\ own' \in [Player -> SUBSET Owned]
         /\ \A k \in Player : k # n => own'[k] = own[k]
         /\ \A f \in own'[n] : \E e \in own[n] : Same(e, f)
         /\ \A f, g \in own'[n] : f.id = g.id => f = g
<1> DEFINE h(e) == IF e.id \in Head(orders[m][n]).created
                   THEN [e EXCEPT !.acks = @ \cup {m}] ELSE e
<1>1. own' = [own EXCEPT ![n] = {h(e) : e \in own[n]}]  BY DEF OnAckEntityCreate, TypeOK
<1>2. \A e \in Owned : h(e) \in Owned /\ Same(e, h(e))  BY DEF Owned, Same
<1> HIDE DEF h
<1>3. own'[n] = {h(e) : e \in own[n]} /\ \A k \in Player : k # n => own'[k] = own[k]
  BY <1>1 DEF TypeOK
<1>5. own[n] \in SUBSET Owned /\ \A e, f \in own[n] : e.id = f.id => e = f  BY NamesType
<1>4. {h(e) : e \in own[n]} \in SUBSET Owned  BY <1>2, <1>5
<1>6. own' \in [Player -> SUBSET Owned]
  <2>1. own \in [Player -> SUBSET Owned]  BY DEF TypeOK
  <2> QED  BY <1>1, <1>4, <2>1
<1>7. \A f, g \in own'[n] : f.id = g.id => f = g
  <2> SUFFICES ASSUME NEW e \in own[n], NEW d \in own[n], h(e).id = h(d).id PROVE h(e) = h(d)
    BY <1>3
  <2>1. e.id = d.id  BY <1>2, <1>5 DEF Same
  <2> QED  BY <2>1, <1>5
<1> QED  BY <1>2, <1>3, <1>5, <1>6, <1>7

LEMMA AckType ==
  ASSUME TypeOK, NEW n \in Player, NEW m \in Player, OnAckEntityCreate(n, m)
  PROVE  TypeOK'
<1>1. orders' = Read(m, n) /\ orders[m][n] # <<>>  BY DEF OnAckEntityCreate
<1>2. orders' \in [Player -> [Player -> Seq(Order)]]  BY <1>1, ReadType
<1>3. /\ own' \in [Player -> SUBSET Owned]
      /\ \A k \in Player : k # n => own'[k] = own[k]
      /\ \A f \in own'[n] : \E e \in own[n] : f.id = e.id
      /\ \A f, g \in own'[n] : f.id = g.id => f = g
  BY AckOwn DEF Same
<1>4. UNCHANGED <<up, peers, copies, ids, entities, frames, calls>>  BY DEF OnAckEntityCreate
<1>5. \A k \in Player : \A f \in own'[k] : f.id < ids'[k]  BY <1>3, <1>4, NamesType
<1>6. \A k \in Player : \A f, g \in own'[k] : f.id = g.id => f = g  BY <1>3, NamesType
<1> QED  BY <1>2, <1>3, <1>4, <1>5, <1>6 DEF TypeOK

\* What a game state of m changes at n, and its acknowledgement at m.
LEMMA ReceiveOwn ==
  ASSUME TypeOK, NEW n \in Player, NEW m \in Player, n # m, ReceiveGameState(n, m)
  PROVE  /\ own' \in [Player -> SUBSET Owned]
         /\ \A k \in Player : \A f \in own'[k] : \E e \in own[k] : Kept(e, f)
         /\ \A k \in Player : \A f, g \in own'[k] : f.id = g.id => f = g
         /\ entities' \in [Player -> SUBSET [id : Id, told : SUBSET Player]]
<1>1. PICK lost \in SUBSET own[n], heard \in BOOLEAN :
        /\ own' = [own EXCEPT ![n] = @ \ lost,
                              ![m] = IF heard THEN Acknowledged(n, m, @) ELSE @]
        /\ entities' = [entities EXCEPT
             ![n] = @ \cup {[id |-> e.id, told |-> {}] : e \in lost},
             ![m] = IF heard THEN Told(n, m, @) ELSE @]
  BY DEF ReceiveGameState
<1>2. /\ own'[n] = own[n] \ lost
      /\ own'[m] = IF heard THEN Acknowledged(n, m, own[m]) ELSE own[m]
      /\ \A k \in Player : k # n /\ k # m => own'[k] = own[k]
      /\ DOMAIN own' = Player /\ own' = [k \in Player |-> own'[k]]
  BY <1>1 DEF TypeOK
<1>3. /\ Acknowledged(n, m, own[m]) \in SUBSET Owned
      /\ \A f \in Acknowledged(n, m, own[m]) : \E e \in own[m] : Kept(e, f)
      /\ \A f, g \in Acknowledged(n, m, own[m]) : f.id = g.id => f = g
  BY AcknowledgedType
<1>4. \A k \in Player : own[k] \in SUBSET Owned  BY DEF TypeOK
<1>5. \A k \in Player : own'[k] \in SUBSET Owned  BY <1>2, <1>3, <1>4
<1>6. own' \in [Player -> SUBSET Owned]  BY <1>2, <1>5
<1>7. \A k \in Player : \A f \in own'[k] : \E e \in own[k] : Kept(e, f)
  BY <1>2, <1>3 DEF Same, Kept
<1>8. \A k \in Player : \A f, g \in own'[k] : f.id = g.id => f = g
  BY <1>2, <1>3, NamesType
<1>9. \A e \in lost : [id |-> e.id, told |-> {}] \in [id : Id, told : SUBSET Player]
  BY <1>4 DEF Owned
<1>10. /\ entities[n] \in SUBSET [id : Id, told : SUBSET Player]
       /\ entities[m] \in SUBSET [id : Id, told : SUBSET Player]
  BY DEF TypeOK
<1>11. Told(n, m, entities[m]) \in SUBSET [id : Id, told : SUBSET Player]  BY <1>10, ToldType
<1>12. entities' \in [Player -> SUBSET [id : Id, told : SUBSET Player]]
  <2> DEFINE more == entities[n] \cup {[id |-> e.id, told |-> {}] : e \in lost}
             back == IF heard THEN Told(n, m, entities[m]) ELSE entities[m]
  <2>1. entities' = [entities EXCEPT ![n] = more, ![m] = back]  BY <1>1 DEF TypeOK
  <2>2. more \in SUBSET [id : Id, told : SUBSET Player]  BY <1>9, <1>10
  <2>3. back \in SUBSET [id : Id, told : SUBSET Player]  BY <1>10, <1>11
  <2> HIDE DEF more, back
  <2> QED  BY <2>1, <2>2, <2>3 DEF TypeOK
<1> QED  BY <1>6, <1>7, <1>8, <1>12

LEMMA ReceiveCopies ==
  ASSUME TypeOK, NEW n \in Player, NEW m \in Player, ReceiveGameState(n, m)
  PROVE  /\ copies' \in [Player -> SUBSET Handle]
         /\ \A k \in Player : k # n => copies'[k] = copies[k]
         /\ \A h \in copies'[n] : h \in copies[n] \/ h.owner = m
<1> DEFINE names == {Name(m, x.id) : x \in Items(n, m, "full")}
<1>1. PICK dead : copies' = [copies EXCEPT ![n] = (@ \ dead) \cup names]
  BY DEF ReceiveGameState
<1>2. frames[m][n] # <<>>  BY DEF ReceiveGameState
<1>3. names \in SUBSET Handle /\ \A h \in names : h.owner = m  BY <1>2, ItemTypes
<1> HIDE DEF names
<1>4. copies' \in [Player -> SUBSET Handle]  BY <1>1, <1>3 DEF TypeOK
<1> QED  BY <1>1, <1>3, <1>4 DEF TypeOK

\* The confirmation goes to m, at the end.
LEMMA ReceiveOrders ==
  ASSUME TypeOK, NEW n \in Player, NEW m \in Player, ReceiveGameState(n, m)
  PROVE  /\ orders' \in [Player -> [Player -> Seq(Order)]]
         /\ \E c \in Created : \A k, l \in Player :
              orders'[k][l] = orders[k][l] \/ orders'[k][l] = Append(orders[k][l], c)
<1> DEFINE names == {Name(m, x.id) : x \in Items(n, m, "full")}
<1>1. PICK new \in SUBSET names : orders' = [orders EXCEPT ![n][m] =
        IF new = {} THEN @ ELSE Append(@, [created |-> {h.id : h \in new}])]
  BY DEF ReceiveGameState
<1> DEFINE c == [created |-> {h.id : h \in new}]
<1>2. frames[m][n] # <<>>  BY DEF ReceiveGameState
<1>3. \A h \in names : h.id \in Id  BY <1>2, ItemTypes
<1>4. c \in Created /\ c \in Order  BY <1>3 DEF Created, Order
<1> HIDE DEF c
<1>5. orders[n][m] \in Seq(Order) /\ Append(orders[n][m], c) \in Seq(Order)
  BY <1>4 DEF TypeOK
<1>6. orders' = [orders EXCEPT ![n][m] = IF new = {} THEN orders[n][m] ELSE Append(orders[n][m], c)]
  BY <1>1 DEF TypeOK, c
<1>7. orders' \in [Player -> [Player -> Seq(Order)]]  BY <1>5, <1>6 DEF TypeOK
<1>8. \A k, l \in Player :
        orders'[k][l] = orders[k][l] \/ orders'[k][l] = Append(orders[k][l], c)
  BY <1>6 DEF TypeOK
<1> QED  BY <1>4, <1>7, <1>8

LEMMA ReceiveType ==
  ASSUME TypeOK, Mesh, NEW n \in Player, NEW m \in Player, n # m, ReceiveGameState(n, m)
  PROVE  TypeOK'
<1>1. UNCHANGED <<up, peers, ids, calls>> /\ frames[m][n] # <<>>
      /\ frames' = [frames EXCEPT ![m][n] = Tail(@)]
  BY DEF ReceiveGameState
<1>2. Tail(frames[m][n]) \in Seq(SUBSET Item)  BY <1>1, ItemTypes
<1>3. frames' \in [Player -> [Player -> Seq(SUBSET Item)]]  BY <1>1, <1>2 DEF TypeOK
<1>4. \A k \in Player : \A f \in own'[k] : f.id < ids'[k]
  BY <1>1, ReceiveOwn, NamesType DEF Same, Kept
<1>5. m \in peers[n]  BY <1>1 DEF Mesh
<1>6. \A k \in Player : \A h \in copies'[k] : h.owner \in peers'[k]
  <2>1. \A k \in Player : \A h \in copies[k] : h.owner \in peers[k]  BY DEF TypeOK
  <2> QED  BY <1>1, <1>5, <2>1, ReceiveCopies
<1>7. /\ own' \in [Player -> SUBSET Owned]
      /\ \A k \in Player : \A f, g \in own'[k] : f.id = g.id => f = g
      /\ entities' \in [Player -> SUBSET [id : Id, told : SUBSET Player]]
  BY ReceiveOwn
<1>8. copies' \in [Player -> SUBSET Handle]  BY ReceiveCopies
<1>9. orders' \in [Player -> [Player -> Seq(Order)]]  BY ReceiveOrders
<1> QED  BY <1>1, <1>3, <1>4, <1>6, <1>7, <1>8, <1>9 DEF TypeOK

-----------------------------------------------------------------------------
(* The mesh of players.                                                     *)

LEMMA MeshKept ==
  ASSUME TypeOK, Mesh, NEW n \in Player, UNCHANGED <<up, peers>>, frames' = frames
  PROVE  Mesh'
BY DEF Mesh

\* Taking a game state from the network, whatever becomes of it.
LEMMA MeshTaken ==
  ASSUME TypeOK, Mesh, NEW n \in Player, NEW m \in Player, UNCHANGED <<up, peers>>,
         frames[m][n] # <<>>, frames' = [frames EXCEPT ![m][n] = Tail(@)]
  PROVE  Mesh'
<1>1. \A k, l \in Player : frames'[k][l] # <<>> => frames[k][l] # <<>>  BY DEF TypeOK
<1> QED  BY <1>1 DEF Mesh

LEMMA MeshSent ==
  ASSUME TypeOK, Mesh, NEW n \in Player, SendGameState(n)
  PROVE  Mesh'
<1>1. UNCHANGED <<up, peers>> /\ n \in up  BY DEF SendGameState, Mesh
<1>2. \A k, l \in Player : frames'[k][l] # frames[k][l] => k = n /\ l \in peers[n] \cap up
  BY SendFrames
<1>3. \A l \in up : l \in peers[n] => n \in peers[l]  BY <1>1 DEF Mesh, TypeOK
<1> QED  BY <1>1, <1>2, <1>3 DEF Mesh

LEMMA MeshGone ==
  ASSUME TypeOK, Mesh, NEW n \in Player, Gone(n)
  PROVE  Mesh'
<1>1. up' = up \ {n} /\ \A k \in Player : peers'[k] = IF k = n THEN {} ELSE peers[k]
  BY DEF Gone, TypeOK
<1>2. \A k, l \in Player : frames'[k][l] = IF l = n THEN <<>> ELSE frames[k][l]
  BY GoneOrders
<1>3. up \subseteq Player  BY DEF TypeOK
<1> QED  BY <1>1, <1>2, <1>3 DEF Mesh

LEMMA MeshRemoved ==
  ASSUME TypeOK, Mesh, NEW n \in Player, NEW m \in Player, RemovePlayerFromGame(n, m)
  PROVE  Mesh'
<1>1. /\ UNCHANGED up /\ n \in up /\ m \notin up
      /\ \A k \in Player : peers'[k] = IF k = n THEN peers[n] \ {m} ELSE peers[k]
      /\ \A k, l \in Player : frames'[k][l] = IF k = m /\ l = n THEN <<>> ELSE frames[k][l]
  <2>1. UNCHANGED up /\ n \in up /\ m \notin up  BY DEF RemovePlayerFromGame
  <2>2. \A k \in Player : peers'[k] = IF k = n THEN peers[n] \ {m} ELSE peers[k]
    BY DEF RemovePlayerFromGame, TypeOK
  <2>3. frames' = [frames EXCEPT ![m][n] = <<>>] /\ frames \in [Player -> [Player -> Seq(SUBSET Item)]]
    BY DEF RemovePlayerFromGame, TypeOK
  <2>4. \A k, l \in Player : frames'[k][l] = IF k = m /\ l = n THEN <<>> ELSE frames[k][l]
    BY <2>3
  <2> QED  BY <2>1, <2>2, <2>4
<1>2. up \subseteq Player  BY DEF TypeOK
<1> QED  BY <1>1, <1>2 DEF Mesh

-----------------------------------------------------------------------------
(* The title.                                                               *)

(* Most steps create no title: an element they leave unmarked was unmarked, *)
(* and what is still to be read was there, perhaps further from the head.   *)
Shifted ==
  \A m, n \in Player : \E d \in Nat : \A i \in Handing(m, n)' : i \in Nat /\ i + d \in Handing(m, n)

LEMMA TitleKept ==
  ASSUME TypeOK, OneTitle, TypeOK', Shifted,
         \A k \in Player : \A f \in own'[k] : \E e \in own[k] : f.id = e.id /\ (~f.marked => ~e.marked)
  PROVE  OneTitle'
<1>1. \A k \in Player : \A f, g \in own'[k] : f.id = g.id => f = g  BY DEF TypeOK
<1>2. OneHolder'
  <2> SUFFICES ASSUME NEW n \in Player, NEW m \in Player, NEW e \in own'[n], NEW f \in own'[m],
                      ~e.marked, ~f.marked
               PROVE  n = m /\ e = f
    BY DEF OneHolder
  <2>1. PICK x \in own[n] : e.id = x.id /\ ~x.marked  OBVIOUS
  <2>2. PICK y \in own[m] : f.id = y.id /\ ~y.marked  OBVIOUS
  <2>3. n = m /\ x = y  BY <2>1, <2>2 DEF OneTitle, OneHolder
  <2> QED  BY <1>1, <2>1, <2>2, <2>3
<1>3. \A m, n \in Player : Handing(m, n)' # {} => Handing(m, n) # {}  BY DEF Shifted
<1>4. HeldOrHanded'
  <2> SUFFICES ASSUME NEW m \in Player, NEW n \in Player, NEW p \in Player, Handing(m, n)' # {},
                      NEW e \in own'[p]
               PROVE  e.marked
    BY DEF HeldOrHanded
  <2>1. PICK x \in own[p] : e.id = x.id /\ (~e.marked => ~x.marked)  OBVIOUS
  <2>2. x.marked  BY <1>3 DEF OneTitle, HeldOrHanded
  <2> QED  BY <2>1, <2>2
<1>5. OneHanding'
  <2> SUFFICES ASSUME NEW m \in Player, NEW n \in Player, NEW k \in Player, NEW l \in Player,
                      NEW i \in Handing(m, n)', NEW j \in Handing(k, l)'
               PROVE  m = k /\ n = l /\ i = j
    BY DEF OneHanding
  <2>1. PICK d \in Nat : \A q \in Handing(m, n)' : q \in Nat /\ q + d \in Handing(m, n)
    BY DEF Shifted
  <2>2. m = k /\ n = l  BY <1>3 DEF OneTitle, OneHanding
  <2>3. i \in Nat /\ j \in Nat /\ i + d = j + d
    BY <2>1, <2>2 DEF OneTitle, OneHanding
  <2> QED  BY <2>2, <2>3
<1> QED  BY <1>2, <1>4, <1>5 DEF OneTitle

\* Nothing new is handed over: a stream is as it was, read by one message,
\* forgotten, or has something else at its end.
NothingHanded ==
  \A m, n \in Player :
    \/ orders'[m][n] = orders[m][n] \/ orders'[m][n] = <<>>
    \/ orders[m][n] # <<>> /\ orders'[m][n] = Tail(orders[m][n])
    \/ \E o \in Order : /\ o \notin Created => ~(o.src = m /\ o.dest = n)
                        /\ orders'[m][n] = Append(orders[m][n], o)

LEMMA HandingDef ==
  ASSUME TypeOK, NEW m \in Player, NEW n \in Player
  PROVE  \A i : i \in Handing(m, n) <=>
           /\ i \in 1..Len(orders[m][n]) /\ orders[m][n][i] \notin Created
           /\ orders[m][n][i].src = m /\ orders[m][n][i].dest = n
<1>1. orders[m][n] \in Seq(Order)  BY DEF TypeOK
<1>2. DOMAIN orders[m][n] = 1..Len(orders[m][n])  BY <1>1
<1> QED  BY <1>2 DEF Handing

LEMMA NothingShifts ==
  ASSUME TypeOK, TypeOK', NothingHanded
  PROVE  Shifted
<1> SUFFICES ASSUME NEW m \in Player, NEW n \in Player
             PROVE  \E d \in Nat : \A i \in Handing(m, n)' : i \in Nat /\ i + d \in Handing(m, n)
  BY DEF Shifted
<1>1. orders[m][n] \in Seq(Order) /\ orders'[m][n] \in Seq(Order)  BY DEF TypeOK
<1>2. \A i : i \in Handing(m, n)' <=>
        /\ i \in 1..Len(orders'[m][n]) /\ orders'[m][n][i] \notin Created
        /\ orders'[m][n][i].src = m /\ orders'[m][n][i].dest = n
  <2>1. DOMAIN orders'[m][n] = 1..Len(orders'[m][n])  BY <1>1
  <2> QED  BY <2>1 DEF Handing
<1>3. CASE orders'[m][n] = orders[m][n]
  <2>1. \A i \in Handing(m, n)' : i \in Nat /\ i + 0 \in Handing(m, n)
    BY <1>1, <1>2, <1>3, HandingDef
  <2> QED  BY <2>1
<1>4. CASE orders'[m][n] = <<>>
  <2>1. Handing(m, n)' = {}  BY <1>2, <1>4
  <2> QED  BY <2>1
<1>5. CASE orders[m][n] # <<>> /\ orders'[m][n] = Tail(orders[m][n])
  <2>1. \A i \in 1..Len(orders'[m][n]) :
          i + 1 \in 1..Len(orders[m][n]) /\ orders'[m][n][i] = orders[m][n][i + 1]
    BY <1>1, <1>5
  <2>2. \A i \in Handing(m, n)' :
          /\ i + 1 \in 1..Len(orders[m][n]) /\ orders[m][n][i + 1] \notin Created
          /\ orders[m][n][i + 1].src = m /\ orders[m][n][i + 1].dest = n
    BY <1>2, <2>1
  <2>3. \A i \in Handing(m, n)' : i + 1 \in Handing(m, n)  BY <2>2, HandingDef
  <2>4. \A i \in Handing(m, n)' : i \in Nat  BY <1>1, <1>2
  <2> QED  BY <2>3, <2>4
<1>6. CASE \E o \in Order : /\ o \notin Created => ~(o.src = m /\ o.dest = n)
                            /\ orders'[m][n] = Append(orders[m][n], o)
  <2>1. PICK o \in Order : /\ o \notin Created => ~(o.src = m /\ o.dest = n)
                           /\ orders'[m][n] = Append(orders[m][n], o)
    BY <1>6
  <2>2. /\ Len(orders'[m][n]) = Len(orders[m][n]) + 1 /\ Len(orders[m][n]) \in Nat
        /\ orders'[m][n][Len(orders[m][n]) + 1] = o
        /\ \A i \in 1..Len(orders[m][n]) : orders'[m][n][i] = orders[m][n][i]
    BY <1>1, <2>1, AppendProperties, LenProperties
  <2>3. \A i \in Handing(m, n)' : i # Len(orders[m][n]) + 1  BY <1>2, <2>1, <2>2
  <2>4. \A i \in Handing(m, n)' : i \in 1..Len(orders[m][n])
    <3>1. \A i \in Handing(m, n)' : i \in 1..Len(orders[m][n]) + 1  BY <1>2, <2>2
    <3> QED  BY <2>2, <2>3, <3>1
  <2>5. \A i \in Handing(m, n)' : i \in Handing(m, n)
    <3>1. \A i \in Handing(m, n)' :
            orders[m][n][i] \notin Created /\ orders[m][n][i].src = m /\ orders[m][n][i].dest = n
      BY <1>2, <2>2, <2>4
    <3> QED  BY <2>4, <3>1, HandingDef
  <2>6. \A i \in Handing(m, n)' : i \in Nat /\ i + 0 \in Handing(m, n)
    BY <2>4, <2>5
  <2> QED  BY <2>6
<1> QED  BY <1>3, <1>4, <1>5, <1>6 DEF NothingHanded

\* The element handed over is marked, the others are as they were.
LEMMA TransferMarks ==
  ASSUME TypeOK, NEW way, NEW n \in Player, NEW e \in own[n], NEW d \in Player,
         TransferEntity(way, n, e, d)
  PROVE  /\ \A k \in Player : k # n => own'[k] = own[k]
         /\ \A f \in own'[n] : f \in own[n] \ {e} \/ (f.id = e.id /\ f.marked /\ f.prev = e.prev)
         /\ orders' = IF HasAcksFromAllPeers(n, e)
                      THEN Broadcast(way, n, [src |-> n, elem |-> e.id, dest |-> d]) ELSE way
<1> DEFINE f == [e EXCEPT !.marked = TRUE]
<1>1. e \in Owned  BY NamesType
<1>2. f.id = e.id /\ f.marked /\ f.prev = e.prev  BY <1>1 DEF Owned
<1>3. own' = [own EXCEPT ![n] = Replaced(own[n], e, f)]  BY DEF TransferEntity
<1> HIDE DEF f
<1>4. own \in [Player -> SUBSET Owned]  BY DEF TypeOK
<1>5. own'[n] = (own[n] \ {e}) \cup {f} /\ \A k \in Player : k # n => own'[k] = own[k]
  BY <1>3, <1>4 DEF Replaced
<1>6. orders' = IF HasAcksFromAllPeers(n, e)
                THEN Broadcast(way, n, [src |-> n, elem |-> e.id, dest |-> d]) ELSE way
  BY DEF TransferEntity
<1> QED  BY <1>2, <1>5, <1>6

LEMMA RequestEntityTitle ==
  ASSUME TypeOK, TypeOK', OneTitle, NEW n \in Player, RequestEntity(n)
  PROVE  OneTitle'
<1>1. PICK h \in copies[n] :
        orders' = Broadcast(orders, n, [src |-> h.owner, elem |-> h.id, dest |-> n])
  BY DEF RequestEntity
<1> DEFINE o == [src |-> h.owner, elem |-> h.id, dest |-> n]
<1>2. h.owner \in peers[n] /\ n \notin peers[n] /\ o \in Order  BY DEF TypeOK, Handle, Order
<1>3. o.src # n  BY <1>2
<1>sent. orders' = Broadcast(orders, n, o)  BY <1>1
<1> HIDE DEF o
<1>4. orders \in Links  BY DEF TypeOK, Links
<1>5. Sent(orders, Broadcast(orders, n, o), n, o)
  BY <1>2, <1>4, BroadcastSent
<1>6. \A m, k \in Player :
        orders'[m][k] = orders[m][k] \/ (m = n /\ orders'[m][k] = Append(orders[m][k], o))
  BY <1>5, <1>sent DEF Sent
<1>7. NothingHanded  BY <1>2, <1>3, <1>6 DEF NothingHanded
<1>8. own' = own  BY DEF RequestEntity
<1> QED  BY <1>7, <1>8, NothingShifts, TitleKept

LEMMA RequestOwnTitle ==
  ASSUME TypeOK, TypeOK', OneTitle, NEW n \in Player, RequestOwn(n)
  PROVE  OneTitle'
<1>1. PICK e \in own[n] : TransferEntity(orders, n, e, n)  BY DEF RequestOwn
<1> DEFINE o == [src |-> n, elem |-> e.id, dest |-> n]
<1>2. /\ \A k \in Player : k # n => own'[k] = own[k]
      /\ \A f \in own'[n] : f \in own[n] \ {e} \/ (f.id = e.id /\ f.marked)
      /\ orders' = Broadcast(orders, n, o) \/ orders' = orders
  BY <1>1, TransferMarks
<1>3. e.id \in Nat /\ n \notin peers[n]  BY NamesType DEF TypeOK
<1>4. o.src = n /\ o.dest = n  OBVIOUS
<1>order. o \in Order  BY <1>3 DEF Order, Id
<1> HIDE DEF o
<1>5. orders \in Links  BY DEF TypeOK, Links
<1>6. Sent(orders, Broadcast(orders, n, o), n, o)
  BY <1>order, <1>5, BroadcastSent
<1>7. \A m, k \in Player : orders'[m][k] = orders[m][k]  BY <1>2, <1>3, <1>4, <1>6 DEF Sent
<1>8. NothingHanded  BY <1>7 DEF NothingHanded
<1>9. \A k \in Player : \A f \in own'[k] : \E g \in own[k] : f.id = g.id /\ (~f.marked => ~g.marked)
  BY <1>2
<1> QED  BY <1>8, <1>9, NothingShifts, TitleKept

\* Steps that only drop elements, or change what is known of them.
LEMMA SameTitle ==
  ASSUME TypeOK, TypeOK', OneTitle, NothingHanded,
         \A k \in Player : \A f \in own'[k] : \E e \in own[k] : Same(e, f)
  PROVE  OneTitle'
<1>1. \A k \in Player : \A f \in own'[k] : \E e \in own[k] : f.id = e.id /\ (~f.marked => ~e.marked)
  BY DEF Same
<1> QED  BY <1>1, NothingShifts, TitleKept

LEMMA GoneTitle ==
  ASSUME TypeOK, TypeOK', OneTitle, NEW n \in Player, Gone(n)
  PROVE  OneTitle'
<1>1. \A k, l \in Player : orders'[k][l] = <<>> \/ orders'[k][l] = orders[k][l]  BY GoneOrders
<1>2. NothingHanded  BY <1>1 DEF NothingHanded
<1>3. \A k \in Player : own'[k] \subseteq own[k]  BY DEF Gone, TypeOK
<1> QED  BY <1>2, <1>3, SameTitle DEF Same

LEMMA RemovePlayerTitle ==
  ASSUME TypeOK, TypeOK', OneTitle, NEW n \in Player, NEW m \in Player,
         RemovePlayerFromGame(n, m)
  PROVE  OneTitle'
<1>1. orders' = [orders EXCEPT ![m][n] = <<>>] /\ own' = own  BY DEF RemovePlayerFromGame
<1>2. orders \in Links  BY DEF TypeOK, Links
<1>3. \A k, l \in Player : orders'[k][l] = <<>> \/ orders'[k][l] = orders[k][l]
  BY <1>1, <1>2 DEF Links
<1>4. NothingHanded  BY <1>3 DEF NothingHanded
<1> QED  BY <1>1, <1>4, SameTitle DEF Same

LEMMA RemoveElementTitle ==
  ASSUME TypeOK, TypeOK', OneTitle, NEW n \in Player, RemoveElement(n)
  PROVE  OneTitle'
<1>1. orders' = orders  BY DEF RemoveElement
<1>2. NothingHanded  BY <1>1 DEF NothingHanded
<1>3. \A k \in Player : own'[k] \subseteq own[k]  BY DEF RemoveElement, TypeOK
<1> QED  BY <1>2, <1>3, SameTitle DEF Same

LEMMA SendTitle ==
  ASSUME TypeOK, TypeOK', OneTitle, NEW n \in Player, SendGameState(n)
  PROVE  OneTitle'
<1>1. orders' = orders  BY DEF SendGameState
<1>2. NothingHanded  BY <1>1 DEF NothingHanded
<1>3. \A k \in Player : \A f \in own'[k] : \E e \in own[k] : Same(e, f)
  <2>1. \A k \in Player : k # n => own'[k] = own[k]  BY SendOwn
  <2>2. \A f \in own'[n] : \E e \in own[n] : Same(e, f)  BY SendOwn DEF Kept
  <2> QED  BY <2>1, <2>2 DEF Same
<1> QED  BY <1>2, <1>3, SameTitle

LEMMA ReceiveTitle ==
  ASSUME TypeOK, TypeOK', OneTitle, NEW n \in Player, NEW m \in Player, n # m,
         ReceiveGameState(n, m)
  PROVE  OneTitle'
<1>1. PICK c \in Created : \A k, l \in Player :
        orders'[k][l] = orders[k][l] \/ orders'[k][l] = Append(orders[k][l], c)
  BY ReceiveOrders
<1>2. c \in Order  BY DEF Order
<1>3. NothingHanded  BY <1>1, <1>2 DEF NothingHanded
<1>4. \A k \in Player : \A f \in own'[k] : \E e \in own[k] : Same(e, f)  BY ReceiveOwn DEF Kept
<1> QED  BY <1>3, <1>4, SameTitle

LEMMA AckTitle ==
  ASSUME TypeOK, TypeOK', OneTitle, NEW n \in Player, NEW m \in Player, OnAckEntityCreate(n, m)
  PROVE  OneTitle'
<1>1. orders[m][n] # <<>> /\ orders' = Read(m, n)  BY DEF OnAckEntityCreate
<1>2. \A k, l \in Player : orders'[k][l] =
        IF k = m /\ l = n THEN Tail(orders[m][n]) ELSE orders[k][l]
  BY <1>1, ReadType
<1>3. NothingHanded  BY <1>1, <1>2 DEF NothingHanded
<1>4. \A k \in Player : \A f \in own'[k] : \E e \in own[k] : Same(e, f)
  <2>1. \A k \in Player : k # n => own'[k] = own[k]  BY AckOwn
  <2>2. \A f \in own'[n] : \E e \in own[n] : Same(e, f)  BY AckOwn
  <2> QED  BY <2>1, <2>2 DEF Same
<1> QED  BY <1>3, <1>4, SameTitle

(* One link at a time.  Where nothing was handed over, only a message added *)
(* at the end can hand something over.                                      *)
LEMMA LastHanding ==
  ASSUME TypeOK, TypeOK', NEW m \in Player, NEW n \in Player, NEW o \in Order,
         Handing(m, n) = {}, orders'[m][n] = Append(orders[m][n], o)
  PROVE  Handing(m, n)' \subseteq {Len(orders[m][n]) + 1}
<1>1. orders[m][n] \in Seq(Order) /\ orders'[m][n] \in Seq(Order)  BY DEF TypeOK
<1>2. \A i : i \in Handing(m, n)' <=>
        /\ i \in 1..Len(orders'[m][n]) /\ orders'[m][n][i] \notin Created
        /\ orders'[m][n][i].src = m /\ orders'[m][n][i].dest = n
  <2>1. DOMAIN orders'[m][n] = 1..Len(orders'[m][n])  BY <1>1
  <2> QED  BY <2>1 DEF Handing
<1>3. /\ Len(orders'[m][n]) = Len(orders[m][n]) + 1 /\ Len(orders[m][n]) \in Nat
      /\ \A i \in 1..Len(orders[m][n]) : orders'[m][n][i] = orders[m][n][i]
  BY <1>1, AppendProperties, LenProperties
<1>4. \A i \in Handing(m, n)' : i \notin 1..Len(orders[m][n])
  BY <1>2, <1>3, HandingDef
<1> QED  BY <1>2, <1>3, <1>4

\* A message read: the rest has come closer.
LEMMA ReadHanding ==
  ASSUME TypeOK, TypeOK', NEW m \in Player, NEW n \in Player,
         orders[m][n] # <<>>, orders'[m][n] = Tail(orders[m][n])
  PROVE  \A i \in Handing(m, n)' : i \in 1..Len(orders'[m][n]) /\ i + 1 \in Handing(m, n)
<1>1. orders[m][n] \in Seq(Order) /\ orders'[m][n] \in Seq(Order)  BY DEF TypeOK
<1>2. \A i : i \in Handing(m, n)' <=>
        /\ i \in 1..Len(orders'[m][n]) /\ orders'[m][n][i] \notin Created
        /\ orders'[m][n][i].src = m /\ orders'[m][n][i].dest = n
  <2>1. DOMAIN orders'[m][n] = 1..Len(orders'[m][n])  BY <1>1
  <2> QED  BY <2>1 DEF Handing
<1>3. \A i \in 1..Len(orders'[m][n]) :
        i + 1 \in 1..Len(orders[m][n]) /\ orders'[m][n][i] = orders[m][n][i + 1]
  BY <1>1
<1> QED  BY <1>1, <1>2, <1>3, HandingDef

LEMMA SameHanding ==
  ASSUME NEW m \in Player, NEW n \in Player, orders'[m][n] = orders[m][n]
  PROVE  Handing(m, n)' = Handing(m, n)
BY DEF Handing

(* The owner hands the element over: what it sends to the new owner is the  *)
(* only title, for the element was unmarked and nothing was under way.      *)
LEMMA OnRequestTitle ==
  ASSUME TypeOK, TypeOK', OneTitle, NEW n \in Player, NEW m \in Player, m # n, OnRequest(n, m)
  PROVE  OneTitle'
<1>1. PICK o \in Transfers(m, n) :
        \/ \E e \in own[n] : ~e.marked /\ TransferEntity(Read(m, n), n, e, o.dest)
        \/ orders' = Read(m, n) /\ UNCHANGED own
  BY DEF OnRequest
<1>2. orders[m][n] # <<>> /\ o.dest \in Player  BY TransfersType
<1>3. \A k, l \in Player : Read(m, n)[k][l] =
        IF k = m /\ l = n THEN Tail(orders[m][n]) ELSE orders[k][l]
  BY <1>2, ReadType
<1>4. ASSUME orders' = Read(m, n) PROVE NothingHanded
  BY <1>2, <1>3, <1>4 DEF NothingHanded
<1>5. CASE orders' = Read(m, n) /\ UNCHANGED own
  BY <1>4, <1>5, SameTitle DEF Same
<1>6. CASE \E e \in own[n] : ~e.marked /\ TransferEntity(Read(m, n), n, e, o.dest)
  <2>1. PICK e \in own[n] : ~e.marked /\ TransferEntity(Read(m, n), n, e, o.dest)
    BY <1>6
  <2> DEFINE q == [src |-> n, elem |-> e.id, dest |-> o.dest]
  <2>2. /\ \A k \in Player : k # n => own'[k] = own[k]
        /\ \A f \in own'[n] : f \in own[n] \ {e} \/ (f.id = e.id /\ f.marked)
        /\ orders' = Broadcast(Read(m, n), n, q) \/ orders' = Read(m, n)
    <3>1. TransferEntity(Read(m, n), n, e, o.dest) /\ o.dest \in Player  BY <1>2, <2>1
    <3> HIDE DEF q
    <3>2. /\ \A k \in Player : k # n => own'[k] = own[k]
          /\ \A f \in own'[n] : f \in own[n] \ {e} \/ (f.id = e.id /\ f.marked)
          /\ orders' = IF HasAcksFromAllPeers(n, e)
                       THEN Broadcast(Read(m, n), n, [src |-> n, elem |-> e.id, dest |-> o.dest])
                       ELSE Read(m, n)
      BY <3>1, TransferMarks
    <3> QED  BY <3>2 DEF q
  <2>3. \A k \in Player : \A f \in own'[k] : \E g \in own[k] : f.id = g.id /\ (~f.marked => ~g.marked)
    BY <2>2
  <2>4. CASE orders' = Read(m, n)
    BY <1>4, <2>3, <2>4, NothingShifts, TitleKept
  <2>5. CASE orders' = Broadcast(Read(m, n), n, q)
    <3>1. e.id \in Nat /\ n \notin peers[n]  BY NamesType DEF TypeOK
    <3>2. q.src = n /\ q.dest = o.dest  OBVIOUS
    <3>3. q \in Order  BY <1>2, <3>1 DEF Order, Id
    <3> HIDE DEF q
    <3>4. Read(m, n) \in Links  BY <1>2, ReadType DEF Links
    <3>5. Sent(Read(m, n), Broadcast(Read(m, n), n, q), n, q)  BY <3>3, <3>4, BroadcastSent
    <3>links. \A k, l \in Player : orders'[k][l] =
            IF k = n /\ l \in peers[n] /\ l = o.dest
            THEN Append(Read(m, n)[k][l], q) ELSE Read(m, n)[k][l]
      BY <2>5, <3>1, <3>2, <3>5 DEF Sent
    <3>6. \A k, l \in Player :
            \/ orders'[k][l] = orders[k][l]
            \/ k = m /\ l = n /\ orders'[k][l] = Tail(orders[k][l])
            \/ k = n /\ l = o.dest /\ orders'[k][l] = Append(orders[k][l], q)
      <4> SUFFICES ASSUME NEW k \in Player, NEW l \in Player
                   PROVE  \/ orders'[k][l] = orders[k][l]
                          \/ k = m /\ l = n /\ orders'[k][l] = Tail(orders[k][l])
                          \/ k = n /\ l = o.dest /\ orders'[k][l] = Append(orders[k][l], q)
        OBVIOUS
      <4>1. CASE k = n /\ l \in peers[n] /\ l = o.dest
        <5>1. Read(m, n)[k][l] = orders[k][l]  BY <1>3, <4>1
        <5> QED  BY <3>links, <4>1, <5>1
      <4>2. CASE ~(k = n /\ l \in peers[n] /\ l = o.dest)
        <5>1. orders'[k][l] = Read(m, n)[k][l]  BY <3>links, <4>2
        <5> QED  BY <1>3, <5>1
      <4> QED  BY <4>1, <4>2
    <3>7. \A k, l \in Player : Handing(k, l) = {}
      BY <2>1 DEF OneTitle, HeldOrHanded
    <3>8. \A k, l \in Player : Handing(k, l)' # {} => k = n /\ l = o.dest
      BY <1>2, <3>6, <3>7, SameHanding, ReadHanding
    <3>9. \A k, l \in Player : Handing(k, l)' \subseteq {Len(orders[k][l]) + 1}
      <4> SUFFICES ASSUME NEW k \in Player, NEW l \in Player
                   PROVE  Handing(k, l)' \subseteq {Len(orders[k][l]) + 1}
        OBVIOUS
      <4>1. CASE orders'[k][l] = orders[k][l]
        BY <4>1, <3>7, SameHanding
      <4>2. CASE k = m /\ l = n /\ orders'[k][l] = Tail(orders[k][l])
        BY <1>2, <4>2, <3>7, ReadHanding
      <4>3. CASE orders'[k][l] = Append(orders[k][l], q)
        BY <3>3, <4>3, <3>7, LastHanding
      <4> QED  BY <3>6, <4>1, <4>2, <4>3
    <3>10. \A p \in Player : \A f \in own'[p] : f.marked
      BY <2>1, <2>2 DEF OneTitle, OneHolder
    <3>11. OneHolder'  BY <3>10 DEF OneHolder
    <3>12. HeldOrHanded'  BY <3>10 DEF HeldOrHanded
    <3>13. OneHanding'  BY <3>8, <3>9 DEF OneHanding
    <3> QED  BY <3>11, <3>12, <3>13 DEF OneTitle
  <2> QED  BY <2>2, <2>4, <2>5
<1> QED  BY <1>1, <1>5, <1>6

(* The new owner takes the element: the title was the message it reads.     *)
LEMMA OnTransferTitle ==
  ASSUME TypeOK, TypeOK', OneTitle, NEW n \in Player, NEW m \in Player, m # n, OnTransfer(n, m)
  PROVE  OneTitle'
<1>1. PICK h \in copies[n] :
        /\ own' = [own EXCEPT ![n] = @ \cup {NewElement(ids[n], h)}]
        /\ orders' = Read(m, n) /\ orders[m][n] # <<>>
        /\ Head(orders[m][n]) \notin Created
        /\ Head(orders[m][n]).src = m /\ Head(orders[m][n]).dest = n
  BY OnTransferOwn
<1> DEFINE c == NewElement(ids[n], h)
<1>2. own'[n] = own[n] \cup {c} /\ \A k \in Player : k # n => own'[k] = own[k]
  BY <1>1 DEF TypeOK
<1> HIDE DEF c
<1>3. 1 \in Handing(m, n)
  <2>1. orders[m][n] \in Seq(Order)  BY DEF TypeOK
  <2>2. 1 \in 1..Len(orders[m][n]) /\ Head(orders[m][n]) = orders[m][n][1]  BY <1>1, <2>1
  <2> QED  BY <1>1, <2>2, HandingDef
<1>4. \A k, l \in Player : \A i \in Handing(k, l) : k = m /\ l = n /\ i = 1
  BY <1>3 DEF OneTitle, OneHanding
<1>5. \A p \in Player : \A f \in own[p] : f.marked
  BY <1>3 DEF OneTitle, HeldOrHanded
<1>6. \A k, l \in Player : orders'[k][l] =
        IF k = m /\ l = n THEN Tail(orders[m][n]) ELSE orders[k][l]
  BY <1>1, ReadType
<1>7. \A k, l \in Player : Handing(k, l)' = {}
  <2>1. Handing(m, n)' = {}
    <3>1. \A i \in Handing(m, n)' : i \in 1..Len(orders'[m][n]) /\ i + 1 \in Handing(m, n)
      BY <1>1, <1>6, ReadHanding
    <3> QED  BY <1>4, <3>1
  <2>2. \A k, l \in Player : ~(k = m /\ l = n) => Handing(k, l)' = Handing(k, l)
    BY <1>6, SameHanding
  <2> QED  BY <1>4, <2>1, <2>2
<1>8. \A p \in Player : \A f \in own'[p] : ~f.marked => p = n /\ f = c
  BY <1>2, <1>5
<1>9. OneHolder'  BY <1>8 DEF OneHolder
<1>10. HeldOrHanded' /\ OneHanding'  BY <1>7 DEF HeldOrHanded, OneHanding
<1> QED  BY <1>9, <1>10 DEF OneTitle

-----------------------------------------------------------------------------
(* The theorems.                                                            *)

LEMMA InitInv == Init => IInv
<1> SUFFICES ASSUME Init PROVE IInv  OBVIOUS
<1>1. TypeOK  BY InitType
<1>2. Mesh  BY DEF Init, Mesh
<1>3. \A n \in Player : own[n] \subseteq {NewElement(0, None)}
      /\ (own[n] # {} => n = First)
  BY DEF Init
<1>4. \A m, n \in Player : Handing(m, n) = {}  BY DEF Init, Handing
<1>5. OneTitle  BY <1>3, <1>4 DEF OneTitle, OneHolder, HeldOrHanded, OneHanding
<1> QED  BY <1>1, <1>2, <1>5 DEF IInv

\* The steps of one player, and those it takes with another.
Alone(n) ==
  RequestEntity(n) \/ RequestOwn(n) \/ RemoveElement(n) \/ Leave(n) \/ SendGameState(n)
Between(n, m) ==
  \/ OnRequest(n, m) \/ OnTransfer(n, m) \/ ReadNull(n, m) \/ RemovePlayerFromGame(n, m)
  \/ LoseGameState(n, m) \/ ReceiveGameState(n, m) \/ ReceiveCockup(n, m)
  \/ OnAckEntityCreate(n, m)

LEMMA AloneInv ==
  ASSUME IInv, NEW n \in Player, Alone(n)
  PROVE  IInv'
<1> TypeOK /\ Mesh /\ OneTitle  BY DEF IInv
<1>1. CASE RequestEntity(n)
  <2>1. TypeOK'  BY <1>1, RequestEntityType
  <2>2. UNCHANGED <<up, peers>> /\ frames' = frames  BY <1>1 DEF RequestEntity
  <2>3. Mesh'  BY <2>2, MeshKept
  <2>4. OneTitle'  BY <1>1, <2>1, RequestEntityTitle
  <2> QED  BY <2>1, <2>3, <2>4 DEF IInv
<1>2. CASE RequestOwn(n)
  <2>1. TypeOK'  BY <1>2, RequestOwnType
  <2>2. UNCHANGED <<up, peers>> /\ frames' = frames  BY <1>2 DEF RequestOwn
  <2>3. Mesh'  BY <2>2, MeshKept
  <2>4. OneTitle'  BY <1>2, <2>1, RequestOwnTitle
  <2> QED  BY <2>1, <2>3, <2>4 DEF IInv
<1>3. CASE RemoveElement(n)
  <2>1. TypeOK'  BY <1>3, RemoveElementType
  <2>2. UNCHANGED <<up, peers>> /\ frames' = frames  BY <1>3 DEF RemoveElement
  <2>3. Mesh'  BY <2>2, MeshKept
  <2>4. OneTitle'  BY <1>3, <2>1, RemoveElementTitle
  <2> QED  BY <2>1, <2>3, <2>4 DEF IInv
<1>4. CASE Leave(n)
  <2>1. Gone(n)  BY <1>4 DEF Leave
  <2>2. TypeOK'  BY <2>1, GoneType
  <2>3. Mesh'  BY <2>1, MeshGone
  <2>4. OneTitle'  BY <2>1, <2>2, GoneTitle
  <2> QED  BY <2>2, <2>3, <2>4 DEF IInv
<1>5. CASE SendGameState(n)
  <2>1. TypeOK'  BY <1>5, SendType
  <2>2. Mesh'  BY <1>5, MeshSent
  <2>3. OneTitle'  BY <1>5, <2>1, SendTitle
  <2> QED  BY <2>1, <2>2, <2>3 DEF IInv
<1> QED  BY <1>1, <1>2, <1>3, <1>4, <1>5 DEF Alone

LEMMA BetweenInv ==
  ASSUME IInv, NEW n \in Player, NEW m \in Player \ {n}, Between(n, m)
  PROVE  IInv'
<1> TypeOK /\ Mesh /\ OneTitle /\ m \in Player /\ m # n  BY DEF IInv
<1>1. CASE OnRequest(n, m)
  <2>1. TypeOK'  BY <1>1, OnRequestType
  <2>2. UNCHANGED <<up, peers>> /\ frames' = frames  BY <1>1 DEF OnRequest
  <2>3. Mesh'  BY <2>2, MeshKept
  <2>4. OneTitle'  BY <1>1, <2>1, OnRequestTitle
  <2> QED  BY <2>1, <2>3, <2>4 DEF IInv
<1>2. CASE OnTransfer(n, m)
  <2>1. TypeOK'  BY <1>2, OnTransferType
  <2>2. UNCHANGED <<up, peers>> /\ frames' = frames  BY <1>2 DEF OnTransfer
  <2>3. Mesh'  BY <2>2, MeshKept
  <2>4. OneTitle'  BY <1>2, <2>1, OnTransferTitle
  <2> QED  BY <2>1, <2>3, <2>4 DEF IInv
<1>3. CASE ReadNull(n, m) \/ ReceiveCockup(n, m)
  <2>1. Gone(n)  BY <1>3 DEF ReadNull, ReceiveCockup
  <2>2. TypeOK'  BY <2>1, GoneType
  <2>3. Mesh'  BY <2>1, MeshGone
  <2>4. OneTitle'  BY <2>1, <2>2, GoneTitle
  <2> QED  BY <2>2, <2>3, <2>4 DEF IInv
<1>4. CASE RemovePlayerFromGame(n, m)
  <2>1. TypeOK'  BY <1>4, RemovePlayerType
  <2>2. Mesh'  BY <1>4, MeshRemoved
  <2>3. OneTitle'  BY <1>4, <2>1, RemovePlayerTitle
  <2> QED  BY <2>1, <2>2, <2>3 DEF IInv
<1>5. CASE LoseGameState(n, m)
  <2>1. TypeOK'  BY <1>5, LoseType
  <2>2. UNCHANGED <<up, peers>> /\ frames[m][n] # <<>>
        /\ frames' = [frames EXCEPT ![m][n] = Tail(@)]
    BY <1>5 DEF LoseGameState
  <2>3. Mesh'  BY <2>2, MeshTaken
  <2>4. UNCHANGED <<own, orders>>  BY <1>5 DEF LoseGameState
  <2>5. NothingHanded  BY <2>4 DEF NothingHanded
  <2>6. OneTitle'  BY <2>1, <2>4, <2>5, SameTitle DEF Same
  <2> QED  BY <2>1, <2>3, <2>6 DEF IInv
<1>6. CASE ReceiveGameState(n, m)
  <2>1. TypeOK'  BY <1>6, ReceiveType
  <2>2. UNCHANGED <<up, peers>> /\ frames[m][n] # <<>>
        /\ frames' = [frames EXCEPT ![m][n] = Tail(@)]
    BY <1>6 DEF ReceiveGameState
  <2>3. Mesh'  BY <2>2, MeshTaken
  <2>4. OneTitle'  BY <1>6, <2>1, ReceiveTitle
  <2> QED  BY <2>1, <2>3, <2>4 DEF IInv
<1>7. CASE OnAckEntityCreate(n, m)
  <2>1. TypeOK'  BY <1>7, AckType
  <2>2. UNCHANGED <<up, peers>> /\ frames' = frames  BY <1>7 DEF OnAckEntityCreate
  <2>3. Mesh'  BY <2>2, MeshKept
  <2>4. OneTitle'  BY <1>7, <2>1, AckTitle
  <2> QED  BY <2>1, <2>3, <2>4 DEF IInv
<1> QED  BY <1>1, <1>2, <1>3, <1>4, <1>5, <1>6, <1>7 DEF Between

LEMMA NextInv ==
  ASSUME IInv, [Next]_vars
  PROVE  IInv'
<1>1. CASE UNCHANGED vars
  BY <1>1 DEF vars, IInv, TypeOK, Mesh, OneTitle, OneHolder, HeldOrHanded, OneHanding, Handing
<1>2. CASE Next
  <2>1. PICK n \in Player : Alone(n) \/ \E m \in Player \ {n} : Between(n, m)
    BY <1>2 DEF Next, Alone, Between
  <2> QED  BY <2>1, AloneInv, BetweenInv
<1> QED  BY <1>1, <1>2

(* The invariant is inductive: the types, the mesh of players and the       *)
(* uniqueness of the title hold whatever is asked for, lost or left, for    *)
(* every number of players.                                                 *)
THEOREM InductiveInvariant == Spec => []IInv
<1>1. Init => IInv  BY InitInv
<1>2. IInv /\ [Next]_vars => IInv'  BY NextInv
<1> QED  BY <1>1, <1>2, PTL DEF Spec

(* Type correctness: among the rest, an owner's numbers are never used      *)
(* twice, and nobody keeps the elements of a player it does not know.       *)
THEOREM TypeCorrect == Spec => []TypeOK
<1>1. IInv => TypeOK  BY DEF IInv
<1> QED  BY <1>1, InductiveInvariant, PTL

(* However the requests cross, and whoever leaves, at most one player moves *)
(* the element and sends its state (sElement::TransferEntity,               *)
(* OnTransferEntity).                                                       *)
THEOREM OneOwnerAlways == Spec => []OneOwner
<1>1. IInv => OneOwner
  <2> SUFFICES ASSUME IInv PROVE OneOwner  OBVIOUS
  <2>1. OneHolder  BY DEF IInv, OneTitle
  <2>2. Cardinality(Owners) <= 1
    <3>1. CASE Owners = {}  BY <3>1, FS_EmptySet
    <3>2. CASE Owners # {}
      <4>1. PICK n : n \in Owners  BY <3>2
      <4>2. Owners = {n}  BY <2>1, <4>1 DEF Owners, OneHolder
      <4>3. Cardinality({n}) = 1  BY FS_Singleton
      <4> QED  BY <4>2, <4>3
    <3> QED  BY <3>1, <3>2
  <2>3. ASSUME NEW n \in Owners
        PROVE  Cardinality({e \in own[n] : ~e.marked}) = 1
    <3>1. PICK e \in own[n] : ~e.marked  BY DEF Owners
    <3>2. n \in Player  BY DEF Owners
    <3>3. {f \in own[n] : ~f.marked} = {e}  BY <2>1, <3>1, <3>2 DEF OneHolder
    <3> QED  BY <3>3, FS_Singleton
  <2> QED  BY <2>2, <2>3 DEF OneOwner
<1> QED  BY <1>1, InductiveInvariant, PTL

-----------------------------------------------------------------------------
(* The names of the element: a player that confirmed the creation of an    *)
(* element has it as long as its owner does.  Names die: the element is    *)
(* handed over or deleted, and no message says that a living name is to be *)
(* deleted.                                                                *)


\* A name its owner has given, and no longer stands for.
Dead(h) == h.id < ids[h.owner] /\ \A e \in own[h.owner] : e.id = h.id => e.marked

\* The old names that are deleted with a new one, and the removals.
PrevDead == \A n \in Player : \A e \in own[n] : e.prev # None => Dead(e.prev)
RemovalsDead == \A n \in Player : \A x \in entities[n] : Dead(Name(n, x.id))
Sound(m, x) ==
  /\ x.id < ids[m]
  /\ x.kind = "full" /\ x.prev # None => Dead(x.prev)
  /\ x.kind = "destroy" => Dead(Name(m, x.id))
ItemsSound ==
  \A m, n \in Player : \A i \in DOMAIN frames[m][n] : \A x \in frames[m][n][i] : Sound(m, x)

\* p told n that it created element i, or is telling.
Telling(p, n, i) ==
  \E j \in DOMAIN orders[p][n] : orders[p][n][j] \in Created /\ i \in orders[p][n][j].created
Heard(p, n, i) == (\E e \in own[n] : e.id = i /\ p \in e.acks) \/ Telling(p, n, i)

\* Names that are talked of have been given.
NamesGiven ==
  /\ \A n \in Player : \A h \in copies[n] : h.id < ids[h.owner]
  /\ \A p, n \in Player : \A i \in Id : Telling(p, n, i) => i < ids[n]

Confirmed ==
  \A n, p \in up : \A e \in own[n] :
    ~e.marked /\ Heard(p, n, e.id) => Name(n, e.id) \in copies[p]

NInv == IInv /\ PrevDead /\ RemovalsDead /\ ItemsSound /\ NamesGiven /\ Confirmed

-----------------------------------------------------------------------------
(* Names stay dead.                                                         *)

\* Numbers go up; an element keeps its number and its mark, or is new.
Onward ==
  /\ \A k \in Player : ids[k] <= ids'[k]
  /\ \A k \in Player : \A f \in own'[k] :
       f.id >= ids[k] \/ \E e \in own[k] : e.id = f.id /\ (e.marked => f.marked)

LEMMA DeadStays ==
  ASSUME TypeOK, TypeOK', Onward, NEW h \in Handle, Dead(h)
  PROVE  Dead(h)'
<1>1. h.owner \in Player /\ h.id \in Nat  BY DEF Handle, Id
<1>2. ids[h.owner] \in Nat /\ ids'[h.owner] \in Nat /\ ids[h.owner] <= ids'[h.owner]
  BY <1>1 DEF TypeOK, Onward
<1>3. h.id < ids'[h.owner]  BY <1>1, <1>2 DEF Dead
<1>4. ASSUME NEW f \in own'[h.owner], f.id = h.id PROVE f.marked
  <2>1. ~(f.id >= ids[h.owner])  BY <1>1, <1>2, <1>4 DEF Dead
  <2>2. PICK e \in own[h.owner] : e.id = f.id /\ (e.marked => f.marked)
    BY <1>1, <2>1 DEF Onward
  <2> QED  BY <1>4, <2>2 DEF Dead
<1> QED  BY <1>3, <1>4 DEF Dead

\* Most steps give no name.
Nameless ==
  /\ UNCHANGED ids
  /\ \A k \in Player : \A f \in own'[k] : \E e \in own[k] :
       e.id = f.id /\ (e.marked => f.marked) /\ f.prev \in {e.prev, None}

LEMMA NamelessOnward ==
  ASSUME TypeOK, Nameless
  PROVE  Onward
<1>1. \A k \in Player : ids[k] \in Nat /\ ids'[k] = ids[k]  BY NamesType DEF Nameless
<1> QED  BY <1>1 DEF Nameless, Onward

LEMMA PrevKept ==
  ASSUME TypeOK, TypeOK', PrevDead, Nameless
  PROVE  PrevDead'
<1> SUFFICES ASSUME NEW n \in Player, NEW f \in own'[n], f.prev # None
             PROVE  Dead(f.prev)'
  BY DEF PrevDead
<1>1. PICK e \in own[n] : f.prev \in {e.prev, None}  BY DEF Nameless
<1>2. f.prev = e.prev /\ Dead(f.prev)  BY <1>1 DEF PrevDead
<1>3. e \in Owned  BY NamesType
<1>4. f.prev \in Handle  BY <1>2, <1>3 DEF Owned
<1> QED  BY <1>2, <1>4, NamelessOnward, DeadStays

\* Game states that were on the way, or name nothing living as dead.
NothingFalse ==
  \A m, n \in Player : \A i \in DOMAIN frames'[m][n] :
    \/ \E j \in DOMAIN frames[m][n] : frames'[m][n][i] = frames[m][n][j]
    \/ \A x \in frames'[m][n][i] : x \in Item /\ Sound(m, x)

LEMMA SoundStays ==
  ASSUME TypeOK, TypeOK', Onward, NEW m \in Player, NEW x \in Item, Sound(m, x)
  PROVE  Sound(m, x)'
<1>1. x.id \in Nat /\ Name(m, x.id) \in Handle  BY DEF Item, Id, Name, Handle
<1>2. ids[m] \in Nat /\ ids'[m] \in Nat /\ ids[m] <= ids'[m]  BY DEF TypeOK, Onward
<1>3. x.id < ids'[m]  BY <1>1, <1>2 DEF Sound
<1>4. ASSUME x.kind = "full", x.prev # None PROVE Dead(x.prev)'
  <2>1. x.prev \in Handle  BY <1>4 DEF Item
  <2>2. Dead(x.prev)  BY <1>4 DEF Sound
  <2> QED  BY <2>1, <2>2, DeadStays
<1>5. ASSUME x.kind = "destroy" PROVE Dead(Name(m, x.id))'
  <2>1. Dead(Name(m, x.id))  BY <1>5 DEF Sound
  <2> DEFINE h == Name(m, x.id)
  <2>2. h \in Handle /\ Dead(h)  BY <1>1, <2>1
  <2> HIDE DEF h
  <2>3. Dead(h)'  BY <2>2, DeadStays
  <2> QED  BY <2>3 DEF h
<1> QED  BY <1>3, <1>4, <1>5 DEF Sound

LEMMA FramesType ==
  ASSUME TypeOK
  PROVE  \A m, n \in Player : /\ frames[m][n] \in Seq(SUBSET Item)
                              /\ \A i \in DOMAIN frames[m][n] : \A x \in frames[m][n][i] : x \in Item
<1>1. \A m, n \in Player : frames[m][n] \in Seq(SUBSET Item)  BY DEF TypeOK
<1>2. \A m, n \in Player : \A i \in DOMAIN frames[m][n] : frames[m][n][i] \in SUBSET Item
  BY <1>1
<1> QED  BY <1>1, <1>2

LEMMA ItemsKept ==
  ASSUME TypeOK, TypeOK', ItemsSound, Onward, NothingFalse
  PROVE  ItemsSound'
<1> SUFFICES ASSUME NEW m \in Player, NEW n \in Player,
                    NEW i \in DOMAIN frames'[m][n], NEW x \in frames'[m][n][i]
             PROVE  Sound(m, x)'
  BY DEF ItemsSound
<1>1. x \in Item /\ Sound(m, x)
  <2>1. CASE \E j \in DOMAIN frames[m][n] : frames'[m][n][i] = frames[m][n][j]
    <3>1. PICK j \in DOMAIN frames[m][n] : frames'[m][n][i] = frames[m][n][j]  BY <2>1
    <3> QED  BY <3>1, FramesType DEF ItemsSound
  <2> QED  BY <2>1 DEF NothingFalse
<1> QED  BY <1>1, SoundStays

LEMMA RemovalsKept ==
  ASSUME TypeOK, TypeOK', RemovalsDead, Onward,
         \A k \in Player : \A x \in entities'[k] :
           Dead(Name(k, x.id))' \/ \E y \in entities[k] : y.id = x.id
  PROVE  RemovalsDead'
<1> SUFFICES ASSUME NEW k \in Player, NEW x \in entities'[k], NEW y \in entities[k], y.id = x.id
             PROVE  Dead(Name(k, x.id))'
  BY DEF RemovalsDead
<1> DEFINE h == Name(k, x.id)
<1>1. y \in [id : Id, told : SUBSET Player]  BY DEF TypeOK
<1>2. h \in Handle  BY <1>1 DEF Handle, Name
<1>3. Dead(h)  BY DEF RemovalsDead
<1> HIDE DEF h
<1>4. Dead(h)'  BY <1>2, <1>3, DeadStays
<1> QED  BY <1>4 DEF h

\* Confirmations that were on the way.
NothingTold ==
  \A p, n \in Player : \A i \in DOMAIN orders'[p][n] :
    orders'[p][n][i] \in Created => \E j \in DOMAIN orders[p][n] : orders'[p][n][i] = orders[p][n][j]

LEMMA TellingKept ==
  ASSUME NothingTold, NEW p \in Player, NEW n \in Player, NEW i, Telling(p, n, i)'
  PROVE  Telling(p, n, i)
BY DEF Telling, NothingTold

LEMMA GivenKept ==
  ASSUME TypeOK, TypeOK', NamesGiven, Onward,
         \A k \in Player : \A h \in copies'[k] : h \in copies[k] \/ h.id < ids[h.owner],
         \A p, n \in Player : \A i \in Id :
           Telling(p, n, i)' => Telling(p, n, i) \/ i < ids[n]
  PROVE  NamesGiven'
<1>1. \A k \in Player : ids[k] \in Nat /\ ids'[k] \in Nat /\ ids[k] <= ids'[k]
  BY DEF TypeOK, Onward
<1>2. ASSUME NEW k \in Player, NEW h \in copies'[k] PROVE h.id < ids'[h.owner]
  <2>1. h.owner \in Player /\ h.id \in Nat  BY DEF TypeOK, Handle, Id
  <2>2. h.id < ids[h.owner]  BY DEF NamesGiven
  <2> QED  BY <1>1, <2>1, <2>2
<1>3. ASSUME NEW p \in Player, NEW n \in Player, NEW i \in Id, Telling(p, n, i)'
      PROVE  i < ids'[n]
  <2>1. i \in Nat /\ i < ids[n]  BY <1>3 DEF NamesGiven, Id
  <2> QED  BY <1>1, <2>1
<1> QED  BY <1>2, <1>3 DEF NamesGiven

\* Steps that neither take a copy of a living element away nor bring word of
\* one that is not there.
LEMMA ConfirmedKept ==
  ASSUME TypeOK, TypeOK', Confirmed, up' \subseteq up,
         \A n \in up' : \A f \in own'[n] : ~f.marked => \E e \in own[n] : e.id = f.id /\ ~e.marked,
         \A n, p \in up' : \A f \in own'[n] :
           ~f.marked /\ Heard(p, n, f.id)' =>
             Heard(p, n, f.id) \/ Name(n, f.id) \in copies'[p],
         \A n, p \in up' : \A e \in own[n] :
           ~e.marked /\ Name(n, e.id) \in copies[p] => Name(n, e.id) \in copies'[p]
  PROVE  Confirmed'
<1> SUFFICES ASSUME NEW n \in up', NEW p \in up', NEW f \in own'[n],
                    ~f.marked, Heard(p, n, f.id)'
             PROVE  Name(n, f.id) \in copies'[p]
  BY DEF Confirmed
<1>1. PICK e \in own[n] : e.id = f.id /\ ~e.marked  OBVIOUS
<1>2. n \in up /\ p \in up  OBVIOUS
<1>3. Heard(p, n, f.id) => Name(n, e.id) \in copies[p]  BY <1>1, <1>2 DEF Confirmed
<1> QED  BY <1>1, <1>3

\* Nobody hears of anything that was not on the way.
Unheard ==
  /\ NothingTold
  /\ \A n \in Player : \A f \in own'[n] : ~f.marked =>
       \E e \in own[n] : /\ e.id = f.id /\ ~e.marked
                         /\ \A p \in f.acks : p \in e.acks \/ Telling(p, n, f.id)

LEMMA UnheardKept ==
  ASSUME TypeOK, TypeOK', Unheard
  PROVE  \A n, p \in Player : \A f \in own'[n] :
           ~f.marked /\ Heard(p, n, f.id)' => Heard(p, n, f.id)
<1> SUFFICES ASSUME NEW n \in Player, NEW p \in Player, NEW f \in own'[n],
                    ~f.marked, Heard(p, n, f.id)'
             PROVE  Heard(p, n, f.id)
  OBVIOUS
<1>1. CASE Telling(p, n, f.id)'
  <2> DEFINE i == f.id
  <2>1. Telling(p, n, i)'  BY <1>1
  <2> HIDE DEF i
  <2>2. Telling(p, n, i)  BY <2>1, TellingKept DEF Unheard
  <2> QED  BY <2>2 DEF Heard, i
<1>2. CASE \E g \in own'[n] : g.id = f.id /\ p \in g.acks
  <2>1. PICK g \in own'[n] : g.id = f.id /\ p \in g.acks  BY <1>2
  <2>2. \A x, y \in own'[n] : x.id = y.id => x = y  BY DEF TypeOK
  <2>3. g = f  BY <2>1, <2>2
  <2>4. PICK e \in own[n] : e.id = f.id /\ \A q \in f.acks : q \in e.acks \/ Telling(q, n, f.id)
    BY DEF Unheard
  <2> QED  BY <2>1, <2>3, <2>4 DEF Heard
<1> QED  BY <1>1, <1>2 DEF Heard

\* What a step must keep for the living names to stay with who confirmed them.
LivingKept ==
  \A n, p \in up' : \A e \in own[n] :
    ~e.marked /\ Name(n, e.id) \in copies[p] => Name(n, e.id) \in copies'[p]

\* Steps that give no name, announce no death that is none, and confirm nothing.
Quiet ==
  /\ Nameless /\ NothingFalse /\ Unheard /\ LivingKept
  /\ up' \subseteq up
  /\ \A k \in Player : \A x \in entities'[k] :
       Dead(Name(k, x.id))' \/ \E y \in entities[k] : y.id = x.id
  /\ \A k \in Player : copies'[k] \subseteq copies[k]

LEMMA QuietInv ==
  ASSUME NInv, IInv', Quiet
  PROVE  NInv'
<1>1. TypeOK /\ TypeOK'  BY DEF NInv, IInv
<1>2. Onward  BY <1>1, NamelessOnward DEF Quiet
<1>3. PrevDead'  BY <1>1, PrevKept DEF NInv, Quiet
<1>4. RemovalsDead'  BY <1>1, <1>2, RemovalsKept DEF NInv, Quiet
<1>5. ItemsSound'  BY <1>1, <1>2, ItemsKept DEF NInv, Quiet
<1>6. NamesGiven'
  <2>1. \A p, n \in Player : \A i \in Id : Telling(p, n, i)' => Telling(p, n, i)
    BY TellingKept DEF Quiet, Unheard
  <2>2. \A k \in Player : \A h \in copies'[k] : h \in copies[k]  BY DEF Quiet
  <2>3. NamesGiven  BY DEF NInv
  <2> QED  BY <1>1, <1>2, <2>1, <2>2, <2>3, GivenKept
<1>7. Confirmed'
  <2>1. Confirmed /\ up' \subseteq up /\ LivingKept /\ Unheard  BY DEF NInv, Quiet
  <2>2. up' \subseteq Player  BY <1>1 DEF TypeOK
  <2>3. \A n \in up' : \A f \in own'[n] : ~f.marked => \E e \in own[n] : e.id = f.id /\ ~e.marked
    BY <2>1, <2>2 DEF Unheard
  <2>4. \A n, p \in up' : \A f \in own'[n] : ~f.marked /\ Heard(p, n, f.id)' => Heard(p, n, f.id)
    BY <1>1, <2>1, <2>2, UnheardKept
  <2> QED  BY <1>1, <2>1, <2>3, <2>4, ConfirmedKept DEF LivingKept
<1> QED  BY <1>3, <1>4, <1>5, <1>6, <1>7 DEF NInv

-----------------------------------------------------------------------------
(* The steps, one at a time.                                                *)

LEMMA NothingAdded ==
  ASSUME TypeOK,
         \A m, n \in Player :
           \/ orders'[m][n] = orders[m][n] \/ orders'[m][n] = <<>>
           \/ orders[m][n] # <<>> /\ orders'[m][n] = Tail(orders[m][n])
           \/ \E o \in Order : o \notin Created /\ orders'[m][n] = Append(orders[m][n], o)
  PROVE  NothingTold
<1> SUFFICES ASSUME NEW m \in Player, NEW n \in Player, NEW i \in DOMAIN orders'[m][n],
                    orders'[m][n][i] \in Created
             PROVE  \E j \in DOMAIN orders[m][n] : orders'[m][n][i] = orders[m][n][j]
  BY DEF NothingTold
<1>1. orders[m][n] \in Seq(Order)  BY DEF TypeOK
<1>2. CASE orders'[m][n] = orders[m][n]  BY <1>2
<1>3. CASE orders'[m][n] = <<>>  BY <1>3
<1>4. CASE orders[m][n] # <<>> /\ orders'[m][n] = Tail(orders[m][n])
  <2>1. i + 1 \in DOMAIN orders[m][n] /\ orders'[m][n][i] = orders[m][n][i + 1]
    BY <1>1, <1>4
  <2> QED  BY <2>1
<1>5. CASE \E o \in Order : o \notin Created /\ orders'[m][n] = Append(orders[m][n], o)
  <2>1. PICK o \in Order : o \notin Created /\ orders'[m][n] = Append(orders[m][n], o)
    BY <1>5
  <2>2. i \in 1..(Len(orders[m][n]) + 1)  BY <1>1, <2>1
  <2>3. i # Len(orders[m][n]) + 1  BY <1>1, <2>1
  <2>4. i \in 1..Len(orders[m][n])  BY <1>1, <2>2, <2>3, LenProperties
  <2>5. orders'[m][n][i] = orders[m][n][i] /\ i \in DOMAIN orders[m][n]  BY <1>1, <2>1, <2>4
  <2> QED  BY <2>5
<1> QED  BY <1>2, <1>3, <1>4, <1>5

LEMMA HandOver ==
  ASSUME NEW n, NEW i, NEW d
  PROVE  [src |-> n, elem |-> i, dest |-> d] \notin Created
BY DEF Created

LEMMA GoneNames ==
  ASSUME NInv, IInv', NEW n \in Player, Gone(n)
  PROVE  NInv'
<1>1. TypeOK /\ TypeOK'  BY DEF NInv, IInv
<1>2. up' = up \ {n} /\ ids' = ids  BY DEF Gone
<1>3. \A k \in Player : /\ own'[k] \subseteq own[k] /\ copies'[k] \subseteq copies[k]
                        /\ entities'[k] \subseteq entities[k]
                        /\ k # n => copies'[k] = copies[k]
  BY <1>1 DEF Gone, TypeOK
<1>4. \A k, l \in Player : /\ orders'[k][l] = <<>> \/ orders'[k][l] = orders[k][l]
                           /\ frames'[k][l] = <<>> \/ frames'[k][l] = frames[k][l]
  BY <1>1, GoneOrders
<1>5. NothingTold  BY <1>1, <1>4, NothingAdded
<1>6. NothingFalse  BY <1>4 DEF NothingFalse
<1>7. Nameless  BY <1>2, <1>3 DEF Nameless
<1>8. Unheard  BY <1>3, <1>5 DEF Unheard
<1>9. LivingKept  BY <1>1, <1>2, <1>3 DEF LivingKept, TypeOK
<1>10. Quiet  BY <1>2, <1>3, <1>6, <1>7, <1>8, <1>9 DEF Quiet
<1> QED  BY <1>10, QuietInv

LEMMA RemovePlayerNames ==
  ASSUME NInv, IInv', NEW n \in Player, NEW m \in Player, RemovePlayerFromGame(n, m)
  PROVE  NInv'
<1>1. TypeOK /\ TypeOK'  BY DEF NInv, IInv
<1>2. UNCHANGED <<up, own, ids, entities>> /\ m \notin up  BY DEF RemovePlayerFromGame
<1>3. copies' = [copies EXCEPT ![n] = {h \in @ : h.owner # m}]
      /\ orders' = [orders EXCEPT ![m][n] = <<>>]
      /\ frames' = [frames EXCEPT ![m][n] = <<>>]
  BY DEF RemovePlayerFromGame
<1>4. \A k \in Player : \A h \in copies[k] : h.owner # m => h \in copies'[k]
  BY <1>1, <1>3 DEF TypeOK
<1>5. \A k \in Player : copies'[k] \subseteq copies[k]  BY <1>1, <1>3 DEF TypeOK
<1>6. \A k, l \in Player : orders'[k][l] = <<>> \/ orders'[k][l] = orders[k][l]
  BY <1>1, <1>3 DEF TypeOK
<1>7. \A k, l \in Player : frames'[k][l] = <<>> \/ frames'[k][l] = frames[k][l]
  BY <1>1, <1>3 DEF TypeOK
<1>8. NothingTold  BY <1>1, <1>6, NothingAdded
<1>9. NothingFalse  BY <1>7 DEF NothingFalse
<1>10. Nameless  BY <1>2 DEF Nameless
<1>11. Unheard  BY <1>2, <1>8 DEF Unheard
<1>12. LivingKept
  <2>1. \A k \in up' : \A i : Name(k, i).owner # m  BY <1>2 DEF Name
  <2>2. up' \subseteq Player  BY <1>1 DEF TypeOK
  <2> QED  BY <1>4, <2>1, <2>2 DEF LivingKept
<1>13. Quiet  BY <1>2, <1>5, <1>9, <1>10, <1>11, <1>12 DEF Quiet
<1> QED  BY <1>13, QuietInv

\* A game state taken from the network.
LEMMA TakenNothing ==
  ASSUME TypeOK, NEW n \in Player, NEW m \in Player,
         frames[m][n] # <<>>, frames' = [frames EXCEPT ![m][n] = Tail(@)]
  PROVE  NothingFalse
<1>1. \A k, l \in Player : frames[k][l] \in Seq(SUBSET Item)  BY FramesType
<1>2. \A k, l \in Player : frames'[k][l] =
        IF k = m /\ l = n THEN Tail(frames[m][n]) ELSE frames[k][l]
  BY DEF TypeOK
<1>3. \A i \in DOMAIN Tail(frames[m][n]) :
        i + 1 \in DOMAIN frames[m][n] /\ Tail(frames[m][n])[i] = frames[m][n][i + 1]
  BY <1>1
<1> QED  BY <1>2, <1>3 DEF NothingFalse

LEMMA LoseNames ==
  ASSUME NInv, IInv', NEW n \in Player, NEW m \in Player, LoseGameState(n, m)
  PROVE  NInv'
<1>1. TypeOK /\ TypeOK'  BY DEF NInv, IInv
<1>2. UNCHANGED <<up, own, copies, ids, entities, orders>>  BY DEF LoseGameState
<1>3. NothingFalse  BY <1>1, TakenNothing DEF LoseGameState
<1>4. NothingTold  BY <1>1, <1>2, NothingAdded
<1>5. Nameless /\ Unheard  BY <1>2, <1>4 DEF Nameless, Unheard
<1>6. LivingKept  BY <1>2 DEF LivingKept
<1>7. Quiet  BY <1>2, <1>3, <1>5, <1>6 DEF Quiet
<1> QED  BY <1>7, QuietInv

LEMMA RequestEntityNames ==
  ASSUME NInv, IInv', NEW n \in Player, RequestEntity(n)
  PROVE  NInv'
<1>1. TypeOK /\ TypeOK'  BY DEF NInv, IInv
<1>2. UNCHANGED <<up, own, copies, ids, entities, frames>>  BY DEF RequestEntity
<1>3. PICK h \in copies[n] :
        orders' = Broadcast(orders, n, [src |-> h.owner, elem |-> h.id, dest |-> n])
  BY DEF RequestEntity
<1> DEFINE o == [src |-> h.owner, elem |-> h.id, dest |-> n]
<1>4. o \in Order  BY <1>1 DEF TypeOK, Handle, Order
<1>5. o \notin Created  BY HandOver
<1>6. orders' = Broadcast(orders, n, o)  BY <1>3
<1> HIDE DEF o
<1>7. orders \in Links  BY <1>1 DEF TypeOK, Links
<1>8. Sent(orders, Broadcast(orders, n, o), n, o)  BY <1>1, <1>4, <1>7, BroadcastSent
<1>9. \A k, l \in Player : orders'[k][l] = orders[k][l] \/ orders'[k][l] = Append(orders[k][l], o)
  BY <1>6, <1>8 DEF Sent
<1>10. NothingTold  BY <1>1, <1>4, <1>5, <1>9, NothingAdded
<1>11. NothingFalse  BY <1>2 DEF NothingFalse
<1>12. Nameless /\ Unheard  BY <1>2, <1>10 DEF Nameless, Unheard
<1>13. LivingKept  BY <1>2 DEF LivingKept
<1>14. Quiet  BY <1>2, <1>11, <1>12, <1>13 DEF Quiet
<1> QED  BY <1>14, QuietInv

\* An element is marked and perhaps handed over, to oneself or to another.
LEMMA MarkNames ==
  ASSUME NInv, IInv', NEW n \in Player, NEW e \in own[n], NEW d \in Player,
         NEW way \in Links, TransferEntity(way, n, e, d),
         UNCHANGED <<up, copies, ids, entities, frames>>,
         \A k, l \in Player :
           \/ way[k][l] = orders[k][l]
           \/ orders[k][l] # <<>> /\ way[k][l] = Tail(orders[k][l]) /\ k # n
  PROVE  NInv'
<1>1. TypeOK /\ TypeOK'  BY DEF NInv, IInv
<1> DEFINE o == [src |-> n, elem |-> e.id, dest |-> d]
<1>2. /\ \A k \in Player : k # n => own'[k] = own[k]
      /\ \A f \in own'[n] : f \in own[n] \ {e} \/ (f.id = e.id /\ f.marked /\ f.prev = e.prev)
      /\ orders' = Broadcast(way, n, o) \/ orders' = way
  BY <1>1, TransferMarks
<1>3. e.id \in Nat  BY <1>1, NamesType
<1>4. o \in Order  BY <1>3 DEF Order, Id
<1>5. o \notin Created  BY HandOver
<1> HIDE DEF o
<1>6. Sent(way, Broadcast(way, n, o), n, o)  BY <1>1, <1>4, BroadcastSent
<1>7. \A k, l \in Player :
        orders'[k][l] = way[k][l] \/ (k = n /\ orders'[k][l] = Append(way[k][l], o))
  <2>1. CASE orders' = way  BY <2>1
  <2>2. CASE orders' = Broadcast(way, n, o)
    <3>1. Sent(way, orders', n, o)  BY <1>6, <2>2
    <3> QED  BY <3>1 DEF Sent
  <2> QED  BY <1>2, <2>1, <2>2
<1>8. \A k, l \in Player :
        \/ orders'[k][l] = orders[k][l]
        \/ orders[k][l] # <<>> /\ orders'[k][l] = Tail(orders[k][l])
        \/ orders'[k][l] = Append(orders[k][l], o)
  <2> SUFFICES ASSUME NEW k \in Player, NEW l \in Player
               PROVE  \/ orders'[k][l] = orders[k][l]
                      \/ orders[k][l] # <<>> /\ orders'[k][l] = Tail(orders[k][l])
                      \/ orders'[k][l] = Append(orders[k][l], o)
    OBVIOUS
  <2>1. CASE k = n
    <3>1. way[k][l] = orders[k][l]  BY <2>1
    <3>2. orders'[k][l] = way[k][l] \/ orders'[k][l] = Append(way[k][l], o)  BY <1>7
    <3> QED  BY <3>1, <3>2, Zenon
  <2>2. CASE k # n
    <3>1. orders'[k][l] = way[k][l]  BY <1>7, <2>2
    <3> QED  BY <3>1
  <2> QED  BY <2>1, <2>2
<1>9. NothingTold  BY <1>1, <1>4, <1>5, <1>8, NothingAdded
<1>10. NothingFalse  BY DEF NothingFalse
<1>11. Nameless  BY <1>2 DEF Nameless
<1>12. Unheard  BY <1>2, <1>9 DEF Unheard
<1>13. LivingKept  BY DEF LivingKept
<1>14. Quiet  BY <1>10, <1>11, <1>12, <1>13 DEF Quiet
<1> QED  BY <1>14, QuietInv

LEMMA RequestOwnNames ==
  ASSUME NInv, IInv', NEW n \in Player, RequestOwn(n)
  PROVE  NInv'
<1>1. PICK e \in own[n] : TransferEntity(orders, n, e, n)  BY DEF RequestOwn
<1>2. UNCHANGED <<up, copies, ids, entities, frames>>  BY DEF RequestOwn
<1>3. orders \in Links  BY DEF NInv, IInv, TypeOK, Links
<1> QED  BY <1>1, <1>2, <1>3, MarkNames

LEMMA OnRequestNames ==
  ASSUME NInv, IInv', NEW n \in Player, NEW m \in Player, m # n, OnRequest(n, m)
  PROVE  NInv'
<1>1. TypeOK /\ TypeOK'  BY DEF NInv, IInv
<1>2. PICK o \in Transfers(m, n) :
        \/ \E e \in own[n] : TransferEntity(Read(m, n), n, e, o.dest)
        \/ orders' = Read(m, n) /\ UNCHANGED own
  BY DEF OnRequest
<1>3. orders[m][n] # <<>> /\ o.dest \in Player  BY <1>1, TransfersType
<1>4. Read(m, n) \in Links /\ \A k, l \in Player : Read(m, n)[k][l] =
        IF k = m /\ l = n THEN Tail(orders[m][n]) ELSE orders[k][l]
  BY <1>1, <1>3, ReadType DEF Links
<1>5. UNCHANGED <<up, copies, ids, entities, frames>>  BY DEF OnRequest
<1>6. \A k, l \in Player :
        \/ Read(m, n)[k][l] = orders[k][l]
        \/ orders[k][l] # <<>> /\ Read(m, n)[k][l] = Tail(orders[k][l]) /\ k # n
  BY <1>3, <1>4
<1>7. CASE \E e \in own[n] : TransferEntity(Read(m, n), n, e, o.dest)
  BY <1>3, <1>4, <1>5, <1>6, <1>7, MarkNames
<1>8. CASE orders' = Read(m, n) /\ UNCHANGED own
  <2>1. NothingTold  BY <1>1, <1>6, <1>8, NothingAdded
  <2>2. Nameless /\ Unheard  BY <1>5, <1>8, <2>1 DEF Nameless, Unheard
  <2>3. NothingFalse /\ LivingKept  BY <1>5 DEF NothingFalse, LivingKept
  <2>4. Quiet  BY <1>5, <2>2, <2>3 DEF Quiet
  <2> QED  BY <2>4, QuietInv
<1> QED  BY <1>2, <1>7, <1>8

\* The name of an element that the game deletes dies with it.
LEMMA RemoveElementNames ==
  ASSUME NInv, IInv', NEW n \in Player, RemoveElement(n)
  PROVE  NInv'
<1>1. TypeOK /\ TypeOK'  BY DEF NInv, IInv
<1>2. UNCHANGED <<up, copies, ids, orders, frames>>  BY DEF RemoveElement
<1>3. PICK e \in own[n] :
        /\ own' = [own EXCEPT ![n] = @ \ {e}]
        /\ entities' = [entities EXCEPT ![n] = @ \cup {[id |-> g.id, told |-> {}] : g \in {e}}]
  BY DEF RemoveElement, Removed
<1>4. own'[n] = own[n] \ {e} /\ \A k \in Player : own'[k] \subseteq own[k]
  BY <1>1, <1>3 DEF TypeOK
<1>5. \A k \in Player : \A x \in entities'[k] : x \in entities[k] \/ (k = n /\ x.id = e.id)
  BY <1>1, <1>3 DEF TypeOK
<1>6. Dead(Name(n, e.id))'
  <2>1. e.id < ids'[n]  BY <1>1, <1>2, NamesType
  <2>2. \A f \in own'[n] : f.id # e.id  BY <1>1, <1>4, NamesType
  <2> QED  BY <2>1, <2>2 DEF Dead, Name
<1>7. \A k \in Player : \A x \in entities'[k] :
        Dead(Name(k, x.id))' \/ \E y \in entities[k] : y.id = x.id
  BY <1>5, <1>6
<1>8. NothingTold  BY <1>1, <1>2, NothingAdded
<1>9. Nameless /\ Unheard  BY <1>2, <1>4, <1>8 DEF Nameless, Unheard
<1>10. NothingFalse /\ LivingKept  BY <1>2 DEF NothingFalse, LivingKept
<1>11. Quiet  BY <1>2, <1>7, <1>9, <1>10 DEF Quiet
<1> QED  BY <1>11, QuietInv

\* What a game state says is what its sender knows.
LEMMA SendSound ==
  ASSUME NInv, NEW n \in Player, SendGameState(n)
  PROVE  NothingFalse
<1>1. TypeOK  BY DEF NInv, IInv
<1>2. PICK deltas \in SUBSET own[n] :
        frames' = [frames EXCEPT ![n] = [m \in Player |->
           IF m \in peers[n] \cap up
           THEN Append(@[m], {Full(e) : e \in {e \in own[n] : ~e.marked} \ deltas}
                             \cup {Delta(e) : e \in deltas} \cup {Destroy(x) : x \in entities[n]})
           ELSE @[m]]]
  BY DEF SendGameState
<1> DEFINE items == {Full(e) : e \in {e \in own[n] : ~e.marked} \ deltas}
                    \cup {Delta(e) : e \in deltas} \cup {Destroy(x) : x \in entities[n]}
<1>3. \A m, l \in Player :
        frames'[m][l] = frames[m][l] \/ (m = n /\ frames'[m][l] = Append(frames[m][l], items))
  <2> HIDE DEF items
  <2> DEFINE row == [m \in Player |-> IF m \in peers[n] \cap up THEN Append(frames[n][m], items)
                                                                ELSE frames[n][m]]
  <2>1. frames' = [frames EXCEPT ![n] = row]  BY <1>1, <1>2 DEF TypeOK, items
  <2>2. \A m \in Player : row[m] = frames[n][m] \/ row[m] = Append(frames[n][m], items)  OBVIOUS
  <2> HIDE DEF row
  <2>3. frames'[n] = row /\ \A m \in Player : m # n => frames'[m] = frames[m]
    BY <1>1, <2>1 DEF TypeOK
  <2> QED  BY <2>2, <2>3
<1>4. \A x \in items : x \in Item /\ Sound(n, x)
  <2>1. \A e \in own[n] : e \in Owned /\ e.id \in Nat /\ e.id < ids[n]  BY <1>1, NamesType
  <2>2. \A e \in own[n] : Full(e) \in Item /\ Delta(e) \in Item
    BY <2>1 DEF Item, Full, Delta, Owned, Id
  <2>3. \A x \in entities[n] : x.id \in Nat  BY <1>1 DEF TypeOK, Id
  <2>4. \A x \in entities[n] : Destroy(x) \in Item  BY <2>3 DEF Item, Destroy, Id
  <2>5. \A e \in own[n] : e.prev # None => Dead(e.prev)  BY DEF NInv, PrevDead
  <2>6. \A x \in entities[n] : Dead(Name(n, x.id))  BY DEF NInv, RemovalsDead
  <2>7. \A e \in own[n] : Sound(n, Full(e)) /\ Sound(n, Delta(e))
    BY <2>1, <2>5 DEF Sound, Full, Delta
  <2>8. \A x \in entities[n] : Sound(n, Destroy(x))
    BY <2>6 DEF Sound, Destroy, Dead, Name
  <2> QED  BY <2>2, <2>4, <2>7, <2>8
<1> HIDE DEF items
<1>5. SUFFICES ASSUME NEW m \in Player, NEW l \in Player, NEW i \in DOMAIN frames'[m][l]
               PROVE  \/ \E j \in DOMAIN frames[m][l] : frames'[m][l][i] = frames[m][l][j]
                      \/ \A x \in frames'[m][l][i] : x \in Item /\ Sound(m, x)
  BY DEF NothingFalse
<1>6. frames[m][l] \in Seq(SUBSET Item)  BY <1>1, FramesType
<1>7. CASE frames'[m][l] = frames[m][l]  BY <1>7
<1>8. CASE m = n /\ frames'[m][l] = Append(frames[m][l], items)
  <2>1. items \in SUBSET Item  BY <1>4
  <2>2. /\ i \in 1..(Len(frames[m][l]) + 1) /\ Len(frames[m][l]) \in Nat
        /\ frames'[m][l][Len(frames[m][l]) + 1] = items
        /\ \A j \in 1..Len(frames[m][l]) : frames'[m][l][j] = frames[m][l][j]
    BY <1>6, <1>8, <2>1, AppendProperties, LenProperties
  <2>3. CASE i = Len(frames[m][l]) + 1  BY <1>4, <1>8, <2>2, <2>3
  <2>4. CASE i # Len(frames[m][l]) + 1
    <3>1. i \in 1..Len(frames[m][l])  BY <2>2, <2>4
    <3>2. i \in DOMAIN frames[m][l]  BY <1>6, <3>1
    <3> QED  BY <2>2, <3>1, <3>2
  <2> QED  BY <2>3, <2>4
<1> QED  BY <1>3, <1>7, <1>8

LEMMA SendNames ==
  ASSUME NInv, IInv', NEW n \in Player, SendGameState(n)
  PROVE  NInv'
<1>1. TypeOK /\ TypeOK'  BY DEF NInv, IInv
<1>2. UNCHANGED <<up, copies, ids, orders>>  BY DEF SendGameState
<1>3. \A k \in Player : \A f \in own'[k] : \E e \in own[k] : Kept(e, f)
  <2>1. \A k \in Player : k # n => own'[k] = own[k]  BY <1>1, SendOwn
  <2>2. \A f \in own'[n] : \E e \in own[n] : Kept(e, f)  BY <1>1, SendOwn
  <2> QED  BY <2>1, <2>2 DEF Kept, Same
<1>4. \A k \in Player : entities'[k] \subseteq entities[k]  BY <1>1 DEF SendGameState, TypeOK
<1>5. NothingTold  BY <1>1, <1>2, NothingAdded
<1>6. Nameless /\ Unheard  BY <1>2, <1>3, <1>5 DEF Nameless, Unheard, Kept, Same
<1>7. NothingFalse  BY SendSound
<1>8. LivingKept  BY <1>2 DEF LivingKept
<1>9. Quiet  BY <1>2, <1>4, <1>6, <1>7, <1>8 DEF Quiet
<1> QED  BY <1>9, QuietInv

\* The owner hears what was being told.
LEMMA AckNames ==
  ASSUME NInv, IInv', NEW n \in Player, NEW m \in Player, OnAckEntityCreate(n, m)
  PROVE  NInv'
<1>1. TypeOK /\ TypeOK'  BY DEF NInv, IInv
<1>2. UNCHANGED <<up, copies, ids, entities, frames>>  BY DEF OnAckEntityCreate
<1>3. orders[m][n] # <<>> /\ Head(orders[m][n]) \in Created /\ orders' = Read(m, n)
  BY DEF OnAckEntityCreate
<1> DEFINE h(e) == IF e.id \in Head(orders[m][n]).created
                   THEN [e EXCEPT !.acks = @ \cup {m}] ELSE e
<1>4. own'[n] = {h(e) : e \in own[n]} /\ \A k \in Player : k # n => own'[k] = own[k]
  BY <1>1 DEF OnAckEntityCreate, TypeOK
<1>5. \A e \in Owned :
        Same(e, h(e)) /\ \A p \in h(e).acks :
          p \in e.acks \/ (p = m /\ e.id \in Head(orders[m][n]).created)
  BY DEF Owned, Same
<1> HIDE DEF h
<1>6. \A i : i \in Head(orders[m][n]).created => Telling(m, n, i)
  <2>1. orders[m][n] \in Seq(Order)  BY <1>1 DEF TypeOK
  <2>2. 1 \in DOMAIN orders[m][n] /\ Head(orders[m][n]) = orders[m][n][1]  BY <1>3, <2>1
  <2> QED  BY <1>3, <2>2 DEF Telling
<1>7. \A k \in Player : own[k] \subseteq Owned  BY <1>1 DEF TypeOK
<1>8. \A f \in own'[n] : \E e \in own[n] :
        Same(e, f) /\ \A p \in f.acks : p \in e.acks \/ Telling(p, n, e.id)
  BY <1>4, <1>5, <1>6, <1>7
<1>9. \A k, l \in Player : orders'[k][l] =
        IF k = m /\ l = n THEN Tail(orders[m][n]) ELSE orders[k][l]
  BY <1>1, <1>3, ReadType
<1>10. NothingTold  BY <1>1, <1>3, <1>9, NothingAdded
<1>11. Unheard
  <2>1. ASSUME NEW k \in Player, NEW f \in own'[k], ~f.marked
        PROVE  \E e \in own[k] : /\ e.id = f.id /\ ~e.marked
                                 /\ \A p \in f.acks : p \in e.acks \/ Telling(p, k, f.id)
    <3>1. CASE k = n  BY <1>8, <2>1, <3>1 DEF Same
    <3>2. CASE k # n  BY <1>4, <2>1, <3>2
    <3> QED  BY <3>1, <3>2
  <2> QED  BY <1>10, <2>1 DEF Unheard
<1>12. Nameless  BY <1>2, <1>4, <1>8 DEF Nameless, Same
<1>13. NothingFalse /\ LivingKept  BY <1>2 DEF NothingFalse, LivingKept
<1>14. Quiet  BY <1>2, <1>11, <1>12, <1>13 DEF Quiet
<1> QED  BY <1>14, QuietInv

(* The new owner takes the element: the old name dies, for its owner has    *)
(* marked everything and the new name is one nobody has talked of.          *)
LEMMA OnTransferNames ==
  ASSUME NInv, IInv', NEW n \in Player, NEW m \in Player, m # n, OnTransfer(n, m)
  PROVE  NInv'
<1>1. TypeOK /\ TypeOK' /\ OneTitle  BY DEF NInv, IInv
<1>2. PICK h \in copies[n] :
        /\ copies' = [copies EXCEPT ![n] = @ \ {h}]
        /\ own' = [own EXCEPT ![n] = @ \cup {NewElement(ids[n], h)}]
        /\ orders' = Read(m, n) /\ orders[m][n] # <<>>
        /\ Head(orders[m][n]) \notin Created
        /\ Head(orders[m][n]).src = m /\ Head(orders[m][n]).dest = n
        /\ h = Name(m, Head(orders[m][n]).elem)
  BY <1>1, OnTransferOwn
<1>3. UNCHANGED <<up, entities, frames>> /\ ids' = [ids EXCEPT ![n] = @ + 1]
  BY DEF OnTransfer
<1> DEFINE c == NewElement(ids[n], h)
<1>4. c.id = ids[n] /\ c.prev = h /\ c.acks = {} /\ ~c.marked  BY DEF NewElement
<1>5. own'[n] = own[n] \cup {c} /\ \A k \in Player : k # n => own'[k] = own[k]
  BY <1>1, <1>2 DEF TypeOK
<1> HIDE DEF c
<1>6. ids'[n] = ids[n] + 1 /\ \A k \in Player : ids[k] \in Nat /\ (k # n => ids'[k] = ids[k])
  BY <1>1, <1>3 DEF TypeOK
<1>7. \A p \in Player : \A f \in own[p] : f.marked
  <2>1. orders[m][n] \in Seq(Order)  BY <1>1 DEF TypeOK
  <2>2. 1 \in 1..Len(orders[m][n]) /\ Head(orders[m][n]) = orders[m][n][1]  BY <1>2, <2>1
  <2>3. 1 \in Handing(m, n)  BY <1>1, <1>2, <2>2, HandingDef
  <2> QED  BY <1>1, <2>3 DEF OneTitle, HeldOrHanded
<1>8. Onward
  <2>1. \A k \in Player : ids[k] <= ids'[k]  BY <1>6
  <2>2. \A k \in Player : \A f \in own'[k] :
          f.id >= ids[k] \/ \E e \in own[k] : e.id = f.id /\ (e.marked => f.marked)
    BY <1>4, <1>5, <1>6
  <2> QED  BY <2>1, <2>2 DEF Onward
<1>9. h \in Handle /\ Dead(h)
  <2>1. h \in Handle /\ h.owner \in Player  BY <1>1 DEF TypeOK, Handle
  <2>2. h.id < ids[h.owner]  BY DEF NInv, NamesGiven
  <2> QED  BY <1>7, <2>1, <2>2 DEF Dead
<1>10. PrevDead'
  <2> SUFFICES ASSUME NEW k \in Player, NEW f \in own'[k], f.prev # None PROVE Dead(f.prev)'
    BY DEF PrevDead
  <2>1. f.prev \in Handle /\ Dead(f.prev)
    <3>1. CASE f \in own[k]
      <4>1. f \in Owned  BY <1>1, <3>1, NamesType
      <4>2. Dead(f.prev)  BY <3>1 DEF NInv, PrevDead
      <4> QED  BY <4>1, <4>2 DEF Owned
    <3>2. CASE f = c  BY <1>4, <1>9, <3>2
    <3> QED  BY <1>5, <3>1, <3>2
  <2> QED  BY <1>1, <1>8, <2>1, DeadStays
<1>11. RemovalsDead'  BY <1>1, <1>3, <1>8, RemovalsKept DEF NInv
<1>12. NothingFalse  BY <1>3 DEF NothingFalse
<1>13. ItemsSound'  BY <1>1, <1>8, <1>12, ItemsKept DEF NInv
<1>14. \A k \in Player : copies'[k] \subseteq copies[k]  BY <1>1, <1>2 DEF TypeOK
<1>15. \A k, l \in Player : orders'[k][l] =
         IF k = m /\ l = n THEN Tail(orders[m][n]) ELSE orders[k][l]
  BY <1>1, <1>2, ReadType
<1>16. NothingTold  BY <1>1, <1>2, <1>15, NothingAdded
<1>17. \A p, k \in Player : \A i \in Id : Telling(p, k, i)' => Telling(p, k, i)
  BY <1>16, TellingKept
<1>18. NamesGiven'  BY <1>1, <1>8, <1>14, <1>17, GivenKept DEF NInv
<1>19. Confirmed'
  <2> SUFFICES ASSUME NEW k \in up', NEW p \in up', NEW f \in own'[k], ~f.marked,
                      Heard(p, k, f.id)'
               PROVE  FALSE
    BY DEF Confirmed
  <2>1. k \in Player /\ p \in Player  BY <1>1 DEF TypeOK
  <2>2. k = n /\ f = c  BY <1>5, <1>7, <2>1
  <2>3. \A x, y \in own'[n] : x.id = y.id => x = y  BY <1>1 DEF TypeOK
  <2>4. \A g \in own'[n] : g.id = f.id => p \notin g.acks  BY <1>4, <2>2, <2>3
  <2>5. Telling(p, n, f.id)'  BY <2>2, <2>4 DEF Heard
  <2> DEFINE i == ids[n]
  <2>6. i \in Id /\ i = ids[n] /\ f.id = i  BY <1>4, <1>6, <2>2 DEF Id
  <2> HIDE DEF i
  <2>7. \E j \in DOMAIN orders'[p][n] : orders'[p][n][j] \in Created /\ i \in orders'[p][n][j].created
    BY <2>5, <2>6 DEF Telling
  <2>8. Telling(p, n, i)  BY <1>16, <2>1, <2>7 DEF Telling, NothingTold
  <2> QED  BY <1>6, <2>1, <2>6, <2>8 DEF NInv, NamesGiven
<1> QED  BY <1>10, <1>11, <1>13, <1>18, <1>19 DEF NInv

-----------------------------------------------------------------------------
(* A game state is received.                                                *)

FullNames(n, m) == {Name(m, x.id) : x \in Items(n, m, "full")}
DeadNames(n, m) == {x.prev : x \in Items(n, m, "full")}
                   \cup {Name(m, x.id) : x \in Items(n, m, "destroy")}

LEMMA HeadNames ==
  ASSUME NInv, NEW n \in Player, NEW m \in Player, frames[m][n] # <<>>
  PROVE  /\ \A h \in FullNames(n, m) : h \in Handle /\ h.owner = m /\ h.id < ids[m]
         /\ \A h \in DeadNames(n, m) : h # None => h \in Handle /\ Dead(h)
<1>1. TypeOK /\ ItemsSound  BY DEF NInv, IInv
<1>2. frames[m][n] \in Seq(SUBSET Item)  BY <1>1, FramesType
<1>3. 1 \in DOMAIN frames[m][n] /\ Head(frames[m][n]) = frames[m][n][1]  BY <1>2
<1>4. \A x \in Head(frames[m][n]) : Sound(m, x)  BY <1>1, <1>3 DEF ItemsSound
<1>5. /\ \A x \in Head(frames[m][n]) : x \in Item /\ x.id \in Id
      /\ \A x \in Items(n, m, "full") : x.id \in Id /\ x.prev \in Handle \cup {None}
      /\ \A i \in Id : Name(m, i) \in Handle /\ Name(m, i).owner = m /\ Name(m, i).id = i
  BY <1>1, ItemTypes
<1>6. \A x \in Items(n, m, "full") : /\ x.id \in Id /\ x.id < ids[m]
                                     /\ x.prev # None => x.prev \in Handle /\ Dead(x.prev)
  BY <1>4, <1>5 DEF Items, Sound
<1>7. \A x \in Items(n, m, "destroy") : x.id \in Id /\ Dead(Name(m, x.id))
  BY <1>4, <1>5 DEF Items, Sound
<1>8. \A h \in FullNames(n, m) : h \in Handle /\ h.owner = m /\ h.id < ids[m]
  BY <1>5, <1>6 DEF FullNames
<1>9. \A h \in DeadNames(n, m) : h # None => h \in Handle /\ Dead(h)
  BY <1>5, <1>6, <1>7 DEF DeadNames
<1> QED  BY <1>8, <1>9

\* What is done with the names of a game state.
LEMMA ReceiveFacts ==
  ASSUME NInv, NEW n \in Player, NEW m \in Player, n # m, ReceiveGameState(n, m)
  PROVE  /\ copies'[n] = (copies[n] \ DeadNames(n, m)) \cup FullNames(n, m)
         /\ \A k \in Player : k # n => copies'[k] = copies[k]
         /\ \A k \in Player : \A x \in entities'[k] :
              \/ \E y \in entities[k] : y.id = x.id
              \/ k = n /\ \E e \in own[n] : e.id = x.id /\ \A f \in own'[n] : f.id # e.id
<1> DEFINE lost == {e \in own[n] : Name(n, e.id) \in DeadNames(n, m)}
<1>1. TypeOK  BY DEF NInv, IInv
<1>2. copies' = [copies EXCEPT ![n] = (@ \ DeadNames(n, m)) \cup FullNames(n, m)]
  BY DEF ReceiveGameState, DeadNames, FullNames
<1>3. PICK heard \in BOOLEAN :
        /\ own' = [own EXCEPT ![n] = @ \ lost,
                              ![m] = IF heard THEN Acknowledged(n, m, @) ELSE @]
        /\ entities' = [entities EXCEPT
             ![n] = @ \cup {[id |-> e.id, told |-> {}] : e \in lost},
             ![m] = IF heard THEN Told(n, m, @) ELSE @]
  BY DEF ReceiveGameState, DeadNames
<1>4. lost \subseteq own[n]  OBVIOUS
<1> HIDE DEF lost
<1>5. own'[n] = own[n] \ lost  BY <1>1, <1>3 DEF TypeOK
<1>6. /\ entities'[n] = entities[n] \cup {[id |-> e.id, told |-> {}] : e \in lost}
      /\ entities'[m] = Told(n, m, entities[m]) \/ entities'[m] = entities[m]
      /\ \A k \in Player : k # n /\ k # m => entities'[k] = entities[k]
  BY <1>1, <1>3 DEF TypeOK
<1>7. \A e \in lost : e \in own[n] /\ \A f \in own'[n] : f.id # e.id
  BY <1>1, <1>4, <1>5, NamesType
<1>8. \A x \in Told(n, m, entities[m]) : \E y \in entities[m] : y.id = x.id
  <2>1. \A y \in [id : Id, told : SUBSET Player] : [y EXCEPT !.told = @ \cup {n}].id = y.id
    OBVIOUS
  <2>2. entities[m] \subseteq [id : Id, told : SUBSET Player]  BY <1>1 DEF TypeOK
  <2> QED  BY <2>1, <2>2 DEF Told
<1>9. \A k \in Player : \A x \in entities'[k] :
        \/ \E y \in entities[k] : y.id = x.id
        \/ k = n /\ \E e \in own[n] : e.id = x.id /\ \A f \in own'[n] : f.id # e.id
  BY <1>6, <1>7, <1>8
<1>10. copies'[n] = (copies[n] \ DeadNames(n, m)) \cup FullNames(n, m)
       /\ \A k \in Player : k # n => copies'[k] = copies[k]
  BY <1>1, <1>2 DEF TypeOK
<1> QED  BY <1>9, <1>10

\* Who is told of a creation has the element by then.
LEMMA ReceiveTells ==
  ASSUME NInv, NEW n \in Player, NEW m \in Player, n # m, ReceiveGameState(n, m)
  PROVE  \A p, k \in Player : \A i \in Id :
           Telling(p, k, i)' =>
             Telling(p, k, i) \/ (p = n /\ k = m /\ Name(m, i) \in FullNames(n, m))
<1>1. TypeOK  BY DEF NInv, IInv
<1>2. PICK new \in SUBSET FullNames(n, m) : orders' = [orders EXCEPT ![n][m] =
        IF new = {} THEN @ ELSE Append(@, [created |-> {h.id : h \in new}])]
  BY DEF ReceiveGameState, FullNames
<1> DEFINE c == [created |-> {h.id : h \in new}]
<1>3. frames[m][n] # <<>>  BY DEF ReceiveGameState
<1>4. \A h \in new : h \in Handle /\ h.owner = m  BY <1>3, HeadNames
<1>5. \A h \in new : h.id \in Id /\ h = Name(m, h.id)  BY <1>4 DEF Handle, Name
<1>6. c \in Order  BY <1>5 DEF Order, Created
<1>7. \A i : i \in c.created => Name(m, i) \in FullNames(n, m)  BY <1>5
<1>8. orders' = [orders EXCEPT ![n][m] = IF new = {} THEN orders[n][m] ELSE Append(orders[n][m], c)]
  BY <1>1, <1>2 DEF TypeOK
<1> HIDE DEF c
<1>9. \A p, k \in Player : orders'[p][k] = orders[p][k]
        \/ (p = n /\ k = m /\ orders'[p][k] = Append(orders[p][k], c))
  BY <1>1, <1>8 DEF TypeOK
<1> SUFFICES ASSUME NEW p \in Player, NEW k \in Player, NEW i \in Id, Telling(p, k, i)'
             PROVE  Telling(p, k, i) \/ (p = n /\ k = m /\ Name(m, i) \in FullNames(n, m))
  OBVIOUS
<1>10. PICK j \in DOMAIN orders'[p][k] :
         orders'[p][k][j] \in Created /\ i \in orders'[p][k][j].created
  BY DEF Telling
<1>11. CASE orders'[p][k] = orders[p][k]  BY <1>10, <1>11 DEF Telling
<1>12. CASE p = n /\ k = m /\ orders'[p][k] = Append(orders[p][k], c)
  <2>1. orders[p][k] \in Seq(Order)  BY <1>1 DEF TypeOK
  <2>2. /\ j \in 1..(Len(orders[p][k]) + 1) /\ Len(orders[p][k]) \in Nat
        /\ orders'[p][k][Len(orders[p][k]) + 1] = c
        /\ \A l \in 1..Len(orders[p][k]) : orders'[p][k][l] = orders[p][k][l]
    BY <1>6, <1>12, <2>1, AppendProperties, LenProperties
  <2>3. CASE j = Len(orders[p][k]) + 1  BY <1>7, <1>10, <1>12, <2>2, <2>3
  <2>4. CASE j # Len(orders[p][k]) + 1
    <3>1. j \in 1..Len(orders[p][k])  BY <2>2, <2>4
    <3>2. j \in DOMAIN orders[p][k]  BY <2>1, <3>1
    <3> QED  BY <1>10, <2>2, <3>1, <3>2 DEF Telling
  <2> QED  BY <2>3, <2>4
<1> QED  BY <1>9, <1>11, <1>12

\* What is deleted with a new name, or as removed, is dead: no living element
\* of anybody is taken away.
LEMMA ReceiveNames ==
  ASSUME NInv, IInv', NEW n \in Player, NEW m \in Player, n # m, ReceiveGameState(n, m)
  PROVE  NInv'
<1>1. TypeOK /\ TypeOK'  BY DEF NInv, IInv
<1>2. UNCHANGED <<up, ids>> /\ frames[m][n] # <<>>
      /\ frames' = [frames EXCEPT ![m][n] = Tail(@)]
  BY DEF ReceiveGameState
<1>3. \A k \in Player : \A f \in own'[k] : \E e \in own[k] : Kept(e, f)  BY <1>1, ReceiveOwn
<1>4. Nameless  BY <1>2, <1>3 DEF Nameless, Kept, Same
<1>5. Onward  BY <1>1, <1>4, NamelessOnward
<1>6. NothingFalse  BY <1>1, <1>2, TakenNothing
<1>7. /\ copies'[n] = (copies[n] \ DeadNames(n, m)) \cup FullNames(n, m)
      /\ \A k \in Player : k # n => copies'[k] = copies[k]
  BY ReceiveFacts
<1>8. /\ \A h \in FullNames(n, m) : h \in Handle /\ h.owner = m /\ h.id < ids[m]
      /\ \A h \in DeadNames(n, m) : h # None => h \in Handle /\ Dead(h)
  BY <1>2, HeadNames
<1>9. \A p, k \in Player : \A i \in Id : Telling(p, k, i)' =>
        Telling(p, k, i) \/ (p = n /\ k = m /\ Name(m, i) \in FullNames(n, m))
  BY ReceiveTells
<1>10. PrevDead'  BY <1>1, <1>4, PrevKept DEF NInv
<1>11. RemovalsDead'
  <2>1. ASSUME NEW x, NEW e \in own[n], e.id = x.id, \A f \in own'[n] : f.id # e.id
        PROVE  Dead(Name(n, x.id))'
    <3>1. e.id < ids'[n]  BY <1>1, <1>2, NamesType
    <3> QED  BY <2>1, <3>1 DEF Dead, Name
  <2>2. \A k \in Player : \A x \in entities'[k] :
          \/ \E y \in entities[k] : y.id = x.id
          \/ k = n /\ \E e \in own[n] : e.id = x.id /\ \A f \in own'[n] : f.id # e.id
    BY ReceiveFacts
  <2>3. \A k \in Player : \A x \in entities'[k] :
          Dead(Name(k, x.id))' \/ \E y \in entities[k] : y.id = x.id
    BY <2>1, <2>2
  <2> QED  BY <1>1, <1>5, <2>3, RemovalsKept DEF NInv
<1>12. ItemsSound'  BY <1>1, <1>5, <1>6, ItemsKept DEF NInv
<1>13. NamesGiven'
  <2>1. \A k \in Player : \A h \in copies'[k] : h \in copies[k] \/ h.id < ids[h.owner]
    BY <1>7, <1>8
  <2>2. \A p, k \in Player : \A i \in Id : Telling(p, k, i)' => Telling(p, k, i) \/ i < ids[k]
    <3>1. \A i : Name(m, i).id = i  BY DEF Name
    <3> QED  BY <1>8, <1>9, <3>1
  <2> QED  BY <1>1, <1>5, <2>1, <2>2, GivenKept DEF NInv
<1>14. \A k, p \in Player : \A f \in own'[k] : ~f.marked /\ Heard(p, k, f.id)' =>
         Heard(p, k, f.id) \/ Name(k, f.id) \in copies'[p]
  <2> SUFFICES ASSUME NEW k \in Player, NEW p \in Player, NEW f \in own'[k], Heard(p, k, f.id)'
               PROVE  Heard(p, k, f.id) \/ Name(k, f.id) \in copies'[p]
    OBVIOUS
  <2>1. CASE \E g \in own'[k] : g.id = f.id /\ p \in g.acks
    <3>1. PICK g \in own'[k] : g.id = f.id /\ p \in g.acks  BY <2>1
    <3>2. PICK e \in own[k] : Kept(e, g)  BY <1>3
    <3> QED  BY <3>1, <3>2 DEF Heard, Kept, Same
  <2>2. CASE Telling(p, k, f.id)'
    <3> DEFINE i == f.id
    <3>1. i \in Id /\ Telling(p, k, i)'  BY <1>1, <2>2 DEF TypeOK, Owned
    <3> HIDE DEF i
    <3>2. Telling(p, k, i) \/ (p = n /\ k = m /\ Name(m, i) \in FullNames(n, m))
      BY <1>9, <3>1
    <3>3. Telling(p, k, i) \/ Name(k, i) \in copies'[p]  BY <1>7, <3>2
    <3> QED  BY <3>3 DEF Heard, i
  <2> QED  BY <2>1, <2>2 DEF Heard
<1>15. \A k, p \in up' : \A e \in own[k] :
         ~e.marked /\ Name(k, e.id) \in copies[p] => Name(k, e.id) \in copies'[p]
  <2> SUFFICES ASSUME NEW k \in up', NEW p \in up', NEW e \in own[k], ~e.marked,
                      Name(k, e.id) \in copies[p]
               PROVE  Name(k, e.id) \in copies'[p]
    OBVIOUS
  <2>1. k \in Player /\ p \in Player  BY <1>1 DEF TypeOK
  <2>2. e.id \in Nat  BY <1>1, <2>1, NamesType
  <2> DEFINE h == Name(k, e.id)
  <2>3. h # None  BY <2>1, <2>2, FirstAssumption DEF Name
  <2>4. ~Dead(h)  BY DEF Dead, Name
  <2> HIDE DEF h
  <2>5. h \notin DeadNames(n, m)  BY <1>8, <2>3, <2>4
  <2>6. h \in copies[p]  BY DEF h
  <2>7. h \in copies'[p]  BY <1>7, <2>1, <2>5, <2>6
  <2> QED  BY <2>7 DEF h
<1>16. Confirmed'
  <2>1. up' \subseteq Player /\ up' \subseteq up  BY <1>1, <1>2 DEF TypeOK
  <2>2. \A k \in up' : \A f \in own'[k] : ~f.marked => \E e \in own[k] : e.id = f.id /\ ~e.marked
    BY <1>3, <2>1 DEF Kept, Same
  <2>3. \A k, p \in up' : \A f \in own'[k] : ~f.marked /\ Heard(p, k, f.id)' =>
          Heard(p, k, f.id) \/ Name(k, f.id) \in copies'[p]
    BY <1>14, <2>1
  <2>4. Confirmed  BY DEF NInv
  <2> QED  BY <1>1, <1>15, <2>1, <2>2, <2>3, <2>4, ConfirmedKept
<1> QED  BY <1>10, <1>11, <1>12, <1>13, <1>16 DEF NInv

-----------------------------------------------------------------------------
(* The theorems.                                                            *)

LEMMA InitNames == Init => NInv
<1> SUFFICES ASSUME Init PROVE NInv  OBVIOUS
<1>1. IInv  BY InitInv
<1>2. /\ \A n \in Player : own[n] \subseteq {NewElement(0, None)} /\ copies[n] = {} /\ entities[n] = {}
      /\ \A m, n \in Player : orders[m][n] = <<>> /\ frames[m][n] = <<>>
  BY DEF Init
<1>3. \A n \in Player : \A e \in own[n] : e.prev = None /\ e.acks = {}
  BY <1>2 DEF NewElement
<1>4. \A p, n \in Player : \A i : ~Telling(p, n, i)  BY <1>2 DEF Telling
<1>5. PrevDead /\ RemovalsDead /\ ItemsSound  BY <1>2, <1>3 DEF PrevDead, RemovalsDead, ItemsSound
<1>6. NamesGiven  BY <1>2, <1>4 DEF NamesGiven
<1>7. up = Player  BY DEF Init
<1>8. Confirmed  BY <1>3, <1>4, <1>7 DEF Confirmed, Heard
<1> QED  BY <1>1, <1>5, <1>6, <1>8 DEF NInv

\* The names stay sound through every step.
LEMMA NextNames ==
  ASSUME NInv, [Next]_vars
  PROVE  NInv'
<1>1. IInv  BY DEF NInv
<1>2. IInv'  BY <1>1, NextInv
<1>3. CASE UNCHANGED vars
  <2>1. UNCHANGED <<up, peers, own, copies, ids, entities, orders, frames, calls>>
    BY <1>3 DEF vars
  <2>2. TypeOK  BY <1>1 DEF IInv
  <2>3. NothingTold  BY <2>1, <2>2, NothingAdded
  <2>4. Nameless /\ Unheard /\ NothingFalse /\ LivingKept
    BY <2>1, <2>3 DEF Nameless, Unheard, NothingFalse, LivingKept
  <2>5. Quiet  BY <2>1, <2>4 DEF Quiet
  <2> QED  BY <1>2, <2>5, QuietInv
<1>4. ASSUME NEW n \in Player, Alone(n) PROVE NInv'
  <2>1. CASE RequestEntity(n)  BY <1>2, <2>1, RequestEntityNames
  <2>2. CASE RequestOwn(n)  BY <1>2, <2>2, RequestOwnNames
  <2>3. CASE RemoveElement(n)  BY <1>2, <2>3, RemoveElementNames
  <2>4. CASE Leave(n)
    <3>1. Gone(n)  BY <2>4 DEF Leave
    <3> QED  BY <1>2, <3>1, GoneNames
  <2>5. CASE SendGameState(n)  BY <1>2, <2>5, SendNames
  <2> QED  BY <1>4, <2>1, <2>2, <2>3, <2>4, <2>5 DEF Alone
<1>5. ASSUME NEW n \in Player, NEW m \in Player \ {n}, Between(n, m) PROVE NInv'
  <2> m \in Player /\ m # n  OBVIOUS
  <2>1. CASE OnRequest(n, m)  BY <1>2, <2>1, OnRequestNames
  <2>2. CASE OnTransfer(n, m)  BY <1>2, <2>2, OnTransferNames
  <2>3. CASE ReadNull(n, m) \/ ReceiveCockup(n, m)
    <3>1. Gone(n)  BY <2>3 DEF ReadNull, ReceiveCockup
    <3> QED  BY <1>2, <3>1, GoneNames
  <2>4. CASE RemovePlayerFromGame(n, m)  BY <1>2, <2>4, RemovePlayerNames
  <2>5. CASE LoseGameState(n, m)  BY <1>2, <2>5, LoseNames
  <2>6. CASE ReceiveGameState(n, m)  BY <1>2, <2>6, ReceiveNames
  <2>7. CASE OnAckEntityCreate(n, m)  BY <1>2, <2>7, AckNames
  <2> QED  BY <1>5, <2>1, <2>2, <2>3, <2>4, <2>5, <2>6, <2>7 DEF Between
<1>6. CASE Next
  <2>1. PICK n \in Player : Alone(n) \/ \E m \in Player \ {n} : Between(n, m)
    BY <1>6 DEF Next, Alone, Between
  <2> QED  BY <1>4, <1>5, <2>1
<1> QED  BY <1>3, <1>6

(* No message, removal or new name deletes the element of an owner that     *)
(* still stands for it: old names are dead when they are announced.         *)
THEOREM NamesSound == Spec => []NInv
<1>1. Init => NInv  BY InitNames
<1>2. NInv /\ [Next]_vars => NInv'  BY NextNames
<1> QED  BY <1>1, <1>2, PTL DEF Spec

(* What HasAcksFromAllPeers counts on before an element is handed over: who *)
(* confirmed the creation of an unmarked element, and is in the game, has   *)
(* it, whatever was lost, handed over or deleted in between.                *)
THEOREM ConfirmedIsThere == Spec => []AcksAreCopies
<1>1. NInv => AcksAreCopies
  <2> SUFFICES ASSUME NInv, NEW n \in up, NEW e \in own[n], ~e.marked, NEW p \in e.acks \cap up
               PROVE  Name(n, e.id) \in copies[p]
    BY DEF AcksAreCopies
  <2>1. Heard(p, n, e.id)  BY DEF Heard
  <2> QED  BY <2>1 DEF NInv, Confirmed
<1> QED  BY <1>1, NamesSound, PTL

-----------------------------------------------------------------------------
(* Names that are left over: who still has the element under another name   *)
(* than the owner's will be told.  Every copy is of an element its owner    *)
(* has, or of one whose removal is being announced to who has the copy;     *)
(* and what else anybody owns than the element itself is what it was named  *)
(* before.                                                                  *)

\* The removal of (m, i) is still announced to q.
Owes(m, q, i) == \E x \in entities[m] : x.id = i /\ q \notin x.told
\* q has a copy of (m, i), or will have.
Shown(m, q, i) ==
  \/ Name(m, i) \in copies[q]
  \/ \E j \in DOMAIN frames[m][q] : \E x \in frames[m][q][j] : x.kind = "full" /\ x.id = i
Announced ==
  \A m, q \in up : \A i \in Id : m # q /\ Shown(m, q, i) => Has(m, i) \/ Owes(m, q, i)

GoneEmpty == \A n \in Player : n \notin up => own[n] = {}
PrevOther == \A n \in Player : \A e \in own[n] : e.prev # None => e.prev.owner # n
RemovedGone == \A m \in Player : \A x \in entities[m] : ~Has(m, x.id)

\* After a removal on a link there is no state of the element.
Destroyed ==
  \A m, q \in Player : \A i, j \in DOMAIN frames[m][q] : \A y \in frames[m][q][i] :
    y.kind = "destroy" =>
      /\ ~Has(m, y.id)
      /\ i <= j => \A x \in frames[m][q][j] : x.kind = "full" => x.id # y.id

\* A state of an element on a link says what the old name is, as long as its
\* owner knows it.
Named ==
  \A m, q \in Player : \A i \in DOMAIN frames[m][q] : \A x \in frames[m][q][i] : \A e \in own[m] :
    x.kind # "destroy" /\ e.id = x.id => e.prev = None \/ (x.kind = "full" /\ x.prev = e.prev)

\* Who had the element under the old name has lost that before its new owner
\* takes it to know the new one.
Knowing(p, o, e) == p \in e.acks \cup e.known \/ Telling(p, o, e.id)
PrevLost ==
  \A o \in Player : \A e \in own[o] :
    e.prev # None /\ Knowing(e.prev.owner, o, e) => ~Has(e.prev.owner, e.prev.id)

\* Besides the one who has the title nobody owns anything but the last name.
SingleHeld ==
  \A o \in Player : \A e \in own[o] : ~e.marked =>
    \A k \in up : \A f \in own[k] : (k = o /\ f.id = e.id) \/ Name(k, f.id) = e.prev
SingleHanded ==
  \A m, n \in Player : \A i \in Handing(m, n) : \A k \in up : \A f \in own[k] :
    k = m /\ f.id = orders[m][n][i].elem

Rest == /\ GoneEmpty /\ PrevOther /\ RemovedGone /\ Destroyed /\ Named /\ PrevLost /\ Announced
Leftovers == Rest /\ SingleHeld /\ SingleHanded
SInv == NInv /\ Leftovers

-----------------------------------------------------------------------------
(* What a step must keep.                                                   *)

\* Elements keep their old name, or forget it; a new one gets a new number.
Ages ==
  \A k \in Player : \A f \in own'[k] :
    f.id >= ids[k] \/ \E e \in own[k] : f.id = e.id /\ f.prev \in {e.prev, None}

\* The links get nothing new.
Drains ==
  \A m, q \in Player :
    \/ frames'[m][q] = frames[m][q] \/ frames'[m][q] = <<>>
    \/ frames[m][q] # <<>> /\ frames'[m][q] = Tail(frames[m][q])

LEMMA DrainedIs ==
  ASSUME TypeOK, Drains, NEW m \in Player, NEW q \in Player
  PROVE  \E d \in Nat : \A i \in DOMAIN frames'[m][q] :
           i \in Nat /\ i + d \in DOMAIN frames[m][q] /\ frames'[m][q][i] = frames[m][q][i + d]
<1>1. frames[m][q] \in Seq(SUBSET Item)  BY FramesType
<1>2. CASE frames'[m][q] = frames[m][q]
  <2>1. \A i \in DOMAIN frames'[m][q] :
          i \in Nat /\ i + 0 \in DOMAIN frames[m][q] /\ frames'[m][q][i] = frames[m][q][i + 0]
    BY <1>1, <1>2
  <2> QED  BY <2>1
<1>3. CASE frames'[m][q] = <<>>
  BY <1>3
<1>4. CASE frames[m][q] # <<>> /\ frames'[m][q] = Tail(frames[m][q])
  <2>1. \A i \in DOMAIN frames'[m][q] :
          i \in Nat /\ i + 1 \in DOMAIN frames[m][q] /\ frames'[m][q][i] = frames[m][q][i + 1]
    BY <1>1, <1>4
  <2> QED  BY <2>1
<1> QED  BY <1>2, <1>3, <1>4 DEF Drains

LEMMA NoNameBack ==
  ASSUME TypeOK, Ages, NEW k \in Player, NEW i \in Nat, i < ids[k], ~Has(k, i)
  PROVE  ~Has(k, i)'
<1> SUFFICES ASSUME NEW f \in own'[k], f.id = i PROVE FALSE
  BY DEF Has
<1>1. ids[k] \in Nat  BY NamesType
<1>2. ~(f.id >= ids[k])  BY <1>1
<1> QED  BY <1>2 DEF Ages, Has

\* What an item that is on the way says of names.
LEMMA ItemIs ==
  ASSUME TypeOK, ItemsSound, NEW m \in Player, NEW q \in Player,
         NEW i \in DOMAIN frames[m][q], NEW x \in frames[m][q][i]
  PROVE  x \in Item /\ x.id \in Nat /\ x.id < ids[m]
<1>1. x \in Item  BY FramesType
<1>2. \A y \in Item : y.id \in Nat  BY DEF Item, Id
<1> QED  BY <1>1, <1>2 DEF ItemsSound, Sound

LEMMA DestroyedKept ==
  ASSUME TypeOK, ItemsSound, Destroyed, Drains, Ages
  PROVE  Destroyed'
<1> SUFFICES ASSUME NEW m \in Player, NEW q \in Player, NEW i \in DOMAIN frames'[m][q],
                    NEW j \in DOMAIN frames'[m][q], NEW y \in frames'[m][q][i], y.kind = "destroy"
             PROVE  /\ ~Has(m, y.id)'
                    /\ i <= j => \A x \in frames'[m][q][j] : x.kind = "full" => x.id # y.id
  BY DEF Destroyed
<1>1. PICK d \in Nat : \A l \in DOMAIN frames'[m][q] :
        l \in Nat /\ l + d \in DOMAIN frames[m][q] /\ frames'[m][q][l] = frames[m][q][l + d]
  BY DrainedIs
<1> DEFINE id == y.id
<1>2. id \in Nat /\ id < ids[m] /\ y \in frames[m][q][i + d]
  BY <1>1, ItemIs
<1>3. ~Has(m, id)
  BY <1>1, <1>2 DEF Destroyed
<1>4. ~Has(m, id)'
  <2> HIDE DEF id
  <2> QED  BY <1>2, <1>3, NoNameBack
<1>5. i <= j => \A x \in frames'[m][q][j] : x.kind = "full" => x.id # y.id
  <2>1. i <= j => i + d <= j + d
    BY <1>1
  <2> QED  BY <1>1, <1>2, <2>1 DEF Destroyed
<1> QED  BY <1>4, <1>5

LEMMA NamedKept ==
  ASSUME TypeOK, ItemsSound, Named, Drains, Ages
  PROVE  Named'
<1> SUFFICES ASSUME NEW m \in Player, NEW q \in Player, NEW i \in DOMAIN frames'[m][q],
                    NEW x \in frames'[m][q][i], NEW f \in own'[m], x.kind # "destroy", f.id = x.id
             PROVE  f.prev = None \/ (x.kind = "full" /\ x.prev = f.prev)
  BY DEF Named
<1>1. PICK d \in Nat : \A l \in DOMAIN frames'[m][q] :
        l \in Nat /\ l + d \in DOMAIN frames[m][q] /\ frames'[m][q][l] = frames[m][q][l + d]
  BY DrainedIs
<1>2. PICK j \in DOMAIN frames[m][q] : x \in frames[m][q][j]
  BY <1>1
<1>3. x.id \in Nat /\ x.id < ids[m] /\ ids[m] \in Nat
  BY <1>2, ItemIs, NamesType
<1>4. PICK e \in own[m] : f.id = e.id /\ f.prev \in {e.prev, None}
  BY <1>3 DEF Ages
<1>5. x.kind # "destroy" /\ e.id = x.id => e.prev = None \/ (x.kind = "full" /\ x.prev = e.prev)
  BY <1>2 DEF Named
<1>6. e.prev = None \/ (x.kind = "full" /\ x.prev = e.prev)
  <2>1. e.id = x.id
    BY <1>4
  <2> QED  BY <1>5, <2>1, Zenon
<1> QED  BY <1>4, <1>6

LEMMA RemovedKept ==
  ASSUME TypeOK, RemovalsDead, RemovedGone, Ages,
         \A k \in Player : \A x \in entities'[k] :
           ~Has(k, x.id)' \/ \E y \in entities[k] : y.id = x.id
  PROVE  RemovedGone'
<1> SUFFICES ASSUME NEW k \in Player, NEW x \in entities'[k], NEW y \in entities[k], y.id = x.id
             PROVE  ~Has(k, x.id)'
  BY DEF RemovedGone
<1> DEFINE i == x.id
<1>1. y \in [id : Id, told : SUBSET Player]
  BY DEF TypeOK
<1>2. i \in Nat /\ i < ids[k] /\ ~Has(k, i)
  BY <1>1 DEF RemovalsDead, Dead, Name, RemovedGone, Id
<1> HIDE DEF i
<1>3. ~Has(k, i)'
  BY <1>2, NoNameBack
<1> QED  BY <1>3 DEF i

LEMMA PrevLostKept ==
  ASSUME TypeOK, TypeOK', PrevDead, PrevLost, Ages,
         \A o \in Player : \A f \in own'[o] :
           f.prev # None /\ Knowing(f.prev.owner, o, f)' =>
             \/ ~Has(f.prev.owner, f.prev.id)'
             \/ \E e \in own[o] : e.prev = f.prev /\ Knowing(f.prev.owner, o, e)
  PROVE  PrevLost'
<1> SUFFICES ASSUME NEW o \in Player, NEW f \in own'[o], f.prev # None,
                    NEW e \in own[o], e.prev = f.prev, Knowing(f.prev.owner, o, e)
             PROVE  ~Has(f.prev.owner, f.prev.id)'
  BY DEF PrevLost
<1> DEFINE k == f.prev.owner
           i == f.prev.id
<1>1. f.prev \in Handle
  <2>1. f \in Owned
    BY DEF TypeOK
  <2> QED  BY <2>1 DEF Owned
<1>2. k \in Player /\ i \in Nat
  BY <1>1 DEF Handle, Id
<1>3. i < ids[k]
  BY DEF PrevDead, Dead
<1>4. ~Has(k, i)
  BY DEF PrevLost
<1> HIDE DEF k, i
<1>5. ~Has(k, i)'
  BY <1>2, <1>3, <1>4, NoNameBack
<1> QED  BY <1>5 DEF k, i

-----------------------------------------------------------------------------
(* Steps that hand nothing over.                                            *)

\* Elements are marked or lost, with the names they have.
Plain ==
  /\ UNCHANGED ids
  /\ up' \subseteq up /\ \A k \in up : k \notin up' => own'[k] = {}
  /\ \A k \in Player : \A f \in own'[k] : \E e \in own[k] :
       f.id = e.id /\ f.prev = e.prev /\ (e.marked => f.marked)

HandedBefore ==
  \A m, n \in Player : \A i \in Handing(m, n)' : \E j \in Handing(m, n) :
    orders'[m][n][i] = orders[m][n][j]

LEMMA HandedBeforeIs ==
  ASSUME TypeOK, TypeOK', NothingHanded
  PROVE  HandedBefore
<1> SUFFICES ASSUME NEW m \in Player, NEW n \in Player, NEW i \in Handing(m, n)'
             PROVE  \E j \in Handing(m, n) : orders'[m][n][i] = orders[m][n][j]
  BY DEF HandedBefore
<1>1. orders[m][n] \in Seq(Order) /\ orders'[m][n] \in Seq(Order)  BY DEF TypeOK
<1> DEFINE o == orders'[m][n][i]
<1>2. /\ i \in 1..Len(orders'[m][n])
      /\ o \notin Created /\ o.src = m /\ o.dest = n
  <2>1. DOMAIN orders'[m][n] = 1..Len(orders'[m][n])  BY <1>1
  <2> QED  BY <2>1 DEF Handing
<1>3. \A j \in 1..Len(orders[m][n]) : orders[m][n][j] = o => j \in Handing(m, n)
  BY <1>2, HandingDef
<1>4. CASE orders'[m][n] = orders[m][n]  BY <1>2, <1>3, <1>4
<1>5. CASE orders'[m][n] = <<>>  BY <1>2, <1>5
<1>6. CASE orders[m][n] # <<>> /\ orders'[m][n] = Tail(orders[m][n])
  <2>1. i + 1 \in 1..Len(orders[m][n]) /\ o = orders[m][n][i + 1]
    BY <1>1, <1>2, <1>6
  <2> QED  BY <1>3, <2>1
<1>7. CASE \E w \in Order : /\ w \notin Created => ~(w.src = m /\ w.dest = n)
                            /\ orders'[m][n] = Append(orders[m][n], w)
  <2>1. PICK w \in Order : /\ w \notin Created => ~(w.src = m /\ w.dest = n)
                           /\ orders'[m][n] = Append(orders[m][n], w)
    BY <1>7
  <2>2. /\ Len(orders'[m][n]) = Len(orders[m][n]) + 1 /\ Len(orders[m][n]) \in Nat
        /\ orders'[m][n][Len(orders[m][n]) + 1] = w
        /\ \A j \in 1..Len(orders[m][n]) : orders'[m][n][j] = orders[m][n][j]
    BY <1>1, <2>1, AppendProperties, LenProperties
  <2>3. i # Len(orders[m][n]) + 1  BY <1>2, <2>1, <2>2
  <2>4. i \in 1..Len(orders[m][n])
    <3>1. i \in 1..(Len(orders[m][n]) + 1)  BY <1>2, <2>2
    <3> QED  BY <2>2, <2>3, <3>1
  <2> QED  BY <1>3, <2>2, <2>4
<1> QED  BY <1>4, <1>5, <1>6, <1>7 DEF NothingHanded

LEMMA SingleKept ==
  ASSUME TypeOK, SingleHeld, SingleHanded, Plain, HandedBefore
  PROVE  (SingleHeld /\ SingleHanded)'
<1>1. ASSUME NEW k \in up', NEW g \in own'[k]
      PROVE  k \in up /\ \E f \in own[k] : f.id = g.id
  BY DEF Plain, TypeOK
<1>2. SingleHeld'
  <2> SUFFICES ASSUME NEW o \in Player, NEW d \in own'[o], ~d.marked,
                      NEW k \in up', NEW g \in own'[k]
               PROVE  (k = o /\ g.id = d.id) \/ Name(k, g.id) = d.prev
    BY DEF SingleHeld
  <2>1. PICK e \in own[o] : d.id = e.id /\ d.prev = e.prev /\ ~e.marked
    BY DEF Plain
  <2>2. k \in up  BY <1>1
  <2>3. PICK f \in own[k] : f.id = g.id  BY <1>1
  <2>4. (k = o /\ f.id = e.id) \/ Name(k, f.id) = e.prev
    BY <2>1, <2>2 DEF SingleHeld
  <2> QED  BY <2>1, <2>3, <2>4
<1>3. SingleHanded'
  <2> SUFFICES ASSUME NEW m \in Player, NEW n \in Player, NEW i \in Handing(m, n)',
                      NEW k \in up', NEW g \in own'[k]
               PROVE  k = m /\ g.id = orders'[m][n][i].elem
    BY DEF SingleHanded
  <2>1. PICK j \in Handing(m, n) : orders'[m][n][i] = orders[m][n][j]
    BY DEF HandedBefore
  <2>2. k \in up  BY <1>1
  <2>3. PICK f \in own[k] : f.id = g.id  BY <1>1
  <2>4. k = m /\ f.id = orders[m][n][j].elem
    BY <2>2 DEF SingleHanded
  <2> QED  BY <2>1, <2>3, <2>4
<1> QED  BY <1>2, <1>3

LEMMA PlainAges ==
  ASSUME Plain
  PROVE  Ages
BY DEF Plain, Ages

\* Nobody else knows more of an element than was on its way to its owner.
NothingLearnt ==
  /\ NothingTold
  /\ \A k \in Player : \A f \in own'[k] : \E e \in own[k] :
       /\ f.id = e.id /\ f.prev = e.prev /\ f.known \subseteq e.known
       /\ \A p \in f.acks : p \in e.acks \/ Telling(p, k, e.id)

LEMMA NothingLearntIs ==
  ASSUME NothingLearnt, NEW o \in Player, NEW f \in own'[o], NEW p \in Player, Knowing(p, o, f)'
  PROVE  \E e \in own[o] : e.id = f.id /\ e.prev = f.prev /\ Knowing(p, o, e)
<1>1. PICK e \in own[o] : /\ f.id = e.id /\ f.prev = e.prev /\ f.known \subseteq e.known
                          /\ \A q \in f.acks : q \in e.acks \/ Telling(q, o, e.id)
  BY DEF NothingLearnt
<1>2. CASE p \in f.acks \cup f.known  BY <1>1, <1>2 DEF Knowing
<1>3. CASE Telling(p, o, f.id)'
  <2> DEFINE i == f.id
  <2>1. Telling(p, o, i)'  BY <1>3
  <2> HIDE DEF i
  <2>2. Telling(p, o, i)  BY <2>1, TellingKept DEF NothingLearnt
  <2> QED  BY <1>1, <2>2 DEF i, Knowing
<1> QED  BY <1>2, <1>3 DEF Knowing

LEMMA ShownBefore ==
  ASSUME TypeOK, Drains, \A k \in Player : copies'[k] \subseteq copies[k],
         NEW m \in Player, NEW q \in Player, NEW i \in Id, Shown(m, q, i)'
  PROVE  Shown(m, q, i)
<1>1. CASE Name(m, i) \in copies'[q]  BY <1>1 DEF Shown
<1>2. CASE \E j \in DOMAIN frames'[m][q] : \E x \in frames'[m][q][j] : x.kind = "full" /\ x.id = i
  <2>1. PICK j \in DOMAIN frames'[m][q] : \E x \in frames'[m][q][j] : x.kind = "full" /\ x.id = i
    BY <1>2
  <2>2. PICK d \in Nat : j + d \in DOMAIN frames[m][q] /\ frames'[m][q][j] = frames[m][q][j + d]
    BY DrainedIs
  <2> QED  BY <2>1, <2>2 DEF Shown
<1> QED  BY <1>1, <1>2 DEF Shown

\* Elements keep their owner's name, or the owner forgets that: what remains of
\* Rest for a step that sends no game state.
LEMMA QuietRest ==
  ASSUME TypeOK, TypeOK', NInv, Rest, Plain, Drains,
         PrevLost', Announced',
         \A k \in Player : \A x \in entities'[k] :
           ~Has(k, x.id)' \/ \E y \in entities[k] : y.id = x.id
  PROVE  Rest'
<1>1. Ages  BY PlainAges
<1>2. ItemsSound /\ RemovalsDead  BY DEF NInv
<1>3. Destroyed' /\ Named'  BY <1>1, <1>2, DestroyedKept, NamedKept DEF Rest
<1>4. RemovedGone'  BY <1>1, <1>2, RemovedKept DEF Rest
<1>5. GoneEmpty'
  <2> SUFFICES ASSUME NEW k \in Player, k \notin up', NEW f \in own'[k] PROVE FALSE
    BY DEF GoneEmpty
  <2>1. k \notin up /\ own[k] # {}  BY DEF Plain
  <2> QED  BY <2>1 DEF Rest, GoneEmpty
<1>6. PrevOther'  BY DEF Rest, PrevOther, Plain
<1> QED  BY <1>3, <1>4, <1>5, <1>6 DEF Rest

\* Who had an element under its old name and lost that does not get it back.
LEMMA LearntPrev ==
  ASSUME TypeOK, TypeOK', PrevDead, Rest, Plain, NothingLearnt
  PROVE  PrevLost'
<1>0. Ages  BY PlainAges
<1>1. \A o \in Player : \A f \in own'[o] :
        f.prev # None /\ Knowing(f.prev.owner, o, f)' =>
          \E e \in own[o] : e.prev = f.prev /\ Knowing(f.prev.owner, o, e)
  <2> SUFFICES ASSUME NEW o \in Player, NEW f \in own'[o],
                      f.prev # None, Knowing(f.prev.owner, o, f)'
               PROVE  \E e \in own[o] : e.prev = f.prev /\ Knowing(f.prev.owner, o, e)
    OBVIOUS
  <2> DEFINE p == f.prev.owner
  <2>1. p \in Player
    <3>1. f \in Owned  BY DEF TypeOK
    <3>2. f.prev \in Handle  BY <3>1 DEF Owned
    <3> QED  BY <3>2 DEF Handle
  <2>2. Knowing(p, o, f)'  OBVIOUS
  <2> HIDE DEF p
  <2>3. \E e \in own[o] : e.prev = f.prev /\ Knowing(p, o, e)
    BY <2>1, <2>2, NothingLearntIs
  <2> QED  BY <2>3 DEF p
<1> QED  BY <1>0, <1>1, PrevLostKept DEF Rest

Still ==
  /\ Plain /\ Drains /\ NothingLearnt
  /\ \A k \in Player : copies'[k] \subseteq copies[k] /\ entities'[k] \subseteq entities[k]
  /\ \A k \in up' : entities'[k] = entities[k] /\ \A e \in own[k] : Has(k, e.id)'

LEMMA StillRest ==
  ASSUME NInv, TypeOK', Rest, Still
  PROVE  Rest'
<1>1. TypeOK /\ PrevDead  BY DEF NInv, IInv
<1>2. Plain /\ Drains /\ Ages  BY PlainAges DEF Still
<1>3. PrevLost'  BY <1>1, <1>2, LearntPrev DEF Rest, Still
<1>4. Announced'
  <2> SUFFICES ASSUME NEW m \in up', NEW q \in up', NEW i \in Id, m # q, Shown(m, q, i)'
               PROVE  Has(m, i)' \/ Owes(m, q, i)'
    BY DEF Announced
  <2>1. m \in up /\ q \in up /\ m \in Player /\ q \in Player  BY <1>1, <1>2 DEF Plain, TypeOK
  <2>2. Shown(m, q, i)  BY <1>1, <1>2, <2>1, ShownBefore DEF Still
  <2>3. Has(m, i) \/ Owes(m, q, i)  BY <2>1, <2>2 DEF Rest, Announced
  <2>4. Has(m, i) => Has(m, i)'
    <3>1. \A e \in own[m] : Has(m, e.id)'  BY DEF Still
    <3> QED  BY <3>1 DEF Has
  <2>5. Owes(m, q, i) => Owes(m, q, i)'
    <3>1. entities'[m] = entities[m]  BY DEF Still
    <3> QED  BY <3>1 DEF Owes
  <2> QED  BY <2>3, <2>4, <2>5
<1>5. \A k \in Player : \A x \in entities'[k] : \E y \in entities[k] : y.id = x.id
  BY DEF Still
<1> QED  BY <1>1, <1>2, <1>3, <1>4, <1>5, QuietRest

LEMMA StillLeft ==
  ASSUME NInv, TypeOK', Leftovers, Still, HandedBefore
  PROVE  Leftovers'
<1>1. TypeOK  BY DEF NInv, IInv
<1>2. Rest'  BY StillRest DEF Leftovers
<1>3. (SingleHeld /\ SingleHanded)'  BY <1>1, SingleKept DEF Leftovers, Still
<1> QED  BY <1>2, <1>3 DEF Leftovers

-----------------------------------------------------------------------------
(* Steps that leave elements, names and removals to their owners.           *)

\* Messages are read or lost, and what is sent is a request.
Asking ==
  \A m, n \in Player :
    \/ orders'[m][n] = orders[m][n] \/ orders'[m][n] = <<>>
    \/ orders[m][n] # <<>> /\ orders'[m][n] = Tail(orders[m][n])
    \/ \E o \in Order : /\ o \notin Created /\ ~(o.src = m /\ o.dest = n)
                        /\ orders'[m][n] = Append(orders[m][n], o)

LEMMA AskingIs ==
  ASSUME TypeOK, TypeOK', Asking
  PROVE  NothingTold /\ HandedBefore
<1>1. NothingTold  BY NothingAdded DEF Asking
<1>2. NothingHanded  BY DEF Asking, NothingHanded
<1> QED  BY <1>1, <1>2, HandedBeforeIs

\* One more read from a link.
LEMMA ReadAsks ==
  ASSUME TypeOK, NEW n \in Player, NEW m \in Player, orders[m][n] # <<>>, orders' = Read(m, n)
  PROVE  Asking
<1>1. \A k, l \in Player : orders'[k][l] =
        IF k = m /\ l = n THEN Tail(orders[m][n]) ELSE orders[k][l]
  BY ReadType
<1> QED  BY <1>1 DEF Asking

LEMMA SameIsStill ==
  ASSUME TypeOK, NothingTold, Drains,
         \A k \in Player : own'[k] \subseteq own[k] /\ copies'[k] \subseteq copies[k]
                           /\ entities'[k] \subseteq entities[k],
         \A k \in up' : own'[k] = own[k] /\ entities'[k] = entities[k],
         UNCHANGED ids, up' \subseteq up, \A k \in up : k \notin up' => own'[k] = {}
  PROVE  Still
<1>1. Plain  BY DEF Plain
<1>2. NothingLearnt  BY DEF NothingLearnt
<1>3. \A k \in up' : \A e \in own[k] : Has(k, e.id)'  BY DEF Has
<1> QED  BY <1>1, <1>2, <1>3 DEF Still

LEMMA RequestEntityLeft ==
  ASSUME NInv, TypeOK', Leftovers, NEW n \in Player, RequestEntity(n)
  PROVE  Leftovers'
<1>1. TypeOK  BY DEF NInv, IInv
<1>2. UNCHANGED <<up, own, copies, ids, entities, frames>>  BY DEF RequestEntity
<1>3. PICK h \in copies[n] :
        orders' = Broadcast(orders, n, [src |-> h.owner, elem |-> h.id, dest |-> n])
  BY DEF RequestEntity
<1> DEFINE o == [src |-> h.owner, elem |-> h.id, dest |-> n]
<1>4. h.owner \in peers[n] /\ n \notin peers[n] /\ o \in Order  BY <1>1 DEF TypeOK, Handle, Order
<1>5. o.src # n /\ o \notin Created  BY <1>4, HandOver
<1>6. orders' = Broadcast(orders, n, o)  BY <1>3
<1> HIDE DEF o
<1>7. orders \in Links  BY <1>1 DEF TypeOK, Links
<1>8. Sent(orders, Broadcast(orders, n, o), n, o)  BY <1>1, <1>4, <1>7, BroadcastSent
<1>9. \A k, l \in Player :
        orders'[k][l] = orders[k][l] \/ (k = n /\ orders'[k][l] = Append(orders[k][l], o))
  BY <1>6, <1>8 DEF Sent
<1>10. Asking  BY <1>4, <1>5, <1>9 DEF Asking
<1>11. NothingTold /\ HandedBefore  BY <1>1, <1>10, AskingIs
<1>12. Drains  BY <1>2 DEF Drains
<1>13. Still  BY <1>1, <1>2, <1>11, <1>12, SameIsStill
<1> QED  BY <1>11, <1>13, StillLeft

LEMMA GoneLeft ==
  ASSUME NInv, TypeOK', Leftovers, NEW n \in Player, Gone(n)
  PROVE  Leftovers'
<1>1. TypeOK  BY DEF NInv, IInv
<1>2. up' = up \ {n} /\ ids' = ids  BY DEF Gone
<1>3. /\ own'[n] = {}
      /\ \A k \in Player : own'[k] \subseteq own[k] /\ copies'[k] \subseteq copies[k]
                           /\ entities'[k] \subseteq entities[k]
      /\ \A k \in Player : k # n => own'[k] = own[k] /\ entities'[k] = entities[k]
  BY <1>1 DEF Gone, TypeOK
<1>4. \A k, l \in Player : /\ orders'[k][l] = <<>> \/ orders'[k][l] = orders[k][l]
                           /\ frames'[k][l] = <<>> \/ frames'[k][l] = frames[k][l]
  BY <1>1, GoneOrders
<1>5. Asking /\ Drains  BY <1>4 DEF Asking, Drains
<1>6. NothingTold /\ HandedBefore  BY <1>1, <1>5, AskingIs
<1>7. up' \subseteq Player  BY DEF TypeOK
<1>8. Still  BY <1>1, <1>2, <1>3, <1>5, <1>6, <1>7, SameIsStill
<1> QED  BY <1>6, <1>8, StillLeft

LEMMA RemovePlayerLeft ==
  ASSUME NInv, TypeOK', Leftovers, NEW n \in Player, NEW m \in Player, RemovePlayerFromGame(n, m)
  PROVE  Leftovers'
<1>1. TypeOK  BY DEF NInv, IInv
<1>2. UNCHANGED <<up, own, ids, entities>>  BY DEF RemovePlayerFromGame
<1>3. copies' = [copies EXCEPT ![n] = {h \in @ : h.owner # m}]
      /\ orders' = [orders EXCEPT ![m][n] = <<>>]
      /\ frames' = [frames EXCEPT ![m][n] = <<>>]
  BY DEF RemovePlayerFromGame
<1>4. \A k \in Player : copies'[k] \subseteq copies[k]  BY <1>1, <1>3 DEF TypeOK
<1>5. \A k, l \in Player : orders'[k][l] = <<>> \/ orders'[k][l] = orders[k][l]
  BY <1>1, <1>3 DEF TypeOK
<1>6. \A k, l \in Player : frames'[k][l] = <<>> \/ frames'[k][l] = frames[k][l]
  BY <1>1, <1>3 DEF TypeOK
<1>7. Asking /\ Drains  BY <1>5, <1>6 DEF Asking, Drains
<1>8. NothingTold /\ HandedBefore  BY <1>1, <1>7, AskingIs
<1>9. Still  BY <1>1, <1>2, <1>4, <1>7, <1>8, SameIsStill
<1> QED  BY <1>8, <1>9, StillLeft

LEMMA TakenDrains ==
  ASSUME TypeOK, NEW n \in Player, NEW m \in Player,
         frames[m][n] # <<>>, frames' = [frames EXCEPT ![m][n] = Tail(@)]
  PROVE  Drains
<1>1. \A k, l \in Player : frames'[k][l] =
        IF k = m /\ l = n THEN Tail(frames[m][n]) ELSE frames[k][l]
  BY DEF TypeOK
<1> QED  BY <1>1 DEF Drains

LEMMA LoseLeft ==
  ASSUME NInv, TypeOK', Leftovers, NEW n \in Player, NEW m \in Player, LoseGameState(n, m)
  PROVE  Leftovers'
<1>1. TypeOK  BY DEF NInv, IInv
<1>2. UNCHANGED <<up, own, copies, ids, entities, orders>>  BY DEF LoseGameState
<1>3. Drains  BY <1>1, TakenDrains DEF LoseGameState
<1>4. Asking  BY <1>2 DEF Asking
<1>5. NothingTold /\ HandedBefore  BY <1>1, <1>4, AskingIs
<1>6. Still  BY <1>1, <1>2, <1>3, <1>5, SameIsStill
<1> QED  BY <1>5, <1>6, StillLeft

LEMMA AckLeft ==
  ASSUME NInv, TypeOK', Leftovers, NEW n \in Player, NEW m \in Player, OnAckEntityCreate(n, m)
  PROVE  Leftovers'
<1>1. TypeOK  BY DEF NInv, IInv
<1>2. UNCHANGED <<up, copies, ids, entities, frames>>  BY DEF OnAckEntityCreate
<1>3. orders[m][n] # <<>> /\ Head(orders[m][n]) \in Created /\ orders' = Read(m, n)
  BY DEF OnAckEntityCreate
<1> DEFINE h(e) == IF e.id \in Head(orders[m][n]).created
                   THEN [e EXCEPT !.acks = @ \cup {m}] ELSE e
<1>4. own'[n] = {h(e) : e \in own[n]} /\ \A k \in Player : k # n => own'[k] = own[k]
  BY <1>1 DEF OnAckEntityCreate, TypeOK
<1>5. \A e \in Owned :
        /\ h(e).id = e.id /\ h(e).prev = e.prev /\ h(e).marked = e.marked /\ h(e).known = e.known
        /\ \A p \in h(e).acks : p \in e.acks \/ (p = m /\ e.id \in Head(orders[m][n]).created)
  BY DEF Owned
<1> HIDE DEF h
<1>6. \A i : i \in Head(orders[m][n]).created => Telling(m, n, i)
  <2>1. orders[m][n] \in Seq(Order)  BY <1>1 DEF TypeOK
  <2>2. 1 \in DOMAIN orders[m][n] /\ Head(orders[m][n]) = orders[m][n][1]  BY <1>3, <2>1
  <2> QED  BY <1>3, <2>2 DEF Telling
<1>7. \A k \in Player : own[k] \subseteq Owned  BY <1>1 DEF TypeOK
<1>8. \A f \in own'[n] : \E e \in own[n] :
        /\ f.id = e.id /\ f.prev = e.prev /\ f.marked = e.marked /\ f.known \subseteq e.known
        /\ \A p \in f.acks : p \in e.acks \/ Telling(p, n, e.id)
  BY <1>4, <1>5, <1>6, <1>7
<1>9. Asking  BY <1>1, <1>3, ReadAsks
<1>10. NothingTold /\ HandedBefore  BY <1>1, <1>9, AskingIs
<1>11. Drains  BY <1>2 DEF Drains
<1>12. Plain  BY <1>2, <1>4, <1>8 DEF Plain
<1>13. NothingLearnt  BY <1>4, <1>8, <1>10 DEF NothingLearnt
<1>14. \A k \in up' : \A e \in own[k] : Has(k, e.id)'
  <2> SUFFICES ASSUME NEW k \in up', NEW e \in own[k] PROVE \E f \in own'[k] : f.id = e.id
    BY DEF Has
  <2>1. k \in Player  BY DEF TypeOK
  <2>2. CASE k = n  BY <1>4, <1>5, <1>7, <2>2
  <2>3. CASE k # n  BY <1>4, <2>1, <2>3
  <2> QED  BY <2>2, <2>3
<1>15. Still  BY <1>2, <1>11, <1>12, <1>13, <1>14 DEF Still
<1> QED  BY <1>10, <1>15, StillLeft

-----------------------------------------------------------------------------
(* The owner hands the element over.  Its peers confirmed the creation, so  *)
(* the one that it has the element from has lost what that was.            *)

LEMMA NothingLeft ==
  ASSUME TypeOK, Mesh, Rest, SingleHeld, NEW n \in Player, NEW e \in own[n], ~e.marked,
         peers[n] \subseteq e.acks \cup e.known
  PROVE  \A k \in up : \A f \in own[k] : k = n /\ f.id = e.id
<1> SUFFICES ASSUME NEW k \in up, NEW f \in own[k], Name(k, f.id) = e.prev PROVE FALSE
  BY DEF SingleHeld
<1>1. k \in Player /\ f.id \in Nat  BY NamesType DEF TypeOK
<1>2. e.prev # None /\ e.prev.owner = k /\ e.prev.id = f.id
  <2>1. Name(k, f.id) \in [owner : Player, id : Nat]  BY <1>1 DEF Name
  <2> QED  BY <2>1, FirstAssumption DEF Name
<1>3. k # n  BY <1>2 DEF Rest, PrevOther
<1>4. n \in up  BY DEF Rest, GoneEmpty
<1>5. k \in peers[n]  BY <1>3, <1>4 DEF Mesh
<1>6. Knowing(e.prev.owner, n, e)  BY <1>2, <1>5 DEF Knowing
<1>7. ~Has(e.prev.owner, e.prev.id)  BY <1>2, <1>6 DEF Rest, PrevLost
<1> QED  BY <1>2, <1>7 DEF Has

LEMMA MarkLeft ==
  ASSUME NInv, IInv', Leftovers, NEW n \in Player, NEW e \in own[n], ~e.marked, NEW d \in Player,
         NEW way \in Links, TransferEntity(way, n, e, d),
         UNCHANGED <<up, copies, ids, entities, frames>>,
         \A k, l \in Player :
           \/ way[k][l] = orders[k][l]
           \/ orders[k][l] # <<>> /\ way[k][l] = Tail(orders[k][l]) /\ k # n
  PROVE  Leftovers'
<1>1. TypeOK /\ TypeOK' /\ Mesh /\ OneTitle  BY DEF NInv, IInv
<1> DEFINE o == [src |-> n, elem |-> e.id, dest |-> d]
           g == [e EXCEPT !.marked = TRUE]
<1>2. /\ \A k \in Player : k # n => own'[k] = own[k]
      /\ own'[n] = Replaced(own[n], e, g)
      /\ \/ HasAcksFromAllPeers(n, e) /\ orders' = Broadcast(way, n, o)
         \/ orders' = way
  BY <1>1, TransferType DEF TransferEntity, Links
<1>3. e \in Owned /\ e.id \in Nat  BY <1>1, NamesType
<1>4. g.id = e.id /\ g.prev = e.prev /\ g.acks = e.acks /\ g.known = e.known /\ g.marked
  BY <1>3 DEF Owned
<1>5. o \in Order /\ o \notin Created /\ o.elem = e.id  BY <1>3, HandOver DEF Order, Id
<1> HIDE DEF o, g
<1>6. own'[n] = (own[n] \ {e}) \cup {g}  BY <1>2 DEF Replaced
<1>7. Sent(way, Broadcast(way, n, o), n, o)  BY <1>1, <1>5, BroadcastSent
<1>8. \A k, l \in Player :
        \/ orders'[k][l] = orders[k][l]
        \/ orders[k][l] # <<>> /\ orders'[k][l] = Tail(orders[k][l])
        \/ HasAcksFromAllPeers(n, e) /\ k = n /\ orders'[k][l] = Append(orders[k][l], o)
  <2> SUFFICES ASSUME NEW k \in Player, NEW l \in Player
               PROVE  \/ orders'[k][l] = orders[k][l]
                      \/ orders[k][l] # <<>> /\ orders'[k][l] = Tail(orders[k][l])
                      \/ HasAcksFromAllPeers(n, e) /\ k = n /\ orders'[k][l] = Append(orders[k][l], o)
    OBVIOUS
  <2>1. CASE orders' = way  BY <2>1
  <2>2. CASE HasAcksFromAllPeers(n, e) /\ orders' = Broadcast(way, n, o)
    <3>1. Sent(way, orders', n, o)  BY <1>7, <2>2
    <3>2. orders'[k][l] = way[k][l] \/ (k = n /\ orders'[k][l] = Append(way[k][l], o))
      BY <3>1 DEF Sent
    <3>3. CASE k = n
      <4>1. way[k][l] = orders[k][l]  BY <3>3
      <4> QED  BY <2>2, <3>2, <3>3, <4>1, Zenon
    <3>4. CASE k # n
      <4>1. orders'[k][l] = way[k][l]  BY <3>2, <3>4
      <4> QED  BY <4>1
    <3> QED  BY <3>3, <3>4
  <2> QED  BY <1>2, <2>1, <2>2
<1>9. NothingTold
  <2>1. \A k, l \in Player :
          \/ orders'[k][l] = orders[k][l] \/ orders'[k][l] = <<>>
          \/ orders[k][l] # <<>> /\ orders'[k][l] = Tail(orders[k][l])
          \/ \E w \in Order : w \notin Created /\ orders'[k][l] = Append(orders[k][l], w)
    BY <1>5, <1>8
  <2> QED  BY <1>1, <2>1, NothingAdded
<1>10. \A k \in Player : \A f \in own'[k] : f \in own[k] \/ (k = n /\ f = g)
  BY <1>2, <1>6
<1>11. Still
  <2>1. Plain  BY <1>4, <1>10 DEF Plain
  <2>2. NothingLearnt  BY <1>4, <1>9, <1>10 DEF NothingLearnt
  <2>3. Drains  BY DEF Drains
  <2>4. \A k \in up' : \A f \in own[k] : Has(k, f.id)'
    <3>1. up' \subseteq Player  BY <1>1 DEF TypeOK
    <3> QED  BY <1>2, <1>4, <1>6, <3>1 DEF Has
  <2> QED  BY <2>1, <2>2, <2>3, <2>4 DEF Still
<1>12. Rest'  BY <1>1, <1>11, StillRest DEF Leftovers
<1>13. \A k \in Player : \A f \in own'[k] : f.marked
  BY <1>1, <1>2, <1>4, <1>6 DEF OneTitle, OneHolder
<1>14. SingleHeld'  BY <1>13 DEF SingleHeld
<1>15. \A k, l \in Player : Handing(k, l) = {}
  BY <1>1 DEF OneTitle, HeldOrHanded
<1>16. ASSUME NEW k \in Player, NEW l \in Player, NEW i \in Handing(k, l)'
       PROVE  HasAcksFromAllPeers(n, e) /\ k = n /\ orders'[k][l][i].elem = e.id
  <2>1. CASE orders'[k][l] = orders[k][l]
    BY <1>15, <1>16, <2>1, SameHanding
  <2>2. CASE orders[k][l] # <<>> /\ orders'[k][l] = Tail(orders[k][l])
    BY <1>1, <1>15, <1>16, <2>2, ReadHanding
  <2>3. CASE HasAcksFromAllPeers(n, e) /\ k = n /\ orders'[k][l] = Append(orders[k][l], o)
    <3>1. Handing(k, l)' \subseteq {Len(orders[k][l]) + 1}
      BY <1>1, <1>5, <1>15, <2>3, LastHanding
    <3>2. i = Len(orders[k][l]) + 1  BY <1>16, <3>1
    <3>3. orders[k][l] \in Seq(Order)  BY <1>1 DEF TypeOK
    <3>4. orders'[k][l][i] = o  BY <1>5, <2>3, <3>2, <3>3, AppendProperties
    <3> QED  BY <1>5, <2>3, <3>4
  <2> QED  BY <1>8, <2>1, <2>2, <2>3
<1>17. SingleHanded'
  <2> SUFFICES ASSUME NEW k \in Player, NEW l \in Player, NEW i \in Handing(k, l)',
                      NEW p \in up', NEW f \in own'[p]
               PROVE  p = k /\ f.id = orders'[k][l][i].elem
    BY DEF SingleHanded
  <2>1. HasAcksFromAllPeers(n, e) /\ k = n /\ orders'[k][l][i].elem = e.id  BY <1>16
  <2>2. \A q \in up : \A x \in own[q] : q = n /\ x.id = e.id
    BY <1>1, <2>1, NothingLeft DEF HasAcksFromAllPeers, Leftovers
  <2>3. p \in Player /\ p \in up  BY <1>1 DEF TypeOK
  <2> QED  BY <1>4, <1>10, <2>1, <2>2, <2>3
<1> QED  BY <1>12, <1>14, <1>17 DEF Leftovers

LEMMA RequestOwnLeft ==
  ASSUME NInv, IInv', Leftovers, NEW n \in Player, RequestOwn(n)
  PROVE  Leftovers'
<1>1. PICK e \in own[n] : ~e.marked /\ TransferEntity(orders, n, e, n)  BY DEF RequestOwn
<1>2. UNCHANGED <<up, copies, ids, entities, frames>>  BY DEF RequestOwn
<1>3. orders \in Links  BY DEF NInv, IInv, TypeOK, Links
<1> QED  BY <1>1, <1>2, <1>3, MarkLeft

LEMMA OnRequestLeft ==
  ASSUME NInv, IInv', Leftovers, NEW n \in Player, NEW m \in Player, m # n, OnRequest(n, m)
  PROVE  Leftovers'
<1>1. TypeOK /\ TypeOK'  BY DEF NInv, IInv
<1>2. PICK o \in Transfers(m, n) :
        \/ \E e \in own[n] : ~e.marked /\ TransferEntity(Read(m, n), n, e, o.dest)
        \/ orders' = Read(m, n) /\ UNCHANGED own
  BY DEF OnRequest
<1>3. orders[m][n] # <<>> /\ o.dest \in Player  BY <1>1, TransfersType
<1>4. UNCHANGED <<up, copies, ids, entities, frames>>  BY DEF OnRequest
<1>5. CASE \E e \in own[n] : ~e.marked /\ TransferEntity(Read(m, n), n, e, o.dest)
  <2>1. Read(m, n) \in Links /\ \A k, l \in Player : Read(m, n)[k][l] =
          IF k = m /\ l = n THEN Tail(orders[m][n]) ELSE orders[k][l]
    BY <1>1, <1>3, ReadType DEF Links
  <2>2. \A k, l \in Player :
          \/ Read(m, n)[k][l] = orders[k][l]
          \/ orders[k][l] # <<>> /\ Read(m, n)[k][l] = Tail(orders[k][l]) /\ k # n
    BY <1>3, <2>1
  <2> QED  BY <1>3, <1>4, <1>5, <2>1, <2>2, MarkLeft
<1>6. CASE orders' = Read(m, n) /\ UNCHANGED own
  <2>1. Asking  BY <1>1, <1>3, <1>6, ReadAsks
  <2>2. NothingTold /\ HandedBefore  BY <1>1, <2>1, AskingIs
  <2>3. Drains  BY <1>4 DEF Drains
  <2>4. Still  BY <1>1, <1>4, <1>6, <2>2, <2>3, SameIsStill
  <2> QED  BY <1>1, <2>2, <2>4, StillLeft
<1> QED  BY <1>2, <1>5, <1>6

(* The new owner takes the element: what it has been is the last name that  *)
(* anybody has.                                                             *)
LEMMA OnTransferLeft ==
  ASSUME NInv, IInv', Leftovers, NEW n \in Player, NEW m \in Player, m # n, OnTransfer(n, m)
  PROVE  Leftovers'
<1>1. TypeOK /\ TypeOK' /\ Mesh /\ OneTitle  BY DEF NInv, IInv
<1>2. PICK h \in copies[n] :
        /\ copies' = [copies EXCEPT ![n] = @ \ {h}]
        /\ own' = [own EXCEPT ![n] = @ \cup {NewElement(ids[n], h)}]
        /\ orders' = Read(m, n) /\ orders[m][n] # <<>>
        /\ Head(orders[m][n]) \notin Created
        /\ Head(orders[m][n]).src = m /\ Head(orders[m][n]).dest = n
        /\ h = Name(m, Head(orders[m][n]).elem)
  BY <1>1, OnTransferOwn
<1>3. UNCHANGED <<up, entities, frames>>  BY DEF OnTransfer
<1> DEFINE c == NewElement(ids[n], h)
<1>4. c.id = ids[n] /\ c.prev = h /\ c.acks = {} /\ c.known = {} /\ ~c.marked  BY DEF NewElement
<1>5. own'[n] = own[n] \cup {c} /\ \A k \in Player : k # n => own'[k] = own[k]
  BY <1>1, <1>2 DEF TypeOK
<1> HIDE DEF c
<1>6. \A k \in Player : \A f \in own'[k] : f \in own[k] \/ (k = n /\ f = c)  BY <1>5
<1>7. h \in Handle /\ h.owner = m /\ h.id = Head(orders[m][n]).elem /\ ids[n] \in Nat
  BY <1>1, <1>2 DEF TypeOK, Name
<1>8. 1 \in Handing(m, n) /\ Head(orders[m][n]) = orders[m][n][1]
  <2>1. orders[m][n] \in Seq(Order)  BY <1>1 DEF TypeOK
  <2>2. 1 \in 1..Len(orders[m][n]) /\ Head(orders[m][n]) = orders[m][n][1]  BY <1>2, <2>1
  <2> QED  BY <1>1, <1>2, <2>2, HandingDef
<1>9. \A p \in Player : \A f \in own[p] : f.marked
  BY <1>1, <1>8 DEF OneTitle, HeldOrHanded
<1>10. n \in up
  <2>1. h.owner \in peers[n]  BY <1>1 DEF TypeOK
  <2> QED  BY <1>1, <2>1 DEF Mesh
<1>11. \A k, l \in Player : orders'[k][l] =
         IF k = m /\ l = n THEN Tail(orders[m][n]) ELSE orders[k][l]
  BY <1>1, <1>2, ReadType
<1>12. Asking  BY <1>1, <1>2, ReadAsks
<1>13. NothingTold  BY <1>1, <1>12, AskingIs
<1>14. Ages
  <2>1. ids[n] >= ids[n]  BY <1>7
  <2> QED  BY <1>4, <1>6, <2>1 DEF Ages
<1>15. Drains  BY <1>3 DEF Drains
<1>16. Destroyed' /\ Named'  BY <1>1, <1>14, <1>15, DestroyedKept, NamedKept DEF Leftovers, Rest, NInv
<1>17. RemovedGone'  BY <1>1, <1>3, <1>14, RemovedKept DEF Leftovers, Rest, NInv
<1>18. GoneEmpty'
  <2> SUFFICES ASSUME NEW k \in Player, k \notin up', NEW f \in own'[k] PROVE FALSE
    BY DEF GoneEmpty
  <2>1. k # n /\ k \notin up  BY <1>3, <1>10
  <2> QED  BY <1>5, <2>1 DEF Leftovers, Rest, GoneEmpty
<1>19. PrevOther'  BY <1>4, <1>6, <1>7 DEF Leftovers, Rest, PrevOther
<1>20. PrevLost'
  <2>1. \A o \in Player : \A f \in own'[o] :
          f.prev # None /\ Knowing(f.prev.owner, o, f)' => f \in own[o] /\ Knowing(f.prev.owner, o, f)
    <3> SUFFICES ASSUME NEW o \in Player, NEW f \in own'[o], f.prev # None, Knowing(f.prev.owner, o, f)'
                 PROVE  f \in own[o] /\ Knowing(f.prev.owner, o, f)
      OBVIOUS
    <3> DEFINE p == f.prev.owner
               i == f.id
    <3>1. p \in Player /\ i \in Id
      <4>1. f \in Owned  BY <1>1 DEF TypeOK
      <4>2. f.prev \in Handle /\ f.id \in Id  BY <4>1 DEF Owned
      <4> QED  BY <4>2 DEF Handle
    <3>2. p \in f.acks \cup f.known \/ Telling(p, o, i)'  BY DEF Knowing
    <3> HIDE DEF p, i
    <3>3. p \in f.acks \cup f.known \/ Telling(p, o, i)  BY <1>13, <3>1, <3>2, TellingKept
    <3>4. CASE f = c /\ o = n
      <4>1. p \notin f.acks \cup f.known  BY <1>4, <3>4
      <4>2. i < ids[n]  BY <3>1, <3>3, <3>4, <4>1 DEF NInv, NamesGiven
      <4>3. i = ids[n]  BY <1>4, <3>4 DEF i
      <4> QED  BY <1>7, <4>2, <4>3
    <3>5. CASE f \in own[o]  BY <3>3, <3>5 DEF p, i, Knowing
    <3> QED  BY <1>6, <3>4, <3>5
  <2> QED  BY <1>1, <1>14, <2>1, PrevLostKept DEF Leftovers, Rest, NInv
<1>21. Announced'
  <2> SUFFICES ASSUME NEW k \in up', NEW q \in up', NEW i \in Id, k # q, Shown(k, q, i)'
               PROVE  Has(k, i)' \/ Owes(k, q, i)'
    BY DEF Announced
  <2>1. k \in up /\ q \in up /\ k \in Player /\ q \in Player  BY <1>1, <1>3 DEF TypeOK
  <2>2. \A p \in Player : copies'[p] \subseteq copies[p]  BY <1>1, <1>2 DEF TypeOK
  <2>3. Shown(k, q, i)  BY <1>1, <1>15, <2>1, <2>2, ShownBefore
  <2>4. Has(k, i) \/ Owes(k, q, i)  BY <2>1, <2>3 DEF Leftovers, Rest, Announced
  <2>5. Has(k, i) => Has(k, i)'  BY <1>5, <2>1 DEF Has
  <2> QED  BY <1>3, <2>4, <2>5 DEF Owes
<1>22. SingleHeld'
  <2> SUFFICES ASSUME NEW o \in Player, NEW e \in own'[o], ~e.marked, NEW k \in up', NEW f \in own'[k]
               PROVE  (k = o /\ f.id = e.id) \/ Name(k, f.id) = e.prev
    BY DEF SingleHeld
  <2>1. o = n /\ e = c  BY <1>6, <1>9
  <2>2. k \in up /\ k \in Player  BY <1>1, <1>3 DEF TypeOK
  <2>3. CASE k = n /\ f = c  BY <2>1, <2>3
  <2>4. CASE f \in own[k]
    <3>1. k = m /\ f.id = orders[m][n][1].elem  BY <1>8, <2>2, <2>4 DEF Leftovers, SingleHanded
    <3> QED  BY <1>2, <1>4, <1>8, <2>1, <3>1
  <2> QED  BY <1>6, <2>2, <2>3, <2>4
<1>23. SingleHanded'
  <2>1. \A k, l \in Player : \A i \in Handing(k, l) : k = m /\ l = n /\ i = 1
    BY <1>1, <1>8 DEF OneTitle, OneHanding
  <2>2. Handing(m, n)' = {}
    <3>1. \A i \in Handing(m, n)' : i \in 1..Len(orders'[m][n]) /\ i + 1 \in Handing(m, n)
      BY <1>1, <1>2, <1>11, ReadHanding
    <3> QED  BY <2>1, <3>1
  <2>3. \A k, l \in Player : ~(k = m /\ l = n) => Handing(k, l)' = Handing(k, l)
    BY <1>11, SameHanding
  <2>4. \A k, l \in Player : Handing(k, l)' = {}  BY <2>1, <2>2, <2>3
  <2> QED  BY <2>4 DEF SingleHanded
<1> QED  BY <1>16, <1>17, <1>18, <1>19, <1>20, <1>21, <1>22, <1>23 DEF Leftovers, Rest

(* The game deletes an element, and the removal is announced to everybody.  *)
LEMMA RemoveElementLeft ==
  ASSUME NInv, TypeOK', Leftovers, NEW n \in Player, RemoveElement(n)
  PROVE  Leftovers'
<1>1. TypeOK  BY DEF NInv, IInv
<1>2. UNCHANGED <<up, copies, ids, orders, frames>>  BY DEF RemoveElement
<1>3. PICK e \in own[n] :
        /\ own' = [own EXCEPT ![n] = @ \ {e}]
        /\ entities' = [entities EXCEPT ![n] = @ \cup {[id |-> g.id, told |-> {}] : g \in {e}}]
  BY DEF RemoveElement, Removed
<1> DEFINE x == [id |-> e.id, told |-> {}]
<1>4. own'[n] = own[n] \ {e} /\ \A k \in Player : k # n => own'[k] = own[k]
  BY <1>1, <1>3 DEF TypeOK
<1>5. entities'[n] = entities[n] \cup {x} /\ \A k \in Player : k # n => entities'[k] = entities[k]
  BY <1>1, <1>3 DEF TypeOK
<1>6. x.id = e.id /\ x.told = {}  OBVIOUS
<1> HIDE DEF x
<1>7. ~Has(n, e.id)'  BY <1>1, <1>4, NamesType DEF Has
<1>8. \A k \in Player : \A y \in entities'[k] : ~Has(k, y.id)' \/ \E z \in entities[k] : z.id = y.id
  BY <1>5, <1>6, <1>7
<1>9. \A k \in Player : own'[k] \subseteq own[k]  BY <1>4
<1>10. up \subseteq Player  BY <1>1 DEF TypeOK
<1>11. Plain  BY <1>2, <1>9 DEF Plain
<1>12. Drains /\ Asking  BY <1>2 DEF Drains, Asking
<1>13. NothingTold /\ HandedBefore  BY <1>1, <1>12, AskingIs
<1>14. NothingLearnt  BY <1>9, <1>13 DEF NothingLearnt
<1>15. PrevLost'  BY <1>1, <1>11, <1>14, LearntPrev DEF Leftovers, NInv
<1>16. Announced'
  <2> SUFFICES ASSUME NEW k \in up', NEW q \in up', NEW i \in Id, k # q, Shown(k, q, i)'
               PROVE  Has(k, i)' \/ Owes(k, q, i)'
    BY DEF Announced
  <2>1. k \in up /\ q \in up /\ k \in Player /\ q \in Player  BY <1>2, <1>10
  <2>2. Shown(k, q, i)  BY <1>1, <1>2, <1>12, <2>1, ShownBefore
  <2>3. Has(k, i) \/ Owes(k, q, i)  BY <2>1, <2>2 DEF Leftovers, Rest, Announced
  <2>4. CASE k # n  BY <1>4, <1>5, <2>1, <2>3, <2>4 DEF Has, Owes
  <2>5. CASE k = n
    <3>1. CASE i = e.id  BY <1>5, <1>6, <2>5, <3>1 DEF Owes
    <3>2. CASE i # e.id  BY <1>4, <1>5, <2>3, <2>5, <3>2 DEF Has, Owes
    <3> QED  BY <3>1, <3>2
  <2> QED  BY <2>4, <2>5
<1>17. Rest'  BY <1>1, <1>8, <1>11, <1>12, <1>15, <1>16, QuietRest DEF Leftovers
<1>18. (SingleHeld /\ SingleHanded)'  BY <1>1, <1>11, <1>13, SingleKept DEF Leftovers
<1> QED  BY <1>17, <1>18 DEF Leftovers

-----------------------------------------------------------------------------
(* A game state is sent.                                                    *)

LEMMA SendFacts ==
  ASSUME TypeOK, NEW n \in Player, SendGameState(n)
  PROVE  \E deltas \in SUBSET own[n], items \in SUBSET Item :
           /\ \A e \in deltas : ~e.marked /\ peers[n] \subseteq e.known
           /\ \A k \in Player : k # n => own'[k] = own[k]
           /\ \A f \in own'[n] : \E e \in own[n] :
                /\ f.id = e.id /\ f.marked = e.marked /\ f.acks = e.acks /\ f.known = e.known
                /\ f.prev = IF e \in deltas THEN None ELSE e.prev
           /\ \A e \in own[n] : \E f \in own'[n] : f.id = e.id
           /\ \A k, l \in Player :
                \/ frames'[k][l] = frames[k][l]
                \/ k = n /\ frames'[k][l] = Append(frames[k][l], items)
           /\ \A x \in items :
                \/ \E e \in own[n] \ deltas : x = Full(e)
                \/ \E e \in deltas : x = Delta(e)
                \/ \E y \in entities[n] : x = Destroy(y)
<1> DEFINE its(ds) == {Full(e) : e \in {e \in own[n] : ~e.marked} \ ds}
                      \cup {Delta(e) : e \in ds} \cup {Destroy(x) : x \in entities[n]}
<1>1. PICK deltas \in SUBSET {e \in own[n] : ~e.marked /\ peers[n] \subseteq e.known} :
        /\ own' = [own EXCEPT ![n] =
             {IF e \in deltas THEN [e EXCEPT !.prev = None] ELSE e : e \in @}]
        /\ frames' = [frames EXCEPT ![n] = [m \in Player |->
             IF m \in peers[n] \cap up THEN Append(@[m], its(deltas)) ELSE @[m]]]
  BY DEF SendGameState
<1> DEFINE items == its(deltas)
           h(e) == IF e \in deltas THEN [e EXCEPT !.prev = None] ELSE e
<1>2. \A x \in items :
        \/ \E e \in own[n] \ deltas : x = Full(e)
        \/ \E e \in deltas : x = Delta(e)
        \/ \E y \in entities[n] : x = Destroy(y)
  OBVIOUS
<1>3. items \in SUBSET Item
  <2>1. \A e \in own[n] : e.id \in Id /\ e.prev \in Handle \cup {None}  BY DEF TypeOK, Owned
  <2>2. \A x \in entities[n] : x.id \in Id  BY DEF TypeOK
  <2>3. \A e \in own[n] : Full(e) \in Item /\ Delta(e) \in Item
    BY <2>1 DEF Full, Delta, Item
  <2>4. \A x \in entities[n] : Destroy(x) \in Item  BY <2>2 DEF Destroy, Item
  <2> HIDE DEF its
  <2> QED  BY <1>2, <2>3, <2>4
<1>4. \A e \in Owned :
        /\ h(e).id = e.id /\ h(e).marked = e.marked /\ h(e).acks = e.acks /\ h(e).known = e.known
        /\ h(e).prev = IF e \in deltas THEN None ELSE e.prev
  BY DEF Owned
<1>5. own'[n] = {h(e) : e \in own[n]} /\ \A k \in Player : k # n => own'[k] = own[k]
  BY <1>1 DEF TypeOK
<1> HIDE DEF its, h
<1>6. \A k, l \in Player :
        frames'[k][l] = frames[k][l] \/ (k = n /\ frames'[k][l] = Append(frames[k][l], items))
  <2> DEFINE row == [m \in Player |-> IF m \in peers[n] \cap up THEN Append(frames[n][m], items)
                                                                ELSE frames[n][m]]
  <2>1. frames' = [frames EXCEPT ![n] = row]  BY <1>1 DEF TypeOK
  <2>2. \A m \in Player : row[m] = frames[n][m] \/ row[m] = Append(frames[n][m], items)  OBVIOUS
  <2> HIDE DEF row
  <2>3. frames'[n] = row /\ \A m \in Player : m # n => frames'[m] = frames[m]
    BY <2>1 DEF TypeOK
  <2> QED  BY <2>2, <2>3
<1>7. own[n] \subseteq Owned  BY DEF TypeOK
<1>8. /\ \A f \in own'[n] : \E e \in own[n] :
           /\ f.id = e.id /\ f.marked = e.marked /\ f.acks = e.acks /\ f.known = e.known
           /\ f.prev = IF e \in deltas THEN None ELSE e.prev
      /\ \A e \in own[n] : \E f \in own'[n] : f.id = e.id
  BY <1>4, <1>5, <1>7
<1>9. deltas \in SUBSET own[n] /\ \A e \in deltas : ~e.marked /\ peers[n] \subseteq e.known
  BY <1>1
<1> HIDE DEF items
<1> QED  BY <1>2, <1>3, <1>5, <1>6, <1>8, <1>9

(* What is sent says the old names that are not forgotten, and the removals *)
(* that somebody has still to hear; what is forgotten everybody has heard.  *)
LEMMA SendLeft ==
  ASSUME NInv, IInv', Leftovers, NEW n \in Player, SendGameState(n)
  PROVE  Leftovers'
<1>1. TypeOK /\ TypeOK' /\ Mesh  BY DEF NInv, IInv
<1>2. UNCHANGED <<up, peers, copies, ids, orders>>  BY DEF SendGameState
<1>3. PICK deltas \in SUBSET own[n], items \in SUBSET Item :
        /\ \A e \in deltas : ~e.marked /\ peers[n] \subseteq e.known
        /\ \A k \in Player : k # n => own'[k] = own[k]
        /\ \A f \in own'[n] : \E e \in own[n] :
             /\ f.id = e.id /\ f.marked = e.marked /\ f.acks = e.acks /\ f.known = e.known
             /\ f.prev = IF e \in deltas THEN None ELSE e.prev
        /\ \A e \in own[n] : \E f \in own'[n] : f.id = e.id
        /\ \A k, l \in Player :
             \/ frames'[k][l] = frames[k][l]
             \/ k = n /\ frames'[k][l] = Append(frames[k][l], items)
        /\ \A x \in items :
             \/ \E e \in own[n] \ deltas : x = Full(e)
             \/ \E e \in deltas : x = Delta(e)
             \/ \E y \in entities[n] : x = Destroy(y)
  BY <1>1, SendFacts
<1>4. \A k \in Player : \A f \in own'[k] : \E e \in own[k] :
        /\ f.id = e.id /\ f.marked = e.marked /\ f.acks = e.acks /\ f.known = e.known
        /\ f.prev = IF k = n /\ e \in deltas THEN None ELSE e.prev
  <2> SUFFICES ASSUME NEW k \in Player, NEW f \in own'[k]
               PROVE  \E e \in own[k] :
                        /\ f.id = e.id /\ f.marked = e.marked /\ f.acks = e.acks /\ f.known = e.known
                        /\ f.prev = IF k = n /\ e \in deltas THEN None ELSE e.prev
    OBVIOUS
  <2>1. CASE k = n  BY <1>3, <2>1
  <2>2. CASE k # n
    <3>1. own'[k] = own[k]  BY <1>3, <2>2
    <3> QED  BY <2>2, <3>1
  <2> QED  BY <2>1, <2>2
<1>5. \A k \in Player : \A i : Has(k, i)' <=> Has(k, i)
  <2>1. \A k \in Player : \A e \in own[k] : \E f \in own'[k] : f.id = e.id
    BY <1>3
  <2>2. \A k \in Player : \A f \in own'[k] : \E e \in own[k] : f.id = e.id
    BY <1>4
  <2> QED  BY <2>1, <2>2 DEF Has
<1>6. ASSUME NEW k \in Player, NEW l \in Player, NEW i \in DOMAIN frames'[k][l]
      PROVE  /\ i \in Nat
             /\ \/ i \in DOMAIN frames[k][l] /\ frames'[k][l][i] = frames[k][l][i]
                \/ /\ k = n /\ frames'[k][l][i] = items
                   /\ \A j \in DOMAIN frames[k][l] : j \in Nat /\ j < i
  <2>1. frames[k][l] \in Seq(SUBSET Item)  BY <1>1, FramesType
  <2>2. DOMAIN frames[k][l] = 1..Len(frames[k][l]) /\ Len(frames[k][l]) \in Nat  BY <2>1
  <2>3. CASE frames'[k][l] = frames[k][l]  BY <1>6, <2>2, <2>3
  <2>4. CASE k = n /\ frames'[k][l] = Append(frames[k][l], items)
    <3>1. /\ i \in 1..(Len(frames[k][l]) + 1)
          /\ frames'[k][l][Len(frames[k][l]) + 1] = items
          /\ \A j \in 1..Len(frames[k][l]) : frames'[k][l][j] = frames[k][l][j]
      BY <1>6, <2>1, <2>4, AppendProperties, LenProperties
    <3>2. CASE i = Len(frames[k][l]) + 1  BY <2>2, <2>4, <3>1, <3>2
    <3>3. CASE i # Len(frames[k][l]) + 1
      <4>1. i \in 1..Len(frames[k][l])  BY <2>2, <3>1, <3>3
      <4> QED  BY <2>2, <3>1, <4>1
    <3> QED  BY <3>2, <3>3
  <2> QED  BY <1>3, <2>3, <2>4
<1>7. \A e : /\ Full(e).kind = "full" /\ Full(e).id = e.id /\ Full(e).prev = e.prev
             /\ Delta(e).kind = "delta" /\ Delta(e).id = e.id
             /\ Destroy(e).kind = "destroy" /\ Destroy(e).id = e.id
  BY DEF Full, Delta, Destroy
<1>8. Destroyed'
  <2> SUFFICES ASSUME NEW m \in Player, NEW q \in Player, NEW i \in DOMAIN frames'[m][q],
                      NEW j \in DOMAIN frames'[m][q], NEW y \in frames'[m][q][i], y.kind = "destroy"
               PROVE  /\ ~Has(m, y.id)'
                      /\ i <= j => \A x \in frames'[m][q][j] : x.kind = "full" => x.id # y.id
    BY DEF Destroyed
  <2>1. ~Has(m, y.id)
    <3>1. CASE i \in DOMAIN frames[m][q] /\ y \in frames[m][q][i]
      BY <3>1 DEF Leftovers, Rest, Destroyed
    <3>2. CASE m = n /\ y \in items
      <4>1. PICK z \in entities[n] : y = Destroy(z)  BY <1>3, <1>7, <3>2
      <4> QED  BY <1>7, <3>2, <4>1 DEF Leftovers, Rest, RemovedGone
    <3> QED  BY <1>6, <3>1, <3>2
  <2>2. ASSUME i <= j, NEW x \in frames'[m][q][j], x.kind = "full" PROVE x.id # y.id
    <3>1. CASE m = n /\ x \in items
      <4>1. PICK e \in own[n] : x = Full(e)  BY <1>3, <1>7, <2>2, <3>1
      <4> QED  BY <1>7, <2>1, <3>1, <4>1 DEF Has
    <3>2. CASE j \in DOMAIN frames[m][q] /\ x \in frames[m][q][j]
      <4>1. i \in DOMAIN frames[m][q] /\ y \in frames[m][q][i]  BY <1>6, <2>2, <3>2
      <4> QED  BY <2>2, <3>2, <4>1 DEF Leftovers, Rest, Destroyed
    <3> QED  BY <1>6, <3>1, <3>2
  <2> QED  BY <1>5, <2>1, <2>2
<1>9. Named'
  <2> SUFFICES ASSUME NEW m \in Player, NEW q \in Player, NEW i \in DOMAIN frames'[m][q],
                      NEW x \in frames'[m][q][i], NEW f \in own'[m], x.kind # "destroy", f.id = x.id
               PROVE  f.prev = None \/ (x.kind = "full" /\ x.prev = f.prev)
    BY DEF Named
  <2>1. PICK e \in own[m] : f.id = e.id /\ f.prev = IF m = n /\ e \in deltas THEN None ELSE e.prev
    BY <1>4
  <2>2. CASE i \in DOMAIN frames[m][q] /\ x \in frames[m][q][i]
    <3>1. x.kind # "destroy" /\ e.id = x.id => e.prev = None \/ (x.kind = "full" /\ x.prev = e.prev)
      BY <2>2 DEF Leftovers, Rest, Named
    <3>2. e.id = x.id  BY <2>1
    <3>3. e.prev = None \/ (x.kind = "full" /\ x.prev = e.prev)  BY <3>1, <3>2, Zenon
    <3> QED  BY <2>1, <3>3
  <2>3. CASE m = n /\ x \in items
    <3>1. \A g \in own[n] : g.id = x.id => g = e  BY <1>1, <2>1, <2>3, NamesType
    <3>2. CASE \E g \in own[n] \ deltas : x = Full(g)
      <4>1. PICK g \in own[n] : g \notin deltas /\ x = Full(g)  BY <3>2
      <4>2. x.kind = "full" /\ x.id = g.id /\ x.prev = g.prev  BY <1>7, <4>1
      <4>3. g = e  BY <3>1, <4>1, <4>2
      <4> QED  BY <2>1, <4>1, <4>2, <4>3
    <3>3. CASE \E g \in deltas : x = Delta(g)  BY <1>7, <2>1, <2>3, <3>1, <3>3
    <3>4. CASE \E y \in entities[n] : x = Destroy(y)  BY <1>7, <3>4
    <3> QED  BY <1>3, <2>3, <3>2, <3>3, <3>4
  <2> QED  BY <1>6, <2>2, <2>3
<1>10. \A k \in Player : entities'[k] \subseteq entities[k] /\ (k # n => entities'[k] = entities[k])
  BY <1>1 DEF SendGameState, TypeOK
<1>11. RemovedGone'  BY <1>5, <1>10 DEF Leftovers, Rest, RemovedGone
<1>12. GoneEmpty'
  <2> SUFFICES ASSUME NEW k \in Player, k \notin up', NEW f \in own'[k] PROVE FALSE
    BY DEF GoneEmpty
  <2>1. k \notin up /\ own[k] # {}  BY <1>2, <1>4
  <2> QED  BY <2>1 DEF Leftovers, Rest, GoneEmpty
<1>13. PrevOther'  BY <1>4 DEF Leftovers, Rest, PrevOther
<1>14. PrevLost'
  <2> SUFFICES ASSUME NEW o \in Player, NEW f \in own'[o], f.prev # None, Knowing(f.prev.owner, o, f)'
               PROVE  ~Has(f.prev.owner, f.prev.id)'
    BY DEF PrevLost
  <2>1. PICK e \in own[o] : f.id = e.id /\ f.acks = e.acks /\ f.known = e.known /\ f.prev = e.prev
    BY <1>4
  <2>2. Knowing(e.prev.owner, o, e)  BY <1>2, <2>1 DEF Knowing, Telling
  <2>3. ~Has(e.prev.owner, e.prev.id)  BY <2>1, <2>2 DEF Leftovers, Rest, PrevLost
  <2>4. e.prev.owner \in Player
    <3>1. f \in Owned  BY <1>1 DEF TypeOK
    <3>2. f.prev \in Handle  BY <3>1 DEF Owned
    <3> QED  BY <2>1, <3>2 DEF Handle
  <2> DEFINE p == e.prev.owner
             i == e.prev.id
  <2>5. p \in Player /\ ~Has(p, i)  BY <2>3, <2>4
  <2>6. p = f.prev.owner /\ i = f.prev.id  BY <2>1
  <2> HIDE DEF p, i
  <2>7. ~Has(p, i)'  BY <1>5, <2>5
  <2> QED  BY <2>6, <2>7
<1>15. Announced'
  <2> SUFFICES ASSUME NEW m \in up', NEW q \in up', NEW i \in Id, m # q, Shown(m, q, i)'
               PROVE  Has(m, i)' \/ Owes(m, q, i)'
    BY DEF Announced
  <2>1. m \in up /\ q \in up /\ m \in Player /\ q \in Player  BY <1>1, <1>2 DEF TypeOK
  <2>2. Has(m, i) \/ Shown(m, q, i)
    <3>1. CASE Name(m, i) \in copies'[q]  BY <1>2, <3>1 DEF Shown
    <3>2. CASE \E j \in DOMAIN frames'[m][q] : \E x \in frames'[m][q][j] : x.kind = "full" /\ x.id = i
      <4>0. PICK j \in DOMAIN frames'[m][q] : \E x \in frames'[m][q][j] : x.kind = "full" /\ x.id = i
        BY <3>2
      <4>1. PICK x \in frames'[m][q][j] : x.kind = "full" /\ x.id = i
        BY <4>0
      <4>2. CASE j \in DOMAIN frames[m][q] /\ x \in frames[m][q][j]  BY <4>1, <4>2 DEF Shown
      <4>3. CASE m = n /\ x \in items
        <5>1. PICK e \in own[n] : x = Full(e)  BY <1>3, <1>7, <4>1, <4>3
        <5> QED  BY <1>7, <4>1, <4>3, <5>1 DEF Has
      <4> QED  BY <1>6, <2>1, <4>2, <4>3
    <3> QED  BY <3>1, <3>2 DEF Shown
  <2>3. Has(m, i) \/ Owes(m, q, i)  BY <2>1, <2>2 DEF Leftovers, Rest, Announced
  <2>4. Owes(m, q, i) => Owes(m, q, i)'
    <3>1. CASE m = n
      <4>1. q \in peers[n]  BY <1>1, <2>1, <3>1 DEF Mesh
      <4>2. entities'[n] = {x \in entities[n] : ~(peers[n] \subseteq x.told)}
        BY <1>1 DEF SendGameState, TypeOK
      <4> QED  BY <3>1, <4>1, <4>2 DEF Owes
    <3>2. CASE m # n  BY <1>10, <2>1, <3>2 DEF Owes
    <3> QED  BY <3>1, <3>2
  <2> QED  BY <1>5, <2>1, <2>3, <2>4
<1>16. SingleHeld'
  <2> SUFFICES ASSUME NEW o \in Player, NEW d \in own'[o], ~d.marked, NEW k \in up', NEW g \in own'[k]
               PROVE  (k = o /\ g.id = d.id) \/ Name(k, g.id) = d.prev
    BY DEF SingleHeld
  <2>1. PICK e \in own[o] : /\ d.id = e.id /\ d.marked = e.marked
                            /\ d.prev = IF o = n /\ e \in deltas THEN None ELSE e.prev
    BY <1>4
  <2>2. k \in up /\ k \in Player  BY <1>1, <1>2 DEF TypeOK
  <2>3. PICK f \in own[k] : g.id = f.id  BY <1>4, <2>2
  <2>4. CASE o = n /\ e \in deltas
    <3>1. peers[n] \subseteq e.acks \cup e.known  BY <1>3, <2>4
    <3>2. \A q \in up : \A x \in own[q] : q = n /\ x.id = e.id
      BY <1>1, <2>1, <2>4, <3>1, NothingLeft DEF Leftovers
    <3> QED  BY <2>1, <2>2, <2>3, <2>4, <3>2
  <2>5. CASE ~(o = n /\ e \in deltas)
    <3>1. (k = o /\ f.id = e.id) \/ Name(k, f.id) = e.prev
      BY <2>1, <2>2 DEF Leftovers, SingleHeld
    <3> QED  BY <2>1, <2>3, <2>5, <3>1
  <2> QED  BY <2>4, <2>5
<1>17. SingleHanded'
  <2> SUFFICES ASSUME NEW m \in Player, NEW l \in Player, NEW i \in Handing(m, l)',
                      NEW k \in up', NEW g \in own'[k]
               PROVE  k = m /\ g.id = orders'[m][l][i].elem
    BY DEF SingleHanded
  <2>1. i \in Handing(m, l)  BY <1>2 DEF Handing
  <2>2. k \in up /\ k \in Player  BY <1>1, <1>2 DEF TypeOK
  <2>3. PICK f \in own[k] : g.id = f.id  BY <1>4, <2>2
  <2>4. k = m /\ f.id = orders[m][l][i].elem  BY <2>1, <2>2 DEF Leftovers, SingleHanded
  <2> QED  BY <1>2, <2>3, <2>4
<1> QED  BY <1>8, <1>9, <1>11, <1>12, <1>13, <1>14, <1>15, <1>16, <1>17 DEF Leftovers, Rest

-----------------------------------------------------------------------------
(* A game state is received.                                                *)

LEMMA ReceiveExact ==
  ASSUME TypeOK, NEW n \in Player, NEW m \in Player, n # m, ReceiveGameState(n, m)
  PROVE  /\ own'[n] = {e \in own[n] : Name(n, e.id) \notin DeadNames(n, m)}
         /\ \A k \in Player : k # n /\ k # m => own'[k] = own[k] /\ entities'[k] = entities[k]
         /\ \A f \in own'[m] : \E e \in own[m] :
              /\ f.id = e.id /\ f.marked = e.marked /\ f.prev = e.prev /\ f.acks = e.acks
              /\ \/ f.known = e.known
                 \/ /\ f.known = e.known \cup {n}
                    /\ \E x \in Head(frames[m][n]) : x.kind # "destroy" /\ x.id = e.id
         /\ \A e \in own[m] : \E f \in own'[m] : f.id = e.id
         /\ \A e \in own[n] : Name(n, e.id) \in DeadNames(n, m) =>
              [id |-> e.id, told |-> {}] \in entities'[n]
         /\ entities[n] \subseteq entities'[n]
         /\ \A x \in entities[m] : \E y \in entities'[m] :
              /\ y.id = x.id
              /\ y.told = x.told \/ (y.told = x.told \cup {n} /\ Destroy(x) \in Head(frames[m][n]))
<1> DEFINE lost == {e \in own[n] : Name(n, e.id) \in DeadNames(n, m)}
           h(e) == IF \E x \in Head(frames[m][n]) : x.kind # "destroy" /\ x.id = e.id
                   THEN [e EXCEPT !.known = @ \cup {n}] ELSE e
           t(x) == IF Destroy(x) \in Head(frames[m][n]) THEN [x EXCEPT !.told = @ \cup {n}] ELSE x
<1>1. PICK heard \in BOOLEAN :
        /\ own' = [own EXCEPT ![n] = @ \ lost,
                              ![m] = IF heard THEN Acknowledged(n, m, @) ELSE @]
        /\ entities' = [entities EXCEPT
             ![n] = @ \cup {[id |-> e.id, told |-> {}] : e \in lost},
             ![m] = IF heard THEN Told(n, m, @) ELSE @]
  BY DEF ReceiveGameState, DeadNames
<1>2. Acknowledged(n, m, own[m]) = {h(e) : e \in own[m]}
      /\ Told(n, m, entities[m]) = {t(x) : x \in entities[m]}
  BY DEF Acknowledged, Told
<1>3. \A e \in Owned :
        /\ h(e).id = e.id /\ h(e).marked = e.marked /\ h(e).prev = e.prev /\ h(e).acks = e.acks
        /\ \/ h(e).known = e.known
           \/ /\ h(e).known = e.known \cup {n}
              /\ \E x \in Head(frames[m][n]) : x.kind # "destroy" /\ x.id = e.id
  BY DEF Owned
<1>4. \A x \in [id : Id, told : SUBSET Player] :
        /\ t(x).id = x.id
        /\ t(x).told = x.told \/ (t(x).told = x.told \cup {n} /\ Destroy(x) \in Head(frames[m][n]))
  OBVIOUS
<1>5. \A e \in own[n] : e \in lost <=> Name(n, e.id) \in DeadNames(n, m)  OBVIOUS
<1>6. lost \subseteq own[n]  OBVIOUS
<1> HIDE DEF lost, h, t
<1>7. /\ own'[n] = own[n] \ lost
      /\ own'[m] = {h(e) : e \in own[m]} \/ own'[m] = own[m]
      /\ \A k \in Player : k # n /\ k # m => own'[k] = own[k]
  BY <1>1, <1>2 DEF TypeOK
<1>8. /\ entities'[n] = entities[n] \cup {[id |-> e.id, told |-> {}] : e \in lost}
      /\ entities'[m] = {t(x) : x \in entities[m]} \/ entities'[m] = entities[m]
      /\ \A k \in Player : k # n /\ k # m => entities'[k] = entities[k]
  BY <1>1, <1>2 DEF TypeOK
<1>9. own'[n] = {e \in own[n] : Name(n, e.id) \notin DeadNames(n, m)}  BY <1>5, <1>7
<1>10. own[m] \subseteq Owned /\ entities[m] \subseteq [id : Id, told : SUBSET Player]
  BY DEF TypeOK
<1>11. /\ \A f \in own'[m] : \E e \in own[m] :
            /\ f.id = e.id /\ f.marked = e.marked /\ f.prev = e.prev /\ f.acks = e.acks
            /\ \/ f.known = e.known
               \/ /\ f.known = e.known \cup {n}
                  /\ \E x \in Head(frames[m][n]) : x.kind # "destroy" /\ x.id = e.id
       /\ \A e \in own[m] : \E f \in own'[m] : f.id = e.id
  BY <1>3, <1>7, <1>10
<1>12. \A e \in own[n] : Name(n, e.id) \in DeadNames(n, m) =>
         [id |-> e.id, told |-> {}] \in entities'[n]
  BY <1>5, <1>8
<1>13. \A x \in entities[m] : \E y \in entities'[m] :
         /\ y.id = x.id
         /\ y.told = x.told \/ (y.told = x.told \cup {n} /\ Destroy(x) \in Head(frames[m][n]))
  BY <1>4, <1>8, <1>10
<1> QED  BY <1>7, <1>8, <1>9, <1>11, <1>12, <1>13

(* Who gets to know the new name has lost the old one with that, and who    *)
(* hears of a removal has not been shown the element since.                 *)
LEMMA ReceiveLeft ==
  ASSUME NInv, IInv', Leftovers, NEW n \in Player, NEW m \in Player, n # m, ReceiveGameState(n, m)
  PROVE  Leftovers'
<1>1. TypeOK /\ TypeOK'  BY DEF NInv, IInv
<1>2. /\ UNCHANGED <<up, ids>> /\ frames[m][n] # <<>>
      /\ frames' = [frames EXCEPT ![m][n] = Tail(@)]
  BY DEF ReceiveGameState
<1>3. /\ own'[n] = {e \in own[n] : Name(n, e.id) \notin DeadNames(n, m)}
      /\ \A k \in Player : k # n /\ k # m => own'[k] = own[k] /\ entities'[k] = entities[k]
      /\ \A f \in own'[m] : \E e \in own[m] :
           /\ f.id = e.id /\ f.marked = e.marked /\ f.prev = e.prev /\ f.acks = e.acks
           /\ \/ f.known = e.known
              \/ /\ f.known = e.known \cup {n}
                 /\ \E x \in Head(frames[m][n]) : x.kind # "destroy" /\ x.id = e.id
      /\ \A e \in own[m] : \E f \in own'[m] : f.id = e.id
      /\ \A e \in own[n] : Name(n, e.id) \in DeadNames(n, m) =>
           [id |-> e.id, told |-> {}] \in entities'[n]
      /\ entities[n] \subseteq entities'[n]
      /\ \A x \in entities[m] : \E y \in entities'[m] :
           /\ y.id = x.id
           /\ y.told = x.told \/ (y.told = x.told \cup {n} /\ Destroy(x) \in Head(frames[m][n]))
  BY <1>1, ReceiveExact
<1>4. 1 \in DOMAIN frames[m][n] /\ Head(frames[m][n]) = frames[m][n][1]
  <2>1. frames[m][n] \in Seq(SUBSET Item)  BY <1>1, FramesType
  <2> QED  BY <1>2, <2>1
<1>5. \A k \in Player : \A f \in own'[k] : \E e \in own[k] :
        /\ f.id = e.id /\ f.marked = e.marked /\ f.prev = e.prev /\ f.acks = e.acks
        /\ \/ f.known = e.known
           \/ /\ f.known = e.known \cup {n} /\ k = m
              /\ \E x \in Head(frames[m][n]) : x.kind # "destroy" /\ x.id = e.id
  <2> SUFFICES ASSUME NEW k \in Player, NEW f \in own'[k]
               PROVE  \E e \in own[k] :
                        /\ f.id = e.id /\ f.marked = e.marked /\ f.prev = e.prev /\ f.acks = e.acks
                        /\ \/ f.known = e.known
                           \/ /\ f.known = e.known \cup {n} /\ k = m
                              /\ \E x \in Head(frames[m][n]) : x.kind # "destroy" /\ x.id = e.id
    OBVIOUS
  <2>1. CASE k = m  BY <1>3, <2>1
  <2>2. CASE k # m
    <3>1. f \in own[k]  BY <1>3, <2>2
    <3> QED  BY <3>1
  <2> QED  BY <2>1, <2>2
<1>6. Plain  BY <1>2, <1>5 DEF Plain
<1>7. Drains  BY <1>1, <1>2, TakenDrains
<1>8. HandedBefore
  <2>1. PICK c \in Created : \A k, l \in Player :
          orders'[k][l] = orders[k][l] \/ orders'[k][l] = Append(orders[k][l], c)
    BY <1>1, ReceiveOrders
  <2>2. c \in Order  BY DEF Order
  <2>3. NothingHanded  BY <2>1, <2>2 DEF NothingHanded
  <2> QED  BY <1>1, <2>3, HandedBeforeIs
<1>9. \A k \in Player : \A x \in entities'[k] : ~Has(k, x.id)' \/ \E y \in entities[k] : y.id = x.id
  <2>1. \A k \in Player : \A x \in entities'[k] :
          \/ \E y \in entities[k] : y.id = x.id
          \/ k = n /\ \E e \in own[n] : e.id = x.id /\ \A f \in own'[n] : f.id # e.id
    BY ReceiveFacts
  <2> QED  BY <2>1 DEF Has
<1>10. ASSUME NEW e \in own[m], e.prev # None,
              NEW x \in Head(frames[m][n]), x.kind # "destroy", x.id = e.id
       PROVE  e.prev \in DeadNames(n, m)
  <2>1. x.kind # "destroy" /\ e.id = x.id => e.prev = None \/ (x.kind = "full" /\ x.prev = e.prev)
    BY <1>4 DEF Leftovers, Rest, Named
  <2>2. x.kind = "full" /\ x.prev = e.prev  BY <1>10, <2>1
  <2> QED  BY <2>2 DEF DeadNames, Items
<1>11. PrevLost'
  <2>1. ASSUME NEW o \in Player, NEW f \in own'[o], f.prev # None, Knowing(f.prev.owner, o, f)'
        PROVE  \/ ~Has(f.prev.owner, f.prev.id)'
               \/ \E e \in own[o] : e.prev = f.prev /\ Knowing(f.prev.owner, o, e)
    <3> DEFINE p == f.prev.owner
               i == f.id
    <3>1. f.prev \in Handle /\ p \in Player /\ i \in Id
      <4>1. f \in Owned  BY <1>1 DEF TypeOK
      <4>2. f.prev \in Handle /\ f.id \in Id  BY <2>1, <4>1 DEF Owned
      <4> QED  BY <4>2 DEF Handle
    <3>2. p \in f.acks \cup f.known \/ Telling(p, o, i)'  BY <2>1 DEF Knowing
    <3>3. PICK e \in own[o] :
            /\ f.id = e.id /\ f.prev = e.prev /\ f.acks = e.acks
            /\ \/ f.known = e.known
               \/ /\ f.known = e.known \cup {n} /\ o = m
                  /\ \E x \in Head(frames[m][n]) : x.kind # "destroy" /\ x.id = e.id
      BY <1>5
    <3>4. p = f.prev.owner /\ i = f.id  OBVIOUS
    <3> HIDE DEF p, i
    <3>5. CASE p \in e.acks \cup e.known \/ Telling(p, o, i)
      BY <3>3, <3>4, <3>5 DEF Knowing
    <3>6. CASE /\ p = n /\ o = m
               /\ \E x \in Head(frames[m][n]) : x.kind # "destroy" /\ x.id = e.id
      <4>1. e.prev \in DeadNames(n, m)  BY <1>10, <2>1, <3>3, <3>6
      <4>2. e.prev = Name(n, e.prev.id)  BY <3>1, <3>3, <3>4, <3>6 DEF Handle, Name
      <4>3. ~Has(n, e.prev.id)'  BY <1>3, <4>1, <4>2 DEF Has
      <4>4. f.prev.owner = n /\ f.prev.id = e.prev.id  BY <3>3, <3>4, <3>6
      <4> QED  BY <4>3, <4>4
    <3>7. \/ p \in e.acks \cup e.known \/ Telling(p, o, i)
          \/ /\ p = n /\ o = m
             /\ \E x \in Head(frames[m][n]) : x.kind # "destroy" /\ x.id = e.id
      <4>1. CASE p \in f.acks \cup f.known  BY <3>3, <4>1
      <4>2. CASE Telling(p, o, i)'
        <5>1. Telling(p, o, i) \/ (p = n /\ o = m /\ Name(m, i) \in FullNames(n, m))
          BY <3>1, <4>2, ReceiveTells
        <5>2. CASE p = n /\ o = m /\ Name(m, i) \in FullNames(n, m)
          <6>1. PICK x \in Items(n, m, "full") : Name(m, i) = Name(m, x.id)
            BY <5>2 DEF FullNames
          <6>2. x \in Head(frames[m][n]) /\ x.kind # "destroy"  BY DEF Items
          <6>3. x.id = e.id  BY <3>3, <3>4, <6>1 DEF Name
          <6> QED  BY <5>2, <6>2, <6>3
        <5> QED  BY <5>1, <5>2
      <4> QED  BY <3>2, <4>1, <4>2
    <3> QED  BY <3>5, <3>6, <3>7
  <2> QED  BY <1>1, <1>6, <2>1, PlainAges, PrevLostKept DEF Leftovers, Rest, NInv
<1>12. Announced'
  <2> SUFFICES ASSUME NEW k \in up', NEW q \in up', NEW i \in Id, k # q, Shown(k, q, i)'
               PROVE  Has(k, i)' \/ Owes(k, q, i)'
    BY DEF Announced
  <2>1. k \in up /\ q \in up /\ k \in Player /\ q \in Player  BY <1>1, <1>2 DEF TypeOK
  <2>2. /\ copies'[n] = (copies[n] \ DeadNames(n, m)) \cup FullNames(n, m)
        /\ \A l \in Player : l # n => copies'[l] = copies[l]
    BY ReceiveFacts
  <2>3. Name(k, i) \in FullNames(n, m) =>
          k = m /\ \E x \in frames[m][n][1] : x.kind = "full" /\ x.id = i
    BY <1>4 DEF FullNames, Items, Name
  <2>4. (\E j \in DOMAIN frames'[k][q] : \E x \in frames'[k][q][j] : x.kind = "full" /\ x.id = i)
          => \E j \in DOMAIN frames[k][q] : \E x \in frames[k][q][j] : x.kind = "full" /\ x.id = i
    <3>1. PICK d \in Nat : \A j \in DOMAIN frames'[k][q] :
            j \in Nat /\ j + d \in DOMAIN frames[k][q] /\ frames'[k][q][j] = frames[k][q][j + d]
      BY <1>1, <1>7, <2>1, DrainedIs
    <3> QED  BY <3>1
  <2>5. Shown(k, q, i)
    <3>1. CASE Name(k, i) \in copies'[q]
      <4>1. Name(k, i) \in copies[q] \/ (q = n /\ Name(k, i) \in FullNames(n, m))
        BY <2>1, <2>2, <3>1
      <4> QED  BY <1>4, <2>3, <4>1 DEF Shown
    <3>2. CASE \E j \in DOMAIN frames'[k][q] : \E x \in frames'[k][q][j] : x.kind = "full" /\ x.id = i
      BY <2>4, <3>2 DEF Shown
    <3> QED  BY <3>1, <3>2 DEF Shown
  <2>6. Has(k, i) \/ Owes(k, q, i)  BY <2>1, <2>5 DEF Leftovers, Rest, Announced
  <2>7. CASE Has(k, i)
    <3>1. PICK e \in own[k] : e.id = i  BY <2>7 DEF Has
    <3>2. CASE k = n
      <4>1. CASE Name(n, e.id) \in DeadNames(n, m)
        <5>1. [id |-> e.id, told |-> {}] \in entities'[n]  BY <1>3, <3>2, <4>1
        <5>2. [id |-> e.id, told |-> {}].id = i /\ q \notin [id |-> e.id, told |-> {}].told
          BY <3>1
        <5> QED  BY <3>2, <5>1, <5>2 DEF Owes
      <4>2. CASE Name(n, e.id) \notin DeadNames(n, m)
        BY <1>3, <3>1, <3>2, <4>2 DEF Has
      <4> QED  BY <4>1, <4>2
    <3>3. CASE k = m  BY <1>3, <3>1, <3>3 DEF Has
    <3>4. CASE k # n /\ k # m  BY <1>3, <2>1, <3>1, <3>4 DEF Has
    <3> QED  BY <3>2, <3>3, <3>4
  <2>8. CASE Owes(k, q, i)
    <3>1. PICK x \in entities[k] : x.id = i /\ q \notin x.told  BY <2>8 DEF Owes
    <3>2. CASE k = n  BY <1>3, <3>1, <3>2 DEF Owes
    <3>3. CASE k # n /\ k # m  BY <1>3, <2>1, <3>1, <3>3 DEF Owes
    <3>4. CASE k = m
      <4>1. PICK y \in entities'[m] :
              /\ y.id = x.id
              /\ y.told = x.told \/ (y.told = x.told \cup {n} /\ Destroy(x) \in Head(frames[m][n]))
        BY <1>3, <3>4
      <4>2. CASE q \notin y.told  BY <3>1, <3>4, <4>1, <4>2 DEF Owes
      <4>3. CASE q \in y.told
        <5>1. q = n /\ Destroy(x) \in Head(frames[m][n])  BY <3>1, <4>1, <4>3
        <5>2. Destroy(x).kind = "destroy" /\ Destroy(x).id = i  BY <3>1 DEF Destroy
        <5>3. \A j \in DOMAIN frames[m][n] :
                1 <= j => \A z \in frames[m][n][j] : z.kind = "full" => z.id # i
          BY <1>4, <5>1, <5>2 DEF Leftovers, Rest, Destroyed
        <5>4. \A j \in DOMAIN frames[m][n] : 1 <= j
          <6>1. frames[m][n] \in Seq(SUBSET Item)  BY <1>1, FramesType
          <6> QED  BY <6>1
        <5>5. Name(m, i) \in DeadNames(n, m)
          <6>1. Destroy(x) \in Items(n, m, "destroy")  BY <5>1, <5>2 DEF Items
          <6> QED  BY <5>2, <6>1 DEF DeadNames
        <5>6. Name(m, i) \notin copies'[n]
          <6>1. Name(m, i) \notin FullNames(n, m)  BY <1>4, <2>3, <3>4, <5>3, <5>4
          <6> QED  BY <2>2, <5>5, <6>1
        <5> QED  BY <2>4, <3>4, <5>1, <5>3, <5>4, <5>6 DEF Shown
      <4> QED  BY <4>2, <4>3
    <3> QED  BY <3>2, <3>3, <3>4
  <2> QED  BY <2>6, <2>7, <2>8
<1>13. Rest'  BY <1>1, <1>6, <1>7, <1>9, <1>11, <1>12, QuietRest DEF Leftovers
<1>14. (SingleHeld /\ SingleHanded)'  BY <1>1, <1>6, <1>8, SingleKept DEF Leftovers
<1> QED  BY <1>13, <1>14 DEF Leftovers

-----------------------------------------------------------------------------
(* The theorem.                                                             *)

LEMMA InitLeft == Init => SInv
<1> SUFFICES ASSUME Init PROVE SInv  OBVIOUS
<1>1. NInv /\ TypeOK  BY InitNames DEF NInv, IInv
<1>2. /\ \A n \in Player : own[n] \subseteq {NewElement(0, None)} /\ copies[n] = {} /\ entities[n] = {}
      /\ \A n \in Player : own[n] # {} => n = First
      /\ \A m, n \in Player : orders[m][n] = <<>> /\ frames[m][n] = <<>>
      /\ up = Player
  BY DEF Init
<1>3. \A n \in Player : \A e \in own[n] : e.prev = None /\ e.id = 0 /\ n = First
  BY <1>2 DEF NewElement
<1>4. GoneEmpty /\ PrevOther /\ RemovedGone /\ Destroyed /\ Named /\ PrevLost
  BY <1>2, <1>3 DEF GoneEmpty, PrevOther, RemovedGone, Destroyed, Named, PrevLost
<1>5. Announced  BY <1>2 DEF Announced, Shown
<1>6. SingleHeld  BY <1>2, <1>3 DEF SingleHeld
<1>7. SingleHanded  BY <1>2 DEF SingleHanded, Handing
<1> QED  BY <1>1, <1>4, <1>5, <1>6, <1>7 DEF SInv, Leftovers, Rest

LEMMA NextLeft ==
  ASSUME SInv, [Next]_vars
  PROVE  SInv'
<1>1. NInv /\ Leftovers /\ NInv'  BY NextNames DEF SInv
<1>2. TypeOK /\ TypeOK' /\ IInv'  BY <1>1 DEF NInv, IInv
<1>3. CASE UNCHANGED vars
  <2>1. UNCHANGED <<up, peers, own, copies, ids, entities, orders, frames, calls>>
    BY <1>3 DEF vars
  <2>2. Asking /\ Drains  BY <2>1 DEF Asking, Drains
  <2>3. NothingTold /\ HandedBefore  BY <1>2, <2>2, AskingIs
  <2>4. Still  BY <1>2, <2>1, <2>2, <2>3, SameIsStill
  <2> QED  BY <1>1, <1>2, <2>3, <2>4, StillLeft DEF SInv
<1>4. ASSUME NEW n \in Player, Alone(n) PROVE Leftovers'
  <2>1. CASE RequestEntity(n)  BY <1>1, <1>2, <2>1, RequestEntityLeft
  <2>2. CASE RequestOwn(n)  BY <1>1, <1>2, <2>2, RequestOwnLeft
  <2>3. CASE RemoveElement(n)  BY <1>1, <1>2, <2>3, RemoveElementLeft
  <2>4. CASE Leave(n)
    <3>1. Gone(n)  BY <2>4 DEF Leave
    <3> QED  BY <1>1, <1>2, <3>1, GoneLeft
  <2>5. CASE SendGameState(n)  BY <1>1, <1>2, <2>5, SendLeft
  <2> QED  BY <1>4, <2>1, <2>2, <2>3, <2>4, <2>5 DEF Alone
<1>5. ASSUME NEW n \in Player, NEW m \in Player \ {n}, Between(n, m) PROVE Leftovers'
  <2> m \in Player /\ m # n  OBVIOUS
  <2>1. CASE OnRequest(n, m)  BY <1>1, <1>2, <2>1, OnRequestLeft
  <2>2. CASE OnTransfer(n, m)  BY <1>1, <1>2, <2>2, OnTransferLeft
  <2>3. CASE ReadNull(n, m) \/ ReceiveCockup(n, m)
    <3>1. Gone(n)  BY <2>3 DEF ReadNull, ReceiveCockup
    <3> QED  BY <1>1, <1>2, <3>1, GoneLeft
  <2>4. CASE RemovePlayerFromGame(n, m)  BY <1>1, <1>2, <2>4, RemovePlayerLeft
  <2>5. CASE LoseGameState(n, m)  BY <1>1, <1>2, <2>5, LoseLeft
  <2>6. CASE ReceiveGameState(n, m)  BY <1>1, <1>2, <2>6, ReceiveLeft
  <2>7. CASE OnAckEntityCreate(n, m)  BY <1>1, <1>2, <2>7, AckLeft
  <2> QED  BY <1>5, <2>1, <2>2, <2>3, <2>4, <2>5, <2>6, <2>7 DEF Between
<1>6. CASE Next
  <2>1. PICK n \in Player : Alone(n) \/ \E m \in Player \ {n} : Between(n, m)
    BY <1>6 DEF Next, Alone, Between
  <2> QED  BY <1>1, <1>4, <1>5, <2>1 DEF SInv
<1> QED  BY <1>3, <1>6

(* What the other consoles have of the element besides the owner's name is  *)
(* the last name it had, or on the way out; and while the element is handed *)
(* over nobody of the game owns anything but what is handed over.           *)
THEOREM LeftoversSound == Spec => []SInv
<1>1. Init => SInv  BY InitLeft
<1>2. SInv /\ [Next]_vars => SInv'  BY NextLeft
<1> QED  BY <1>1, <1>2, PTL DEF Spec

(* What the owner's game states are to clear up after hand-overs, deletions *)
(* and losses: while somebody owns the element, who still has it under      *)
(* another name will be told, by the new name, by a removal that is still   *)
(* announced to it, or by the old owner having left.                        *)
THEOREM StaleAreDoomed == Spec => []StaleIsDoomed
<1>1. SInv => StaleIsDoomed
  <2> SUFFICES ASSUME SInv, NEW o \in Owners, NEW e \in own[o], ~e.marked, NEW p \in up,
                      NEW h \in copies[p] \cup {Name(p, f.id) : f \in own[p]}
               PROVE  \/ h = Name(o, e.id) \/ h = e.prev
                      \/ h.owner \notin up
                      \/ ~Has(h.owner, h.id) /\ \E x \in entities[h.owner] : x.id = h.id /\ p \notin x.told
    BY DEF StaleIsDoomed
  <2>1. TypeOK /\ Announced /\ SingleHeld  BY DEF SInv, NInv, IInv, Leftovers, Rest
  <2>2. o \in Player /\ p \in Player  BY <2>1 DEF Owners, TypeOK
  <2>3. ASSUME NEW k \in up, NEW f \in own[k] PROVE Name(k, f.id) \in {Name(o, e.id), e.prev}
    BY <2>1, <2>2, <2>3 DEF SingleHeld
  <2>4. CASE \E f \in own[p] : h = Name(p, f.id)  BY <2>3, <2>4
  <2>5. CASE h \in copies[p] /\ h.owner \in up
    <3>1. h \in Handle /\ h.owner # p  BY <2>1, <2>2, <2>5 DEF TypeOK
    <3>2. h = Name(h.owner, h.id) /\ h.id \in Id  BY <3>1 DEF Handle, Name
    <3> DEFINE k == h.owner
               i == h.id
    <3>3. k \in up /\ i \in Id /\ k # p /\ h = Name(k, i)  BY <2>5, <3>1, <3>2
    <3> HIDE DEF k, i
    <3>4. Has(k, i) \/ Owes(k, p, i)  BY <2>1, <2>5, <3>3 DEF Announced, Shown
    <3>5. CASE Has(k, i)
      <4>1. PICK f \in own[k] : f.id = i  BY <3>5 DEF Has
      <4> QED  BY <2>3, <3>3, <4>1
    <3>6. CASE ~Has(k, i) /\ Owes(k, p, i)  BY <3>6 DEF Owes, k, i
    <3> QED  BY <3>4, <3>5, <3>6
  <2> QED  BY <2>4, <2>5
<1> QED  BY <1>1, LeftoversSound, PTL
=============================================================================
