--------------------------- MODULE ReliableChannel --------------------------
(***************************************************************************)
(* What the Guaranteed messages promise between every two players: the     *)
(* packets a player numbers for another one are dispatched there in that   *)
(* order, each at most once and none before the ones in front of it,       *)
(* whatever the network loses, repeats or reorders.                        *)
(***************************************************************************)
EXTENDS Integers, Sequences

CONSTANT Player

VARIABLES
    sentLog,     \* sentLog[n][p]: the packets n numbered for p
    delivered    \* delivered[p][n]: the packets of n dispatched at p

vars == <<sentLog, delivered>>

Init ==
    /\ sentLog = [n \in Player |-> [p \in Player |-> <<>>]]
    /\ delivered = [p \in Player |-> [n \in Player |-> <<>>]]

\* A step of n's UpdateSend numbers the same packet for some of the others.
Send(n) ==
    /\ \E to \in SUBSET {p \in Player : sentLog'[n][p] # <<>>} :
       \E pkt \in {sentLog'[n][p][Len(sentLog'[n][p])] : p \in to} :
         sentLog' = [sentLog EXCEPT ![n] = [p \in Player |->
            IF p \in to THEN Append(@[p], pkt) ELSE @[p]]]
    /\ UNCHANGED delivered

\* A step of p's UpdateReceive dispatches, from every sender, the packets that
\* come next, any number of them.
Deliver(p) ==
    /\ \A n \in Player :
         LET old == Len(delivered[p][n])
             new == Len(delivered'[p][n])
         IN /\ new \in old..Len(sentLog[n][p])
            /\ delivered'[p][n] = SubSeq(sentLog[n][p], 1, new)
    /\ delivered' = [delivered EXCEPT ![p] = [n \in Player |-> delivered'[p][n]]]
    /\ UNCHANGED sentLog

Next == \E n \in Player : Send(n) \/ Deliver(n)

Spec == Init /\ [][Next]_vars
=============================================================================
