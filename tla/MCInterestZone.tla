--------------------------- MODULE MCInterestZone ---------------------------
(* Small instances of InterestZone for TLC. *)
EXTENDS InterestZone

CONSTANTS a, b, car, ped, place, speed

OnePeer  == {a}
TwoPeers == {a, b}
Nobody   == {}
OnlyB    == {b}

\* Packets in flight to a peer, and from it.
OneEach == [p \in Peer |-> 1]
TwoEach == [p \in Peer |-> 2]

OneElement  == {car}
TwoElements == {car, ped}
OneField    == {place}
TwoFields   == {place, speed}
=============================================================================
