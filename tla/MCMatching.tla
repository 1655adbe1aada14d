----------------------------- MODULE MCMatching -----------------------------
(* Instances of Matching: one console hosts, the others look for a room or   *)
(* open one of their own.                                                    *)
EXTENDS Matching
CONSTANTS h, a, b
\* h calls twice, a three times, b once.
CallsOfSome == [n \in Node |-> IF n = h THEN 2 ELSE IF n = a THEN 3 ELSE 1]
\* h's room has a place for both others, theirs for one.
MixedRooms == [n \in Node |-> IF n = h THEN 3 ELSE 2]
\* No callback is run here, so the events tell no states apart.
NoEvents == <<mode, next, peers, at, input, net, calls>>
=============================================================================
