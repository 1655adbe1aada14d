---------------------------- MODULE MCNetSession ----------------------------
(* Small instances of NetSession for TLC. *)
EXTENDS NetSession

CONSTANTS a, b, all

\* Two players; the host's queue list is broadcast first, then the peers.
TwoNodes     == {a, b}
OneGroup     == {all}
GroupAll     == [g \in OneGroup |-> TwoNodes]
HostQueues   == <<all, a, b>>

NoPlain == [n \in TwoNodes |-> 0]

\* Both send to all: a seven messages, enough for the rings and the numbers to
\* wrap, b one; a also sends one plain message.
BothWays == [n \in TwoNodes |-> [q \in OneGroup \cup TwoNodes |->
               IF q # all THEN 0 ELSE IF n = a THEN 7 ELSE 1]]
PlainByA == [n \in TwoNodes |-> IF n = a THEN 1 ELSE 0]

\* One queue, two messages.
TwoToAll == [n \in TwoNodes |-> [q \in OneGroup \cup TwoNodes |->
                 IF n = a /\ q = all THEN 2 ELSE 0]]

\* Three players; a sends two messages to all and may drop c.
CONSTANT c
ThreeNodes == {a, b, c}
GroupAll3  == [g \in OneGroup |-> ThreeNodes]
HostQueues3 == <<all, a, b, c>>
TwoToAll3 == [n \in ThreeNodes |-> [q \in OneGroup \cup ThreeNodes |->
                 IF n = a /\ q = all THEN 2 ELSE 0]]
Nobody == {}
HostDropsC == {<<a, c>>}
NoPlain3 == [n \in ThreeNodes |-> 0]
=============================================================================
