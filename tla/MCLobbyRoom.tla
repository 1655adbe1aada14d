----------------------------- MODULE MCLobbyRoom -----------------------------
(* Instances of LobbyRoom: two rooms and a client that looks for one, or two *)
(* consoles that take turns at hosting.                                      *)
EXTENDS LobbyRoom
CONSTANTS h, g, a, PressesOfClient, PressesOfHost
PressesOf == [n \in Node |-> IF n \in Hosts THEN PressesOfHost ELSE PressesOfClient]
Places == [n \in Node |-> NumPeers - 1]
==============================================================================
