------------------------- MODULE MCElementTransfer -------------------------
(***************************************************************************)
(* The instance of ElementTransfer that TLC checks: three players, so that *)
(* two of them ask the third at once, and a transfer has an onlooker.      *)
(***************************************************************************)
EXTENDS ElementTransfer

CONSTANTS a, b, c \* the players
=============================================================================
