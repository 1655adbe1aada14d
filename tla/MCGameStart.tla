---------------------------- MODULE MCGameStart -----------------------------
EXTENDS GameStart
CONSTANTS h, a, b, lobby, game
Groups == {lobby, game}
=============================================================================
