---------------------------- MODULE MatchClaims ----------------------------
(***************************************************************************)
(* What comments of the server's source say of a match and the code does   *)
(* not do: each of these properties is refuted by a behaviour of Match.    *)
(***************************************************************************)
EXTENDS Match

(* libServeur.c: "Send a move with a timeout": when the match ends because *)
(* a move did not come, somebody is sent a TIMEOUT.                        *)
TimeoutIsTold ==
  [][(spc = "recvMove" /\ spc' = "exit") =>
       \E p \in Players : \E i \in 1..Len(toClient'[p]) :
         toClient'[p][i].kind = "CoupRep" /\ toClient'[p][i].validCoup = "TIMEOUT"
    ]_vars

(* serveur.c: nbStrike is the "Move counter": while a game is on, it is    *)
(* the number of moves played in it.                                       *)
CountsMoves ==
  (spc = "recvMove" /\ referee.partieCree) => game.nbStrike = referee.numCoup

(* serveur.c: "Player1 play first in the first game (oriented north)".     *)
NorthOpens ==
  (spc = "recvMove" /\ game.gameNumber = 1 /\ serving = First) =>
    (serving = 1) = ~player1Sud
=============================================================================
