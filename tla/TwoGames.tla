------------------------------ MODULE TwoGames ------------------------------
(***************************************************************************)
(* What a match promises, whatever the clients do: at most two games, each *)
(* won by one player or drawn, and one result: in favour of the player     *)
(* with more points after two games, or of the opponent of a player who is *)
(* blamed, who then must have left, or be keeping the server waiting.      *)
(***************************************************************************)
EXTENDS Integers

VARIABLES
  phase,    \* "setup" before the first game, "play", or "over"
  played,   \* number of games played to their end
  points,   \* points[p]: games won by p
  missing,  \* the players who have left, or let the server wait for a move
  winner,   \* the announced winner, 0 for a tie, or NoResult
  blamed    \* the player the match was ended for, or 0

matchVars == <<phase, played, points, winner, blamed>>

tgVars == <<matchVars, missing>>

NoResult == 3

TGInit ==
  /\ phase = "setup"
  /\ played = 0
  /\ points = [p \in {1, 2} |-> 0]
  /\ missing = {}
  /\ winner = NoResult
  /\ blamed = 0

Begin ==
  /\ phase = "setup"
  /\ phase' = "play"
  /\ UNCHANGED <<played, points, winner, blamed>>

(* The end of a game; w is its winner, 0 when it is drawn.  The second one *)
(* is announced at once, and nobody is blamed.                             *)
PlayGame(w) ==
  /\ phase = "play"
  /\ played' = played + 1
  /\ points' = [p \in {1, 2} |-> IF p = w THEN points[p] + 1 ELSE points[p]]
  /\ phase' = IF played' = 2 THEN "over" ELSE "play"
  /\ IF played' = 2
     THEN /\ winner' \in 0..2
          /\ \A p \in {1, 2} : winner' = p <=> points'[p] > points'[3 - p]
     ELSE winner' = NoResult
  /\ UNCHANGED blamed

(* The match ends early because p is missing: p is blamed, and loses it    *)
(* whatever the points, which stay as they are.                            *)
GiveUp(p) ==
  /\ phase # "over"
  /\ p \in missing
  /\ phase' = "over"
  /\ winner' = 3 - p
  /\ blamed' = p
  /\ UNCHANGED <<played, points>>

(* The match ends with no result: it is refused before it has begun, or    *)
(* the server does not survive the absence of a player.                    *)
Abandon ==
  /\ phase = "setup" \/ (phase = "play" /\ missing # {})
  /\ phase' = "over"
  /\ UNCHANGED <<played, points, winner, blamed>>

(* Players leave, fall asleep and wake up as they like.                    *)
TGNext ==
  /\ missing' \in SUBSET {1, 2}
  /\ \/ Begin
     \/ \E w \in 0..2 : PlayGame(w)
     \/ \E p \in {1, 2} : GiveUp(p)
     \/ Abandon
     \/ UNCHANGED matchVars

TGSpec == TGInit /\ [][TGNext]_tgVars
=============================================================================
