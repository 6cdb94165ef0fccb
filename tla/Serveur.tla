------------------------------ MODULE Serveur ------------------------------
(***************************************************************************)
(* The game server, Serveur/serveur.c and Serveur/libServeur.c: a          *)
(* single-threaded process that accepts two clients, gives each its        *)
(* orientation and referees two games between them.                        *)
(*                                                                         *)
(* Its program points are the blocking or failing calls, recv and send:    *)
(* what lies between two of them touches nothing another process sees and  *)
(* belongs to the action of the call before it.                            *)
(***************************************************************************)
EXTENDS Reseau, Referee

VARIABLES
  spc,          \* the call the server is at
  serving,      \* the player whose message that call is about
  game,         \* TPartie: games begun, points, and the "move counter"
  player1Sud,   \* player 1 was given the south
  requests,     \* player1 and player2: the TPartieReq of each client
  moveReq,      \* the move being processed,
  moveRep,      \* the answer to it,
  propCoup,     \* and main's local copy of the referee's verdict
  result,       \* what endGame printed, and whom checkXxxError blamed
  referee       \* state of the referee library

serverVars == <<spc, serving, game, player1Sud, requests, moveReq, moveRep,
                propCoup, result, referee>>

(* main's locals, none of which changes while the match is being set up.   *)
moveVars == <<moveReq, moveRep, propCoup>>

Sending == {"sendAnswers", "sendToMover", "sendToOther", "sendMove"}

Receiving == {"recvPartie", "recvMove"}

ServerTypeOK ==
  /\ spc \in {"accept", "endOfGame", "exit"} \union Sending \union Receiving
  /\ serving \in Players
  /\ game \in [gameNumber : 1..3, score : [Players -> 0..2], nbStrike : Nat]
  /\ player1Sud \in BOOLEAN
  /\ requests \in [Players -> TPartieReq]
  /\ moveReq \in TCoupReq
  /\ moveRep \in TCoupRep
  /\ propCoup \in TPropCoup
  /\ result \in [announced : BOOLEAN, winner : 0..2, forfeit : 0..2]
  /\ referee \in RefereeStates

(* The structures main leaves uninitialised (requests, moveReq, moveRep,   *)
(* propCoup) are written before they are read: any value of the type does. *)
ServerInit ==
  /\ spc = "accept"
  /\ serving = 1
  /\ game = [gameNumber |-> 1, score |-> [p \in Players |-> 0],
             nbStrike |-> 0]
  /\ player1Sud = FALSE
  /\ requests = [p \in Players |->
                   [kind |-> "PartieReq", idReq |-> "COUP", piece |-> "NORD"]]
  /\ moveReq = [kind |-> "CoupReq", numPartie |-> 1, sens |-> "NORD"]
  /\ moveRep = [kind |-> "CoupRep", err |-> "ERR_TYP", validCoup |-> "TIMEOUT",
                propCoup |-> "CONT"]
  /\ propCoup = "CONT"
  /\ result = [announced |-> FALSE, winner |-> 0, forfeit |-> 0]
  /\ referee = RefereeInit

-----------------------------------------------------------------------------
(* Mutant: the sides are not exchanged for the second game.                *)
FirstPlayer_Same(sud, number) == IF sud THEN 1 ELSE 2

(* The player who makes the first move of game "number".                   *)
FirstPlayer(sud, number) == IF sud = (number = 1) THEN 1 ELSE 2

First == FirstPlayer(player1Sud, game.gameNumber)

(* The number the server gives the referee for the player it is serving.   *)
Joueur == IF serving = First THEN 1 ELSE 2

Winner(score) == IF score[1] > score[2] THEN 1
                 ELSE IF score[2] > score[1] THEN 2 ELSE 0

Leave == spc' = "exit" /\ serverUp' = FALSE

(* endGame() announces the result of "score" and exits.                    *)
endGame(score, blamed) ==
  /\ result' = [announced |-> TRUE, winner |-> Winner(score),
                forfeit |-> blamed]
  /\ Leave

(* Mutant: the forfeit is worth one game.                                  *)
Forfeit_OnePoint(p) ==
  /\ endGame([game.score EXCEPT ![Other(p)] = 1], p)
  /\ UNCHANGED <<serving, game, player1Sud, requests, moveVars, referee,
                 toServer, toClient, link>>

(* checkRecvrError() and checkSendError() on a failed call: the other      *)
(* player gets two points in a copy of the game, and the match is over.    *)
Forfeit(p) ==
  /\ endGame([game.score EXCEPT ![Other(p)] = 2], p)
  /\ UNCHANGED <<serving, game, player1Sud, requests, moveVars, referee,
                 toServer, toClient, link>>

-----------------------------------------------------------------------------
(* Both calls of accept().                                                 *)
Accept ==
  /\ spc = "accept"
  /\ \A p \in Players : link[p] # "absent"
  /\ spc' = "recvPartie"
  /\ UNCHANGED <<serving, game, player1Sud, requests, moveVars, result,
                 referee, netVars>>

(* The request of player 1, then the one of player 2.                      *)
RecvPartie ==
  /\ spc = "recvPartie"
  /\ toServer[serving] # <<>>
  /\ requests' = [requests EXCEPT ![serving] = Head(toServer[serving])]
  /\ toServer' = [toServer EXCEPT ![serving] = Tail(@)]
  /\ spc' = IF serving = 1 THEN "recvPartie" ELSE "sendAnswers"
  /\ serving' = Other(serving)
  /\ UNCHANGED <<game, player1Sud, moveVars, result, referee, toClient, link,
                 serverUp>>

WellAsked(p) == requests[p].idReq = "PARTIE"

(* The answers sendAnswers() may send to p: it sets one error code when a  *)
(* request is not PARTIE, and sends the other fields as they happen to be. *)
Answers(p) ==
  IF WellAsked(1) /\ WellAsked(2)
  THEN {[kind |-> "PartieRep", err |-> "ERR_OK",
         validSensTete |-> IF p = 1 \/ requests[1].piece # requests[2].piece
                           THEN "OK" ELSE "KO"]}
  ELSE {rep \in TPartieRep :
          (~WellAsked(p) /\ (p = 2 => WellAsked(1))) => rep.err = "ERR_PARTIE"}

SendFirstAnswer ==
  /\ spc = "sendAnswers" /\ serving = 1
  /\ \E rep \in Answers(1) : SendToClient(1, rep)
  /\ serving' = 2
  /\ UNCHANGED <<spc, game, player1Sud, requests, moveVars, result, referee,
                 toServer, link, serverUp>>

(* The second answer, player1Sud from the orientation sendAnswers() found, *)
(* the receive timeouts and initialiserPartie().                           *)
SendSecondAnswer ==
  /\ spc = "sendAnswers" /\ serving = 2
  /\ WellAsked(1) /\ WellAsked(2)
  /\ \E rep \in Answers(2) : SendToClient(2, rep)
  /\ player1Sud' = (requests[1].piece = "SUD")
  /\ referee' = initialiserPartie(referee)
  /\ serving' = FirstPlayer(player1Sud', 1)
  /\ spc' = "recvMove"
  /\ UNCHANGED <<game, requests, moveVars, result, toServer, link, serverUp>>

(* The second answer when a request was not PARTIE: main returns.          *)
RefuseMatch ==
  /\ spc = "sendAnswers" /\ serving = 2
  /\ ~(WellAsked(1) /\ WellAsked(2))
  /\ \E rep \in Answers(2) : SendToClient(2, rep)
  /\ Leave
  /\ UNCHANGED <<serving, game, player1Sud, requests, moveVars, result,
                 referee, toServer, link>>

-----------------------------------------------------------------------------
(* Mutant: a constant of another enumeration, which C accepts.             *)
prepareStrikeAnswer_WrongEnum(validation, moveProp) ==
  [kind |-> "CoupRep",
   err |-> IF validation THEN "ERR_OK" ELSE "TRICHE",
   validCoup |-> IF validation THEN "VALID" ELSE "TRICHE",
   propCoup |-> moveProp]

prepareStrikeAnswer(validation, moveProp) ==
  [kind |-> "CoupRep",
   err |-> IF validation THEN "ERR_OK" ELSE "ERR_COUP",
   validCoup |-> IF validation THEN "VALID" ELSE "TRICHE",
   propCoup |-> moveProp]

(* A move is received, judged by the referee and its answer prepared; only *)
(* then does main turn its own copy of the verdict into a draw.            *)
RecvMove ==
  /\ spc = "recvMove"
  /\ toServer[serving] # <<>>
  /\ moveReq' = Head(toServer[serving])
  /\ toServer' = [toServer EXCEPT ![serving] = Tail(@)]
  /\ \E v \in Verdicts(referee, Joueur, Head(toServer[serving])) :
       /\ referee' = AfterVerdict(referee, v)
       /\ moveRep' = prepareStrikeAnswer(v.valid, v.prop)
       /\ propCoup' = IF game.nbStrike >= MoveLimit THEN "NUL" ELSE v.prop
  /\ spc' = "sendToMover"
  /\ UNCHANGED <<serving, game, player1Sud, requests, result, toClient, link,
                 serverUp>>

(* The three sends of sendStrikeAnswer(): the answer to the mover, the     *)
(* answer to the other player, and the move if the game goes on.           *)
SendToMover ==
  /\ spc = "sendToMover"
  /\ SendToClient(serving, moveRep)
  /\ spc' = "sendToOther"
  /\ UNCHANGED <<serving, game, player1Sud, requests, moveVars, result,
                 referee, toServer, link, serverUp>>

(* Mutant: the move is sent even when it ends the game.                    *)
SendToOther_MoveAlways ==
  /\ spc = "sendToOther"
  /\ SendToClient(Other(serving), moveRep)
  /\ spc' = "sendMove"
  /\ UNCHANGED <<serving, game, player1Sud, requests, moveVars, result,
                 referee, toServer, link, serverUp>>

SendToOther ==
  /\ spc = "sendToOther"
  /\ SendToClient(Other(serving), moveRep)
  /\ spc' = IF moveRep.propCoup = "CONT" THEN "sendMove" ELSE "endOfGame"
  /\ UNCHANGED <<serving, game, player1Sud, requests, moveVars, result,
                 referee, toServer, link, serverUp>>

(* The move counter is increased at the end of the loop's body, once the   *)
(* second player of the game has moved too.                                *)
SendMove ==
  /\ spc = "sendMove"
  /\ SendToClient(Other(serving), moveReq)
  /\ game' = IF serving = First THEN game
             ELSE [game EXCEPT !.nbStrike = @ + 1]
  /\ serving' = Other(serving)
  /\ spc' = "recvMove"
  /\ UNCHANGED <<player1Sud, requests, moveVars, result, referee, toServer,
                 link, serverUp>>

-----------------------------------------------------------------------------
(* Mutant: the mover gets the point of a game it lost.                     *)
NewScore_Swapped ==
  CASE moveRep.propCoup = "GAGNE" -> [game.score EXCEPT ![Other(serving)] = @ + 1]
    [] moveRep.propCoup = "PERDU" -> [game.score EXCEPT ![serving] = @ + 1]
    [] OTHER -> game.score

(* The points once the game that moveRep ends is counted.                  *)
NewScore ==
  CASE moveRep.propCoup = "GAGNE" -> [game.score EXCEPT ![serving] = @ + 1]
    [] moveRep.propCoup = "PERDU" -> [game.score EXCEPT ![Other(serving)] = @ + 1]
    [] OTHER -> game.score

(* Mutant: the counter goes on through the second game.                    *)
NextGame_NoReset ==
  /\ spc = "endOfGame" /\ game.gameNumber = 1
  /\ referee' = initialiserPartie(referee)
  /\ game' = [gameNumber |-> 2, score |-> NewScore,
              nbStrike |-> game.nbStrike + 1]
  /\ serving' = FirstPlayer(player1Sud, 2)
  /\ spc' = "recvMove"
  /\ UNCHANGED <<player1Sud, requests, moveVars, result, netVars>>

(* Mutant: the games are not counted.                                      *)
NextGame_SameNumber ==
  /\ spc = "endOfGame" /\ game.gameNumber = 1
  /\ referee' = initialiserPartie(referee)
  /\ game' = [game EXCEPT !.score = NewScore, !.nbStrike = 1]
  /\ serving' = FirstPlayer(player1Sud, 2)
  /\ spc' = "recvMove"
  /\ UNCHANGED <<player1Sud, requests, moveVars, result, netVars>>

(* The first game is over: the counter is reset, then increased with the   *)
(* loop's body, and the second game begins.                                *)
NextGame ==
  /\ spc = "endOfGame" /\ game.gameNumber = 1
  /\ referee' = initialiserPartie(referee)
  /\ game' = [gameNumber |-> 2, score |-> NewScore, nbStrike |-> 1]
  /\ serving' = FirstPlayer(player1Sud, 2)
  /\ spc' = "recvMove"
  /\ UNCHANGED <<player1Sud, requests, moveVars, result, netVars>>

(* Mutant: the result is announced before the last game is counted.        *)
LastGame_Early ==
  /\ spc = "endOfGame" /\ game.gameNumber = 2
  /\ referee' = initialiserPartie(referee)
  /\ game' = [gameNumber |-> 3, score |-> NewScore, nbStrike |-> 0]
  /\ endGame(game.score, 0)
  /\ UNCHANGED <<serving, player1Sud, requests, moveVars, toServer, toClient,
                 link>>

(* The second game is over: endGame() announces the score and exits.       *)
LastGame ==
  /\ spc = "endOfGame" /\ game.gameNumber = 2
  /\ referee' = initialiserPartie(referee)
  /\ game' = [gameNumber |-> 3, score |-> NewScore, nbStrike |-> 0]
  /\ endGame(NewScore, 0)
  /\ UNCHANGED <<serving, player1Sud, requests, moveVars, toServer, toClient,
                 link>>

-----------------------------------------------------------------------------
(* Mutant: no receive timeout is set.                                      *)
RecvError_NoTimeout ==
  /\ spc \in Receiving
  /\ toServer[serving] = <<>>
  /\ link[serving] = "down"
  /\ Forfeit(serving)

(* Mutant: only a negative result is an error, an orderly close is not.    *)
RecvError_NegativeOnly ==
  /\ spc = "recvMove"
  /\ toServer[serving] = <<>>
  /\ Forfeit(serving)

(* recv() returns no data: the client closed its end, or, once the match   *)
(* has begun, let TIME_MAX seconds go by.                                  *)
RecvError ==
  /\ spc \in Receiving
  /\ toServer[serving] = <<>>
  /\ link[serving] = "down" \/ spc = "recvMove"
  /\ Forfeit(serving)

(* The client a send at this point of the program is addressed to.         *)
Target == IF spc \in {"sendToOther", "sendMove"} THEN Other(serving)
          ELSE serving

(* Mutant: the player whose move is being answered is blamed.              *)
SendError_Mover ==
  /\ spc \in Sending
  /\ link[Target] = "down"
  /\ Forfeit(serving)

(* send() fails on a connection the client has left.                       *)
SendError ==
  /\ spc \in Sending
  /\ link[Target] = "down"
  /\ Forfeit(Target)

(* The same send raises SIGPIPE, which the server does not handle, when    *)
(* the client had closed its end before it was reset.                      *)
KilledBySigpipe ==
  /\ spc \in Sending
  /\ link[Target] = "down"
  /\ Leave
  /\ UNCHANGED <<serving, game, player1Sud, requests, moveVars, result,
                 referee, toServer, toClient, link>>

ServerNext ==
  \/ Accept \/ RecvPartie \/ SendFirstAnswer \/ SendSecondAnswer \/ RefuseMatch
  \/ RecvMove \/ SendToMover \/ SendToOther \/ SendMove
  \/ NextGame \/ LastGame
  \/ RecvError \/ SendError \/ KilledBySigpipe

-----------------------------------------------------------------------------
(* A blamed player loses, even one who had won the first game.             *)
BlamedLoses ==
  result.forfeit # 0 => result.announced /\ result.winner = Other(result.forfeit)

(* The referee plays the same game as the server: who it is told is        *)
(* "player 1" of the game is the one it expects to face SUD in the first   *)
(* game and NORD in the second, and who was given that side.               *)
SameSides ==
  spc = "recvMove" =>
    Facing(referee, Joueur) = (IF player1Sud = (serving = 1) THEN "SUD" ELSE "NORD")

(* main's own copy of the verdict is the one it has put in the answer: the *)
(* draw rule that main applies once the answer is prepared never fires,    *)
(* for its counter is one of rounds, and the referee's draw comes first.   *)
AnswerCarriesVerdict ==
  spc \in {"sendToMover", "sendToOther", "sendMove"} =>
    propCoup = moveRep.propCoup

(* The calls the server may still make before it leaves, at most four for  *)
(* each move that the referee may still judge: the referee counts up to    *)
(* the draw, and main's loop no game twice.                                *)
GameCalls == 4 * (MoveLimit + 1)

MovesJudged == IF spc = "recvMove" THEN OpenGame(referee).numCoup ELSE referee.numCoup

CallsLeft ==
  CASE spc = "exit" -> 0
    [] spc = "accept" -> 2 * GameCalls + 5
    [] spc = "recvPartie" -> 2 * GameCalls + 5 - serving
    [] spc = "sendAnswers" -> 2 * GameCalls + 3 - serving
    [] OTHER -> (2 - game.gameNumber) * GameCalls + 4 * (MoveLimit + 1 - MovesJudged)
                  + CASE spc = "recvMove" -> 0
                      [] spc = "sendToMover" -> 3
                      [] spc = "sendToOther" -> 2
                      [] OTHER -> 1

(* Every step of the server brings its end nearer, whatever it receives:   *)
(* no history of moves, verdicts, failures and changes of game makes main  *)
(* go round for longer than 2 * GameCalls + 5 calls.                       *)
CallsRunOut == [][CallsLeft' \in 0..(CallsLeft - 1)]_serverVars

(* What the server shows of its progress, and the players it may blame:    *)
(* those who have left, and the one whose move it waits for in vain.       *)
Phase == CASE spc \in {"accept", "recvPartie", "sendAnswers"} -> "setup"
           [] spc = "exit" -> "over"
           [] OTHER -> "play"

Missing ==
  {p \in Players :
     \/ link[p] = "down"
     \/ spc = "recvMove" /\ serving = p /\ toServer[p] = <<>>}

(* No match is announced before both games are over, unless somebody is    *)
(* blamed; only one who has left or lets the server wait is blamed, and    *)
(* loses, whatever the points; a match that has begun ends with no result  *)
(* only if one of these is missing: the abstract match.                    *)
Abstract == INSTANCE TwoGames WITH
  phase <- Phase,
  played <- game.gameNumber - 1,
  points <- game.score,
  missing <- Missing,
  winner <- IF result.announced THEN result.winner ELSE 3,
  blamed <- result.forfeit

ImplementsTwoGames == Abstract!TGSpec
=============================================================================
