------------------------------- MODULE Client -------------------------------
(***************************************************************************)
(* The player's client, Client/client.c and Client/libClient.c, two of     *)
(* which take part in a match.  Each stands between the server and an AI   *)
(* of its own; here the AI answers with some move after some time (what    *)
(* the moves are is the referee's business, and a free choice there).      *)
(*                                                                         *)
(* The client's program points are its calls of connect, send and recv on  *)
(* the server's socket.  The two loops of main, one per game, and the two  *)
(* branches of each, one per orientation, reduce to one cycle: ask the AI  *)
(* for a move and send it, read the answer, read the answer to the         *)
(* opponent's move, read that move.  The orientation chooses where in the  *)
(* cycle a game begins.                                                    *)
(***************************************************************************)
EXTENDS Reseau

VARIABLE client     \* client[p]: program point, orientation, nbPartie, wins

Reading == {"partieRep", "coupRep", "enemyRep", "enemyMove"}

Clients == [loc : {"connect", "sendPartie", "askAI", "done", "garbled"}
                    \union Reading,
            sens : TSensTetePiece,
            nbPartie : 1..3,
            win : [1..2 -> BOOLEAN]]      \* winFirstGame and winSecondGame

ClientTypeOK == client \in [Players -> Clients]

ClientInit ==
  client = [p \in Players |->
              [loc |-> "connect", sens |-> "SUD", nbPartie |-> 1,
               win |-> [n \in 1..2 |-> FALSE]]]

-----------------------------------------------------------------------------
(* Mutant: nbPartie is not increased at the end of a game.                 *)
GameOver_SameNumber(c, won) ==
  [c EXCEPT !.win = [n \in 1..2 |-> c.win[n] \/ (n = c.nbPartie /\ won)],
            !.loc = IF c.sens = "NORD" THEN "askAI" ELSE "enemyRep"]

(* Mutant: the second game begins like the first, with a move for the AI.  *)
GameOver_BothOpen(c, won) ==
  [c EXCEPT !.win = [n \in 1..2 |-> c.win[n] \/ (n = c.nbPartie /\ won)],
            !.nbPartie = @ + 1,
            !.loc = IF c.nbPartie = 2 THEN "done" ELSE "askAI"]

(* The main loops after a game: the one who was SUD opens the first game,  *)
(* the one who was NORD the second, and after it the client is done.       *)
GameOver(c, won) ==
  [c EXCEPT !.win = [n \in 1..2 |-> c.win[n] \/ (n = c.nbPartie /\ won)],
            !.nbPartie = @ + 1,
            !.loc = IF c.nbPartie = 2 THEN "done"
                    ELSE IF c.sens = "NORD" THEN "askAI" ELSE "enemyRep"]

(* The answer to sendPartieGetRep(): the orientation, "OK" or the other.   *)
Orientation(c, rep) ==
  IF rep.validSensTete = "OK" THEN [c EXCEPT !.sens = "SUD", !.loc = "askAI"]
  ELSE [c EXCEPT !.sens = "NORD", !.loc = "enemyRep"]

(* The answer to sendCoupGetRep(), about the client's own move.            *)
OwnMoveJudged(c, rep) ==
  IF rep.propCoup = "CONT" THEN [c EXCEPT !.loc = "enemyRep"]
  ELSE GameOver(c, rep.propCoup = "GAGNE")

(* Mutant: the verdict is taken for one about the client's own move.       *)
EnemyMoveJudged_OwnVerdict(c, res) ==
  IF res.propCoup = "CONT" THEN [c EXCEPT !.loc = "enemyMove"]
  ELSE GameOver(c, res.propCoup = "GAGNE")

(* The first recv of readEnnemyAction(); it reads the opponent's move only *)
(* when the game goes on.                                                  *)
EnemyMoveJudged(c, res) ==
  IF res.propCoup = "CONT" THEN [c EXCEPT !.loc = "enemyMove"]
  ELSE GameOver(c, res.propCoup = "PERDU")

(* The client c once it has read m.  A client that reads a structure other *)
(* than the one it expects is out of step with the stream for good.        *)
Handle(c, m) ==
  CASE c.loc = "partieRep" /\ m.kind = "PartieRep" -> Orientation(c, m)
    [] c.loc = "coupRep" /\ m.kind = "CoupRep" -> OwnMoveJudged(c, m)
    [] c.loc = "enemyRep" /\ m.kind = "CoupRep" -> EnemyMoveJudged(c, m)
    [] c.loc = "enemyMove" /\ m.kind = "CoupReq" -> [c EXCEPT !.loc = "askAI"]
    [] OTHER -> [c EXCEPT !.loc = "garbled"]

(* The two requests: the client always asks for the south.                 *)
PartieRequest == [kind |-> "PartieReq", idReq |-> "PARTIE", piece |-> "SUD"]

(* Mutant: the number of the next game is sent.                            *)
convertAItoServer_Next(c) ==
  [kind |-> "CoupReq", numPartie |-> c.nbPartie + 1, sens |-> c.sens]

convertAItoServer(c) ==
  [kind |-> "CoupReq", numPartie |-> c.nbPartie, sens |-> c.sens]

-----------------------------------------------------------------------------
ConnectToServer(p) ==
  /\ client[p].loc = "connect"
  /\ Connect(p)
  /\ client' = [client EXCEPT ![p].loc = "sendPartie"]
  /\ UNCHANGED <<toServer, toClient, serverUp>>

SendPartie(p) ==
  /\ link[p] = "up"
  /\ client[p].loc = "sendPartie"
  /\ SendToServer(p, PartieRequest)
  /\ client' = [client EXCEPT ![p].loc = "partieRep"]
  /\ UNCHANGED <<toClient, link, serverUp>>

(* Mutant: the client goes on asking its AI without waiting for an answer. *)
SendCoup_NoWait(p) ==
  /\ link[p] = "up"
  /\ client[p].loc = "askAI"
  /\ SendToServer(p, convertAItoServer(client[p]))
  /\ UNCHANGED <<client, toClient, link, serverUp>>

(* The AI has answered: its move is converted and sent.                    *)
SendCoup(p) ==
  /\ link[p] = "up"
  /\ client[p].loc = "askAI"
  /\ SendToServer(p, convertAItoServer(client[p]))
  /\ client' = [client EXCEPT ![p].loc = "coupRep"]
  /\ UNCHANGED <<toClient, link, serverUp>>

(* One of the recv calls returns a structure; after the second game main   *)
(* prints the results and closes its sockets.                              *)
Receive(p) ==
  /\ link[p] = "up"
  /\ client[p].loc \in Reading
  /\ toClient[p] # <<>>
  /\ client' = [client EXCEPT ![p] = Handle(@, Head(toClient[p]))]
  /\ toClient' = [toClient EXCEPT ![p] = Tail(@)]
  /\ link' = [link EXCEPT ![p] =
                IF client'[p].loc = "done" THEN "down" ELSE "up"]
  /\ UNCHANGED <<toServer, serverUp>>

(* Mutant: the result of recv is not checked.                              *)
LoseServer_Unchecked(p) ==
  /\ link[p] = "up"
  /\ ~serverUp
  /\ client[p].loc \notin Reading
  /\ link' = [link EXCEPT ![p] = "down"]
  /\ UNCHANGED <<client, toServer, toClient, serverUp>>

(* checkRecvrError() and checkSendError(): the server has gone, the client *)
(* exits.  Its last state is kept, for it can no longer change.            *)
LoseServer(p) ==
  /\ link[p] = "up"
  /\ ~serverUp
  /\ client[p].loc \in Reading => toClient[p] = <<>>
  /\ link' = [link EXCEPT ![p] = "down"]
  /\ UNCHANGED <<client, toServer, toClient, serverUp>>

(* The client dies for a reason of its own, at any point.                  *)
Crash(p) ==
  /\ link[p] = "up"
  /\ link' = [link EXCEPT ![p] = "down"]
  /\ UNCHANGED <<client, toServer, toClient, serverUp>>

ClientStep(p) ==
  ConnectToServer(p) \/ SendPartie(p) \/ SendCoup(p) \/ Receive(p) \/ LoseServer(p)
=============================================================================
