------------------------------- MODULE Match -------------------------------
(***************************************************************************)
(* A match: the server and two of the repository's own clients, any of     *)
(* which may crash or be too slow at any time.                             *)
(***************************************************************************)
EXTENDS Serveur, Client

vars == <<serverVars, client, netVars>>

TypeOK == NetTypeOK /\ ServerTypeOK /\ ClientTypeOK

Init == NetInit /\ ServerInit /\ ClientInit

ServerStep == ServerNext /\ UNCHANGED client

ClientNext(p) == (ClientStep(p) \/ Crash(p)) /\ UNCHANGED serverVars

(* Every process has left: the only state in which nothing can happen.     *)
Terminated ==
  /\ spc = "exit"
  /\ \A p \in Players : link[p] = "down"
  /\ UNCHANGED vars

Next == ServerStep \/ (\E p \in Players : ClientNext(p)) \/ Terminated

Spec == Init /\ [][Next]_vars

(* The server never stays at a call that can return, and a client that can *)
(* take a step takes it, or crashes; before the match the clients are      *)
(* started and their AI answers sooner or later.                           *)
ClientFairness(p) == WF_vars(ClientStep(p) /\ UNCHANGED serverVars)

FairSpec == Spec /\ WF_vars(ServerStep) /\ \A p \in Players : ClientFairness(p)

-----------------------------------------------------------------------------
(* The client p once it has read everything the server has sent it.        *)
Drained(c, q) ==
  CASE Len(q) = 0 -> c
    [] Len(q) = 1 -> Handle(c, q[1])
    [] Len(q) = 2 -> Handle(Handle(c, q[1]), q[2])
    [] Len(q) = 3 -> Handle(Handle(Handle(c, q[1]), q[2]), q[3])
    [] Len(q) = 4 -> Handle(Handle(Handle(Handle(c, q[1]), q[2]), q[3]), q[4])
    [] OTHER -> [c EXCEPT !.loc = "garbled"]

UpToDate(p) == Drained(client[p], toClient[p])

(* The games that a client in state c counts as its own.                   *)
Wins(c) == (IF c.win[1] THEN 1 ELSE 0) + (IF c.win[2] THEN 1 ELSE 0)

(* The streams carry no tags: a client never reads a structure where       *)
(* another one was sent, however far the server has got ahead of it.       *)
NeverGarbled == \A p \in Players : client[p].loc # "garbled"

(* The move the server is about to have judged belongs to the game being   *)
(* played, and its sender holds the side the referee expects to move.      *)
MoveAdmissible ==
  (spc = "recvMove" /\ toServer[serving] # <<>>) =>
    LET m == Head(toServer[serving])
    IN /\ m.kind = "CoupReq"
       /\ m.numPartie = game.gameNumber
       /\ m.sens = Facing(referee, Joueur)

(* The server never waits for a player who is waiting too: who it waits    *)
(* for has moved, or will be asked for a move once it has read its stream. *)
WaitsForTheMover ==
  (spc = "recvMove" /\ toServer[serving] = <<>>) =>
    UpToDate(serving).loc = "askAI"

(* The two AIs are never both at work for the same turn.                   *)
OneAtWork == \E p \in Players : client[p].loc # "askAI"

(* No game is won by both clients, whichever of the two verdicts each of   *)
(* them computed it from.                                                  *)
OneWinnerPerGame ==
  \A n \in 1..2 : \E p \in Players : ~client[p].win[n]

(* A client that played both games to the end counts the points that the   *)
(* server gave it.                                                         *)
SameScore ==
  (spc = "exit" /\ result.announced /\ result.forfeit = 0) =>
    \A p \in Players : client[p].loc = "done" => Wins(client[p]) = game.score[p]

(* Nobody who has played both games and left is blamed for having left.    *)
FinishedNotBlamed ==
  \A p \in Players : client[p].loc = "done" => result.forfeit # p

(* The match ends, whoever crashes or falls asleep.                        *)
MatchEnds == <>(spc = "exit")

(* And so does every client: nobody is left waiting for a message.         *)
ClientsEnd == <>(\A p \in Players : link[p] = "down")

(* What a client may still do: read each structure it was sent, with the   *)
(* call that one leads to, connect, ask for the match, and leave.          *)
ClientStepsLeft(p) ==
  2 * Len(toClient[p])
    + (CASE client[p].loc = "connect" -> 2
         [] client[p].loc \in {"sendPartie", "askAI"} -> 1
         [] OTHER -> 0)
    + (IF link[p] = "down" THEN 0 ELSE 1)

StepsLeft == 3 * CallsLeft + ClientStepsLeft(1) + ClientStepsLeft(2)

(* The three processes together never go round in circles: each step of    *)
(* any of them, a crash included, uses up one of a number of steps that    *)
(* depends on NB_COUP_MAX alone.                                           *)
StepsRunOut == [][StepsLeft' \in 0..(StepsLeft - 1)]_vars
=============================================================================
