------------------------------ MODULE MatchIA ------------------------------
(***************************************************************************)
(* A match with the AIs behind the clients.  Each step of a client of      *)
(* module Match becomes that step together with what the client says to    *)
(* its AI, or hears from it, before its next call on the server's socket.  *)
(***************************************************************************)
EXTENDS Match, LienIA

VARIABLE lastCoup   \* lastCoup[p]: typeCoup of the last move p has sent;
                    \* the opponent is sent it before p can send another

allVars == <<vars, iaVars, lastCoup>>

IAMatchTypeOK ==
  /\ TypeOK
  /\ IATypeOK
  /\ lastCoup \in [Players -> {DEPLACER, DEPOSER}]

IAMatchInit ==
  Init /\ IAInit /\ lastCoup = [p \in Players |-> DEPLACER]

-----------------------------------------------------------------------------
(* Mutant: finPartie is taken for what protocoleIa.h calls it, "Game       *)
(* number".                                                                *)
News_GameNumber(c, d, enemyCoup) ==
  CASE c.loc = "partieRep" -> <<IF d.sens = "SUD" THEN 1 ELSE 0>>
    [] c.loc = "enemyMove" -> TCoupIa(0, enemyCoup)
    [] d.nbPartie # c.nbPartie -> TCoupIa(d.nbPartie, Data)
    [] OTHER -> <<>>

(* Mutant: the AI is not told that its own move has ended the game.        *)
News_EnemyOnly(c, d, enemyCoup) ==
  CASE c.loc = "partieRep" -> <<IF d.sens = "SUD" THEN 1 ELSE 0>>
    [] c.loc = "enemyMove" -> TCoupIa(0, enemyCoup)
    [] c.loc = "enemyRep" /\ d.nbPartie # c.nbPartie -> TCoupIa(1, Data)
    [] OTHER -> <<>>

(* What a client in state c that has moved on to state d tells its AI: its *)
(* orientation, the opponent's move, or that the game is over, with a move *)
(* that may never have been written.                                       *)
News(c, d, enemyCoup) ==
  CASE c.loc = "partieRep" -> <<IF d.sens = "SUD" THEN 1 ELSE 0>>
    [] c.loc = "enemyMove" -> TCoupIa(0, enemyCoup)
    [] d.nbPartie # c.nbPartie -> TCoupIa(1, Data)
    [] OTHER -> <<>>

ReceiveAndTell(p) ==
  /\ Receive(p)
  /\ Tell(p, News(client[p], client'[p], lastCoup[Other(p)]))
  /\ UNCHANGED <<ai, fromAI, lastCoup>>

(* The typeCoup of what getCoupFromAI() returns: an AI sends displacements *)
(* only (Prolog.generateMove); when it is gone and the buffer holds one,   *)
(* the client exits on the missing flag.  Another team's is free to drop.  *)
Chosen(p) == IF p \in Droppers THEN {DEPLACER, DEPOSER}
             ELSE IF p \in Own /\ fromAI[p] = <<>> THEN {DEPOSER} ELSE {DEPLACER}

AskAI(p) ==
  /\ SendCoup(p)
  /\ GetCoup(p)
  /\ \E typeCoup \in Chosen(p) : lastCoup' = [lastCoup EXCEPT ![p] = typeCoup]
  /\ UNCHANGED <<ai, toAI>>

(* The client learns that the server has gone from a call on its socket,   *)
(* so never while it is waiting for its AI.                                *)
LoseServerIA(p) ==
  /\ LoseServer(p)
  /\ IF client[p].loc = "askAI" THEN GetCoup(p) ELSE UNCHANGED fromAI
  /\ UNCHANGED <<ai, toAI, lastCoup>>

ClientIAStep(p) ==
  \/ (ConnectToServer(p) \/ SendPartie(p)) /\ UNCHANGED <<iaVars, lastCoup>>
  \/ ReceiveAndTell(p)
  \/ AskAI(p)
  \/ LoseServerIA(p)

ClientIANext(p) ==
  /\ ClientIAStep(p) \/ (Crash(p) /\ UNCHANGED <<iaVars, lastCoup>>)
  /\ UNCHANGED serverVars

AINext(p) == AIStep(p, link[p] = "down") /\ UNCHANGED <<vars, lastCoup>>

AIDies(p) == Die(p) /\ UNCHANGED <<vars, lastCoup>>

IAServerStep == ServerStep /\ UNCHANGED <<iaVars, lastCoup>>

AllTerminated ==
  /\ Terminated
  /\ \A p \in Players : ~Alive(p)
  /\ UNCHANGED <<iaVars, lastCoup>>

IAMatchNext ==
  \/ IAServerStep
  \/ \E p \in Players : ClientIANext(p) \/ AINext(p) \/ AIDies(p)
  \/ AllTerminated

IAMatchSpec == IAMatchInit /\ [][IAMatchNext]_allVars

(* As in Match, and the AI's search ends: it is finite.  Nobody promises   *)
(* that an AI is told something.                                           *)
FairIAMatchSpec ==
  /\ IAMatchSpec
  /\ WF_allVars(IAServerStep)
  /\ \A p \in Players :
       /\ WF_allVars(ClientIAStep(p) /\ UNCHANGED serverVars)
       /\ WF_allVars(AINext(p))

-----------------------------------------------------------------------------
(* Nothing has made p drop a piece: it is not of a team that does, and its *)
(* AI has not died, which makes its client send what its buffer holds.     *)
Displaces(p) == p \notin Droppers /\ ai[p].loc # "dead"

(* The players whose AI can understand all it has been told.               *)
WellTold == {p \in Players : Displaces(Other(p))}

(* The AI reads words where the client wrote structures: as long as its    *)
(* opponent displaces, each of its reads begins where a structure does.    *)
WordsInStep ==
  \A p \in WellTold : ai[p].loc = "read" => Len(toAI[p]) % Size = 0

(* As long as the opponent displaces, the move that a client takes from    *)
(* its AI was chosen in the game the client is playing, on a board that    *)
(* holds every move the referee has judged in it, and no other.            *)
MoveIsFresh ==
  spc # "exit" =>
    \A p \in WellTold : client[p].loc = "askAI" /\ fromAI[p] # <<>> =>
      Head(fromAI[p]) =
        [partie |-> client[p].nbPartie,
         coups |-> IF referee.partieCree THEN referee.numCoup ELSE 0]

(* The AI is never ahead of its client: what it has chosen is the next     *)
(* move that its client will ask for, as long as its opponent displaces.   *)
OneMoveAtATime ==
  \A p \in WellTold :
      /\ Len(fromAI[p]) <= 1
      /\ ai[p].loc = "think" => fromAI[p] = <<>>
      /\ fromAI[p] # <<>> => client[p].loc = "askAI"

(* A client and its AI that wait for each other.                           *)
BothWait(p) ==
  /\ link[p] = "up"
  /\ client[p].loc = "askAI" /\ fromAI[p] = <<>>
  /\ ai[p].loc = "read" /\ toAI[p] = <<>>

(* With an opponent who displaces they do only if the AI does not open the *)
(* second game, and was not told the first move of it: no other move is    *)
(* ever lost.                                                              *)
OnlyFirstMoveLost ==
  \A p \in WellTold : BothWait(p) =>
      ai[p].nbPartie = 2 /\ ai[p].sens /\ ai[p].coups = 0

(* Every client ends, except one that has lost that move.                  *)
ClientsEndOrStarve ==
  <>(\A p \in Players : link[p] = "down" \/ BothWait(p))

(* An AI does not outlive its client.                                      *)
AIEnds == \A p \in Own : (link[p] = "down") ~> ~Alive(p)

(* What an AI may still do: read the words it was sent, with the thought   *)
(* or the change of game that a read leads to, and exit.                   *)
AIStepsLeft(p) ==
  3 * Len(toAI[p])
    + (CASE ai[p].loc = "skip" -> 2
         [] ai[p].loc = "think" -> 1
         [] OTHER -> 0)
    + (IF Alive(p) THEN 1 ELSE 0)

(* A step of a client tells its AI at most one structure, of eight words.  *)
AllStepsLeft == 25 * StepsLeft + AIStepsLeft(1) + AIStepsLeft(2)

(* The AIs, out of step with their clients or not, never keep each other,  *)
(* their clients and the server going: each step of any process uses up    *)
(* one of a number of steps that depends on NB_COUP_MAX alone.             *)
AllStepsRunOut == [][AllStepsLeft' \in 0..(AllStepsLeft - 1)]_allVars
=============================================================================
