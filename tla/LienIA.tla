------------------------------- MODULE LienIA -------------------------------
(***************************************************************************)
(* A player's AI, IA/jSicstus.java with the reading and writing of moves   *)
(* in IA/Coup.java, and the connection between it and the client           *)
(* (Client/libClient.c, second half).                                      *)
(*                                                                         *)
(* The client writes whole TCoupIa structures, of eight words each; the AI *)
(* reads single words, and how many depends on the words it reads.  A word *)
(* is therefore an element of the stream: 0 and 1 where it says whether    *)
(* the game is over and what the type of the move is, Data elsewhere.      *)
(* What a whole send writes arrives together.                              *)
(*                                                                         *)
(* The AI writes complete moves and the client reads complete moves: that  *)
(* stream is one of moves.  Of a move it matters here on which position    *)
(* the AI has chosen it.                                                   *)
(***************************************************************************)
EXTENDS ProtocolYokai, Sequences

CONSTANTS
  Own,        \* players whose AI is the repository's
  Mortal,     \* those among them whose AI may die in the middle of a game
  Droppers    \* players of other teams, who may put captured pieces back

ASSUME PlayersAssumption ==
  Own \subseteq Players /\ Mortal \subseteq Own /\ Droppers \subseteq Players \ Own

VARIABLES
  ai,         \* ai[p]: the call it is at, side, game number, moves of it
  toAI,       \* toAI[p]: words the client has sent and the AI not read
  fromAI      \* fromAI[p]: moves the AI has sent and the client not read

iaVars == <<ai, toAI, fromAI>>

DEPLACER == 0
DEPOSER == 1
AUCUN == 2

(* A word that is neither finPartie nor typeCoup: a piece, a column, a     *)
(* line, a capture flag, or what the memory happened to hold.              *)
Data == 9

(* The values with which the AI may take a word it reads.                  *)
Taken(w) == IF w = Data THEN {0, 1, AUCUN} ELSE {w}

TCoupIa(finPartie, typeCoup) == <<finPartie, typeCoup>> \o [i \in 1..6 |-> Data]

Size == Len(TCoupIa(0, DEPLACER))

AIs == [loc : {"readSens", "think", "read", "skip", "off", "dead"},
        sens : BOOLEAN,           \* TRUE: opens the first game
        nbPartie : 1..3,
        coups : Nat]              \* moves on the AI's board

Coups == [partie : 1..3, coups : Nat]

IATypeOK ==
  /\ ai \in [Players -> AIs]
  /\ toAI \in [Players -> Seq({0, 1, Data})]
  /\ fromAI \in [Players -> Seq(Coups)]

(* A player of another team answers with an AI of its own: "off" here.     *)
IAInit ==
  /\ ai = [p \in Players |->
             [loc |-> IF p \in Own THEN "readSens" ELSE "off", sens |-> FALSE,
              nbPartie |-> 1, coups |-> 0]]
  /\ toAI = [p \in Players |-> <<>>]
  /\ fromAI = [p \in Players |-> <<>>]

Alive(p) == ai[p].loc \notin {"off", "dead"}

-----------------------------------------------------------------------------
(* Mutant: the same player opens both games.                               *)
Begin_Same(sens, nbPartie) == IF sens THEN "think" ELSE "read"

(* Where a game begins for the AI: the branches of the two main loops.     *)
Begin(sens, nbPartie) == IF sens = (nbPartie = 1) THEN "think" ELSE "read"

(* readBoolean(); prolog.init() sets up the board.                         *)
ReadSens(p) ==
  /\ ai[p].loc = "readSens"
  /\ toAI[p] # <<>>
  /\ LET sens == Head(toAI[p]) = 1
     IN ai' = [ai EXCEPT ![p].sens = sens, ![p].loc = Begin(sens, 1)]
  /\ toAI' = [toAI EXCEPT ![p] = Tail(@)]
  /\ UNCHANGED fromAI

(* Mutant: the AI does not wait for the opponent's move.                   *)
Think_NoWait(p) ==
  LET coup == [partie |-> ai[p].nbPartie, coups |-> ai[p].coups]
  IN /\ ai[p].loc = "think"
     /\ fromAI' = [fromAI EXCEPT ![p] = Append(@, coup)]
     /\ ai' = [ai EXCEPT ![p].coups = @ + 1]
     /\ UNCHANGED toAI

(* generateMove(), which plays the move on the AI's board, and its sending.*)
Think(p) ==
  LET coup == [partie |-> ai[p].nbPartie, coups |-> ai[p].coups]
  IN /\ ai[p].loc = "think"
     /\ fromAI' = [fromAI EXCEPT ![p] = Append(@, coup)]
     /\ ai' = [ai EXCEPT ![p].loc = "read", ![p].coups = @ + 1]
     /\ UNCHANGED toAI

(* The number of words that readFromNetwork() may read of the stream q for *)
(* a move: all of a structure if it is a displacement, its first five      *)
(* words otherwise.                                                        *)
MoveSizes(q) ==
  {n \in {5, 8} :
     /\ Len(q) >= n
     /\ 0 \in Taken(q[1])
     /\ \E typeCoup \in Taken(q[2]) : n = 8 <=> typeCoup = DEPLACER}

(* readFromNetwork() of a move, and forceEnnemyStrike() to play it.        *)
ReadCoup(p) ==
  /\ ai[p].loc = "read"
  /\ \E n \in MoveSizes(toAI[p]) :
       toAI' = [toAI EXCEPT ![p] = SubSeq(@, n + 1, Len(@))]
  /\ ai' = [ai EXCEPT ![p].loc = "think", ![p].coups = @ + 1]
  /\ UNCHANGED fromAI

(* readFromNetwork() of the end of the game: the first word only.  After   *)
(* the second game the AI shuts down, and nobody reads what is left.       *)
ReadEnd(p) ==
  /\ ai[p].loc = "read"
  /\ toAI[p] # <<>>
  /\ Taken(Head(toAI[p])) # {0}
  /\ toAI' = [toAI EXCEPT ![p] = IF ai[p].nbPartie = 1 THEN Tail(@) ELSE <<>>]
  /\ ai' = [ai EXCEPT ![p].loc = IF ai[p].nbPartie = 1 THEN "skip" ELSE "off",
                      ![p].nbPartie = @ + 1]
  /\ UNCHANGED fromAI

(* Mutant: nothing is skipped between the games.                           *)
Skip_Nothing(p) ==
  /\ ai[p].loc = "skip"
  /\ ai' = [ai EXCEPT ![p].loc = Begin(ai[p].sens, 2), ![p].coups = 0]
  /\ UNCHANGED <<toAI, fromAI>>

(* Mutant: the board is not set up again for the second game.              *)
Skip_OldBoard(p) ==
  /\ ai[p].loc = "skip"
  /\ \E n \in 0..Len(toAI[p]) :
       /\ (Len(toAI[p]) - n) % Size = 0
       /\ toAI' = [toAI EXCEPT ![p] = SubSeq(@, n + 1, Len(@))]
  /\ ai' = [ai EXCEPT ![p].loc = Begin(ai[p].sens, 2)]
  /\ UNCHANGED fromAI

(* skip(available()): whatever has arrived by now is dropped, the rest of  *)
(* the last structure and any number of later ones; then prolog.init().    *)
Skip(p) ==
  /\ ai[p].loc = "skip"
  /\ \E n \in 0..Len(toAI[p]) :
       /\ (Len(toAI[p]) - n) % Size = 0
       /\ toAI' = [toAI EXCEPT ![p] = SubSeq(@, n + 1, Len(@))]
  /\ ai' = [ai EXCEPT ![p].loc = Begin(ai[p].sens, 2), ![p].coups = 0]
  /\ UNCHANGED fromAI

(* Mutant: the exception is caught and the AI goes on reading.             *)
LoseClient_GoesOn(p, closed) ==
  /\ ai[p].loc = "readSens"
  /\ closed
  /\ toAI[p] = <<>>
  /\ ai' = [ai EXCEPT ![p].loc = "off"]
  /\ UNCHANGED <<toAI, fromAI>>

(* A read meets the end of the stream: the IOException makes the AI exit.  *)
LoseClient(p, closed) ==
  /\ ai[p].loc \in {"readSens", "read"}
  /\ closed
  /\ Len(toAI[p]) < Size
  /\ ai' = [ai EXCEPT ![p].loc = "off"]
  /\ toAI' = [toAI EXCEPT ![p] = <<>>]
  /\ UNCHANGED fromAI

AIStep(p, closed) ==
  \/ ReadSens(p) \/ Think(p) \/ ReadCoup(p) \/ ReadEnd(p) \/ Skip(p)
  \/ LoseClient(p, closed)

(* The AI dies in the middle of a game: an exception of Prolog, a word     *)
(* that is no value of its enumeration, or its machine is lost.            *)
Die(p) ==
  /\ p \in Mortal
  /\ Alive(p)
  /\ ai' = [ai EXCEPT ![p].loc = "dead"]
  /\ toAI' = [toAI EXCEPT ![p] = <<>>]
  /\ UNCHANGED fromAI

-----------------------------------------------------------------------------
(* sendCoupToAI() and the sending of the orientation: the result of send() *)
(* is not checked, what is sent to an AI that has gone is lost.            *)
Tell(p, words) ==
  toAI' = IF Alive(p) THEN [toAI EXCEPT ![p] = @ \o words] ELSE toAI

(* Mutant: the loop that reads a word goes on at the end of the stream.    *)
GetCoup_Waits(p) ==
  /\ fromAI[p] # <<>>
  /\ fromAI' = [fromAI EXCEPT ![p] = Tail(@)]

(* getCoupFromAI(), which waits for ever as long as the AI lives.  When it *)
(* is gone the client takes what its buffer holds for a move.              *)
GetCoup(p) ==
  IF fromAI[p] # <<>> THEN fromAI' = [fromAI EXCEPT ![p] = Tail(@)]
  ELSE ~Alive(p) /\ UNCHANGED fromAI
=============================================================================
