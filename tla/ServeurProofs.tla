--------------------------- MODULE ServeurProofs ---------------------------
(***************************************************************************)
(* The inductive invariant of the server, for every value of NB_COUP_MAX   *)
(* and whatever its clients are: the lemmas are about the steps of the     *)
(* server, and about a client's sending the right kind of structure.       *)
(* ServeurOuvertProofs and MatchProofs compose them with clients.          *)
(*                                                                         *)
(* ServerInv adds to the types what the program points imply: which        *)
(* structure comes next in each stream, how the server's game number,      *)
(* counter and points go with the state of the referee, and that nothing   *)
(* is announced before the server leaves.                                  *)
(***************************************************************************)
EXTENDS Serveur, SequenceTheorems, TLAPS

(* The request of p is still to be received.                               *)
Awaited(p) ==
  spc = "accept" \/ (spc = "recvPartie" /\ (serving = 1 \/ p = 2))

(* Something of p has been received, or is there to be: its request is the *)
(* first thing a client sends.                                             *)
Started(p) == ~Awaited(p) \/ toServer[p] # <<>>

(* The stream q of a client holds its request, as long as the server       *)
(* awaits it, and then moves.                                              *)
InOrder(q, awaited) ==
  \A i \in 1..Len(q) :
    q[i] \in (IF awaited /\ i = 1 THEN TPartieReq ELSE TCoupReq)

StreamInv ==
  spc # "exit" => \A p \in Players : InOrder(toServer[p], Awaited(p))

(* Before the first game.                                                  *)
Setup == {"accept", "recvPartie", "sendAnswers"}

SetupInv ==
  spc \in Setup =>
    /\ game.gameNumber = 1 /\ game.nbStrike = 0
    /\ ~referee.partieCree /\ referee.numPartie = 0
    /\ spc = "accept" => serving = 1

(* Moves played in the current game according to the referee, and          *)
(* according to the server's counter of rounds and its turn.               *)
Played == IF referee.partieCree THEN referee.numCoup ELSE 0

Turns == 2 * (game.nbStrike - (game.gameNumber - 1)) + (Joueur - 1)

(* The referee's game is the server's: it is the same one of the two, with *)
(* the same side to open it, and counts the same moves.                    *)
SameGame ==
  /\ referee.partieCree =>
       /\ referee.numPartie = 1
       /\ referee.sens = (IF game.gameNumber = 1 THEN "SUD" ELSE "NORD")
  /\ spc = "recvMove" /\ ~referee.partieCree =>
       referee.numPartie = game.gameNumber - 1

RefereeInv ==
  /\ spc = "recvMove" =>
       SameGame /\ Played = Turns /\ Played <= MoveLimit
  /\ spc \in {"sendToMover", "sendToOther", "sendMove", "endOfGame"} =>
       /\ SameGame
       /\ referee.numPartie = 1
       /\ propCoup = moveRep.propCoup
       /\ referee.partieCree <=> (moveRep.propCoup = "CONT")
       /\ moveRep.propCoup = "CONT" =>
            Played = Turns + 1 /\ Played <= MoveLimit
  /\ spc = "sendMove" => moveRep.propCoup = "CONT"
  /\ spc = "endOfGame" => moveRep.propCoup # "CONT"

(* Nothing is announced before the end; at most one point per game.        *)
ResultInv ==
  /\ serverUp <=> (spc # "exit")
  /\ spc # "exit" =>
       /\ ~result.announced /\ result.forfeit = 0
       /\ game.gameNumber <= 2
       /\ game.score[1] + game.score[2] <= game.gameNumber - 1

TypesOK == NetTypeOK /\ ServerTypeOK

ServerInv ==
  TypesOK /\ StreamInv /\ SetupInv /\ RefereeInv /\ ResultInv /\ BlamedLoses

-----------------------------------------------------------------------------
(* The server reads a structure of the type it expects, and what follows   *)
(* it are moves.                                                           *)
LEMMA ReadInOrder ==
  ASSUME NEW q \in Seq(TPartieReq \union TCoupReq), q # <<>>,
         NEW awaited \in BOOLEAN, InOrder(q, awaited)
  PROVE  /\ Head(q) \in (IF awaited THEN TPartieReq ELSE TCoupReq)
         /\ Tail(q) \in Seq(TPartieReq \union TCoupReq)
         /\ InOrder(Tail(q), FALSE)
<1>1. Len(q) \in Nat /\ Len(q) > 0
  BY EmptySeq
<1>2. Tail(q) \in Seq(TPartieReq \union TCoupReq) /\ Len(Tail(q)) = Len(q) - 1
  BY HeadTailProperties
<1>3. Head(q) \in (IF awaited THEN TPartieReq ELSE TCoupReq)
  BY <1>1 DEF InOrder
<1>4. ASSUME NEW i \in 1..Len(Tail(q)) PROVE Tail(q)[i] \in TCoupReq
  <2>1. i + 1 \in 1..Len(q) /\ i + 1 # 1
    BY <1>1, <1>2
  <2>2. Tail(q)[i] = q[i + 1]
    BY HeadTailProperties
  <2> QED
    BY <2>1, <2>2 DEF InOrder
<1> QED
  BY <1>2, <1>3, <1>4 DEF InOrder

(* A client that sends its request first and then moves keeps the order.   *)
LEMMA SendInOrder ==
  ASSUME NEW q \in Seq(TPartieReq \union TCoupReq),
         NEW awaited \in BOOLEAN, InOrder(q, awaited),
         NEW m \in (IF ~awaited \/ q # <<>> THEN TCoupReq ELSE TPartieReq)
  PROVE  /\ Append(q, m) \in Seq(TPartieReq \union TCoupReq)
         /\ InOrder(Append(q, m), awaited)
         /\ Append(q, m) # <<>>
<1>1. m \in TPartieReq \union TCoupReq
  OBVIOUS
<1>2. /\ Append(q, m) \in Seq(TPartieReq \union TCoupReq)
      /\ Len(Append(q, m)) = Len(q) + 1
  BY <1>1
<1>3. Append(q, m) # <<>>
  BY <1>2
<1>4. ASSUME NEW i \in 1..Len(Append(q, m))
      PROVE  Append(q, m)[i] \in (IF awaited /\ i = 1 THEN TPartieReq ELSE TCoupReq)
  <2>1. CASE i = Len(q) + 1
    <3>1. Append(q, m)[i] = m
      BY <2>1, <1>1
    <3>2. q # <<>> => i # 1
      BY <2>1, EmptySeq
    <3>3. q = <<>> => i = 1
      BY <2>1
    <3> QED
      BY <3>1, <3>2, <3>3
  <2>2. CASE i # Len(q) + 1
    <3>1. i \in 1..Len(q) /\ Append(q, m)[i] = q[i]
      BY <2>2, <1>1, <1>2
    <3> QED
      BY <3>1 DEF InOrder
  <2> QED
    BY <2>1, <2>2
<1> QED
  BY <1>2, <1>3, <1>4 DEF InOrder

-----------------------------------------------------------------------------
(* The invariant holds when the server starts listening.                   *)
THEOREM ServerInitInv == NetInit /\ ServerInit => ServerInv
<1> SUFFICES ASSUME NetInit, ServerInit PROVE ServerInv
  OBVIOUS
<1> USE DEF NetInit, ServerInit
<1>1. NetTypeOK
  BY DEF NetTypeOK, Players
<1>2. ServerTypeOK
  <2>1. referee \in RefereeStates
    BY NbCoupMaxAssumption DEF RefereeInit, RefereeStates, MoveLimit, TSensTetePiece
  <2>2. requests \in [Players -> TPartieReq] /\ moveReq \in TCoupReq
    BY DEF TPartieReq, TCoupReq, TIdReq, TSensTetePiece
  <2>3. moveRep \in TCoupRep /\ propCoup \in TPropCoup
    BY DEF TCoupRep, TPropCoup, TCodeRep, TValCoup
  <2>4. game \in [gameNumber : 1..3, score : [Players -> 0..2], nbStrike : Nat]
    OBVIOUS
  <2> QED
    BY <2>1, <2>2, <2>3, <2>4 DEF ServerTypeOK, Sending, Receiving, Players
<1>3. TypesOK
  BY <1>1, <1>2 DEF TypesOK
<1>4. StreamInv
  <2>1. \A p \in Players : toServer[p] = <<>>
    OBVIOUS
  <2> QED
    BY <2>1 DEF StreamInv, InOrder
<1>5. SetupInv /\ RefereeInv
  BY DEF SetupInv, RefereeInv, RefereeInit
<1>6. ResultInv /\ BlamedLoses
  <2>1. game.score[1] + game.score[2] <= game.gameNumber - 1
    BY DEF Players
  <2> QED
    BY <2>1 DEF ResultInv, BlamedLoses
<1> QED
  BY <1>3, <1>4, <1>5, <1>6 DEF ServerInv

-----------------------------------------------------------------------------

(* The actions of the server, in the program's order.                      *)
LEMMA AcceptInv ==
  ASSUME ServerInv, Accept
  PROVE  ServerInv'
<1> USE DEF Accept, ServerInv
<1>1. TypesOK'
  BY DEF TypesOK, NetTypeOK, ServerTypeOK, netVars, moveVars, Sending, Receiving, Players
<1>2. StreamInv'
  BY DEF StreamInv, InOrder, SetupInv, Setup, Awaited, netVars
<1>3. (SetupInv /\ RefereeInv)'
  BY DEF SetupInv, Setup, RefereeInv, moveVars
<1>4. (ResultInv /\ BlamedLoses)'
  BY DEF ResultInv, BlamedLoses, netVars
<1> QED
  BY <1>1, <1>2, <1>3, <1>4

(* A request for a match is received.                                      *)
LEMMA RecvPartieInv ==
  ASSUME ServerInv, RecvPartie
  PROVE  ServerInv'
<1> USE DEF RecvPartie, ServerInv
<1>1. /\ toServer \in [Players -> Seq(TPartieReq \union TCoupReq)]
      /\ serving \in Players
  BY DEF TypesOK, NetTypeOK, ServerTypeOK
<1>2. /\ InOrder(toServer[serving], TRUE)
      /\ Awaited(serving)
  BY <1>1 DEF StreamInv, Awaited, Players
<1>3. /\ Head(toServer[serving]) \in TPartieReq
      /\ Tail(toServer[serving]) \in Seq(TPartieReq \union TCoupReq)
      /\ InOrder(Tail(toServer[serving]), FALSE)
  BY <1>1, <1>2, ReadInOrder
<1>4. TypesOK'
  <2>1. serving' \in Players
    BY <1>1 DEF Players, Other
  <2>2. requests' \in [Players -> TPartieReq]
    BY <1>1, <1>3 DEF TypesOK, ServerTypeOK
  <2>3. toServer' \in [Players -> Seq(TPartieReq \union TCoupReq)]
    BY <1>1, <1>3
  <2> QED
    BY <2>1, <2>2, <2>3
    DEF TypesOK, NetTypeOK, ServerTypeOK, moveVars, Sending, Receiving
<1>5. StreamInv'
  <2>1. ASSUME NEW p \in Players PROVE InOrder(toServer'[p], Awaited(p)')
    <3>1. CASE p = serving
      <4>1. Awaited(p)' = FALSE
        BY <1>1, <3>1 DEF Awaited, Players, Other
      <4> QED
        BY <1>1, <1>3, <3>1, <4>1
    <3>2. CASE p # serving
      <4>1. Awaited(p)' = Awaited(p)
        BY <1>1, <3>2 DEF Awaited, Players, Other
      <4> QED
        BY <1>1, <3>2, <4>1 DEF StreamInv
    <3> QED
      BY <3>1, <3>2
  <2> QED
    BY <2>1 DEF StreamInv
<1>6. (SetupInv /\ RefereeInv)'
  BY DEF SetupInv, Setup, RefereeInv, moveVars
<1>7. (ResultInv /\ BlamedLoses)'
  BY DEF ResultInv, BlamedLoses
<1> QED
  BY <1>4, <1>5, <1>6, <1>7

(* What a send does to the types.                                          *)
LEMMA SendToClientTypes ==
  ASSUME NetTypeOK, NEW p \in Players,
         NEW m \in TPartieRep \union TCoupRep \union TCoupReq,
         SendToClient(p, m), UNCHANGED <<toServer, link, serverUp>>
  PROVE  NetTypeOK'
<1>1. Append(toClient[p], m) \in Seq(TPartieRep \union TCoupRep \union TCoupReq)
  BY DEF NetTypeOK
<1> QED
  BY <1>1 DEF NetTypeOK, SendToClient

(* The streams when the server reads nothing.                              *)
LEMMA StreamKept ==
  ASSUME StreamInv, spc # "exit", UNCHANGED toServer,
         \A p \in Players : Awaited(p)' = Awaited(p)
  PROVE  StreamInv'
BY DEF StreamInv

(* What sendAnswers may send is an answer to a request.                    *)
LEMMA AnswersType == \A p \in Players : Answers(p) \subseteq TPartieRep
BY DEF Answers, TPartieRep, TCodeRep, TValidSensTete

(* Player 1 is sent its orientation.                                       *)
LEMMA SendFirstAnswerInv ==
  ASSUME ServerInv, SendFirstAnswer
  PROVE  ServerInv'
<1> USE DEF SendFirstAnswer, ServerInv
<1>1. TypesOK'
  <2>1. PICK rep \in Answers(1) : SendToClient(1, rep)
    OBVIOUS
  <2>2. NetTypeOK'
    BY <2>1, AnswersType, SendToClientTypes DEF TypesOK, Players
  <2> QED
    BY <2>2 DEF TypesOK, ServerTypeOK, moveVars, Players
<1>2. StreamInv'
  BY StreamKept DEF Awaited
<1>3. (SetupInv /\ RefereeInv)'
  BY DEF SetupInv, Setup, RefereeInv, moveVars
<1>4. (ResultInv /\ BlamedLoses)'
  BY DEF ResultInv, BlamedLoses
<1> QED
  BY <1>1, <1>2, <1>3, <1>4

(* Player 2 is sent its orientation and the first game begins.             *)
LEMMA SendSecondAnswerInv ==
  ASSUME ServerInv, SendSecondAnswer
  PROVE  ServerInv'
<1> USE DEF SendSecondAnswer, ServerInv
<1>1. TypesOK'
  <2>1. PICK rep \in Answers(2) : SendToClient(2, rep)
    OBVIOUS
  <2>2. NetTypeOK'
    BY <2>1, AnswersType, SendToClientTypes DEF TypesOK, Players
  <2>3. referee' \in RefereeStates
    BY DEF TypesOK, ServerTypeOK, RefereeStates, initialiserPartie
  <2>4. player1Sud' \in BOOLEAN /\ serving' \in Players
    BY DEF FirstPlayer, Players
  <2> QED
    BY <2>2, <2>3, <2>4 DEF TypesOK, ServerTypeOK, moveVars, Receiving
<1>2. StreamInv'
  BY StreamKept DEF Awaited
<1>3. (SetupInv /\ RefereeInv)'
  <2>1. /\ game.gameNumber = 1 /\ game.nbStrike = 0
        /\ ~referee'.partieCree /\ referee'.numPartie = 0
    BY DEF SetupInv, Setup, initialiserPartie, TypesOK, ServerTypeOK, RefereeStates
  <2>2. Joueur' = 1
    BY <2>1 DEF Joueur, First
  <2>3. (Turns = 0)' /\ (Played = 0)'
    BY <2>1, <2>2 DEF Turns, Played
  <2>4. SameGame'
    BY <2>1 DEF SameGame
  <2>5. 0 <= MoveLimit
    BY NbCoupMaxAssumption DEF MoveLimit
  <2> QED
    BY <2>3, <2>4, <2>5 DEF SetupInv, Setup, RefereeInv
<1>4. (ResultInv /\ BlamedLoses)'
  BY DEF ResultInv, BlamedLoses
<1> QED
  BY <1>1, <1>2, <1>3, <1>4

(* When the server leaves only the types and the result matter.            *)
LEMMA LeaveInv ==
  ASSUME TypesOK', Leave, BlamedLoses'
  PROVE  ServerInv'
BY DEF ServerInv, Leave, StreamInv, SetupInv, Setup, RefereeInv, ResultInv

(* A request was not PARTIE: the server leaves.                            *)
LEMMA RefuseMatchInv ==
  ASSUME ServerInv, RefuseMatch
  PROVE  ServerInv'
<1> USE DEF RefuseMatch, ServerInv
<1>1. TypesOK'
  <2>1. PICK rep \in Answers(2) : SendToClient(2, rep)
    OBVIOUS
  <2>2. /\ rep \in TPartieRep \union TCoupRep \union TCoupReq
        /\ 2 \in Players
    BY AnswersType DEF Players
  <2>3. toClient' \in [Players -> Seq(TPartieRep \union TCoupRep \union TCoupReq)]
    <3>1. Append(toClient[2], rep) \in Seq(TPartieRep \union TCoupRep \union TCoupReq)
      BY <2>2 DEF TypesOK, NetTypeOK
    <3> QED
      BY <2>1, <2>2, <3>1 DEF TypesOK, NetTypeOK, SendToClient
  <2> QED
    BY <2>3 DEF TypesOK, NetTypeOK, ServerTypeOK, moveVars, Leave
<1>2. BlamedLoses'
  BY DEF BlamedLoses
<1> QED
  BY <1>1, <1>2, LeaveInv
-----------------------------------------------------------------------------
(* What the referee answers, and what it remembers.                        *)
LEMMA VerdictFacts ==
  ASSUME NEW r \in RefereeStates, NEW joueur, NEW coup,
         NEW v \in Verdicts(r, joueur, coup)
  PROVE  /\ v.valid \in BOOLEAN /\ v.prop \in TPropCoup
         /\ v.prop = "CONT" => OpenGame(r).numCoup < MoveLimit
<1> DEFINE goesOn == IF OpenGame(r).numCoup >= MoveLimit THEN "NUL" ELSE "CONT"
<1>1. /\ goesOn \in {"NUL", "CONT"}
      /\ goesOn = "CONT" => OpenGame(r).numCoup < MoveLimit
  BY NbCoupMaxAssumption DEF OpenGame, RefereeStates, MoveLimit
<1>2. \/ v = [valid |-> FALSE, prop |-> "PERDU"]
      \/ v \in [valid : {TRUE}, prop : {"PERDU", "GAGNE", goesOn}]
  BY DEF Verdicts
<1> HIDE DEF goesOn
<1>3. CASE v = [valid |-> FALSE, prop |-> "PERDU"]
  BY <1>3 DEF TPropCoup
<1>4. CASE v \in [valid : {TRUE}, prop : {"PERDU", "GAGNE", goesOn}]
  BY <1>1, <1>4 DEF TPropCoup
<1> QED
  BY <1>2, <1>3, <1>4

(* What a call of validationCoup leaves of the referee's state.            *)
LEMMA AfterVerdictFacts ==
  ASSUME NEW r, OpenGame(r) \in RefereeStates, OpenGame(r).numCoup <= MoveLimit,
         NEW v
  PROVE  /\ AfterVerdict(r, v) \in RefereeStates
         /\ AfterVerdict(r, v).numCoup = OpenGame(r).numCoup + 1
         /\ AfterVerdict(r, v).partieCree <=> v.prop = "CONT"
         /\ AfterVerdict(r, v).sens = OpenGame(r).sens
         /\ AfterVerdict(r, v).numPartie = OpenGame(r).numPartie
<1> DEFINE g == OpenGame(r)
<1>1. AfterVerdict(r, v) = [g EXCEPT !.numCoup = @ + 1, !.partieCree = (v.prop = "CONT")]
  BY DEF AfterVerdict
<1>2. g \in RefereeStates /\ g.numCoup <= MoveLimit
  OBVIOUS
<1> HIDE DEF g
<1>3. g.numCoup + 1 \in 0..(MoveLimit + 1)
  BY <1>2, NbCoupMaxAssumption DEF RefereeStates, MoveLimit
<1>4. /\ AfterVerdict(r, v) \in RefereeStates
      /\ AfterVerdict(r, v).numCoup = g.numCoup + 1
      /\ AfterVerdict(r, v).partieCree <=> v.prop = "CONT"
      /\ AfterVerdict(r, v).sens = g.sens
      /\ AfterVerdict(r, v).numPartie = g.numPartie
  BY <1>1, <1>2, <1>3 DEF RefereeStates
<1> QED
  BY <1>4 DEF g

(* A move is judged.                                                       *)
LEMMA RecvMoveInv ==
  ASSUME ServerInv, RecvMove
  PROVE  ServerInv'
<1> USE DEF RecvMove, ServerInv
<1>1. /\ toServer \in [Players -> Seq(TPartieReq \union TCoupReq)]
      /\ serving \in Players
      /\ referee \in RefereeStates
      /\ game \in [gameNumber : 1..3, score : [Players -> 0..2], nbStrike : Nat]
      /\ MoveLimit \in Nat /\ MoveLimit > NB_COUP_MAX + 1
  BY NbCoupMaxAssumption DEF TypesOK, NetTypeOK, ServerTypeOK, MoveLimit
<1>2. /\ ~Awaited(serving)
      /\ InOrder(toServer[serving], FALSE)
  BY <1>1 DEF StreamInv, Awaited
<1>3. /\ Head(toServer[serving]) \in TCoupReq
      /\ Tail(toServer[serving]) \in Seq(TPartieReq \union TCoupReq)
      /\ InOrder(Tail(toServer[serving]), FALSE)
  BY <1>1, <1>2, ReadInOrder
<1>4. SameGame /\ Played = Turns /\ Played <= MoveLimit
  BY DEF RefereeInv
<1>5. game.gameNumber \in 1..2
  BY <1>1 DEF ResultInv
<1>6. Joueur \in 1..2
  BY DEF Joueur
<1>7. game.nbStrike < MoveLimit
  <2>1. 2 * (game.nbStrike - (game.gameNumber - 1)) <= MoveLimit
    BY <1>1, <1>4, <1>5, <1>6 DEF Turns
  <2> QED
    BY <1>1, <1>5, <2>1, NbCoupMaxAssumption DEF MoveLimit
<1>8. PICK v \in Verdicts(referee, Joueur, Head(toServer[serving])) :
        /\ referee' = AfterVerdict(referee, v)
        /\ moveRep' = prepareStrikeAnswer(v.valid, v.prop)
        /\ propCoup' = IF game.nbStrike >= MoveLimit THEN "NUL" ELSE v.prop
  OBVIOUS
<1>9. /\ v.valid \in BOOLEAN /\ v.prop \in TPropCoup
      /\ v.prop = "CONT" => OpenGame(referee).numCoup < MoveLimit
  BY <1>1, VerdictFacts
<1>10. propCoup' = v.prop
  BY <1>1, <1>7, <1>8
<1>11. moveRep' \in TCoupRep /\ moveRep'.propCoup = v.prop
  BY <1>8, <1>9 DEF prepareStrikeAnswer, TCoupRep, TCodeRep, TValCoup
<1>12. /\ OpenGame(referee) \in RefereeStates
       /\ OpenGame(referee).numPartie = 1
       /\ OpenGame(referee).numCoup = Played
       /\ OpenGame(referee).sens = (IF game.gameNumber = 1 THEN "SUD" ELSE "NORD")
  BY <1>1, <1>4, <1>5 DEF OpenGame, RefereeStates, Played, SameGame, TSensTetePiece
<1>13. /\ referee' \in RefereeStates
       /\ referee'.numCoup = Played + 1
       /\ referee'.partieCree <=> v.prop = "CONT"
       /\ referee'.sens = OpenGame(referee).sens
       /\ referee'.numPartie = OpenGame(referee).numPartie
  BY <1>1, <1>4, <1>8, <1>12, AfterVerdictFacts
<1>14. TypesOK'
  <2>1. toServer' \in [Players -> Seq(TPartieReq \union TCoupReq)]
    BY <1>1, <1>3
  <2> QED
    BY <2>1, <1>3, <1>9, <1>10, <1>11, <1>13
    DEF TypesOK, NetTypeOK, ServerTypeOK, Sending
<1>15. StreamInv'
  <2>1. ASSUME NEW p \in Players PROVE InOrder(toServer'[p], Awaited(p)')
    <3>1. Awaited(p)' = FALSE /\ Awaited(p) = FALSE
      BY DEF Awaited
    <3>2. CASE p = serving
      BY <1>1, <1>3, <3>1, <3>2
    <3>3. CASE p # serving
      BY <1>1, <3>1, <3>3 DEF StreamInv
    <3> QED
      BY <3>2, <3>3
  <2> QED
    BY <2>1 DEF StreamInv
<1>16. (SetupInv /\ RefereeInv)'
  <2>1. Turns' = Turns
    BY DEF Turns, Joueur, First
  <2>2. referee'.numPartie = 1
    BY <1>12, <1>13 DEF RefereeInv
  <2>3. SameGame'
    BY <1>12, <1>13 DEF SameGame
  <2>4. v.prop = "CONT" => Played' = Turns + 1 /\ Played' <= MoveLimit
    BY <1>1, <1>4, <1>9, <1>12, <1>13 DEF Played, RefereeStates
  <2> QED
    BY <1>10, <1>11, <1>13, <2>1, <2>2, <2>3, <2>4 DEF SetupInv, Setup, RefereeInv
<1>17. (ResultInv /\ BlamedLoses)'
  BY DEF ResultInv, BlamedLoses
<1> QED
  BY <1>14, <1>15, <1>16, <1>17

(* The answer is sent to the mover.                                        *)
LEMMA SendToMoverInv ==
  ASSUME ServerInv, SendToMover
  PROVE  ServerInv'
<1> USE DEF SendToMover, ServerInv
<1>1. TypesOK'
  <2>1. NetTypeOK'
    BY SendToClientTypes DEF TypesOK, ServerTypeOK
  <2> QED
    BY <2>1 DEF TypesOK, ServerTypeOK, moveVars, Sending
<1>2. StreamInv'
  BY StreamKept DEF Awaited
<1>3. (SetupInv /\ RefereeInv)'
  BY DEF SetupInv, Setup, RefereeInv, moveVars, SameGame, Played, Turns, Joueur, First
<1>4. (ResultInv /\ BlamedLoses)'
  BY DEF ResultInv, BlamedLoses
<1> QED
  BY <1>1, <1>2, <1>3, <1>4

(* The answer is sent to the other player.                                 *)
LEMMA SendToOtherInv ==
  ASSUME ServerInv, SendToOther
  PROVE  ServerInv'
<1> USE DEF SendToOther, ServerInv
<1>1. TypesOK'
  <2>1. Other(serving) \in Players
    BY DEF TypesOK, ServerTypeOK, Other, Players
  <2>2. NetTypeOK'
    BY <2>1, SendToClientTypes DEF TypesOK, ServerTypeOK
  <2> QED
    BY <2>2 DEF TypesOK, ServerTypeOK, moveVars, Sending
<1>2. StreamInv'
  BY StreamKept DEF Awaited
<1>3. (SetupInv /\ RefereeInv)'
  BY DEF SetupInv, Setup, RefereeInv, moveVars, SameGame, Played, Turns, Joueur, First
<1>4. (ResultInv /\ BlamedLoses)'
  BY DEF ResultInv, BlamedLoses
<1> QED
  BY <1>1, <1>2, <1>3, <1>4

(* The turn passes to the other player, with or without a new round.       *)
LEMMA SendMoveInv ==
  ASSUME ServerInv, SendMove
  PROVE  ServerInv'
<1> USE DEF SendMove, ServerInv
<1>1. /\ serving \in Players /\ Other(serving) \in Players
      /\ game \in [gameNumber : 1..3, score : [Players -> 0..2], nbStrike : Nat]
      /\ First \in Players
  BY DEF TypesOK, ServerTypeOK, Other, Players, First, FirstPlayer
<1>2. /\ game' \in [gameNumber : 1..3, score : [Players -> 0..2], nbStrike : Nat]
      /\ game'.gameNumber = game.gameNumber
      /\ game'.score = game.score
      /\ game'.nbStrike = game.nbStrike + (IF serving = First THEN 0 ELSE 1)
  BY <1>1
<1>3. TypesOK'
  <2>1. NetTypeOK'
    BY <1>1, SendToClientTypes DEF TypesOK, ServerTypeOK
  <2> QED
    BY <1>1, <1>2, <2>1 DEF TypesOK, ServerTypeOK, moveVars, Receiving
<1>4. StreamInv'
  BY StreamKept DEF Awaited
<1>5. (SetupInv /\ RefereeInv)'
  <2>1. First' = First
    BY <1>2 DEF First
  <2>2. Turns' = Turns + 1
    BY <1>1, <1>2, <2>1 DEF Turns, Joueur, Other, Players
  <2>3. SameGame /\ referee.partieCree /\ Played = Turns + 1 /\ Played <= MoveLimit
    BY DEF RefereeInv
  <2>4. SameGame'
    BY <1>2, <2>3 DEF SameGame
  <2>5. Played' = Played
    BY DEF Played
  <2> QED
    BY <2>2, <2>3, <2>4, <2>5 DEF SetupInv, Setup, RefereeInv
<1>6. (ResultInv /\ BlamedLoses)'
  BY <1>2 DEF ResultInv, BlamedLoses
<1> QED
  BY <1>3, <1>4, <1>5, <1>6
-----------------------------------------------------------------------------
(* The end of a game gives at most one point, which the new score holds.   *)
LEMMA NewScoreFacts ==
  ASSUME ServerInv, spc # "exit"
  PROVE  /\ NewScore \in [Players -> 0..2]
         /\ NewScore[1] + NewScore[2] <= game.gameNumber
         /\ \A p \in Players : NewScore[p] =
              IF \/ moveRep.propCoup = "GAGNE" /\ p = serving
                 \/ moveRep.propCoup = "PERDU" /\ p = Other(serving)
              THEN game.score[p] + 1 ELSE game.score[p]
<1> DEFINE s == game.score
<1>1. /\ s \in [Players -> 0..2]
      /\ s[1] + s[2] <= game.gameNumber - 1
      /\ game.gameNumber \in 1..2
      /\ serving \in Players
      /\ Other(serving) \in Players /\ Other(serving) # serving
  BY DEF ServerInv, TypesOK, ServerTypeOK, ResultInv, Players, Other
<1>2. s \in [Players -> 0..1]
  BY <1>1 DEF Players
<1> HIDE DEF s
<1>3. ASSUME NEW p \in Players
      PROVE  LET t == [s EXCEPT ![p] = @ + 1]
             IN /\ t \in [Players -> 0..2]
                /\ t[1] + t[2] <= game.gameNumber
                /\ \A q \in Players : t[q] = IF q = p THEN s[q] + 1 ELSE s[q]
  BY <1>1, <1>2 DEF Players
<1>4. CASE moveRep.propCoup = "GAGNE"
  <2>1. NewScore = [s EXCEPT ![serving] = @ + 1]
    BY <1>4 DEF NewScore, s
  <2> QED
    BY <1>1, <1>3, <1>4, <2>1 DEF s
<1>5. CASE moveRep.propCoup = "PERDU"
  <2>1. NewScore = [s EXCEPT ![Other(serving)] = @ + 1]
    BY <1>5 DEF NewScore, s
  <2> QED
    BY <1>1, <1>3, <1>5, <2>1 DEF s
<1>6. CASE moveRep.propCoup \notin {"GAGNE", "PERDU"}
  <2>1. NewScore = s
    BY <1>6 DEF NewScore, s
  <2> QED
    BY <1>1, <1>6, <2>1 DEF s, Players
<1> QED
  BY <1>4, <1>5, <1>6

(* The first game ends and the second begins, with counters reset.         *)
LEMMA NextGameInv ==
  ASSUME ServerInv, NextGame
  PROVE  ServerInv'
<1> USE DEF NextGame, ServerInv
<1>1. NewScore \in [Players -> 0..2] /\ NewScore[1] + NewScore[2] <= 1
  BY NewScoreFacts
<1>2. /\ referee \in RefereeStates /\ referee.numPartie = 1
      /\ referee' = [referee EXCEPT !.partieCree = FALSE]
  BY DEF TypesOK, ServerTypeOK, RefereeInv, initialiserPartie
<1>3. /\ referee' \in RefereeStates
      /\ ~referee'.partieCree /\ referee'.numPartie = 1
  BY <1>2 DEF RefereeStates
<1>4. /\ game' \in [gameNumber : 1..3, score : [Players -> 0..2], nbStrike : Nat]
      /\ game'.gameNumber = 2 /\ game'.nbStrike = 1 /\ game'.score = NewScore
  BY <1>1
<1>5. TypesOK'
  <2>1. serving' \in Players
    BY DEF FirstPlayer, Players
  <2> QED
    BY <1>3, <1>4, <2>1
    DEF TypesOK, NetTypeOK, ServerTypeOK, netVars, moveVars, Receiving
<1>6. StreamInv'
  BY StreamKept DEF Awaited, netVars
<1>7. (SetupInv /\ RefereeInv)'
  <2>1. Joueur' = 1
    BY <1>4 DEF Joueur, First
  <2>2. (Turns = 0)' /\ (Played = 0)'
    BY <1>3, <1>4, <2>1 DEF Turns, Played
  <2>3. SameGame'
    BY <1>3, <1>4 DEF SameGame
  <2>4. 0 <= MoveLimit
    BY NbCoupMaxAssumption DEF MoveLimit
  <2> QED
    BY <2>2, <2>3, <2>4 DEF SetupInv, Setup, RefereeInv
<1>8. (ResultInv /\ BlamedLoses)'
  BY <1>1, <1>4 DEF ResultInv, BlamedLoses, netVars
<1> QED
  BY <1>5, <1>6, <1>7, <1>8

(* The second game ends and the result is announced.                       *)
LEMMA LastGameInv ==
  ASSUME ServerInv, LastGame
  PROVE  ServerInv'
<1> USE DEF LastGame, ServerInv, endGame
<1>1. NewScore \in [Players -> 0..2]
  BY NewScoreFacts
<1>2. referee' \in RefereeStates
  BY DEF TypesOK, ServerTypeOK, RefereeStates, initialiserPartie
<1>3. game' \in [gameNumber : 1..3, score : [Players -> 0..2], nbStrike : Nat]
  BY <1>1
<1>4. result' \in [announced : BOOLEAN, winner : 0..2, forfeit : 0..2]
  BY DEF Winner
<1>5. TypesOK'
  BY <1>2, <1>3, <1>4 DEF TypesOK, NetTypeOK, ServerTypeOK, moveVars, Leave
<1>6. BlamedLoses'
  BY DEF BlamedLoses
<1> QED
  BY <1>5, <1>6, LeaveInv

(* A forfeit before the end of the second game: the opponent has two       *)
(* points in the copy, the blamed player one at most.                      *)
LEMMA ForfeitFacts ==
  ASSUME ServerInv, spc # "exit", NEW p \in Players, Forfeit(p)
  PROVE  result' = [announced |-> TRUE, winner |-> Other(p), forfeit |-> p]
<1> DEFINE s == [game.score EXCEPT ![Other(p)] = 2]
<1>1. /\ game.score \in [Players -> 0..2]
      /\ game.score[1] + game.score[2] <= 1
      /\ Other(p) \in Players /\ Other(p) # p
  BY DEF ServerInv, TypesOK, ServerTypeOK, ResultInv, Players, Other
<1>2. s[Other(p)] = 2 /\ s[p] < 2 /\ s[1] \in 0..2 /\ s[2] \in 0..2
  BY <1>1 DEF Players
<1>3. result' = [announced |-> TRUE, winner |-> Winner(s), forfeit |-> p]
  BY DEF Forfeit, endGame
<1> HIDE DEF s
<1>4. Winner(s) = Other(p)
  BY <1>2 DEF Winner, Players, Other
<1> QED
  BY <1>3, <1>4

(* A failed call ends the match (checkRecvrError, checkSendError).         *)
LEMMA ForfeitInv ==
  ASSUME ServerInv, spc # "exit", NEW p \in Players, Forfeit(p)
  PROVE  ServerInv'
<1>1. result' = [announced |-> TRUE, winner |-> Other(p), forfeit |-> p]
  BY ForfeitFacts
<1>2. result' \in [announced : BOOLEAN, winner : 0..2, forfeit : 0..2]
  BY <1>1 DEF Players, Other
<1>3. TypesOK'
  BY <1>2 DEF ServerInv, TypesOK, NetTypeOK, ServerTypeOK, Forfeit, endGame,
              Leave, moveVars
<1>4. BlamedLoses'
  BY <1>1 DEF BlamedLoses
<1> QED
  BY <1>3, <1>4, LeaveInv DEF Forfeit, endGame

(* The server dies of a send.                                              *)
LEMMA KilledBySigpipeInv ==
  ASSUME ServerInv, KilledBySigpipe
  PROVE  ServerInv'
<1>1. TypesOK'
  BY DEF ServerInv, TypesOK, NetTypeOK, ServerTypeOK, KilledBySigpipe, Leave,
         moveVars
<1>2. BlamedLoses'
  BY DEF ServerInv, BlamedLoses, KilledBySigpipe
<1> QED
  BY <1>1, <1>2, LeaveInv DEF KilledBySigpipe

(* Sends are addressed to a player.                                        *)
LEMMA TargetType == ServerInv => Target \in Players
BY DEF ServerInv, TypesOK, ServerTypeOK, Target, Players, Other

(* Every step of the server keeps its invariant.                           *)
THEOREM ServerStepInv ==
  ASSUME ServerInv, ServerNext
  PROVE  ServerInv'
<1>1. CASE Accept
  BY <1>1, AcceptInv
<1>2. CASE RecvPartie
  BY <1>2, RecvPartieInv
<1>3. CASE SendFirstAnswer
  BY <1>3, SendFirstAnswerInv
<1>4. CASE SendSecondAnswer
  BY <1>4, SendSecondAnswerInv
<1>5. CASE RefuseMatch
  BY <1>5, RefuseMatchInv
<1>6. CASE RecvMove
  BY <1>6, RecvMoveInv
<1>7. CASE SendToMover
  BY <1>7, SendToMoverInv
<1>8. CASE SendToOther
  BY <1>8, SendToOtherInv
<1>9. CASE SendMove
  BY <1>9, SendMoveInv
<1>10. CASE NextGame
  BY <1>10, NextGameInv
<1>11. CASE LastGame
  BY <1>11, LastGameInv
<1>12. CASE RecvError
  <2>1. serving \in Players /\ spc # "exit"
    BY <1>12 DEF RecvError, Receiving, ServerInv, TypesOK, ServerTypeOK
  <2> QED
    BY <1>12, <2>1, ForfeitInv DEF RecvError
<1>13. CASE SendError
  <2>1. Target \in Players /\ spc # "exit"
    BY <1>13, TargetType DEF SendError, Sending
  <2> QED
    BY <1>13, <2>1, ForfeitInv DEF SendError
<1>14. CASE KilledBySigpipe
  BY <1>14, KilledBySigpipeInv
<1> QED
  BY <1>1, <1>2, <1>3, <1>4, <1>5, <1>6, <1>7, <1>8, <1>9, <1>10, <1>11,
     <1>12, <1>13, <1>14 DEF ServerNext
(* A client the server has heard of stays one, and no other becomes one.   *)
LEMMA ServerKeepsStarted ==
  ASSUME ServerInv, ServerNext, spc' # "exit", NEW p \in Players
  PROVE  Started(p)' <=> Started(p)
<1>1. serving \in Players /\ toServer \in [Players -> Seq(TPartieReq \union TCoupReq)]
  BY DEF ServerInv, TypesOK, ServerTypeOK, NetTypeOK
<1>2. CASE RecvPartie
  BY <1>1, <1>2 DEF RecvPartie, Started, Awaited, Players, Other
<1>3. CASE RecvMove
  BY <1>3 DEF RecvMove, Started, Awaited
<1>4. CASE Accept
  BY <1>4 DEF Accept, Started, Awaited, ServerInv, SetupInv, Setup, netVars
<1>5. CASE SendFirstAnswer \/ SendSecondAnswer \/ SendToMover \/ SendToOther \/ SendMove
  BY <1>5 DEF SendFirstAnswer, SendSecondAnswer, SendToMover, SendToOther,
              SendMove, Started, Awaited
<1>6. CASE NextGame
  BY <1>6 DEF NextGame, Started, Awaited, netVars
<1>7. CASE \/ RefuseMatch \/ LastGame \/ KilledBySigpipe
           \/ \E q \in Players : Forfeit(q)
  BY <1>7 DEF RefuseMatch, LastGame, KilledBySigpipe, Forfeit, endGame, Leave
<1>8. CASE RecvError \/ SendError
  BY <1>1, <1>7, <1>8, TargetType DEF RecvError, SendError
<1> QED
  BY <1>2, <1>3, <1>4, <1>5, <1>6, <1>7, <1>8 DEF ServerNext

-----------------------------------------------------------------------------
(* A step of a client: the server's state, and its program point with it,  *)
(* do not move.                                                            *)
LEMMA ServerUnmoved ==
  ASSUME ServerInv, UNCHANGED <<serverVars, serverUp>>
  PROVE  (ServerTypeOK /\ SetupInv /\ RefereeInv /\ ResultInv /\ BlamedLoses)'
         /\ \A p : Awaited(p)' = Awaited(p)
<1>1. (SetupInv /\ RefereeInv)'
  BY DEF ServerInv, serverVars, SetupInv, RefereeInv, SameGame, Played, Turns,
         Joueur, First
<1>2. (ResultInv /\ BlamedLoses)'
  BY DEF ServerInv, serverVars, ResultInv, BlamedLoses
<1>3. ServerTypeOK'
  BY DEF ServerInv, TypesOK, serverVars, ServerTypeOK
<1>4. \A p : Awaited(p)' = Awaited(p)
  BY DEF Awaited, serverVars
<1> QED
  BY <1>1, <1>2, <1>3, <1>4

(* A client that sends nothing.                                            *)
LEMMA QuietClientInv ==
  ASSUME ServerInv, UNCHANGED <<serverVars, serverUp, toServer>>, NetTypeOK'
  PROVE  ServerInv' /\ \A p : Started(p)' <=> Started(p)
<1>1. StreamInv'
  BY ServerUnmoved DEF ServerInv, StreamInv, serverVars
<1>2. \A p : Started(p)' <=> Started(p)
  BY ServerUnmoved DEF Started
<1> QED
  BY <1>1, <1>2, ServerUnmoved DEF ServerInv, TypesOK

(* A client that sends anything once the server has left.                  *)
LEMMA LateSendInv ==
  ASSUME ServerInv, spc = "exit", NEW p \in Players,
         NEW m \in TPartieReq \union TCoupReq, SendToServer(p, m),
         UNCHANGED <<toClient, link, serverUp, serverVars>>
  PROVE  ServerInv'
<1>1. toServer \in [Players -> Seq(TPartieReq \union TCoupReq)]
  BY DEF ServerInv, TypesOK, NetTypeOK
<1>2. Append(toServer[p], m) \in Seq(TPartieReq \union TCoupReq)
  BY <1>1
<1>3. NetTypeOK'
  BY <1>1, <1>2 DEF ServerInv, TypesOK, NetTypeOK, SendToServer
<1>4. StreamInv'
  BY DEF StreamInv, serverVars
<1> QED
  BY <1>3, <1>4, ServerUnmoved DEF ServerInv, TypesOK

(* A client that sends its request, when it has sent nothing, or a move.   *)
LEMMA ClientSendInv ==
  ASSUME ServerInv, NEW p \in Players,
         NEW m \in (IF Started(p) THEN TCoupReq ELSE TPartieReq),
         SendToServer(p, m),
         UNCHANGED <<toClient, link, serverUp, serverVars>>
  PROVE  ServerInv' /\ \A q \in Players : Started(q)' <=> (q = p \/ Started(q))
<1>1. /\ toServer \in [Players -> Seq(TPartieReq \union TCoupReq)]
      /\ Awaited(p) \in BOOLEAN
  BY DEF ServerInv, TypesOK, NetTypeOK, Awaited
<1>2. m \in TPartieReq \union TCoupReq
  OBVIOUS
<1>3. /\ Append(toServer[p], m) \in Seq(TPartieReq \union TCoupReq)
      /\ Append(toServer[p], m) # <<>>
  <2>1. Append(toServer[p], m) \in Seq(TPartieReq \union TCoupReq)
        /\ Len(Append(toServer[p], m)) = Len(toServer[p]) + 1
    BY <1>1, <1>2
  <2> QED
    BY <2>1, <1>1
<1>4. toServer' \in [Players -> Seq(TPartieReq \union TCoupReq)]
  BY <1>1, <1>3 DEF SendToServer
<1>5. TypesOK'
  BY <1>4, ServerUnmoved DEF ServerInv, TypesOK, NetTypeOK
<1>6. StreamInv'
  <2> SUFFICES ASSUME spc # "exit", NEW q \in Players
               PROVE  InOrder(toServer'[q], Awaited(q)')
    BY DEF StreamInv, serverVars
  <2>1. Awaited(q)' = Awaited(q) /\ InOrder(toServer[q], Awaited(q))
    BY ServerUnmoved DEF ServerInv, StreamInv
  <2>2. CASE q = p
    <3>1. InOrder(Append(toServer[p], m), Awaited(p))
      BY <1>1, <2>1, <2>2, SendInOrder DEF Started
    <3> QED
      BY <1>1, <2>1, <2>2, <3>1 DEF SendToServer
  <2>3. CASE q # p
    BY <1>1, <2>1, <2>3 DEF SendToServer
  <2> QED
    BY <2>2, <2>3
<1>7. \A q \in Players : Started(q)' <=> (q = p \/ Started(q))
  BY <1>1, <1>3, ServerUnmoved DEF Started, SendToServer
<1> QED
  BY <1>5, <1>6, <1>7, ServerUnmoved DEF ServerInv

-----------------------------------------------------------------------------
(* The refinement of TwoGames: whatever becomes of the clients meanwhile,  *)
(* the missing are players.                                                *)
LEMMA MissingPlayers == Missing \in SUBSET {1, 2} /\ Missing' \in SUBSET {1, 2}
BY DEF Missing, Players

(* A failed call ends the match for the opponent of a player who is        *)
(* missing.                                                                *)
LEMMA RefineForfeit ==
  ASSUME ServerInv, RecvError \/ SendError
  PROVE  \E p \in {1, 2} : Abstract!GiveUp(p)
<1>1. PICK p \in Players : Forfeit(p) /\ spc # "exit" /\ p \in Missing
  BY TargetType
  DEF RecvError, SendError, Receiving, Sending, Missing, ServerInv, TypesOK, ServerTypeOK
<1>2. result' = [announced |-> TRUE, winner |-> Other(p), forfeit |-> p]
  BY <1>1, ForfeitFacts
<1>3. /\ Phase # "over" /\ Phase' = "over"
      /\ p \in {1, 2} /\ Other(p) = 3 - p
  BY <1>1 DEF Phase, Forfeit, endGame, Leave, Players, Other
<1>4. Abstract!GiveUp(p)
  BY <1>1, <1>2, <1>3 DEF Abstract!GiveUp, Forfeit
<1> QED
  BY <1>3, <1>4

(* The server leaves without a result.                                     *)
LEMMA RefineKilled ==
  ASSUME ServerInv, RefuseMatch \/ KilledBySigpipe
  PROVE  Abstract!Abandon
<1>1. UNCHANGED <<game, result>> /\ Phase' = "over"
  BY DEF RefuseMatch, KilledBySigpipe, Leave, Phase
<1>2. CASE RefuseMatch
  BY <1>1, <1>2 DEF Abstract!Abandon, RefuseMatch, Phase
<1>3. CASE KilledBySigpipe
  <2>1. Target \in Missing
    BY <1>3, TargetType DEF KilledBySigpipe, Missing, ServerInv, TypesOK, ServerTypeOK
  <2>2. Phase = "setup" \/ Phase = "play"
    BY <1>3 DEF KilledBySigpipe, Sending, Phase
  <2> QED
    BY <1>1, <2>1, <2>2 DEF Abstract!Abandon
<1> QED
  BY <1>2, <1>3

(* The winner of the game that moveRep ends.                               *)
GameWinner == CASE moveRep.propCoup = "GAGNE" -> serving
                [] moveRep.propCoup = "PERDU" -> Other(serving)
                [] OTHER -> 0

(* The new score is the old one and a point for that winner.               *)
LEMMA GameWinnerFacts ==
  ASSUME ServerInv, spc = "endOfGame"
  PROVE  /\ GameWinner \in 0..2
         /\ NewScore = [p \in {1, 2} |-> IF p = GameWinner THEN game.score[p] + 1
                                          ELSE game.score[p]]
<1>1. /\ serving \in Players /\ Other(serving) \in Players
      /\ 0 \notin Players
  BY DEF ServerInv, TypesOK, ServerTypeOK, Players, Other
<1>2. /\ moveRep.propCoup = "GAGNE" => GameWinner = serving
      /\ moveRep.propCoup = "PERDU" => GameWinner = Other(serving)
      /\ moveRep.propCoup \notin {"GAGNE", "PERDU"} => GameWinner = 0
  BY DEF GameWinner
<1>3. GameWinner \in 0..2
  BY <1>1, <1>2 DEF Players
<1>4. NewScore \in [Players -> 0..2]
  BY NewScoreFacts
<1>5. ASSUME NEW p \in Players
      PROVE  NewScore[p] = IF p = GameWinner THEN game.score[p] + 1 ELSE game.score[p]
  BY <1>1, <1>2, NewScoreFacts
<1> QED
  BY <1>3, <1>4, <1>5 DEF Players

(* The end of the first game is the abstract match's first game.           *)
LEMMA RefineNextGame ==
  ASSUME ServerInv, NextGame
  PROVE  \E w \in 0..2 : Abstract!PlayGame(w)
<1>1. /\ GameWinner \in 0..2
      /\ NewScore = [p \in {1, 2} |-> IF p = GameWinner THEN game.score[p] + 1
                                       ELSE game.score[p]]
  BY GameWinnerFacts DEF NextGame
<1>2. ~result.announced /\ ~result'.announced
  BY DEF ServerInv, ResultInv, NextGame
<1>3. Phase = "play" /\ Phase' = "play" /\ UNCHANGED result
  BY DEF NextGame, Phase
<1>4. Abstract!PlayGame(GameWinner)
  BY <1>1, <1>2, <1>3 DEF Abstract!PlayGame, Abstract!NoResult, NextGame
<1> QED
  BY <1>1, <1>4

(* The end of the second game is the second one, with its result.          *)
LEMMA RefineLastGame ==
  ASSUME ServerInv, LastGame
  PROVE  \E w \in 0..2 : Abstract!PlayGame(w)
<1>1. /\ GameWinner \in 0..2
      /\ NewScore = [p \in {1, 2} |-> IF p = GameWinner THEN game.score[p] + 1
                                       ELSE game.score[p]]
  BY GameWinnerFacts DEF LastGame
<1>2. NewScore \in [Players -> 0..2]
  BY NewScoreFacts DEF LastGame
<1>3. /\ Winner(NewScore) \in 0..2
      /\ \A p \in {1, 2} : Winner(NewScore) = p <=> NewScore[p] > NewScore[3 - p]
  BY <1>2 DEF Winner, Players
<1>4. /\ result'.announced /\ result'.winner = Winner(NewScore)
      /\ game'.gameNumber = 3 /\ game'.score = NewScore
      /\ spc = "endOfGame" /\ spc' = "exit" /\ game.gameNumber = 2
  BY DEF LastGame, endGame, Leave
<1>5. /\ Phase = "play" /\ Phase' = "over"
      /\ result.forfeit = 0 /\ result'.forfeit = 0
  BY <1>4 DEF Phase, LastGame, endGame, ServerInv, ResultInv
<1>6. Abstract!PlayGame(GameWinner)
  BY <1>1, <1>3, <1>4, <1>5 DEF Abstract!PlayGame
<1> QED
  BY <1>1, <1>6

(* The second answer begins the match; the other steps do not show.        *)
LEMMA RefineOtherSteps ==
  ASSUME ServerInv,
         \/ Accept \/ RecvPartie \/ SendFirstAnswer \/ SendSecondAnswer
         \/ RecvMove \/ SendToMover \/ SendToOther \/ SendMove
  PROVE  Abstract!Begin \/ UNCHANGED Abstract!matchVars
<1>1. UNCHANGED result
  BY DEF Accept, RecvPartie, SendFirstAnswer, SendSecondAnswer, RecvMove,
         SendToMover, SendToOther, SendMove
<1>2. game'.gameNumber = game.gameNumber /\ game'.score = game.score
  BY DEF Accept, RecvPartie, SendFirstAnswer, SendSecondAnswer, RecvMove,
         SendToMover, SendToOther, SendMove, ServerInv, TypesOK, ServerTypeOK
<1>3. CASE SendSecondAnswer
  <2>1. Phase = "setup" /\ Phase' = "play"
    BY <1>3 DEF SendSecondAnswer, Phase
  <2> QED
    BY <1>1, <1>2, <2>1 DEF Abstract!Begin
<1>4. CASE ~SendSecondAnswer
  <2>1. UNCHANGED Phase
    BY <1>4 DEF Accept, RecvPartie, SendFirstAnswer, RecvMove, SendToMover, SendToOther,
                SendMove, Phase
  <2> QED
    BY <1>1, <1>2, <2>1 DEF Abstract!matchVars
<1> QED
  BY <1>3, <1>4

(* Every step of the server is one of TwoGames.                            *)
THEOREM RefineServerStep ==
  ASSUME ServerInv, ServerNext
  PROVE  Abstract!TGNext
<1>1. CASE \/ Accept \/ RecvPartie \/ SendFirstAnswer \/ SendSecondAnswer
           \/ RecvMove \/ SendToMover \/ SendToOther \/ SendMove
  BY <1>1, RefineOtherSteps, MissingPlayers DEF Abstract!TGNext
<1>2. CASE RefuseMatch \/ KilledBySigpipe
  BY <1>2, RefineKilled, MissingPlayers DEF Abstract!TGNext
<1>3. CASE NextGame \/ LastGame
  BY <1>3, RefineNextGame, RefineLastGame, MissingPlayers DEF Abstract!TGNext
<1>4. CASE RecvError \/ SendError
  BY <1>4, RefineForfeit, MissingPlayers DEF Abstract!TGNext
<1> QED
  BY <1>1, <1>2, <1>3, <1>4 DEF ServerNext

(* And so is one of the clients: who is missing may change.                *)
LEMMA RefineClientStep ==
  ASSUME UNCHANGED serverVars
  PROVE  Abstract!TGNext
BY MissingPlayers DEF serverVars, Phase, Abstract!TGNext, Abstract!matchVars

(* Nobody is missing before anybody has connected.                         *)
LEMMA RefineInit ==
  ASSUME NetInit, ServerInit
  PROVE  Abstract!TGInit
<1>1. Phase = "setup" /\ Missing = {}
  BY DEF NetInit, ServerInit, Phase, Missing
<1> QED
  BY <1>1 DEF ServerInit, Abstract!TGInit, Abstract!NoResult, Players

-----------------------------------------------------------------------------
(* What the invariant says of the properties.                              *)
LEMMA InvVerdict == ServerInv => AnswerCarriesVerdict
BY DEF ServerInv, RefereeInv, AnswerCarriesVerdict

(* Server and referee agree on the sides.                                  *)
LEMMA InvSides == ServerInv => SameSides
<1> SUFFICES ASSUME ServerInv, spc = "recvMove"
             PROVE  Facing(referee, Joueur) =
                      (IF player1Sud = (serving = 1) THEN "SUD" ELSE "NORD")
  BY DEF SameSides
<1>1. SameGame
  BY DEF ServerInv, RefereeInv
<1>2. /\ player1Sud \in BOOLEAN /\ serving \in Players
      /\ game.gameNumber \in 1..2
  BY DEF ServerInv, TypesOK, ServerTypeOK, ResultInv
<1>3. OpenGame(referee).sens = (IF game.gameNumber = 1 THEN "SUD" ELSE "NORD")
  BY <1>1, <1>2 DEF OpenGame, SameGame
<1>4. ASSUME NEW s \in TSensTetePiece
      PROVE  (CHOOSE t \in TSensTetePiece : t # s) = (IF s = "SUD" THEN "NORD" ELSE "SUD")
  BY DEF TSensTetePiece
<1>5. Facing(referee, Joueur) =
        IF (Joueur = 1) = (game.gameNumber = 1) THEN "SUD" ELSE "NORD"
  BY <1>3, <1>4 DEF Facing, Joueur, TSensTetePiece
<1> QED
  BY <1>2, <1>5 DEF Joueur, First, FirstPlayer, Players


-----------------------------------------------------------------------------
(* What CallsLeft is, by the calls, with no arithmetic left to do.         *)
InGame == {"recvMove", "sendToMover", "sendToOther", "sendMove", "endOfGame"}

CallsFacts ==
  /\ CallsLeft \in Nat
  /\ spc # "exit" => CallsLeft > 0
  /\ spc = "exit" => CallsLeft = 0
  /\ spc = "accept" => CallsLeft = 2 * GameCalls + 5
  /\ spc = "recvPartie" => CallsLeft = 2 * GameCalls + 5 - serving
  /\ spc = "sendAnswers" => CallsLeft = 2 * GameCalls + 3 - serving
  /\ spc \in InGame =>
       /\ MovesJudged \in 0..(MoveLimit + 1)
       /\ CallsLeft = (IF game.gameNumber = 1 THEN GameCalls ELSE 0)
                        + 4 * (MoveLimit + 1 - MovesJudged)
                        + (IF spc = "recvMove" THEN 0 ELSE IF spc = "sendToMover" THEN 3
                           ELSE IF spc = "sendToOther" THEN 2 ELSE 1)

(* The calls a game takes are a positive number.                           *)
LEMMA GameCallsType ==
  /\ MoveLimit \in Nat
  /\ GameCalls \in Nat
  /\ GameCalls = 4 * MoveLimit + 4
BY NbCoupMaxAssumption DEF MoveLimit, GameCalls

(* The referee never counts past the draw.                                 *)
LEMMA CountBound ==
  ASSUME ServerInv, spc \in InGame
  PROVE  /\ MovesJudged \in 0..(MoveLimit + 1)
         /\ spc = "recvMove" => MovesJudged <= MoveLimit
<1>1. referee \in RefereeStates /\ MoveLimit \in Nat
  BY GameCallsType DEF ServerInv, TypesOK, ServerTypeOK
<1>2. CASE spc = "recvMove"
  <2>1. MovesJudged = Played
    BY <1>2 DEF MovesJudged, OpenGame, Played
  <2>2. Played <= MoveLimit /\ Played \in 0..(MoveLimit + 1)
    BY <1>1, <1>2 DEF ServerInv, RefereeInv, Played, RefereeStates
  <2> QED
    BY <2>1, <2>2
<1>3. CASE spc # "recvMove"
  BY <1>1, <1>3 DEF MovesJudged, RefereeStates
<1> QED
  BY <1>2, <1>3

(* The rank, in each state of the server.                                  *)
LEMMA CallsLeftFacts == ServerInv => CallsFacts
<1> SUFFICES ASSUME ServerInv PROVE CallsFacts
  OBVIOUS
<1>1. /\ spc \in {"accept", "recvPartie", "sendAnswers", "exit"} \union InGame
      /\ serving \in 1..2 /\ game.gameNumber \in 1..3
      /\ spc # "exit" => game.gameNumber \in 1..2
  BY DEF ServerInv, TypesOK, ServerTypeOK, ResultInv, Sending, Receiving, InGame, Players
<1>2. CASE spc \in {"accept", "recvPartie", "sendAnswers", "exit"}
  BY <1>1, <1>2, GameCallsType DEF CallsFacts, CallsLeft, InGame
<1>3. CASE spc \in InGame
  <2> DEFINE k == IF spc = "recvMove" THEN 0 ELSE IF spc = "sendToMover" THEN 3
                  ELSE IF spc = "sendToOther" THEN 2 ELSE 1
             b == (2 - game.gameNumber) * GameCalls
             n == MovesJudged
  <2>1. CallsLeft = b + 4 * (MoveLimit + 1 - n) + k
    BY <1>3 DEF CallsLeft, InGame
  <2>2. b = IF game.gameNumber = 1 THEN GameCalls ELSE 0
    <3>1. game.gameNumber = 1 \/ game.gameNumber = 2
      BY <1>1, <1>3 DEF InGame
    <3>2. 1 * GameCalls = GameCalls /\ 0 * GameCalls = 0 /\ 2 - 1 = 1 /\ 2 - 2 = 0
      BY GameCallsType
    <3> QED
      BY <3>1, <3>2
  <2>3. n \in 0..(MoveLimit + 1) /\ (spc = "recvMove" => n <= MoveLimit)
    BY <1>3, CountBound
  <2>4. k \in 0..3 /\ (k = 0 => spc = "recvMove")
    OBVIOUS
  <2> HIDE DEF b, n, k
  <2>5. CallsLeft \in Nat /\ CallsLeft > 0
    BY <2>1, <2>2, <2>3, <2>4, GameCallsType
  <2>6. spc \notin {"accept", "recvPartie", "sendAnswers", "exit"}
    BY <1>3 DEF InGame
  <2> QED
    BY <2>1, <2>2, <2>3, <2>5, <2>6 DEF CallsFacts, b, n, k
<1> QED
  BY <1>1, <1>2, <1>3

(* The match is set up, one call after the other.                          *)
LEMMA SetupRuns ==
  ASSUME ServerInv, CallsFacts, CallsFacts',
         Accept \/ RecvPartie \/ SendFirstAnswer \/ SendSecondAnswer
  PROVE  CallsLeft' < CallsLeft
<1>1. serving \in 1..2
  BY DEF ServerInv, TypesOK, ServerTypeOK, Players
<1>2. GameCalls \in Nat /\ GameCalls' = GameCalls /\ MoveLimit' = MoveLimit
  BY GameCallsType DEF GameCalls, MoveLimit
<1>3. CASE Accept
  BY <1>1, <1>2, <1>3 DEF Accept, CallsFacts
<1>4. CASE RecvPartie
  BY <1>1, <1>2, <1>4 DEF RecvPartie, CallsFacts, Other
<1>5. CASE SendFirstAnswer
  BY <1>1, <1>2, <1>5 DEF SendFirstAnswer, CallsFacts
<1>6. CASE SendSecondAnswer
  <2>1. spc' = "recvMove" /\ game' = game /\ game.gameNumber = 1
    BY <1>6 DEF SendSecondAnswer, ServerInv, SetupInv, Setup
  <2>2. CallsLeft = 2 * GameCalls + 1
    BY <1>2, <1>6 DEF SendSecondAnswer, CallsFacts
  <2>3. MovesJudged' \in 0..(MoveLimit + 1)
    BY <1>2, <2>1 DEF CallsFacts, InGame
  <2>4. CallsLeft' = GameCalls + 4 * (MoveLimit + 1 - MovesJudged') + 0
    BY <1>2, <2>1 DEF CallsFacts, InGame
  <2>5. PICK n \in 0..(MoveLimit + 1) : n = MovesJudged'
    BY ONLY <2>3, Zenon
  <2>6. CallsLeft' = GameCalls + 4 * (MoveLimit + 1 - n)
    BY ONLY <2>4, <2>5, GameCallsType
  <2> QED
    BY ONLY <2>2, <2>6, n \in 0..(MoveLimit + 1), GameCallsType
<1> QED
  BY <1>3, <1>4, <1>5, <1>6

(* A move is judged, and its verdict sent to both and the move to one.     *)
LEMMA TurnRuns ==
  ASSUME ServerInv, CallsFacts, CallsFacts',
         RecvMove \/ SendToMover \/ SendToOther \/ SendMove
  PROVE  CallsLeft' < CallsLeft
<1>1. /\ spc \in InGame /\ spc' \in InGame
      /\ game'.gameNumber = game.gameNumber
  BY DEF InGame, RecvMove, SendToMover, SendToOther, SendMove, ServerInv, TypesOK, ServerTypeOK
<1>2. MoveLimit' = MoveLimit /\ GameCalls' = GameCalls
  BY DEF GameCalls, MoveLimit
<1> DEFINE k == IF spc = "recvMove" THEN 0 ELSE IF spc = "sendToMover" THEN 3
                ELSE IF spc = "sendToOther" THEN 2 ELSE 1
           k1 == IF spc' = "recvMove" THEN 0 ELSE IF spc' = "sendToMover" THEN 3
                 ELSE IF spc' = "sendToOther" THEN 2 ELSE 1
           b == IF game.gameNumber = 1 THEN GameCalls ELSE 0
           n == MovesJudged
           n1 == MovesJudged'
<1>3. /\ CallsLeft = b + 4 * (MoveLimit + 1 - n) + k
      /\ CallsLeft' = b + 4 * (MoveLimit + 1 - n1) + k1
      /\ n \in 0..(MoveLimit + 1) /\ n1 \in 0..(MoveLimit + 1)
  BY <1>1, <1>2 DEF CallsFacts
<1>4. \/ n1 = n + 1 /\ k = 0 /\ k1 = 3
      \/ n1 = n /\ k \in 1..3 /\ k1 = k - 1
  <2>1. CASE RecvMove
    <3>1. /\ spc = "recvMove" /\ spc' = "sendToMover"
          /\ \E v : referee' = AfterVerdict(referee, v)
      BY <2>1 DEF RecvMove
    <3>2. referee'.numCoup = OpenGame(referee).numCoup + 1
      <4>1. PICK v : referee' = AfterVerdict(referee, v)
        BY <3>1
      <4>2. OpenGame(referee) = [partieCree |-> OpenGame(referee).partieCree,
                                 numPartie |-> OpenGame(referee).numPartie,
                                 numCoup |-> OpenGame(referee).numCoup,
                                 sens |-> OpenGame(referee).sens]
        BY DEF OpenGame, ServerInv, TypesOK, ServerTypeOK, RefereeStates
      <4> QED
        BY <4>1, <4>2 DEF AfterVerdict
    <3> QED
      BY <3>1, <3>2 DEF MovesJudged
  <2>2. CASE SendToMover
    BY <2>2 DEF SendToMover, MovesJudged
  <2>3. CASE SendToOther
    BY <2>3 DEF SendToOther, MovesJudged
  <2>4. CASE SendMove
    <3>1. spc = "sendMove" /\ spc' = "recvMove" /\ referee' = referee
      BY <2>4 DEF SendMove
    <3>2. referee.partieCree
      BY <3>1 DEF ServerInv, RefereeInv
    <3> QED
      BY <3>1, <3>2 DEF MovesJudged, OpenGame
  <2> QED
    BY <2>1, <2>2, <2>3, <2>4
<1>5. b \in Nat /\ MoveLimit \in Nat
  BY GameCallsType
<1> HIDE DEF b, k, k1, n, n1
<1> QED
  BY <1>3, <1>4, <1>5

(* The second game has as many calls as the first may have left.           *)
LEMMA GamesRun ==
  ASSUME ServerInv, CallsFacts, CallsFacts', NextGame
  PROVE  CallsLeft' < CallsLeft
<1>1. /\ spc = "endOfGame" /\ spc' = "recvMove"
      /\ game.gameNumber = 1 /\ game'.gameNumber = 2
      /\ ~referee'.partieCree
  BY DEF NextGame, initialiserPartie, ServerInv, TypesOK, ServerTypeOK, RefereeStates
<1>2. MoveLimit' = MoveLimit /\ MoveLimit \in Nat /\ GameCalls = 4 * MoveLimit + 4
  BY GameCallsType DEF MoveLimit
<1>3. MovesJudged' = 0
  BY <1>1 DEF MovesJudged, OpenGame
<1>4. /\ CallsLeft = GameCalls + 4 * (MoveLimit + 1 - MovesJudged) + 1
      /\ MovesJudged \in 0..(MoveLimit + 1)
  BY <1>1 DEF CallsFacts, InGame
<1>5. CallsLeft' = 4 * (MoveLimit + 1 - 0)
  BY <1>1, <1>2, <1>3 DEF CallsFacts, InGame
<1> QED
  BY <1>2, <1>4, <1>5

(* Every step of the server brings its end nearer.                         *)
THEOREM ServerStepRuns ==
  ASSUME ServerInv, ServerNext
  PROVE  CallsLeft \in Nat /\ CallsLeft' \in 0..(CallsLeft - 1)
<1>1. ServerInv'
  BY ServerStepInv
<1>2. CallsFacts /\ CallsFacts'
  BY <1>1, CallsLeftFacts, PTL
<1>3. CallsLeft' < CallsLeft
  <2>1. CASE Accept \/ RecvPartie \/ SendFirstAnswer \/ SendSecondAnswer
    BY <1>2, <2>1, SetupRuns
  <2>2. CASE RecvMove \/ SendToMover \/ SendToOther \/ SendMove
    BY <1>2, <2>2, TurnRuns
  <2>3. CASE NextGame
    BY <1>2, <2>3, GamesRun
  <2>4. CASE RefuseMatch \/ LastGame \/ RecvError \/ SendError \/ KilledBySigpipe
    <3>1. spc' = "exit" /\ spc # "exit"
      BY <2>4 DEF RefuseMatch, LastGame, RecvError, SendError, KilledBySigpipe, Forfeit,
                  endGame, Leave, Receiving, Sending
    <3> QED
      BY <1>2, <3>1 DEF CallsFacts
  <2> QED
    BY <2>1, <2>2, <2>3, <2>4 DEF ServerNext
<1> QED
  BY <1>2, <1>3 DEF CallsFacts
=============================================================================
