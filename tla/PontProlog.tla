---------------------------- MODULE PontProlog ----------------------------
(***************************************************************************)
(* The AI's board: the object of IA/Prolog.java, which keeps currentBoard, *)
(* currentCaptN and currentCaptS, writes them into each query and reads    *)
(* them back from its answer.                                              *)
(***************************************************************************)
EXTENDS ChoixCoup

CONSTANT Own    \* sides that are played by this AI

ASSUME OwnAssumption == Own \subseteq Sides

VARIABLES
  ia,         \* ia[s]: the position that the AI of side s keeps
  ignored     \* ignored[s]: a move of the opponent has left it as it was

iaVars == <<ia, ignored>>

PontTypeOK ==
  /\ ia \in [Sides -> Positions]
  /\ ignored \in [Sides -> BOOLEAN]

(* init(), for both AIs.                                                   *)
PontInit ==
  /\ ia = [s \in Sides |-> InitialPosition]
  /\ ignored = [s \in Sides |-> FALSE]

(* init(), before the second game.                                         *)
init ==
  /\ ia' = [s \in Sides |-> InitialPosition]
  /\ ignored' = [s \in Sides |-> FALSE]

(* The query for the move of the opponent of side s has a solution.        *)
Accepts(s, coup) ==
  IF coup.typeCoup = DEPLACER THEN force_move(ia[s], opponent(s), coup)
  ELSE put(ia[s], opponent(s), coup)

(* Mutant: what the opponent has dropped stays among the captured pieces.  *)
forceEnnemyStrike_OldCapt(s, coup) ==
  IF Accepts(s, coup)
  THEN /\ ia' = [ia EXCEPT ![s] =
                   IF coup.typeCoup = DEPLACER THEN After(@, opponent(s), coup)
                   ELSE AfterPut_StaysInHand(@, opponent(s), coup)]
       /\ UNCHANGED ignored
  ELSE ignored' = [ignored EXCEPT ![s] = TRUE] /\ UNCHANGED ia

(* forceEnnemyStrike(): the opponent's move on the AI's board.  Without a  *)
(* solution nothing is done and nothing is said.                           *)
forceEnnemyStrike(s, coup) ==
  IF Accepts(s, coup)
  THEN /\ ia' = [ia EXCEPT ![s] =
                   IF coup.typeCoup = DEPLACER THEN After(@, opponent(s), coup)
                   ELSE AfterPut(@, opponent(s), coup)]
       /\ UNCHANGED ignored
  ELSE ignored' = [ignored EXCEPT ![s] = TRUE] /\ UNCHANGED ia

(* The move of a query without a solution: its fields were never written.  *)
Unwritten == Displacement("aucun", NullePart, NullePart, FALSE)

(* The moves that generateMove() may return.  When the answer binds no     *)
(* variable (no displacement is left) the reading of the type throws, and  *)
(* the AI exits: no move at all.                                           *)
generatedMoves(p, s) ==
  IF generate_move_fails(p, s) THEN {Unwritten} ELSE best_moves(p, s)

(* generateMove(): the AI's own move on its own board, before anybody has  *)
(* judged it.                                                              *)
generateMove(s, coup) ==
  /\ coup \in generatedMoves(ia[s], s)
  /\ ia' = IF coup = Unwritten THEN ia ELSE [ia EXCEPT ![s] = After(@, s, coup)]
  /\ UNCHANGED ignored
=============================================================================
