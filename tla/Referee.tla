------------------------------ MODULE Referee ------------------------------
(***************************************************************************)
(* The referee library the server is linked with (Serveur/yokai-fPIC.o),   *)
(* of which the repository holds the interface, Serveur/validation.h, and  *)
(* the object code.  It is external to this project's source: the module   *)
(* states what validation.h promises and what the object code does to the  *)
(* part of its state that outlives a call:                                 *)
(*                                                                         *)
(*  - initialiserPartie() forgets the current game;                        *)
(*  - validationCoup() opens a game when there is none, the player who     *)
(*    starts facing SUD in the first game and NORD in the next one;        *)
(*  - it refuses a piece that does not face the way its player faces;      *)
(*  - a verdict other than CONT closes the game;                           *)
(*  - a move that would let the game go on is a draw (NUL) when it comes   *)
(*    after MoveLimit moves of that game.                                  *)
(*                                                                         *)
(* Whether a move obeys the rules of Yokai No-Mori is a free choice here.  *)
(***************************************************************************)
EXTENDS ProtocolYokai

RefereeStates == [partieCree : BOOLEAN,      \* a game is open
                  numPartie : 0..1,          \* 0 until a game was opened
                  numCoup : 0..(MoveLimit + 1),
                  sens : TSensTetePiece]     \* way player "1" of it faces

RefereeInit == [partieCree |-> FALSE, numPartie |-> 0, numCoup |-> 0,
                sens |-> "SUD"]

initialiserPartie(r) == [r EXCEPT !.partieCree = FALSE]

(* The state of the referee once it has a game open.                       *)
OpenGame(r) ==
  IF r.partieCree THEN r
  ELSE [partieCree |-> TRUE, numPartie |-> 1, numCoup |-> 0,
        sens |-> IF r.numPartie = 0 THEN "SUD" ELSE "NORD"]

(* The way the pieces of player "joueur" (1 moved first, 2 second) face.   *)
Facing(r, joueur) ==
  IF joueur = 1 THEN OpenGame(r).sens
  ELSE CHOOSE s \in TSensTetePiece : s # OpenGame(r).sens

(* The verdicts validationCoup may return on a move, as pairs of its       *)
(* result and of *propCoup.  A blocked player who says so loses by a valid *)
(* move, hence (TRUE, PERDU).                                              *)
Verdicts(r, joueur, coup) ==
  LET refused == [valid |-> FALSE, prop |-> "PERDU"]
      goesOn == IF OpenGame(r).numCoup >= MoveLimit THEN "NUL" ELSE "CONT"
  IN IF coup.sens # Facing(r, joueur)
     THEN {refused}
     ELSE {refused} \union [valid : {TRUE}, prop : {"PERDU", "GAGNE", goesOn}]

(* The state of the referee after a call of validationCoup that returned v.*)
AfterVerdict(r, v) ==
  [OpenGame(r) EXCEPT !.numCoup = @ + 1, !.partieCree = v.prop = "CONT"]
=============================================================================
