------------------------------ MODULE Arbitre ------------------------------
(***************************************************************************)
(* The rules behind the verdicts of the referee (module Referee): its      *)
(* board, its reserves and the body of validationCoup().  It is external:  *)
(* the repository links the object code, Serveur/yokai-fPIC.o, from which  *)
(* every operator here is read, under the name it has there.               *)
(*                                                                         *)
(* The operators share the squares and the pieces of Plateau, and none of  *)
(* its rules: that the two sets of rules agree is what module Partie is    *)
(* about.                                                                  *)
(***************************************************************************)
EXTENDS Plateau, Referee

inverse(couleur) == IF couleur = "SUD" THEN "NORD" ELSE "SUD"

(* A piece may go from one square to the other, the lines counted in the   *)
(* direction in which it faces.                                            *)
deplacementPieceCorrect(depart, arrivee, type, couleur) ==
  LET c == Abs(arrivee[1] - depart[1])
      l == (IF couleur = "SUD" THEN 1 ELSE -1) * (arrivee[2] - depart[2])
  IN CASE type = "kodama" -> c = 0 /\ l = 1
       [] type = "oni" -> (c <= 1 /\ l = 1) \/ (c = 1 /\ l = -1)
       [] type = "koropokkuru" -> c <= 1 /\ Abs(l) <= 1 /\ (c # 0 \/ l # 0)
       [] OTHER -> (c <= 1 /\ l = 1) \/ (c = 1 /\ l = 0) \/ (c = 0 /\ l = -1)

Voisines(c) ==
  (((c[1] - 1)..(c[1] + 1)) \X ((c[2] - 1)..(c[2] + 1))) \intersect Squares

(* A piece of that colour can take what stands on the square.              *)
caseEnPrise(b, c, couleur) ==
  \E d \in Voisines(c) :
    b[d].side = couleur /\ deplacementPieceCorrect(d, c, b[d].type, couleur)

verifierEchec(b, couleur) ==
  \E c \in Squares :
    b[c] = piece(couleur, "koropokkuru") /\ caseEnPrise(b, c, inverse(couleur))

(* The piece on c gives check, no piece but the king can take it and the   *)
(* king has no square to go to.                                            *)
coupGagnant(b, c) ==
  LET couleur == b[c].side
      roi == piece(inverse(couleur), "koropokkuru")
      Attacks(d, e) == deplacementPieceCorrect(d, e, b[d].type, b[d].side)
  IN \E r \in Voisines(c) :
       /\ b[r] = roi /\ Attacks(c, r)
       /\ \A d \in Voisines(c) :
            b[d].side = inverse(couleur) /\ b[d] # roi => ~Attacks(d, c)
       /\ \A e \in Voisines(r) :
            b[e] = Vide \/ b[e].side = couleur => caseEnPrise(b, e, couleur)

colonneSansKamado(b, c, couleur) ==
  \A d \in Squares : d[1] = c[1] => b[d] # piece(couleur, "kodama")

promotion(couleur, type, c) ==
  CASE type = "kodama" /\ c[2] \in (IF couleur = "SUD" THEN {5, 6} ELSE {1, 2})
         -> "samourai"
    [] type = "oni" /\ c[2] \in (IF couleur = "SUD" THEN {5, 6} ELSE {1, 2})
         -> "superoni"
    [] OTHER -> type

(* The types of the pieces in a reserve; a king that is taken is in none.  *)
ReserveTypes == {"kodama", "oni", "kirin"}

Reserve(type) ==
  CASE type \in {"kodama", "samourai"} -> "kodama"
    [] type \in {"oni", "superoni"} -> "oni"
    [] type = "kirin" -> "kirin"
    [] OTHER -> "aucun"

miseReserve(capt, couleur, type) ==
  [s \in Sides |-> [t \in CaptTypes |->
     IF s = couleur /\ t = Reserve(type) THEN capt[s][t] + 1 ELSE capt[s][t]]]

(* place() of a dropped piece, deplace() of a piece on the board.          *)
place(p, couleur, coup) ==
  [board |-> [c \in Squares |->
                IF c = coup.to THEN piece(couleur, coup.type) ELSE p.board[c]],
   capt |-> [s \in Sides |-> [t \in CaptTypes |->
               IF s = couleur /\ t = coup.type THEN p.capt[s][t] - 1
               ELSE p.capt[s][t]]]]

deplace(p, couleur, coup) ==
  [board |-> [c \in Squares |->
                IF c = coup.from THEN Vide
                ELSE IF c = coup.to
                THEN piece(couleur, promotion(couleur, coup.type, c))
                ELSE p.board[c]],
   capt |-> IF coup.estCapt THEN miseReserve(p.capt, couleur, p.board[coup.to].type)
            ELSE p.capt]

-----------------------------------------------------------------------------
(* The tests of a drop.  A piece of any type is refused in a column where  *)
(* an own kodama stands; a king in check is not looked at.                 *)
DeposerCorrect(p, couleur, coup) ==
  /\ coup.to \in Squares
  /\ coup.type \in ReserveTypes
  /\ p.capt[couleur][coup.type] > 0
  /\ p.board[coup.to] = Vide
  /\ colonneSansKamado(p.board, coup.to, couleur)

(* The tests of a displacement but for those about the king.               *)
DeplacerCorrect(p, couleur, coup) ==
  /\ coup.from \in Squares
  /\ coup.to \in Squares
  /\ p.board[coup.from] = piece(couleur, coup.type)
  /\ p.board[coup.to].side # couleur
  /\ coup.estCapt <=> p.board[coup.to] # Vide
  /\ deplacementPieceCorrect(coup.from, coup.to, coup.type, couleur)

(* Mutant: the king is not looked at after a move.                         *)
RoiEnSecurite_KingOnly(p, couleur, coup) ==
  ~(coup.type = "koropokkuru" /\ caseEnPrise(p.board, coup.to, inverse(couleur)))

(* The tests of a displacement about the king.                             *)
RoiEnSecurite(p, couleur, coup) ==
  /\ ~(coup.type = "koropokkuru" /\ caseEnPrise(p.board, coup.to, inverse(couleur)))
  /\ ~verifierEchec(deplace(p, couleur, coup).board, couleur)

coupValide(p, couleur, coup) ==
  IF coup.typeCoup = DEPOSER THEN DeposerCorrect(p, couleur, coup)
  ELSE DeplacerCorrect(p, couleur, coup) /\ RoiEnSecurite(p, couleur, coup)

(* The referee's position after a move that it accepts.                    *)
ApresCoup(p, couleur, coup) ==
  IF coup.typeCoup = DEPOSER THEN place(p, couleur, coup)
  ELSE deplace(p, couleur, coup)

(* Mutant: one move more before the draw.                                  *)
validationCoup_OneMore(r, p, couleur, coup) ==
  IF ~coupValide(p, couleur, coup) THEN [valid |-> FALSE, prop |-> "PERDU"]
  ELSE [valid |-> TRUE,
        prop |-> IF coupGagnant(ApresCoup(p, couleur, coup).board, coup.to)
                 THEN "GAGNE"
                 ELSE IF OpenGame(r).numCoup > MoveLimit THEN "NUL" ELSE "CONT"]

(* validationCoup() of a move by the player whose pieces are of that       *)
(* colour, in the state r of the referee.                                  *)
validationCoup(r, p, couleur, coup) ==
  IF ~coupValide(p, couleur, coup) THEN [valid |-> FALSE, prop |-> "PERDU"]
  ELSE [valid |-> TRUE,
        prop |-> IF coupGagnant(ApresCoup(p, couleur, coup).board, coup.to)
                 THEN "GAGNE"
                 ELSE IF OpenGame(r).numCoup + 1 > MoveLimit THEN "NUL" ELSE "CONT"]
=============================================================================
