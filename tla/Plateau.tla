------------------------------ MODULE Plateau ------------------------------
(***************************************************************************)
(* The board and the rules of IA/ia.pl, first half.                        *)
(*                                                                         *)
(* A Prolog list of piece(Side, Type, X, Y) is a function from squares to  *)
(* what stands there: the predicates that add a piece to a board first see *)
(* that its square is empty or take away what stood there.  A list of      *)
(* captured pieces is a count per type.                                    *)
(*                                                                         *)
(* Prolog calls "north" the player who starts on lines 1 to 3 and whom the *)
(* protocol calls SUD; it is the same player.                              *)
(*                                                                         *)
(* A predicate that has several solutions is modelled by the first one,    *)
(* the only one its callers use: a piece that reaches the two last lines   *)
(* is promoted and a captured piece loses its promotion.                   *)
(***************************************************************************)
EXTENDS ProtocolYokai

north == "SUD"
south == "NORD"

Sides == {north, south}

opponent(s) == IF s = north THEN south ELSE north

Squares == (1..5) \X (1..6)

Types == {"kodama", "samourai", "oni", "superoni", "kirin", "koropokkuru"}

(* The types that a captured piece may have.                               *)
CaptTypes == {"kodama", "oni", "kirin", "koropokkuru"}

piece(s, t) == [side |-> s, type |-> t]

(* Nobody's piece: a square that is empty.                                 *)
Vide == piece("aucun", "aucun")

Boards == [Squares -> [side : Sides, type : Types] \union {Vide}]

Capts == [Sides -> [CaptTypes -> Nat]]

(* What Prolog.java keeps between two queries.                             *)
Positions == [board : Boards, capt : Capts]

(* EnumCoup, and the square of a move that nobody has filled in.           *)
DEPLACER == "DEPLACER"
DEPOSER == "DEPOSER"
NullePart == <<0, 0>>

(* A move: a displacement and whether it takes, or a drop.                 *)
Displacement(t, a, b, takes) ==
  [typeCoup |-> DEPLACER, type |-> t, from |-> a, to |-> b, estCapt |-> takes]

Drop(t, b) ==
  [typeCoup |-> DEPOSER, type |-> t, from |-> NullePart, to |-> b,
   estCapt |-> FALSE]

-----------------------------------------------------------------------------
LastRow == <<"oni", "kirin", "koropokkuru", "kirin", "oni">>

initial_board ==
  [c \in Squares |->
     CASE c[2] = 1 -> piece(north, LastRow[c[1]])
       [] c[2] = 6 -> piece(south, LastRow[c[1]])
       [] c[2] = 3 /\ c[1] \in 2..4 -> piece(north, "kodama")
       [] c[2] = 4 /\ c[1] \in 2..4 -> piece(south, "kodama")
       [] OTHER -> Vide]

NoCapt == [s \in Sides |-> [t \in CaptTypes |-> 0]]

InitialPosition == [board |-> initial_board, capt |-> NoCapt]

isEmpty(b, c) == c \in Squares /\ b[c] = Vide

(* What a captured piece becomes.                                          *)
CorrectedType(t) ==
  CASE t = "samourai" -> "kodama" [] t = "superoni" -> "oni" [] OTHER -> t

(* What a piece of side s becomes on the square b.                         *)
NewType(s, t, b) ==
  IF (s = north /\ b[2] >= 5) \/ (s = south /\ b[2] <= 2)
  THEN CASE t = "kodama" -> "samourai" [] t = "oni" -> "superoni" [] OTHER -> t
  ELSE t

(* Mutant: move and capture without the select that takes the piece away.  *)
After_Duplicates(p, s, m) ==
  [board |-> [p.board EXCEPT ![m.to] = piece(s, NewType(s, m.type, m.to))],
   capt |-> IF isEmpty(p.board, m.to) THEN p.capt
            ELSE [p.capt EXCEPT ![s][CorrectedType(p.board[m.to].type)] = @ + 1]]

(* The position once the piece of side s on m.from has gone to m.to, where *)
(* it takes what the opponent has there.                                   *)
After(p, s, m) ==
  [board |-> [p.board EXCEPT ![m.from] = Vide,
                             ![m.to] = piece(s, NewType(s, m.type, m.to))],
   capt |-> IF isEmpty(p.board, m.to) THEN p.capt
            ELSE [p.capt EXCEPT ![s][CorrectedType(p.board[m.to].type)] = @ + 1]]

-----------------------------------------------------------------------------
Abs(n) == IF n < 0 THEN -n ELSE n

(* Where a piece may go, as columns to the side and lines forward.         *)
Directions(t) ==
  CASE t = "kodama" -> {<<0, 1>>}
    [] t = "oni" -> {<<0, 1>>, <<1, 1>>, <<-1, 1>>, <<1, -1>>, <<-1, -1>>}
    [] t = "koropokkuru" ->
         {<<0, 1>>, <<0, -1>>, <<1, 0>>, <<-1, 0>>,
          <<1, 1>>, <<1, -1>>, <<-1, 1>>, <<-1, -1>>}
    [] OTHER ->
         {<<0, 1>>, <<0, -1>>, <<1, 0>>, <<-1, 0>>, <<1, 1>>, <<-1, 1>>}

Forward(s, n) == IF s = north THEN n ELSE -n

(* A piece t of side s may go from a to b.                                 *)
Reaches(s, t, a, b) ==
  <<b[1] - a[1], Forward(s, b[2] - a[2])>> \in Directions(t)

(* Mutant: a move may end on a piece of its own side, which it takes.      *)
try_move_OwnPiece(p, s, m) ==
  /\ p.board[m.from] = piece(s, m.type)
  /\ m.to \in Squares
  /\ Reaches(s, m.type, m.from, m.to)
  /\ m.estCapt <=> ~isEmpty(p.board, m.to)

(* try_move has the displacement m among its solutions.                    *)
try_move(p, s, m) ==
  /\ p.board[m.from] = piece(s, m.type)
  /\ m.to \in Squares
  /\ Reaches(s, m.type, m.from, m.to)
  /\ isEmpty(p.board, m.to) \/ p.board[m.to].side = opponent(s)
  /\ m.estCapt <=> ~isEmpty(p.board, m.to)

Near(c) == (((c[1] - 1)..(c[1] + 1)) \X ((c[2] - 1)..(c[2] + 1))) \ {c}

(* get_moves: all the displacements of side s.  Only displacements: the    *)
(* captured pieces are arguments that no solution reads.                   *)
get_moves(p, s) ==
  {m \in UNION {{Displacement(p.board[a].type, a, b, b \in Squares /\ p.board[b] # Vide) :
                   b \in Near(a)} :
                a \in {c \in Squares : p.board[c].side = s}} :
     try_move(p, s, m)}

-----------------------------------------------------------------------------
(* force_move has a solution, which is After(p, s, m): the piece announced *)
(* is there and the square of arrival is empty or the opponent's.  Whether *)
(* the piece may go there is not looked at.                                *)
force_move(p, s, m) ==
  /\ m.from \in Squares
  /\ p.board[m.from] = piece(s, m.type)
  /\ m.to \in Squares
  /\ isEmpty(p.board, m.to) \/ p.board[m.to].side = opponent(s)

(* The lines on which put lets a side drop a piece.                        *)
PutLines(s) == IF s = north THEN 1..5 ELSE 2..6

(* Mutant: the column must hold nobody's piece.                            *)
put_AnyPiece(p, s, m) ==
  /\ m.to \in Squares
  /\ m.to[2] \in PutLines(s)
  /\ \A c \in Squares : c[1] = m.to[1] => p.board[c] = Vide
  /\ m.type \in CaptTypes
  /\ p.capt[s][m.type] > 0

(* put has a solution for the drop m: no piece of the side in the column,  *)
(* the square is empty, the piece has been captured.                       *)
put(p, s, m) ==
  /\ m.to \in Squares
  /\ m.to[2] \in PutLines(s)
  /\ \A c \in Squares : c[1] = m.to[1] => p.board[c].side # s
  /\ isEmpty(p.board, m.to)
  /\ m.type \in CaptTypes
  /\ p.capt[s][m.type] > 0

(* Mutant: the piece that was dropped stays among the captured ones.       *)
AfterPut_StaysInHand(p, s, m) ==
  [board |-> [p.board EXCEPT ![m.to] = piece(s, m.type)], capt |-> p.capt]

(* The position once a piece has been dropped.                             *)
AfterPut(p, s, m) ==
  [board |-> [p.board EXCEPT ![m.to] = piece(s, m.type)],
   capt |-> [p.capt EXCEPT ![s][m.type] = @ - 1]]
=============================================================================
