----------------------------- MODULE ChoixCoup -----------------------------
(***************************************************************************)
(* How the AI chooses its move: IA/ia.pl, second half.                     *)
(*                                                                         *)
(* best_move keeps the first of the moves that score most, in the order in *)
(* which Prolog finds them, which is the order of the board's list.  The   *)
(* list is a function here and its order is lost, so any of these moves    *)
(* may be chosen: what holds for all of them holds for the one that is.    *)
(***************************************************************************)
EXTENDS Plateau

(* The squares of the opponent's king: none once it has been captured.     *)
Kings(b, s) == {c \in Squares : b[c] = piece(s, "koropokkuru")}

(* distance_to_koropokkuru, from the square where the move ends.  It fails *)
(* without a king to measure from.                                         *)
distance(p, s, m) ==
  LET k == CHOOSE c \in Kings(p.board, opponent(s)) : TRUE
  IN Abs(k[1] - m.to[1]) + Abs(k[2] - m.to[2])

Value(t) ==
  CASE t = "kodama" -> 1
    [] t = "oni" -> 2
    [] t \in {"samourai", "superoni", "kirin"} -> 3
    [] t = "koropokkuru" -> 10

is_capturing(p, m) ==
  CASE ~m.estCapt -> 0
    [] m.estCapt /\ m.type = "koropokkuru" -> -5
    [] OTHER -> Value(p.board[m.to].type)

(* oppo_moves: the move ends where a move of the opponent, in the position *)
(* as it is before, would end too.                                         *)
oppo_moves(range, m) ==
  IF m.to \notin range THEN 0 ELSE IF m.type = "koropokkuru" THEN -1000 ELSE -2

arrivals(p, s) == {m.to : m \in get_moves(p, s)}

(* process_score of a move of side s.                                      *)
process_score(p, s, range, m) ==
  is_capturing(p, m) + oppo_moves(range, m) - distance(p, s, m)

(* best_move: the moves whose score is the highest.                        *)
best_moves(p, s) ==
  LET moves == get_moves(p, s)
      range == arrivals(p, opponent(s))
      scores == {process_score(p, s, range, m) : m \in moves}
      best == CHOOSE v \in scores : \A w \in scores : w <= v
  IN {m \in moves : process_score(p, s, range, m) = best}

(* generate_move fails when the opponent's king is not on the board; when  *)
(* the side has no displacement it succeeds and binds nothing.             *)
generate_move_fails(p, s) ==
  get_moves(p, s) # {} /\ Kings(p.board, opponent(s)) = {}
=============================================================================
