---------------------------- MODULE PartieProofs ----------------------------
(***************************************************************************)
(* Proofs about the boards of a match, for every number of moves, every    *)
(* choice of the sides that are played by this AI and every bound on what  *)
(* another team's program plays.                                           *)
(***************************************************************************)
EXTENDS Partie, TLAPS

-----------------------------------------------------------------------------
(* What may stand on a square.                                             *)
Occupants == [side : Sides, type : Types] \union {Vide}

(* What the other definitions need to know of the sides and the types.     *)
LEMMA SidesFacts ==
  /\ north \in Sides /\ south \in Sides /\ north # south
  /\ \A s \in Sides : opponent(s) \in Sides /\ opponent(s) # s
                      /\ opponent(opponent(s)) = s /\ inverse(s) = opponent(s)
  /\ \A s, t \in Sides : t # s => t = opponent(s)
  /\ "aucun" \notin Sides
BY DEF north, south, Sides, opponent, inverse

(* A square of a board is empty or somebody's.                             *)
LEMMA OccupantFacts ==
  ASSUME NEW p \in Positions, NEW c \in Squares
  PROVE  /\ p.board[c] \in Occupants
         /\ p.board[c] # Vide => p.board[c].side \in Sides /\ p.board[c].type \in Types
         /\ p.board[c] = Vide <=> p.board[c].side \notin Sides
         /\ p.board[c] # Vide =>
              p.board[c] = piece(p.board[c].side, p.board[c].type)
<1>1. p.board \in [Squares -> Occupants]
  BY DEF Positions, Boards, Occupants
<1>2. p.board[c] \in Occupants
  BY <1>1
<1>. QED
  BY <1>2, SidesFacts DEF Occupants, Vide, piece

(* The promotion of a piece, in Prolog and in the referee.                 *)
LEMMA PromotionAgrees ==
  ASSUME NEW s \in Sides, NEW t \in Types, NEW b \in Squares
  PROVE  NewType(s, t, b) = promotion(s, t, b) /\ NewType(s, t, b) \in Types
<1>1. CASE t = "kodama"
  BY <1>1 DEF NewType, promotion, Types, Sides, north, south, Squares
<1>2. CASE t = "oni"
  BY <1>2 DEF NewType, promotion, Types, Sides, north, south, Squares
<1>3. CASE t \notin {"kodama", "oni"}
  BY <1>3 DEF NewType, promotion, Types, Sides, north, south, Squares
<1>. QED
  BY <1>1, <1>2, <1>3

(* What a captured piece becomes, in Prolog and in the referee.            *)
LEMMA CaptureAgrees ==
  ASSUME NEW t \in Types
  PROVE  /\ CorrectedType(t) \in CaptTypes
         /\ t # "koropokkuru" => Reserve(t) = CorrectedType(t)
         /\ t = "koropokkuru" => Reserve(t) \notin CaptTypes
                                 /\ CorrectedType(t) \notin ReserveTypes
BY DEF Types, CorrectedType, CaptTypes, Reserve, ReserveTypes

(* Every displacement of ia.pl is one that the referee allows.             *)
LEMMA DisplacementsAgree ==
  ASSUME NEW s \in Sides, NEW t \in Types, NEW a \in Squares, NEW b \in Squares,
         Reaches(s, t, a, b)
  PROVE  deplacementPieceCorrect(a, b, t, s)
<1>. DEFINE c == b[1] - a[1]
            l == Forward(s, b[2] - a[2])
<1>1. a[1] \in Int /\ a[2] \in Int /\ b[1] \in Int /\ b[2] \in Int
  BY DEF Squares
<1>2. /\ c \in Int /\ l \in Int
      /\ (IF s = "SUD" THEN 1 ELSE -1) * (b[2] - a[2]) = l
  BY <1>1 DEF Forward, north
<1>3. <<c, l>> \in Directions(t)
  BY DEF Reaches
<1>. HIDE DEF c, l
<1>4. CASE t = "kodama"
  <2>1. c = 0 /\ l = 1
    BY <1>3, <1>4 DEF Directions
  <2>. QED
    BY <2>1, <1>4, <1>1, <1>2 DEF deplacementPieceCorrect, Abs, c
<1>5. CASE t = "oni"
  <2>1. <<c, l>> \in {<<0, 1>>, <<1, 1>>, <<-1, 1>>, <<1, -1>>, <<-1, -1>>}
    BY <1>3, <1>5 DEF Directions
  <2>2. (c \in {-1, 0, 1} /\ l = 1) \/ (c \in {-1, 1} /\ l = -1)
    BY <2>1
  <2>. QED
    BY <2>2, <1>5, <1>1, <1>2 DEF deplacementPieceCorrect, Abs, c
<1>6. CASE t = "koropokkuru"
  <2>1. <<c, l>> \in {<<0, 1>>, <<0, -1>>, <<1, 0>>, <<-1, 0>>,
                      <<1, 1>>, <<1, -1>>, <<-1, 1>>, <<-1, -1>>}
    BY <1>3, <1>6 DEF Directions
  <2>2. c \in {-1, 0, 1} /\ l \in {-1, 0, 1} /\ (c # 0 \/ l # 0)
    BY <2>1
  <2>3. Abs(c) <= 1 /\ Abs(l) <= 1 /\ (Abs(c) # 0 \/ l # 0)
    BY <2>2 DEF Abs
  <2>. QED
    BY <2>3, <1>6, <1>2 DEF deplacementPieceCorrect, c
<1>7. CASE t \notin {"kodama", "oni", "koropokkuru"}
  <2>1. <<c, l>> \in {<<0, 1>>, <<0, -1>>, <<1, 0>>, <<-1, 0>>, <<1, 1>>, <<-1, 1>>}
    BY <1>3, <1>7 DEF Directions
  <2>2. (c \in {-1, 0, 1} /\ l = 1) \/ (c \in {-1, 1} /\ l = 0) \/ (c = 0 /\ l = -1)
    BY <2>1
  <2>. QED
    BY <2>2, <1>7, <1>1, <1>2 DEF deplacementPieceCorrect, Abs, c
<1>. QED
  BY <1>4, <1>5, <1>6, <1>7

(* A displacement goes to a neighbouring square and never stays.           *)
LEMMA DisplacementIsNear ==
  ASSUME NEW s \in Sides, NEW t \in Types, NEW a \in Squares, NEW b \in Squares,
         deplacementPieceCorrect(a, b, t, s)
  PROVE  a \in Voisines(b) /\ a # b
<1>. DEFINE c == Abs(b[1] - a[1])
            l == (IF s = "SUD" THEN 1 ELSE -1) * (b[2] - a[2])
<1>1. /\ a[1] \in Int /\ a[2] \in Int /\ b[1] \in Int /\ b[2] \in Int
      /\ a = <<a[1], a[2]>>
  BY DEF Squares
<1>2. c \in Int /\ l \in Int
  BY <1>1 DEF Abs
<1>. HIDE DEF c, l
<1>3. /\ t = "kodama" => c = 0 /\ l = 1
      /\ t = "oni" => (c <= 1 /\ l = 1) \/ (c = 1 /\ l = -1)
      /\ t = "koropokkuru" => c <= 1 /\ Abs(l) <= 1 /\ (c # 0 \/ l # 0)
      /\ t \notin {"kodama", "oni", "koropokkuru"} =>
           (c <= 1 /\ l = 1) \/ (c = 1 /\ l = 0) \/ (c = 0 /\ l = -1)
  BY DEF deplacementPieceCorrect, c, l
<1>4. c <= 1 /\ -1 <= l /\ l <= 1 /\ (c # 0 \/ l # 0)
  BY <1>2, <1>3 DEF Abs
<1>5. l = b[2] - a[2] \/ l = -(b[2] - a[2])
  BY <1>1 DEF l
<1>6. /\ b[1] - a[1] \in -1..1 /\ b[2] - a[2] \in -1..1
      /\ a[1] # b[1] \/ a[2] # b[2]
  BY <1>1, <1>2, <1>4, <1>5 DEF Abs, c
<1>. QED
  BY <1>1, <1>6 DEF Voisines

-----------------------------------------------------------------------------
(* A piece that stands on a board has a type.                              *)
LEMMA PieceType ==
  ASSUME NEW p \in Positions, NEW c \in Squares, NEW s \in Sides, NEW t,
         p.board[c] = piece(s, t)
  PROVE  t \in Types
<1>1. p.board[c].side = s /\ p.board[c].type = t
  BY DEF piece
<1>. QED
  BY <1>1, OccupantFacts

(* The square of arrival of a displacement: empty, or the opponent's.      *)
LEMMA Arrival ==
  ASSUME NEW p \in Positions, NEW s \in Sides, NEW c \in Squares
  PROVE  (p.board[c].side # s) <=> (isEmpty(p.board, c) \/ p.board[c].side = opponent(s))
<1>1. CASE p.board[c] = Vide
  BY <1>1, SidesFacts, OccupantFacts DEF isEmpty
<1>2. CASE p.board[c] # Vide
  <2>1. p.board[c].side \in Sides
    BY <1>2, OccupantFacts
  <2>. QED
    BY <2>1, <1>2, SidesFacts DEF isEmpty
<1>. QED
  BY <1>1, <1>2

(* What the AI finds as a displacement passes the referee's tests but for  *)
(* those about the king, when they see the same board.                     *)
LEMMA TriedIsCorrect ==
  ASSUME NEW p \in Positions, NEW q \in Positions, Same(p, q),
         NEW s \in Sides, NEW m, m.from \in Squares, m.estCapt \in BOOLEAN,
         try_move(p, s, m)
  PROVE  DeplacerCorrect(q, s, m)
<1>1. m.to \in Squares /\ p.board[m.from] = piece(s, m.type) /\ p.board = q.board
  BY DEF try_move, Same
<1>2. m.type \in Types
  BY <1>1, PieceType
<1>3. deplacementPieceCorrect(m.from, m.to, m.type, s)
  BY <1>1, <1>2, DisplacementsAgree DEF try_move
<1>4. q.board[m.to].side # s
  BY <1>1, Arrival DEF try_move
<1>5. m.estCapt <=> q.board[m.to] # Vide
  BY <1>1 DEF try_move, isEmpty
<1>. QED
  BY <1>1, <1>3, <1>4, <1>5 DEF DeplacerCorrect

(* A displacement that the referee accepts has a solution of force_move.   *)
LEMMA CorrectIsForced ==
  ASSUME NEW p \in Positions, NEW q \in Positions, Same(p, q),
         NEW s \in Sides, NEW m, DeplacerCorrect(q, s, m)
  PROVE  force_move(p, s, m)
<1>1. m.to \in Squares /\ m.from \in Squares /\ p.board = q.board
  BY DEF DeplacerCorrect, Same
<1>2. isEmpty(p.board, m.to) \/ p.board[m.to].side = opponent(s)
  BY <1>1, Arrival DEF DeplacerCorrect
<1>. QED
  BY <1>1, <1>2 DEF force_move, DeplacerCorrect

(* A displacement leaves the boards alike: After() of ia.pl and deplace()  *)
(* of the referee.                                                         *)
LEMMA DisplacedAlike ==
  ASSUME NEW p \in Positions, NEW q \in Positions, Same(p, q),
         NEW s \in Sides, NEW m, DeplacerCorrect(q, s, m)
  PROVE  Same(After(p, s, m), deplace(q, s, m))
<1>. DEFINE a == After(p, s, m)
            d == deplace(q, s, m)
<1>1. /\ m.to \in Squares /\ m.from \in Squares /\ p.board = q.board
      /\ q.board[m.from] = piece(s, m.type) /\ q.board[m.to].side # s
      /\ m.estCapt <=> q.board[m.to] # Vide
      /\ \A u \in Sides, t \in ReserveTypes : p.capt[u][t] = q.capt[u][t]
  BY DEF DeplacerCorrect, Same
<1>2. m.type \in Types
  BY <1>1, PieceType
<1>3. m.from # m.to
  BY <1>1 DEF piece
<1>4. a.board = d.board
  <2>1. p.board \in [Squares -> Occupants]
    BY DEF Positions, Boards, Occupants
  <2>2. a.board = [c \in Squares |->
                     IF c = m.to THEN piece(s, NewType(s, m.type, m.to))
                     ELSE IF c = m.from THEN Vide ELSE p.board[c]]
    BY <1>1, <2>1 DEF After
  <2>3. NewType(s, m.type, m.to) = promotion(s, m.type, m.to)
    BY <1>1, <1>2, PromotionAgrees
  <2>4. d.board = [c \in Squares |->
                     IF c = m.from THEN Vide
                     ELSE IF c = m.to THEN piece(s, promotion(s, m.type, c))
                     ELSE q.board[c]]
    BY DEF deplace
  <2>. QED
    BY <2>2, <2>3, <2>4, <1>1, <1>3
<1>5. ASSUME NEW u \in Sides, NEW t \in ReserveTypes
      PROVE  a.capt[u][t] = d.capt[u][t]
  <2>1. t \in CaptTypes
    BY DEF ReserveTypes, CaptTypes
  <2>2. p.capt \in [Sides -> [CaptTypes -> Nat]] /\ q.capt \in [Sides -> [CaptTypes -> Nat]]
    BY DEF Positions, Capts
  <2>3. CASE q.board[m.to] = Vide
    <3>1. a.capt = p.capt /\ d.capt = q.capt
      BY <1>1, <2>3 DEF After, deplace, isEmpty
    <3>. QED
      BY <3>1, <1>1
  <2>4. CASE q.board[m.to] # Vide
    <3>. DEFINE x == q.board[m.to].type
    <3>1. x \in Types
      BY <1>1, <2>4, OccupantFacts
    <3>2. a.capt = [p.capt EXCEPT ![s][CorrectedType(x)] = @ + 1]
      BY <1>1, <2>4 DEF After, isEmpty
    <3>3. d.capt = miseReserve(q.capt, s, x)
      BY <1>1, <2>4 DEF deplace
    <3>4. a.capt[u][t] = IF u = s /\ t = CorrectedType(x) THEN p.capt[u][t] + 1
                         ELSE p.capt[u][t]
      BY <3>1, <3>2, <2>1, <2>2, CaptureAgrees
    <3>5. d.capt[u][t] = IF u = s /\ t = Reserve(x) THEN q.capt[u][t] + 1
                         ELSE q.capt[u][t]
      BY <3>3, <2>1 DEF miseReserve
    <3>6. t = Reserve(x) <=> t = CorrectedType(x)
      BY <3>1, <2>1, CaptureAgrees
    <3>. QED
      BY <3>4, <3>5, <3>6, <1>1
  <2>. QED
    BY <2>3, <2>4
<1>. QED
  BY <1>4, <1>5 DEF Same

(* So does a drop that put() has a solution for.                           *)
LEMMA DroppedAlike ==
  ASSUME NEW p \in Positions, NEW q \in Positions, Same(p, q),
         NEW s \in Sides, NEW m, DeposerCorrect(q, s, m)
  PROVE  Same(AfterPut(p, s, m), place(q, s, m))
<1>. DEFINE a == AfterPut(p, s, m)
            d == place(q, s, m)
<1>1. /\ m.to \in Squares /\ m.type \in ReserveTypes /\ p.board = q.board
      /\ \A u \in Sides, t \in ReserveTypes : p.capt[u][t] = q.capt[u][t]
  BY DEF DeposerCorrect, Same
<1>2. p.board \in [Squares -> Occupants] /\ p.capt \in [Sides -> [CaptTypes -> Nat]]
      /\ q.capt \in [Sides -> [CaptTypes -> Nat]]
  BY DEF Positions, Boards, Capts, Occupants
<1>3. a.board = d.board
  BY <1>1, <1>2 DEF AfterPut, place
<1>4. ASSUME NEW u \in Sides, NEW t \in ReserveTypes
      PROVE  a.capt[u][t] = d.capt[u][t]
  <2>1. t \in CaptTypes /\ m.type \in CaptTypes
    BY <1>1 DEF ReserveTypes, CaptTypes
  <2>2. a.capt[u][t] = IF u = s /\ t = m.type THEN p.capt[u][t] - 1 ELSE p.capt[u][t]
    BY <1>2, <2>1 DEF AfterPut
  <2>3. d.capt[u][t] = IF u = s /\ t = m.type THEN q.capt[u][t] - 1 ELSE q.capt[u][t]
    BY <2>1 DEF place
  <2>. QED
    BY <2>2, <2>3, <1>1
<1>. QED
  BY <1>3, <1>4 DEF Same

(* put() finds no solution for a drop that the referee accepts only on the *)
(* last line or in a column where the side has another piece.              *)
LEMMA WhyPutFails ==
  ASSUME NEW p \in Positions, NEW q \in Positions, Same(p, q),
         NEW s \in Sides, NEW m, DeposerCorrect(q, s, m), ~put(p, s, m)
  PROVE  \/ m.to[2] \notin PutLines(s)
         \/ \E c \in Squares \ {m.to} : c[1] = m.to[1] /\ q.board[c].side = s
<1>1. /\ m.to \in Squares /\ m.type \in ReserveTypes /\ p.board = q.board
      /\ q.board[m.to] = Vide /\ q.capt[s][m.type] > 0
      /\ p.capt[s][m.type] = q.capt[s][m.type]
  BY DEF DeposerCorrect, Same
<1>2. m.type \in CaptTypes /\ p.capt[s][m.type] > 0 /\ isEmpty(p.board, m.to)
  BY <1>1 DEF ReserveTypes, CaptTypes, isEmpty
<1>3. q.board[m.to].side # s
  BY <1>1, SidesFacts, OccupantFacts
<1>. QED
  BY <1>1, <1>2, <1>3 DEF put

-----------------------------------------------------------------------------
(* Every operation makes a position of a position.                         *)
LEMMA AfterTyped ==
  ASSUME NEW p \in Positions, NEW s \in Sides, NEW m, m.from \in Squares,
         m.to \in Squares, p.board[m.from] = piece(s, m.type)
  PROVE  After(p, s, m) \in Positions
<1>1. p.board \in [Squares -> Occupants] /\ p.capt \in [Sides -> [CaptTypes -> Nat]]
  BY DEF Positions, Boards, Capts, Occupants
<1>2. NewType(s, m.type, m.to) \in Types
  BY PieceType, PromotionAgrees
<1>3. After(p, s, m).board \in [Squares -> Occupants]
  BY <1>1, <1>2 DEF After, piece, Occupants
<1>4. After(p, s, m).capt \in [Sides -> [CaptTypes -> Nat]]
  <2>1. CASE p.board[m.to] = Vide
    BY <1>1, <2>1 DEF After, isEmpty
  <2>2. CASE p.board[m.to] # Vide
    <3>1. CorrectedType(p.board[m.to].type) \in CaptTypes
      BY <2>2, OccupantFacts, CaptureAgrees
    <3>2. After(p, s, m).capt =
            [p.capt EXCEPT ![s][CorrectedType(p.board[m.to].type)] = @ + 1]
      BY <2>2 DEF After, isEmpty
    <3>. QED
      BY <1>1, <3>1, <3>2
  <2>. QED
    BY <2>1, <2>2
<1>. QED
  BY <1>3, <1>4 DEF After, Positions, Boards, Capts, Occupants

LEMMA AfterPutTyped ==
  ASSUME NEW p \in Positions, NEW s \in Sides, NEW m, put(p, s, m)
  PROVE  AfterPut(p, s, m) \in Positions
<1>1. p.board \in [Squares -> Occupants] /\ p.capt \in [Sides -> [CaptTypes -> Nat]]
  BY DEF Positions, Boards, Capts, Occupants
<1>2. m.to \in Squares /\ m.type \in CaptTypes /\ p.capt[s][m.type] > 0
  BY DEF put
<1>3. m.type \in Types
  BY <1>2 DEF CaptTypes, Types
<1>4. AfterPut(p, s, m).board \in [Squares -> Occupants]
  BY <1>1, <1>2, <1>3 DEF AfterPut, piece, Occupants
<1>5. AfterPut(p, s, m).capt \in [Sides -> [CaptTypes -> Nat]]
  BY <1>1, <1>2 DEF AfterPut
<1>. QED
  BY <1>4, <1>5 DEF AfterPut, Positions, Boards, Capts, Occupants

LEMMA DeplaceTyped ==
  ASSUME NEW q \in Positions, NEW s \in Sides, NEW m, DeplacerCorrect(q, s, m)
  PROVE  deplace(q, s, m) \in Positions
<1>1. q.board \in [Squares -> Occupants] /\ q.capt \in [Sides -> [CaptTypes -> Nat]]
  BY DEF Positions, Boards, Capts, Occupants
<1>2. m.type \in Types
  BY PieceType DEF DeplacerCorrect
<1>3. \A c \in Squares : promotion(s, m.type, c) \in Types
  BY <1>2, PromotionAgrees
<1>4. deplace(q, s, m).board \in [Squares -> Occupants]
  BY <1>1, <1>3 DEF deplace, piece, Occupants
<1>5. deplace(q, s, m).capt \in [Sides -> [CaptTypes -> Nat]]
  BY <1>1 DEF deplace, miseReserve
<1>. QED
  BY <1>4, <1>5 DEF deplace, Positions, Boards, Capts, Occupants

LEMMA PlaceTyped ==
  ASSUME NEW q \in Positions, NEW s \in Sides, NEW m, DeposerCorrect(q, s, m)
  PROVE  place(q, s, m) \in Positions
<1>1. q.board \in [Squares -> Occupants] /\ q.capt \in [Sides -> [CaptTypes -> Nat]]
  BY DEF Positions, Boards, Capts, Occupants
<1>2. m.type \in Types /\ q.capt[s][m.type] > 0
  BY DEF DeposerCorrect, ReserveTypes, Types
<1>3. place(q, s, m).board \in [Squares -> Occupants]
  BY <1>1, <1>2 DEF place, piece, Occupants
<1>4. place(q, s, m).capt \in [Sides -> [CaptTypes -> Nat]]
  BY <1>1, <1>2 DEF place
<1>. QED
  BY <1>3, <1>4 DEF place, Positions, Boards, Capts, Occupants

(* The referee's position after a move that it accepts.                    *)
LEMMA ApresCoupTyped ==
  ASSUME NEW q \in Positions, NEW s \in Sides, NEW m, coupValide(q, s, m)
  PROVE  ApresCoup(q, s, m) \in Positions
BY DeplaceTyped, PlaceTyped DEF coupValide, ApresCoup

(* The position in which a game begins.                                    *)
LEMMA InitialTyped == InitialPosition \in Positions
<1>1. \A i \in 1..5 : LastRow[i] \in Types
  BY DEF LastRow, Types
<1>2. \A c \in Squares : c[1] \in 1..5 /\ c[2] \in 1..6
  BY DEF Squares
<1>3. ASSUME NEW c \in Squares
      PROVE  initial_board[c] \in Occupants
  <2>1. LastRow[c[1]] \in Types /\ "kodama" \in Types
    BY <1>1, <1>2 DEF Types
  <2>. QED
    BY <2>1, SidesFacts DEF initial_board, Occupants, piece
<1>4. initial_board \in Boards
  BY <1>3 DEF initial_board, Boards, Occupants
<1>5. NoCapt \in Capts
  BY DEF NoCapt, Capts
<1>. QED
  BY <1>4, <1>5 DEF InitialPosition, Positions

-----------------------------------------------------------------------------
BothKings(b) == \A s \in Sides : Kings(b, s) # {}

(* A king that can be taken is in check.                                   *)
LEMMA TakenKingIsInCheck ==
  ASSUME NEW q \in Positions, NEW s \in Sides, NEW m, DeplacerCorrect(q, s, m),
         q.board[m.to] = piece(opponent(s), "koropokkuru")
  PROVE  verifierEchec(q.board, opponent(s))
<1>1. m.to \in Squares /\ m.from \in Squares /\ q.board[m.from] = piece(s, m.type)
      /\ deplacementPieceCorrect(m.from, m.to, m.type, s)
  BY DEF DeplacerCorrect
<1>2. m.type \in Types
  BY <1>1, PieceType
<1>3. m.from \in Voisines(m.to)
  BY <1>1, <1>2, DisplacementIsNear
<1>4. q.board[m.from].side = s /\ q.board[m.from].type = m.type
  BY <1>1 DEF piece
<1>5. caseEnPrise(q.board, m.to, s)
  BY <1>1, <1>3, <1>4 DEF caseEnPrise
<1>6. inverse(opponent(s)) = s
  BY SidesFacts
<1>. QED
  BY <1>1, <1>5, <1>6 DEF verifierEchec

(* A displacement takes no king that is not in check.                      *)
LEMMA DeplaceKeepsKings ==
  ASSUME NEW q \in Positions, NEW s \in Sides, NEW m, DeplacerCorrect(q, s, m),
         BothKings(q.board), ~verifierEchec(q.board, opponent(s))
  PROVE  BothKings(deplace(q, s, m).board)
<1>. DEFINE d == deplace(q, s, m).board
<1>1. m.to \in Squares /\ m.from \in Squares /\ q.board[m.from] = piece(s, m.type)
      /\ q.board[m.to].side # s
  BY DEF DeplacerCorrect
<1>2. \A c \in Squares :
        d[c] = IF c = m.from THEN Vide
               ELSE IF c = m.to THEN piece(s, promotion(s, m.type, c)) ELSE q.board[c]
  BY DEF deplace
<1>3. Kings(d, s) # {}
  <2>1. PICK k \in Squares : q.board[k] = piece(s, "koropokkuru")
    BY DEF BothKings, Kings
  <2>2. k # m.to
    BY <1>1, <2>1 DEF piece
  <2>3. CASE k = m.from
    <3>1. m.type = "koropokkuru" /\ m.to # m.from
      BY <1>1, <2>1, <2>2, <2>3 DEF piece
    <3>2. d[m.to] = piece(s, "koropokkuru")
      BY <1>1, <1>2, <3>1 DEF promotion
    <3>. QED
      BY <1>1, <3>2 DEF Kings
  <2>4. CASE k # m.from
    BY <1>2, <2>1, <2>2, <2>4 DEF Kings
  <2>. QED
    BY <2>3, <2>4
<1>4. Kings(d, opponent(s)) # {}
  <2>1. opponent(s) \in Sides /\ opponent(s) # s
    BY SidesFacts
  <2>2. PICK k \in Squares : q.board[k] = piece(opponent(s), "koropokkuru")
    BY <2>1 DEF BothKings, Kings
  <2>3. k # m.to
    BY <2>2, TakenKingIsInCheck
  <2>4. k # m.from
    BY <1>1, <2>1, <2>2 DEF piece
  <2>. QED
    BY <1>2, <2>2, <2>3, <2>4 DEF Kings
<1>5. \A t \in Sides : t = s \/ t = opponent(s)
  BY SidesFacts
<1>. QED
  BY <1>3, <1>4, <1>5 DEF BothKings

(* A drop takes no king, and puts no king of its side in check.            *)
LEMMA PlaceKeepsKings ==
  ASSUME NEW q \in Positions, NEW s \in Sides, NEW m, DeposerCorrect(q, s, m)
  PROVE  /\ BothKings(q.board) => BothKings(place(q, s, m).board)
         /\ ~verifierEchec(q.board, s) => ~verifierEchec(place(q, s, m).board, s)
<1>. DEFINE d == place(q, s, m).board
<1>1. m.to \in Squares /\ q.board[m.to] = Vide /\ m.type # "koropokkuru"
  BY DEF DeposerCorrect, ReserveTypes
<1>2. \A c \in Squares : d[c] = IF c = m.to THEN piece(s, m.type) ELSE q.board[c]
  BY DEF place
<1>3. ASSUME BothKings(q.board), NEW t \in Sides
      PROVE  Kings(d, t) # {}
  <2>1. PICK k \in Squares : q.board[k] = piece(t, "koropokkuru")
    BY <1>3 DEF BothKings, Kings
  <2>2. k # m.to
    BY <1>1, <2>1, SidesFacts DEF Vide, piece
  <2>. QED
    BY <1>2, <2>1, <2>2 DEF Kings
<1>4. ASSUME verifierEchec(d, s)
      PROVE  verifierEchec(q.board, s)
  <2>1. PICK c \in Squares : d[c] = piece(s, "koropokkuru") /\ caseEnPrise(d, c, inverse(s))
    BY <1>4 DEF verifierEchec
  <2>2. c # m.to
    BY <1>1, <1>2, <2>1 DEF piece
  <2>3. PICK e \in Voisines(c) :
          d[e].side = inverse(s) /\ deplacementPieceCorrect(e, c, d[e].type, inverse(s))
    BY <2>1 DEF caseEnPrise
  <2>4. e \in Squares /\ inverse(s) # s
    BY SidesFacts DEF Voisines
  <2>5. e # m.to
    BY <1>1, <1>2, <2>3, <2>4 DEF piece
  <2>6. d[e] = q.board[e] /\ d[c] = q.board[c]
    BY <1>2, <2>2, <2>4, <2>5
  <2>7. caseEnPrise(q.board, c, inverse(s))
    BY <2>3, <2>6 DEF caseEnPrise
  <2>. QED
    BY <2>1, <2>6, <2>7 DEF verifierEchec
<1>. QED
  BY <1>3, <1>4 DEF BothKings

(* A king that goes to an attacked square is in check there.               *)
LEMMA KingMovesIntoCheck ==
  ASSUME NEW q \in Positions, NEW s \in Sides, NEW m, DeplacerCorrect(q, s, m),
         m.type = "koropokkuru", caseEnPrise(q.board, m.to, inverse(s))
  PROVE  verifierEchec(deplace(q, s, m).board, s)
<1>. DEFINE d == deplace(q, s, m).board
<1>1. m.to \in Squares /\ m.from \in Squares /\ q.board[m.from] = piece(s, m.type)
      /\ q.board[m.to].side # s
  BY DEF DeplacerCorrect
<1>2. \A c \in Squares :
        d[c] = IF c = m.from THEN Vide
               ELSE IF c = m.to THEN piece(s, promotion(s, m.type, c)) ELSE q.board[c]
  BY DEF deplace
<1>3. d[m.to] = piece(s, "koropokkuru")
  <2>1. m.to # m.from
    BY <1>1 DEF piece
  <2>. QED
    BY <1>1, <1>2, <2>1 DEF promotion
<1>4. PICK e \in Voisines(m.to) :
        /\ q.board[e].side = inverse(s)
        /\ deplacementPieceCorrect(e, m.to, q.board[e].type, inverse(s))
  BY DEF caseEnPrise
<1>5. e \in Squares /\ inverse(s) \in Sides /\ inverse(s) # s
  BY SidesFacts DEF Voisines
<1>6. q.board[e].type \in Types
  BY <1>4, <1>5, OccupantFacts
<1>7. e # m.to /\ e # m.from
  BY <1>1, <1>4, <1>5, <1>6, DisplacementIsNear DEF piece
<1>8. caseEnPrise(d, m.to, inverse(s))
  BY <1>2, <1>4, <1>5, <1>7 DEF caseEnPrise
<1>. QED
  BY <1>1, <1>3, <1>8 DEF verifierEchec

(* Nobody is in check when a game begins.                                  *)
LEMMA InitialKings ==
  /\ BothKings(initial_board)
  /\ \A s \in Sides : ~verifierEchec(initial_board, s)
<1>1. \A c \in Squares : c[1] \in 1..5 /\ c[2] \in 1..6
  BY DEF Squares
<1>2. ASSUME NEW c \in Squares
      PROVE  /\ initial_board[c].side = north => c[2] \in {1, 3}
             /\ initial_board[c].side = south => c[2] \in {4, 6}
             /\ initial_board[c] = piece(north, "koropokkuru") => c[2] = 1
             /\ initial_board[c] = piece(south, "koropokkuru") => c[2] = 6
  BY <1>1, SidesFacts DEF initial_board, piece, Vide
<1>3. Kings(initial_board, north) # {}
  <2>1. <<3, 1>> \in Squares /\ initial_board[<<3, 1>>] = piece(north, "koropokkuru")
    BY DEF Squares, initial_board, LastRow
  <2>. QED
    BY <2>1 DEF Kings
<1>4. Kings(initial_board, south) # {}
  <2>1. <<3, 6>> \in Squares /\ initial_board[<<3, 6>>] = piece(south, "koropokkuru")
    BY DEF Squares, initial_board, LastRow
  <2>. QED
    BY <2>1 DEF Kings
<1>5. ASSUME NEW s \in Sides, verifierEchec(initial_board, s)
      PROVE  FALSE
  <2>1. PICK c \in Squares : initial_board[c] = piece(s, "koropokkuru")
                             /\ caseEnPrise(initial_board, c, inverse(s))
    BY <1>5 DEF verifierEchec
  <2>2. PICK e \in Voisines(c) : initial_board[e].side = inverse(s)
    BY <2>1 DEF caseEnPrise
  <2>3. e \in Squares /\ e[2] - c[2] \in -1..1
    BY <1>1, <2>2 DEF Voisines
  <2>4. s = north \/ s = south
    BY DEF Sides
  <2>. QED
    BY <1>1, <1>2, <2>1, <2>2, <2>3, <2>4 DEF inverse, north, south
<1>. QED
  BY <1>3, <1>4, <1>5 DEF BothKings, Sides

-----------------------------------------------------------------------------
(* A displacement that get_moves lists.                                    *)
LEMMA ListedMove ==
  ASSUME NEW p \in Positions, NEW s \in Sides, NEW m \in get_moves(p, s)
  PROVE  /\ m \in Coups /\ m.typeCoup = DEPLACER /\ m.estCapt \in BOOLEAN
         /\ m.from \in Squares /\ try_move(p, s, m) /\ m # Unwritten
<1>1. PICK a \in {c \in Squares : p.board[c].side = s} :
        \E b \in Near(a) :
          m = Displacement(p.board[a].type, a, b, b \in Squares /\ p.board[b] # Vide)
  BY DEF get_moves
<1>2. PICK b : m = Displacement(p.board[a].type, a, b, b \in Squares /\ p.board[b] # Vide)
  BY <1>1
<1>3. a \in Squares /\ p.board[a].type \in Types
  BY <1>1, SidesFacts, OccupantFacts
<1>4. try_move(p, s, m)
  BY DEF get_moves
<1>5. m.to \in Squares
  BY <1>4 DEF try_move
<1>6. m = [typeCoup |-> DEPLACER, type |-> p.board[a].type, from |-> a, to |-> b,
           estCapt |-> b \in Squares /\ p.board[b] # Vide]
  BY <1>2 DEF Displacement
<1>7. m.from = a /\ m.to = b /\ m.typeCoup = DEPLACER /\ m.type = p.board[a].type
      /\ m.estCapt \in BOOLEAN
  BY <1>6
<1>8. m \in Coups
  BY <1>3, <1>5, <1>6, <1>7 DEF Coups
<1>9. NullePart \notin Squares
  BY DEF NullePart, Squares
<1>10. m # Unwritten
  BY <1>3, <1>7, <1>9 DEF Unwritten, Displacement
<1>. QED
  BY <1>3, <1>4, <1>7, <1>8, <1>10

(* A move that the AI generates is one that its get_moves lists, or the    *)
(* unwritten one, when there is no king to measure the distance from.      *)
LEMMA GeneratedMove ==
  ASSUME NEW p \in Positions, NEW s \in Sides, NEW m \in generatedMoves(p, s)
  PROVE  \/ m = Unwritten /\ Kings(p.board, opponent(s)) = {}
         \/ m \in get_moves(p, s)
BY DEF generatedMoves, generate_move_fails, best_moves

LEMMA UnwrittenTyped == Unwritten \in Coups
BY DEF Unwritten, Displacement, Coups, DEPLACER

(* Same is an equivalence, as far as it is needed.                         *)
LEMMA SameSym ==
  ASSUME NEW p, NEW q, Same(p, q)
  PROVE  Same(q, p)
BY DEF Same

-----------------------------------------------------------------------------
(* The inductive invariant.  The referee's game is the one that is played: *)
RefereeInv ==
  /\ referee.partieCree => /\ referee.sens = Opener(numero)
                           /\ referee.numCoup <= MoveLimit
                           /\ referee.numPartie = 1
  /\ ~referee.partieCree /\ etape # "finie" => referee.numPartie = numero - 1
  /\ etape = "informer" => referee.partieCree
  /\ etape = "finie" => ~referee.partieCree /\ referee.numPartie = 1

(* While a move is judged its AI is one move ahead of the referee,         *)
MoverAhead ==
  etape = "juger" /\ trait \in Own /\ ~ignored[trait] =>
    \E q \in Positions :
      /\ Same(q, position)
      /\ \/ coup = Unwritten /\ Kings(q.board, opponent(trait)) = {}
         \/ coup \in get_moves(q, trait) /\ ia[trait] = After(q, trait, coup)

OtherInStep ==
  etape = "juger" =>
    \A s \in Own : s # trait /\ ~ignored[s] => Same(ia[s], position)

(* and once the move is accepted the opponent's AI is one move behind.     *)
OtherBehind ==
  etape = "informer" =>
    \A s \in Own : s # trait /\ ~ignored[s] =>
      \E q \in Positions :
        /\ Same(ia[s], q)
        /\ coupValide(q, trait, coup)
        /\ position = ApresCoup(q, trait, coup)

(* Nobody can lose a king: who does not have the move is not in check.     *)
KingsInv ==
  ~exposed =>
    /\ BothKings(position.board)
    /\ etape \in {"choisir", "juger"} => ~verifierEchec(position.board, opponent(trait))
    /\ etape = "informer" => ~verifierEchec(position.board, trait)

PartieInv ==
  /\ PartieTypeOK
  /\ RefereeInv
  /\ BoardsAgree
  /\ MoverAhead
  /\ OtherInStep
  /\ OtherBehind
  /\ KingsInv

LEMMA DropTyped ==
  ASSUME NEW p \in Positions, NEW s \in Sides, NEW m \in Drops(p, s)
  PROVE  m \in Coups
<1>1. PICK t \in ReserveTypes, c \in Squares : m = Drop(t, c)
  BY DEF Drops
<1>. QED
  BY <1>1 DEF Drop, Coups, ReserveTypes, Types

LEMMA InitInv == Init => PartieInv
<1>. SUFFICES ASSUME Init PROVE PartieInv
  OBVIOUS
<1>. USE DEF Init, PontInit
<1>1. PartieTypeOK
  <2>1. PontTypeOK
    BY InitialTyped DEF PontTypeOK
  <2>2. referee \in RefereeStates
    BY NbCoupMaxAssumption DEF RefereeInit, RefereeStates, MoveLimit, TSensTetePiece
  <2>3. trait \in Sides
    BY SidesFacts DEF Opener
  <2>4. coup \in Coups
    BY UnwrittenTyped
  <2>5. exposed \in BOOLEAN
    OBVIOUS
  <2>6. numero \in 1..2 /\ position \in Positions
    BY InitialTyped
  <2>. QED
    BY <2>1, <2>2, <2>3, <2>4, <2>5, <2>6 DEF PartieTypeOK
<1>2. RefereeInv
  BY DEF RefereeInv, RefereeInit
<1>3. BoardsAgree
  BY OwnAssumption DEF BoardsAgree, Same
<1>4. KingsInv
  <2>1. opponent(trait) \in Sides /\ position.board = initial_board
    BY SidesFacts DEF Opener, InitialPosition
  <2>. QED
    BY <2>1, InitialKings DEF KingsInv
<1>. QED
  BY <1>1, <1>2, <1>3, <1>4 DEF PartieInv, MoverAhead, OtherInStep, OtherBehind

LEMMA AIPlaysInv ==
  ASSUME PartieInv, AIPlays
  PROVE  PartieInv'
<1>. USE DEF PartieInv
<1>1. PICK c \in generatedMoves(ia[trait], trait) :
        generateMove(trait, c) /\ coup' = c
  BY DEF AIPlays
<1>2. /\ etape = "choisir" /\ etape' = "juger" /\ trait \in Own
      /\ UNCHANGED <<referee, position, numero, trait, exposed, ignored>>
  BY <1>1 DEF AIPlays, generateMove
<1>3. ia[trait] \in Positions /\ trait \in Sides /\ ia \in [Sides -> Positions]
  BY DEF PartieTypeOK, PontTypeOK
<1>4. \/ c = Unwritten /\ Kings(ia[trait].board, opponent(trait)) = {} /\ ia' = ia
      \/ /\ c \in get_moves(ia[trait], trait)
         /\ ia' = [ia EXCEPT ![trait] = After(@, trait, c)]
  BY <1>1, <1>3, GeneratedMove, ListedMove DEF generateMove
<1>5. ASSUME c \in get_moves(ia[trait], trait)
      PROVE  After(ia[trait], trait, c) \in Positions
  <2>1. c.from \in Squares /\ try_move(ia[trait], trait, c)
    BY <1>3, <1>5, ListedMove
  <2>. QED
    BY <1>3, <2>1, AfterTyped DEF try_move
<1>6. PartieTypeOK'
  <2>1. ia' \in [Sides -> Positions]
    BY <1>3, <1>4, <1>5
  <2>2. coup' \in Coups
    BY <1>1, <1>3, <1>4, ListedMove, UnwrittenTyped
  <2>. QED
    BY <1>2, <2>1, <2>2 DEF PartieTypeOK, PontTypeOK
<1>7. RefereeInv'
  BY <1>2 DEF RefereeInv
<1>8. BoardsAgree' /\ OtherBehind'
  BY <1>2 DEF BoardsAgree, OtherBehind
<1>9. MoverAhead'
  <2>. SUFFICES ASSUME ~ignored[trait]
                PROVE  \E q \in Positions :
                         /\ Same(q, position)
                         /\ \/ c = Unwritten /\ Kings(q.board, opponent(trait)) = {}
                            \/ c \in get_moves(q, trait)
                               /\ ia'[trait] = After(q, trait, c)
    BY <1>1, <1>2 DEF MoverAhead
  <2>1. Same(ia[trait], position)
    BY <1>2 DEF BoardsAgree
  <2>2. CASE c = Unwritten /\ Kings(ia[trait].board, opponent(trait)) = {}
    BY <2>1, <2>2, <1>3
  <2>3. CASE c \in get_moves(ia[trait], trait) /\ ia' = [ia EXCEPT ![trait] = After(@, trait, c)]
    <3>1. ia'[trait] = After(ia[trait], trait, c)
      BY <1>3, <2>3
    <3>. QED
      BY <2>1, <2>3, <3>1, <1>3
  <2>. QED
    BY <1>4, <2>2, <2>3
<1>10. OtherInStep'
  <2>1. ASSUME NEW s \in Own, s # trait, ~ignored[s]
        PROVE  Same(ia'[s], position)
    <3>1. Same(ia[s], position)
      BY <1>2, <2>1 DEF BoardsAgree
    <3>2. ia'[s] = ia[s]
      BY <1>3, <1>4, <2>1, OwnAssumption
    <3>. QED
      BY <3>1, <3>2
  <2>. QED
    BY <1>2, <2>1 DEF OtherInStep
<1>11. KingsInv'
  BY <1>2 DEF KingsInv
<1>. QED
  BY <1>6, <1>7, <1>8, <1>9, <1>10, <1>11

LEMMA OtherPlaysInv ==
  ASSUME PartieInv, OtherPlays
  PROVE  PartieInv'
<1>. USE DEF PartieInv
<1>1. /\ etape = "choisir" /\ etape' = "juger" /\ trait \notin Own
      /\ coup' \in get_moves(position, trait) \union Drops(position, trait)
      /\ UNCHANGED <<ia, ignored, referee, position, numero, trait, exposed>>
  BY DEF OtherPlays, iaVars
<1>2. coup' \in Coups
  BY <1>1, ListedMove, DropTyped DEF PartieTypeOK
<1>3. PartieTypeOK'
  BY <1>1, <1>2 DEF PartieTypeOK, PontTypeOK
<1>4. RefereeInv' /\ KingsInv'
  BY <1>1 DEF RefereeInv, KingsInv
<1>5. BoardsAgree' /\ OtherBehind' /\ MoverAhead'
  BY <1>1 DEF BoardsAgree, OtherBehind, MoverAhead
<1>6. OtherInStep'
  BY <1>1 DEF BoardsAgree, OtherInStep
<1>. QED
  BY <1>3, <1>4, <1>5, <1>6

-----------------------------------------------------------------------------
(* An AI that sees the board as it is has a reason to find its move        *)
(* refused: its king, or the lack of a king to attack.                     *)
LEMMA AIMoveCorrect ==
  ASSUME PartieInv, etape = "juger", trait \in Own, ~ignored[trait]
  PROVE  \/ coup = Unwritten /\ Kings(position.board, opponent(trait)) = {}
         \/ /\ coup.typeCoup = DEPLACER
            /\ DeplacerCorrect(position, trait, coup)
            /\ Same(ia[trait], deplace(position, trait, coup))
<1>1. trait \in Sides /\ position \in Positions
  BY DEF PartieInv, PartieTypeOK
<1>2. PICK q \in Positions :
        /\ Same(q, position)
        /\ \/ coup = Unwritten /\ Kings(q.board, opponent(trait)) = {}
           \/ coup \in get_moves(q, trait) /\ ia[trait] = After(q, trait, coup)
  BY DEF PartieInv, MoverAhead
<1>3. CASE coup = Unwritten /\ Kings(q.board, opponent(trait)) = {}
  BY <1>2, <1>3 DEF Same
<1>4. CASE coup \in get_moves(q, trait) /\ ia[trait] = After(q, trait, coup)
  <2>1. /\ coup.typeCoup = DEPLACER /\ coup.from \in Squares
        /\ coup.estCapt \in BOOLEAN /\ try_move(q, trait, coup)
    BY <1>1, <1>4, ListedMove
  <2>2. DeplacerCorrect(position, trait, coup)
    BY <1>1, <1>2, <2>1, TriedIsCorrect
  <2>3. Same(ia[trait], deplace(position, trait, coup))
    BY <1>1, <1>2, <1>4, <2>2, DisplacedAlike
  <2>. QED
    BY <2>1, <2>2, <2>3
<1>. QED
  BY <1>2, <1>3, <1>4

LEMMA UnwrittenRefused ==
  ASSUME NEW p, NEW s
  PROVE  ~coupValide(p, s, Unwritten)
BY DEF coupValide, Unwritten, Displacement, DEPLACER, DEPOSER, DeplacerCorrect,
       NullePart, Squares

(* The verdict and the referee's count of moves.                           *)
LEMMA JudgeReferee ==
  ASSUME PartieInv, Judge
  PROVE  referee' \in RefereeStates /\ RefereeInv'
<1>. DEFINE o == OpenGame(referee)
<1>1. /\ referee' = [o EXCEPT !.numCoup = @ + 1, !.partieCree = (Verdict.prop = "CONT")]
      /\ etape = "juger" /\ numero' = numero
      /\ etape' = IF Verdict.prop = "CONT" THEN "informer" ELSE "finie"
  BY DEF Judge, AfterVerdict
<1>2. referee \in RefereeStates /\ numero \in 1..2 /\ MoveLimit \in Nat
  BY NbCoupMaxAssumption DEF PartieInv, PartieTypeOK, MoveLimit
<1>3. o \in RefereeStates
  BY <1>2 DEF OpenGame, RefereeStates, TSensTetePiece
<1>4. o.numPartie = 1 /\ o.numCoup <= MoveLimit /\ o.sens = Opener(numero)
  BY <1>1, <1>2 DEF OpenGame, PartieInv, RefereeInv, Opener, north, south
<1>5. Verdict.prop = "CONT" => o.numCoup + 1 <= MoveLimit
  <2>1. CASE coupValide(position, trait, coup)
    BY <2>1, <1>2, <1>3 DEF Verdict, validationCoup, RefereeStates
  <2>2. CASE ~coupValide(position, trait, coup)
    BY <2>2 DEF Verdict, validationCoup
  <2>. QED
    BY <2>1, <2>2
<1>. HIDE DEF o
<1>6. /\ referee'.numPartie = 1 /\ referee'.numCoup = o.numCoup + 1
      /\ referee'.sens = Opener(numero)
      /\ referee'.partieCree <=> Verdict.prop = "CONT"
  BY <1>1, <1>3, <1>4 DEF RefereeStates
<1>7. referee' \in RefereeStates
  <2>1. o.numCoup + 1 \in 0..(MoveLimit + 1)
    BY <1>2, <1>3, <1>4 DEF RefereeStates
  <2>. DEFINE open == Verdict.prop = "CONT"
  <2>2. open \in BOOLEAN
    OBVIOUS
  <2>3. referee' = [o EXCEPT !.numCoup = @ + 1, !.partieCree = open]
    BY <1>1
  <2>. HIDE DEF open
  <2>. QED
    BY <1>3, <2>1, <2>2, <2>3 DEF RefereeStates
<1>. QED
  BY <1>1, <1>5, <1>6, <1>7 DEF RefereeInv

LEMMA JudgeInv ==
  ASSUME PartieInv, Judge
  PROVE  PartieInv'
<1>. USE DEF PartieInv
<1>1. /\ etape = "juger"
      /\ etape' = IF Verdict.prop = "CONT" THEN "informer" ELSE "finie"
      /\ position' = IF Verdict.valid THEN ApresCoup(position, trait, coup) ELSE position
      /\ exposed' = (exposed \/ (Verdict.valid /\ coup.typeCoup = DEPOSER
                                  /\ verifierEchec(position.board, trait)))
      /\ UNCHANGED <<ia, ignored, numero, trait, coup>>
  BY DEF Judge, iaVars
<1>2. trait \in Sides /\ position \in Positions /\ exposed \in BOOLEAN
  BY DEF PartieTypeOK
<1>3. /\ Verdict.valid <=> coupValide(position, trait, coup)
      /\ Verdict.prop = "CONT" => coupValide(position, trait, coup)
  <2>1. CASE coupValide(position, trait, coup)
    BY <2>1 DEF Verdict, validationCoup
  <2>2. CASE ~coupValide(position, trait, coup)
    BY <2>2 DEF Verdict, validationCoup
  <2>. QED
    BY <2>1, <2>2
<1>4. PartieTypeOK'
  <2>1. position' \in Positions
    BY <1>1, <1>2, <1>3, ApresCoupTyped
  <2>2. exposed' \in BOOLEAN
    BY <1>1, <1>2
  <2>. QED
    BY <1>1, <2>1, <2>2, JudgeReferee DEF PartieTypeOK, PontTypeOK
<1>5. BoardsAgree'
  <2>. SUFFICES ASSUME trait \in Own, ~ignored[trait], etape' = "informer"
                PROVE  Same(ia[trait], position')
    BY <1>1 DEF BoardsAgree
  <2>1. coupValide(position, trait, coup)
    BY <1>1, <1>3
  <2>2. coup.typeCoup = DEPLACER /\ Same(ia[trait], deplace(position, trait, coup))
    BY <1>1, <2>1, AIMoveCorrect, UnwrittenRefused
  <2>3. position' = deplace(position, trait, coup)
    BY <1>1, <1>3, <2>1, <2>2 DEF ApresCoup, DEPLACER, DEPOSER
  <2>. QED
    BY <2>2, <2>3
<1>6. MoverAhead' /\ OtherInStep'
  BY <1>1 DEF MoverAhead, OtherInStep
<1>7. OtherBehind'
  <2>. SUFFICES ASSUME NEW s \in Own, s # trait, ~ignored[s], etape' = "informer"
                PROVE  \E q \in Positions :
                         /\ Same(ia[s], q)
                         /\ coupValide(q, trait, coup)
                         /\ position' = ApresCoup(q, trait, coup)
    BY <1>1 DEF OtherBehind
  <2>1. coupValide(position, trait, coup)
    BY <1>1, <1>3
  <2>2. Same(ia[s], position)
    BY <1>1 DEF OtherInStep
  <2>3. position' = ApresCoup(position, trait, coup)
    BY <1>1, <1>3, <2>1
  <2>. QED
    BY <1>2, <2>1, <2>2, <2>3
<1>8. KingsInv'
  <2>. SUFFICES ASSUME ~exposed'
                PROVE  BothKings(position'.board)
                       /\ (etape' = "informer" => ~verifierEchec(position'.board, trait))
    BY <1>1 DEF KingsInv
  <2>1. ~exposed /\ BothKings(position.board)
        /\ ~verifierEchec(position.board, opponent(trait))
    BY <1>1, <1>2 DEF KingsInv
  <2>2. CASE ~coupValide(position, trait, coup)
    BY <1>1, <1>3, <2>1, <2>2
  <2>3. CASE coupValide(position, trait, coup) /\ coup.typeCoup = DEPOSER
    <3>1. DeposerCorrect(position, trait, coup)
          /\ position' = place(position, trait, coup)
      BY <1>1, <1>3, <2>3 DEF coupValide, ApresCoup
    <3>2. ~verifierEchec(position.board, trait)
      BY <1>1, <1>2, <1>3, <2>3
    <3>. QED
      BY <1>2, <2>1, <3>1, <3>2, PlaceKeepsKings
  <2>4. CASE coupValide(position, trait, coup) /\ coup.typeCoup # DEPOSER
    <3>1. /\ DeplacerCorrect(position, trait, coup)
          /\ ~verifierEchec(deplace(position, trait, coup).board, trait)
          /\ position' = deplace(position, trait, coup)
      BY <1>1, <1>3, <2>4 DEF coupValide, ApresCoup, RoiEnSecurite
    <3>. QED
      BY <1>2, <2>1, <3>1, DeplaceKeepsKings
  <2>. QED
    BY <2>2, <2>3, <2>4
<1>. QED
  BY <1>4, <1>5, <1>6, <1>7, <1>8, JudgeReferee

(* The AI of the side that is told a move has its board again afterwards,  *)
(* unless the move is a drop that put() refuses.                           *)
LEMMA InformFollows ==
  ASSUME PartieInv, etape = "informer", NEW s \in Own, s # trait, ~ignored[s]
  PROVE  /\ ~Accepts(s, coup) =>
              /\ coup.typeCoup = DEPOSER
              /\ \/ coup.to[2] \notin PutLines(trait)
                 \/ \E c \in Squares \ {coup.to} :
                      c[1] = coup.to[1] /\ position.board[c].side = trait
         /\ Accepts(s, coup) /\ coup.typeCoup = DEPLACER =>
              Same(After(ia[s], opponent(s), coup), position)
         /\ Accepts(s, coup) /\ coup.typeCoup # DEPLACER =>
              Same(AfterPut(ia[s], opponent(s), coup), position)
<1>1. /\ trait \in Sides /\ s \in Sides /\ ia[s] \in Positions
      /\ coup.typeCoup \in {DEPLACER, DEPOSER} /\ DEPLACER # DEPOSER
  BY OwnAssumption DEF PartieInv, PartieTypeOK, PontTypeOK, Coups, DEPLACER, DEPOSER
<1>2. opponent(s) = trait
  BY <1>1, SidesFacts
<1>3. PICK q \in Positions :
        Same(ia[s], q) /\ coupValide(q, trait, coup) /\ position = ApresCoup(q, trait, coup)
  BY DEF PartieInv, OtherBehind
<1>4. CASE coup.typeCoup = DEPLACER
  <2>1. DeplacerCorrect(q, trait, coup) /\ position = deplace(q, trait, coup)
    BY <1>1, <1>3, <1>4 DEF coupValide, ApresCoup
  <2>2. Accepts(s, coup)
    BY <1>1, <1>2, <1>3, <1>4, <2>1, CorrectIsForced DEF Accepts
  <2>. QED
    BY <1>1, <1>2, <1>3, <1>4, <2>1, <2>2, DisplacedAlike
<1>5. CASE coup.typeCoup = DEPOSER
  <2>1. DeposerCorrect(q, trait, coup) /\ position = place(q, trait, coup)
    BY <1>1, <1>3, <1>5 DEF coupValide, ApresCoup
  <2>2. Accepts(s, coup) <=> put(ia[s], trait, coup)
    BY <1>1, <1>2, <1>5 DEF Accepts
  <2>3. Same(AfterPut(ia[s], trait, coup), position)
    BY <1>1, <1>3, <2>1, DroppedAlike
  <2>4. ASSUME ~put(ia[s], trait, coup)
        PROVE  \/ coup.to[2] \notin PutLines(trait)
               \/ \E c \in Squares \ {coup.to} :
                    c[1] = coup.to[1] /\ position.board[c].side = trait
    <3>1. \/ coup.to[2] \notin PutLines(trait)
          \/ \E c \in Squares \ {coup.to} : c[1] = coup.to[1] /\ q.board[c].side = trait
      BY <1>1, <1>3, <2>1, <2>4, WhyPutFails
    <3>2. \A c \in Squares \ {coup.to} : position.board[c] = q.board[c]
      BY <2>1 DEF place
    <3>. QED
      BY <3>1, <3>2
  <2>. QED
    BY <1>1, <1>2, <1>5, <2>2, <2>3, <2>4
<1>. QED
  BY <1>1, <1>4, <1>5

LEMMA InformInv ==
  ASSUME PartieInv, Inform
  PROVE  PartieInv'
<1>. USE DEF PartieInv
<1>. DEFINE t == opponent(trait)
<1>1. /\ etape = "informer" /\ etape' = "choisir" /\ trait' = t
      /\ UNCHANGED <<referee, position, numero, coup, exposed>>
      /\ IF t \in Own THEN forceEnnemyStrike(t, coup) ELSE UNCHANGED <<ia, ignored>>
  BY DEF Inform, iaVars
<1>2. /\ trait \in Sides /\ t \in Sides /\ t # trait /\ opponent(t) = trait
      /\ \A s \in Sides : s = trait \/ s = t
  BY SidesFacts DEF PartieTypeOK
<1>3. ia \in [Sides -> Positions] /\ ignored \in [Sides -> BOOLEAN] /\ coup \in Coups
  BY DEF PartieTypeOK, PontTypeOK
<1>4. /\ coup.typeCoup = DEPLACER /\ Accepts(t, coup) => After(ia[t], trait, coup) \in Positions
      /\ coup.typeCoup # DEPLACER /\ Accepts(t, coup) => AfterPut(ia[t], trait, coup) \in Positions
  BY <1>2, <1>3, AfterTyped, AfterPutTyped DEF Accepts, force_move
<1>. HIDE DEF t
(* The three things that Inform may do to the AIs' boards.                 *)
<1>5. \/ /\ t \in Own /\ Accepts(t, coup) /\ coup.typeCoup = DEPLACER
         /\ ia' = [ia EXCEPT ![t] = After(ia[t], trait, coup)] /\ ignored' = ignored
      \/ /\ t \in Own /\ Accepts(t, coup) /\ coup.typeCoup # DEPLACER
         /\ ia' = [ia EXCEPT ![t] = AfterPut(ia[t], trait, coup)] /\ ignored' = ignored
      \/ t \in Own /\ ignored' = [ignored EXCEPT ![t] = TRUE] /\ ia' = ia
      \/ t \notin Own /\ ia' = ia /\ ignored' = ignored
  BY <1>1, <1>2, <1>3 DEF forceEnnemyStrike
<1>6. PartieTypeOK'
  <2>1. ia' \in [Sides -> Positions] /\ ignored' \in [Sides -> BOOLEAN]
    BY <1>2, <1>3, <1>4, <1>5
  <2>. QED
    BY <1>1, <1>2, <2>1 DEF PartieTypeOK, PontTypeOK
<1>7. RefereeInv'
  BY <1>1 DEF RefereeInv
<1>8. ASSUME NEW s \in Own, ~ignored'[s]
      PROVE  Same(ia'[s], position)
  <2>1. s \in Sides
    BY OwnAssumption
  <2>2. CASE s = trait
    <3>1. ia'[s] = ia[s] /\ ~ignored[s]
      BY <1>2, <1>3, <1>5, <1>8, <2>1, <2>2
    <3>. QED
      BY <1>1, <2>2, <3>1 DEF BoardsAgree
  <2>3. CASE s = t
    <3>1. ~ignored[s] /\ s # trait
      BY <1>2, <1>3, <1>5, <1>8, <2>1, <2>3
    <3>2. /\ coup.typeCoup = DEPLACER /\ Accepts(t, coup) =>
               Same(After(ia[t], trait, coup), position)
          /\ coup.typeCoup # DEPLACER /\ Accepts(t, coup) =>
               Same(AfterPut(ia[t], trait, coup), position)
      BY <1>1, <1>2, <2>3, <3>1, InformFollows
    <3>3. \/ /\ Accepts(t, coup) /\ coup.typeCoup = DEPLACER
             /\ ia'[t] = After(ia[t], trait, coup)
          \/ /\ Accepts(t, coup) /\ coup.typeCoup # DEPLACER
             /\ ia'[t] = AfterPut(ia[t], trait, coup)
      BY <1>2, <1>3, <1>5, <1>8, <2>3
    <3>. QED
      BY <2>3, <3>2, <3>3
  <2>. QED
    BY <1>2, <2>1, <2>2, <2>3
<1>9. BoardsAgree'
  BY <1>1, <1>8 DEF BoardsAgree
<1>10. MoverAhead' /\ OtherInStep' /\ OtherBehind'
  BY <1>1 DEF MoverAhead, OtherInStep, OtherBehind
<1>11. KingsInv'
  BY <1>1, <1>2 DEF KingsInv, t
<1>. QED
  BY <1>6, <1>7, <1>9, <1>10, <1>11

LEMMA NextGameInv ==
  ASSUME PartieInv, NextGame
  PROVE  PartieInv'
<1>. USE DEF PartieInv
<1>1. /\ etape = "finie" /\ etape' = "choisir" /\ numero' = 2 /\ trait' = Opener(2)
      /\ referee' = initialiserPartie(referee) /\ position' = InitialPosition
      /\ ia' = [s \in Sides |-> InitialPosition]
      /\ ignored' = [s \in Sides |-> FALSE]
      /\ coup' = Unwritten /\ exposed' = FALSE
  BY DEF NextGame, init
<1>2. Opener(2) \in Sides
  BY SidesFacts DEF Opener
<1>3. /\ referee \in RefereeStates /\ ~referee.partieCree /\ referee.numPartie = 1
  BY <1>1 DEF PartieTypeOK, RefereeInv
<1>4. referee' \in RefereeStates /\ ~referee'.partieCree /\ referee'.numPartie = 1
  BY <1>1, <1>3 DEF initialiserPartie, RefereeStates
<1>5. PartieTypeOK'
  <2>1. ia' \in [Sides -> Positions] /\ ignored' \in [Sides -> BOOLEAN]
    BY <1>1, InitialTyped
  <2>2. position' \in Positions /\ coup' \in Coups /\ trait' \in Sides
    BY <1>1, <1>2, InitialTyped, UnwrittenTyped
  <2>3. numero' \in 1..2 /\ etape' \in {"choisir", "juger", "informer", "finie"}
    BY <1>1
  <2>4. exposed' \in BOOLEAN
    <3>1. exposed' = FALSE
      BY <1>1
    <3>. QED
      BY ONLY <3>1, Zenon
  <2>. QED
    BY <1>4, <2>1, <2>2, <2>3, <2>4 DEF PartieTypeOK, PontTypeOK
<1>6. RefereeInv'
  BY <1>1, <1>4 DEF RefereeInv
<1>7. BoardsAgree'
  BY <1>1, OwnAssumption DEF BoardsAgree, Same
<1>8. KingsInv'
  <2>1. opponent(trait') \in Sides /\ position'.board = initial_board
    BY <1>1, <1>2, SidesFacts DEF InitialPosition
  <2>. QED
    BY <1>1, <2>1, InitialKings DEF KingsInv
<1>9. MoverAhead' /\ OtherInStep' /\ OtherBehind'
  BY <1>1 DEF MoverAhead, OtherInStep, OtherBehind
<1>. QED
  BY <1>5, <1>6, <1>7, <1>8, <1>9

LEMMA StepInv == PartieInv /\ [Next]_vars => PartieInv'
<1>. SUFFICES ASSUME PartieInv, [Next]_vars PROVE PartieInv'
  OBVIOUS
<1>1. CASE AIPlays
  BY <1>1, AIPlaysInv
<1>2. CASE OtherPlays
  BY <1>2, OtherPlaysInv
<1>3. CASE Judge
  BY <1>3, JudgeInv
<1>4. CASE Inform
  BY <1>4, InformInv
<1>5. CASE NextGame
  BY <1>5, NextGameInv
<1>6. CASE UNCHANGED vars
  BY <1>6 DEF vars, iaVars, PartieInv, PartieTypeOK, PontTypeOK, RefereeInv, BoardsAgree,
              MoverAhead, OtherInStep, OtherBehind, KingsInv
<1>. QED
  BY <1>1, <1>2, <1>3, <1>4, <1>5, <1>6 DEF Next, Over

LEMMA PartieInvariant == Spec => []PartieInv
BY InitInv, StepInv, PTL DEF Spec

-----------------------------------------------------------------------------
(* The variables have their types: among others, no count of captured      *)
(* pieces goes below zero, on the referee's side or in Prolog.java.        *)
THEOREM PartieTypeCorrect == Spec => []PartieTypeOK
<1>1. PartieInv => PartieTypeOK
  BY DEF PartieInv
<1>. QED
  BY <1>1, PartieInvariant, PTL

(* As long as no move was ignored, what ia.pl does to the AI's position is *)
(* what the referee does to its own.                                       *)
THEOREM BoardsStayAlike == Spec => []BoardsAgree
<1>1. PartieInv => BoardsAgree
  BY DEF PartieInv
<1>. QED
  BY <1>1, PartieInvariant, PTL

(* The only fault of a move chosen on the right board is that it leaves    *)
(* the king in check (get_moves, ia.pl:479).                               *)
THEOREM AIRefusedOnlyForCheck == Spec => []RefusedOnlyForCheck
<1>1. PartieInv => RefusedOnlyForCheck
  <2>. SUFFICES ASSUME PartieInv, etape = "juger", trait \in Own, ~ignored[trait],
                       ~coupValide(position, trait, coup)
                PROVE  IF coup = Unwritten THEN exposed
                       ELSE verifierEchec(deplace(position, trait, coup).board, trait)
    BY DEF RefusedOnlyForCheck
  <2>1. /\ trait \in Sides /\ position \in Positions
        /\ opponent(trait) \in Sides /\ exposed \in BOOLEAN
    BY SidesFacts DEF PartieInv, PartieTypeOK
  <2>2. CASE coup = Unwritten /\ Kings(position.board, opponent(trait)) = {}
    BY <2>1, <2>2 DEF PartieInv, KingsInv, BothKings
  <2>3. CASE coup.typeCoup = DEPLACER /\ DeplacerCorrect(position, trait, coup)
    <3>1. coup # Unwritten
      BY <2>3 DEF DeplacerCorrect, Unwritten, Displacement, NullePart, Squares
    <3>2. ~RoiEnSecurite(position, trait, coup)
      BY <2>3 DEF coupValide, DEPLACER, DEPOSER
    <3>3. CASE verifierEchec(deplace(position, trait, coup).board, trait)
      BY <3>1, <3>3
    <3>4. CASE coup.type = "koropokkuru"
               /\ caseEnPrise(position.board, coup.to, inverse(trait))
      BY <2>1, <2>3, <3>1, <3>4, KingMovesIntoCheck
    <3>. QED
      BY <3>2, <3>3, <3>4 DEF RoiEnSecurite
  <2>. QED
    BY <2>2, <2>3, AIMoveCorrect
<1>. QED
  BY <1>1, PartieInvariant, PTL

(* A king is lost only by a side that dropped a piece while in check.      *)
THEOREM NobodyLosesAKing == Spec => []KingsStand
<1>1. PartieInv => KingsStand
  BY DEF PartieInv, KingsInv, KingsStand, BothKings
<1>. QED
  BY <1>1, PartieInvariant, PTL

(* The free choice of verdicts in module Referee leaves out none that the  *)
(* rules lead to.                                                          *)
THEOREM VerdictsAreThoseOfTheMatch == Spec => []VerdictAllowed
<1>1. PartieInv => VerdictAllowed
  <2>. SUFFICES ASSUME PartieInv, etape = "juger"
                PROVE  Verdict \in Verdicts(referee,
                                 IF trait = Opener(numero) THEN 1 ELSE 2, [sens |-> trait])
    BY DEF VerdictAllowed
  <2>. DEFINE o == OpenGame(referee)
              joueur == IF trait = Opener(numero) THEN 1 ELSE 2
              goesOn == IF o.numCoup >= MoveLimit THEN "NUL" ELSE "CONT"
  <2>1. /\ trait \in Sides /\ numero \in 1..2 /\ referee \in RefereeStates
        /\ MoveLimit \in Nat
    BY NbCoupMaxAssumption DEF PartieInv, PartieTypeOK, MoveLimit
  <2>2. o.sens = Opener(numero)
    BY <2>1 DEF PartieInv, RefereeInv, OpenGame, Opener, north, south
  <2>3. o.numCoup \in Nat
    BY <2>1 DEF OpenGame, RefereeStates
  <2>4. Facing(referee, joueur) = trait
    <3>1. CASE trait = Opener(numero)
      BY <2>2, <3>1 DEF Facing
    <3>2. CASE trait # Opener(numero)
      <4>1. Facing(referee, joueur) = CHOOSE s \in TSensTetePiece : s # Opener(numero)
        BY <2>2, <3>2 DEF Facing
      <4>2. \A s \in TSensTetePiece : s # Opener(numero) <=> s = trait
        BY <2>1, <3>2 DEF TSensTetePiece, Sides, Opener, north, south
      <4>3. trait \in TSensTetePiece
        BY <2>1 DEF TSensTetePiece, Sides, north, south
      <4>. QED
        BY <4>1, <4>2, <4>3
    <3>. QED
      BY <3>1, <3>2
  <2>5. Verdicts(referee, joueur, [sens |-> trait]) =
          {[valid |-> FALSE, prop |-> "PERDU"]}
            \union [valid : {TRUE}, prop : {"PERDU", "GAGNE", goesOn}]
    BY <2>4 DEF Verdicts
  <2>6. Verdict \in {[valid |-> FALSE, prop |-> "PERDU"]}
                      \union [valid : {TRUE}, prop : {"PERDU", "GAGNE", goesOn}]
    <3>1. o.numCoup + 1 > MoveLimit <=> o.numCoup >= MoveLimit
      BY <2>1, <2>3
    <3>. QED
      BY <3>1 DEF Verdict, validationCoup
  <2>. QED
    BY <2>5, <2>6
<1>. QED
  BY <1>1, PartieInvariant, PTL

(* An AI stops following the game only at a drop that ia.pl:456 forbids    *)
(* and the referee accepts.                                                *)
THEOREM OnlyDropsAreIgnored == Spec => IgnoresOnlyDrops
<1>. DEFINE Step ==
       \A s \in Own :
         ~ignored[s] /\ ignored'[s] =>
           /\ coup.typeCoup = DEPOSER
           /\ \/ coup.to[2] \notin PutLines(trait)
              \/ \E c \in Squares \ {coup.to} :
                   c[1] = coup.to[1] /\ position.board[c].side = trait
<1>1. PartieInv /\ [Next]_vars => [Step]_vars
  <2>. SUFFICES ASSUME PartieInv, Next, NEW s \in Own, ~ignored[s], ignored'[s]
                PROVE  /\ coup.typeCoup = DEPOSER
                       /\ \/ coup.to[2] \notin PutLines(trait)
                          \/ \E c \in Squares \ {coup.to} :
                               c[1] = coup.to[1] /\ position.board[c].side = trait
    OBVIOUS
  <2>1. s \in Sides /\ trait \in Sides /\ ignored \in [Sides -> BOOLEAN]
    BY OwnAssumption DEF PartieInv, PartieTypeOK, PontTypeOK
  <2>2. CASE Inform
    <3>1. /\ etape = "informer" /\ s = opponent(trait) /\ ~Accepts(s, coup)
      BY <2>1, <2>2 DEF Inform, forceEnnemyStrike, iaVars
    <3>2. s # trait
      BY <2>1, <3>1, SidesFacts
    <3>. QED
      BY <3>1, <3>2, InformFollows
  <2>3. CASE NextGame
    BY <2>1, <2>3 DEF NextGame, init
  <2>4. CASE AIPlays \/ OtherPlays \/ Judge \/ Over
    BY <2>4 DEF AIPlays, generateMove, OtherPlays, Judge, Over, vars, iaVars
  <2>. QED
    BY <2>2, <2>3, <2>4 DEF Next
<1>. QED
  BY <1>1, PartieInvariant, PTL DEF Spec, IgnoresOnlyDrops
=============================================================================
