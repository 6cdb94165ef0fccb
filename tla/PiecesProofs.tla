---------------------------- MODULE PiecesProofs ----------------------------
(***************************************************************************)
(* The pieces of a game are those that it began with: on the referee's     *)
(* board and on the AIs', whatever is played, refused or ignored.  The     *)
(* pieces of a type are a set of squares and two counts, so that what a    *)
(* move does to them is what it does to the cardinality of that set.       *)
(***************************************************************************)
EXTENDS PartieProofs, FiniteSetTheorems

-----------------------------------------------------------------------------
LEMMA SquaresFinite == IsFiniteSet(Squares)
<1>1. \A n \in Int : IsFiniteSet(1..n)
  BY FS_Interval
<1>2. 5 \in Int /\ 6 \in Int
  OBVIOUS
<1>3. IsFiniteSet(1..5) /\ IsFiniteSet(1..6)
  BY <1>1, <1>2, Zenon
<1> QED
  BY <1>3, FS_Product DEF Squares

LEMMA OfTypeFinite ==
  ASSUME NEW b, NEW t
  PROVE  IsFiniteSet(OfType(b, t)) /\ Cardinality(OfType(b, t)) \in Nat
<1>1. OfType(b, t) \in SUBSET Squares
  BY DEF OfType
<1> QED
  BY <1>1, SquaresFinite, FS_Subset, FS_CardinalityType

(* How much the piece x counts for among those of type t.                  *)
Weight(x, t) == IF x # Vide /\ CorrectedType(x.type) = t THEN 1 ELSE 0

(* One square of a board is given another occupant.                        *)
LEMMA OneSquareChanges ==
  ASSUME NEW b, DOMAIN b = Squares, NEW c \in Squares, NEW x, NEW t
  PROVE  Cardinality(OfType([b EXCEPT ![c] = x], t))
           = Cardinality(OfType(b, t)) - Weight(b[c], t) + Weight(x, t)
<1> DEFINE d == [b EXCEPT ![c] = x]
           S == OfType(b, t)
<1>1. d[c] = x /\ \A e \in Squares : e # c => d[e] = b[e]
  OBVIOUS
<1>2. Weight(x, t) \in 0..1 /\ Weight(b[c], t) = IF c \in S THEN 1 ELSE 0
  BY DEF OfType, Weight
<1>3. IsFiniteSet(S) /\ Cardinality(S) \in Nat
  BY OfTypeFinite
<1>4. OfType(d, t) = IF Weight(x, t) = 1 THEN S \union {c} ELSE S \ {c}
  BY <1>1 DEF OfType, Weight
<1>5. /\ Cardinality(S \union {c}) = IF c \in S THEN Cardinality(S) ELSE Cardinality(S) + 1
      /\ Cardinality(S \ {c}) = IF c \in S THEN Cardinality(S) - 1 ELSE Cardinality(S)
  BY <1>3, FS_AddElement, FS_RemoveElement
<1>6. Cardinality(OfType(d, t))
        = Cardinality(S) - Weight(b[c], t) + Weight(x, t)
  <2> HIDE DEF d, S
  <2> QED
    BY <1>2, <1>3, <1>4, <1>5
<1> QED
  BY <1>6

-----------------------------------------------------------------------------
(* The types that a captured piece keeps in both sets of rules.            *)
LEMMA ReserveFacts ==
  /\ ReserveTypes \subseteq CaptTypes
  /\ \A t \in ReserveTypes : t \in Types /\ CorrectedType(t) = t
BY DEF ReserveTypes, CaptTypes, Types, CorrectedType

(* A promotion changes nothing of what a piece counts for.                 *)
LEMMA PromotionWeighs ==
  ASSUME NEW s \in Sides, NEW u \in Types, NEW c \in Squares, NEW t
  PROVE  Weight(piece(s, NewType(s, u, c)), t) = Weight(piece(s, u), t)
<1>1. CorrectedType(NewType(s, u, c)) = CorrectedType(u)
  BY DEF NewType, CorrectedType, Types
<1>2. \A v : piece(s, v) # Vide /\ piece(s, v).type = v
  BY SidesFacts DEF piece, Vide
<1> QED
  BY <1>1, <1>2 DEF Weight

LEMMA InGameNat ==
  ASSUME NEW p \in Positions, NEW t \in ReserveTypes
  PROVE  /\ Cardinality(OfType(p.board, t)) \in Nat
         /\ \A s \in Sides : p.capt[s][t] \in Nat
BY OfTypeFinite, ReserveFacts DEF Positions, Capts

(* Both see the same pieces when they see the same game.                   *)
LEMMA SameInGame ==
  ASSUME NEW p, NEW q, Same(p, q), NEW t \in ReserveTypes
  PROVE  InGame(p, t) = InGame(q, t)
BY SidesFacts DEF Same, InGame

(* A displacement: a piece leaves a square, what stands on the other one   *)
(* goes to the captured pieces.                                            *)
LEMMA AfterConserves ==
  ASSUME NEW p \in Positions, NEW s \in Sides, NEW m, m.from \in Squares,
         m.to \in Squares, p.board[m.from] = piece(s, m.type),
         isEmpty(p.board, m.to) \/ p.board[m.to].side = opponent(s),
         NEW t \in ReserveTypes
  PROVE  InGame(After(p, s, m), t) = InGame(p, t)
<1> DEFINE b == p.board
           a == After(p, s, m)
           b1 == [b EXCEPT ![m.from] = Vide]
           new == piece(s, NewType(s, m.type, m.to))
           n == Cardinality(OfType(b, t))
<1>1. b \in [Squares -> Occupants] /\ p.capt \in [Sides -> [CaptTypes -> Nat]]
  BY DEF Positions, Boards, Capts, Occupants
<1>2. m.type \in Types /\ t \in CaptTypes
  BY PieceType, ReserveFacts
<1>3. m.from # m.to /\ b1[m.to] = b[m.to]
  BY <1>1, SidesFacts DEF piece, isEmpty, Vide
<1>4. a.board = [b1 EXCEPT ![m.to] = new]
  BY DEF After
<1>5. Weight(Vide, t) = 0 /\ Weight(new, t) = Weight(b[m.from], t)
  BY <1>2, PromotionWeighs DEF Weight
<1>6. Cardinality(OfType(b1, t)) = n - Weight(b[m.from], t) + Weight(Vide, t)
  BY <1>1, OneSquareChanges
<1>7. Cardinality(OfType(a.board, t))
        = Cardinality(OfType(b1, t)) - Weight(b1[m.to], t) + Weight(new, t)
  BY <1>1, <1>4, OneSquareChanges
<1>8. /\ a.capt[s][t] = p.capt[s][t] + Weight(b[m.to], t)
      /\ a.capt[opponent(s)][t] = p.capt[opponent(s)][t]
  <2>1. CASE isEmpty(b, m.to)
    BY <1>1, <1>2, <2>1, SidesFacts DEF After, isEmpty, Weight
  <2>2. CASE ~isEmpty(b, m.to)
    <3>1. b[m.to] # Vide
      BY <2>2 DEF isEmpty
    <3>2. CorrectedType(b[m.to].type) \in CaptTypes
      BY <3>1, OccupantFacts, CaptureAgrees
    <3>3. a.capt = [p.capt EXCEPT ![s][CorrectedType(b[m.to].type)] = @ + 1]
      BY <2>2 DEF After
    <3>4. /\ a.capt[s][t] = IF t = CorrectedType(b[m.to].type) THEN p.capt[s][t] + 1
                            ELSE p.capt[s][t]
          /\ a.capt[opponent(s)][t] = p.capt[opponent(s)][t]
      BY <1>1, <1>2, <3>2, <3>3, SidesFacts
    <3> QED
      BY <1>1, <1>2, <3>1, <3>4 DEF Weight
  <2> QED
    BY <2>1, <2>2
<1>9. n \in Nat /\ Weight(b[m.from], t) \in Nat /\ Weight(b[m.to], t) \in Nat
      /\ p.capt[s][t] \in Nat /\ p.capt[opponent(s)][t] \in Nat
  BY InGameNat, SidesFacts DEF Weight
<1>10. Cardinality(OfType(a.board, t)) = n - Weight(b[m.to], t)
  <2> HIDE DEF n, b, b1, a, new
  <2> QED
    BY <1>3, <1>5, <1>6, <1>7, <1>9
<1>11. (s = north /\ opponent(s) = south) \/ (s = south /\ opponent(s) = north)
  BY DEF Sides, opponent, north, south
<1>12. InGame(a, t) = InGame(p, t)
  <2> HIDE DEF a
  <2> QED
    BY <1>8, <1>9, <1>10, <1>11 DEF InGame
<1> QED
  BY <1>12

(* A drop: a captured piece goes to the board.                             *)
LEMMA AfterPutConserves ==
  ASSUME NEW p \in Positions, NEW s \in Sides, NEW m, isEmpty(p.board, m.to),
         m.type \in CaptTypes, NEW t \in ReserveTypes
  PROVE  InGame(AfterPut(p, s, m), t) = InGame(p, t)
<1> DEFINE b == p.board
           a == AfterPut(p, s, m)
           n == Cardinality(OfType(b, t))
           w == Weight(piece(s, m.type), t)
<1>1. b \in [Squares -> Occupants] /\ p.capt \in [Sides -> [CaptTypes -> Nat]]
  BY DEF Positions, Boards, Capts, Occupants
<1>2. m.to \in Squares /\ b[m.to] = Vide /\ m.type \in CaptTypes /\ t \in CaptTypes
  BY ReserveFacts DEF isEmpty
<1>3. Cardinality(OfType(a.board, t)) = n - Weight(b[m.to], t) + w
  BY <1>1, <1>2, OneSquareChanges DEF AfterPut
<1>4. w = IF m.type = t THEN 1 ELSE 0
  BY <1>2, SidesFacts DEF Weight, piece, Vide, CaptTypes, CorrectedType
<1>5. /\ a.capt[s][t] = p.capt[s][t] - w
      /\ a.capt[opponent(s)][t] = p.capt[opponent(s)][t]
  <2>1. a.capt = [p.capt EXCEPT ![s][m.type] = @ - 1]
    BY DEF AfterPut
  <2>2. /\ a.capt[s][t] = IF t = m.type THEN p.capt[s][t] - 1 ELSE p.capt[s][t]
        /\ a.capt[opponent(s)][t] = p.capt[opponent(s)][t]
    BY <1>1, <1>2, <2>1, SidesFacts
  <2>3. p.capt[s][t] \in Nat
    BY <1>1, <1>2
  <2> HIDE DEF w, a
  <2> QED
    BY <1>4, <2>2, <2>3
<1>6. n \in Nat /\ w \in Nat /\ Weight(b[m.to], t) = 0
      /\ p.capt[s][t] \in Nat /\ p.capt[opponent(s)][t] \in Nat
  BY <1>2, InGameNat, SidesFacts DEF Weight
<1>7. (s = north /\ opponent(s) = south) \/ (s = south /\ opponent(s) = north)
  BY DEF Sides, opponent, north, south
<1>8. InGame(a, t) = InGame(p, t)
  <2> HIDE DEF a, w
  <2> QED
    BY <1>3, <1>5, <1>6, <1>7 DEF InGame
<1> QED
  BY <1>8

-----------------------------------------------------------------------------
(* What a game begins with, counted by rows.                               *)
LEMMA InitialPieces ==
  /\ InGame(InitialPosition, "kodama") = 6
  /\ InGame(InitialPosition, "oni") = 4
  /\ InGame(InitialPosition, "kirin") = 4
<1> DEFINE b == initial_board
<1>1. \A c \in Squares : c = <<c[1], c[2]>> /\ c[1] \in 1..5 /\ c[2] \in 1..6
  BY DEF Squares
<1>2. \A s, u : piece(s, u).side = s /\ piece(s, u).type = u
  BY DEF piece
<1>3. /\ \A c \in Squares : c[2] \in {1, 6} =>
           b[c] # Vide /\ b[c].type = LastRow[c[1]]
      /\ \A c \in Squares : c[2] \in {3, 4} /\ c[1] \in 2..4 =>
           b[c] # Vide /\ b[c].type = "kodama"
      /\ \A c \in Squares : ~(c[2] \in {1, 6}) /\ ~(c[2] \in {3, 4} /\ c[1] \in 2..4) =>
           b[c] = Vide
  BY <1>2, SidesFacts DEF initial_board, Vide, piece
<1>4. OfType(b, "kodama") = (2..4) \X (3..4)
  <2>1. \A i \in 1..5 : CorrectedType(LastRow[i]) # "kodama"
    BY DEF LastRow, CorrectedType
  <2>2. CorrectedType("kodama") = "kodama"
    BY DEF CorrectedType
  <2>3. \A c \in Squares : c \in OfType(b, "kodama") <=> c[1] \in 2..4 /\ c[2] \in 3..4
    BY <1>1, <1>3, <2>1, <2>2 DEF OfType
  <2> QED
    BY <1>1, <2>3 DEF OfType, Squares
<1>5. OfType(b, "oni") = {1, 5} \X {1, 6}
  <2>1. \A i \in 1..5 : CorrectedType(LastRow[i]) = "oni" <=> i \in {1, 5}
    BY DEF LastRow, CorrectedType
  <2>2. CorrectedType("kodama") # "oni"
    BY DEF CorrectedType
  <2>3. \A c \in Squares : c \in OfType(b, "oni") <=> c[1] \in {1, 5} /\ c[2] \in {1, 6}
    BY <1>1, <1>3, <2>1, <2>2 DEF OfType
  <2> QED
    BY <1>1, <2>3 DEF OfType, Squares
<1>6. OfType(b, "kirin") = {2, 4} \X {1, 6}
  <2>1. \A i \in 1..5 : CorrectedType(LastRow[i]) = "kirin" <=> i \in {2, 4}
    BY DEF LastRow, CorrectedType
  <2>2. CorrectedType("kodama") # "kirin"
    BY DEF CorrectedType
  <2>3. \A c \in Squares : c \in OfType(b, "kirin") <=> c[1] \in {2, 4} /\ c[2] \in {1, 6}
    BY <1>1, <1>3, <2>1, <2>2 DEF OfType
  <2> QED
    BY <1>1, <2>3 DEF OfType, Squares
<1>7. ASSUME NEW x, NEW y, x # y
      PROVE  IsFiniteSet({x, y}) /\ Cardinality({x, y}) = 2
  <2>1. IsFiniteSet({x}) /\ Cardinality({x}) = 1
    BY FS_Singleton
  <2>2. {x, y} = {x} \union {y}
    OBVIOUS
  <2> QED
    BY <1>7, <2>1, <2>2, FS_AddElement
<1>8. /\ IsFiniteSet(2..4) /\ Cardinality(2..4) = 3
      /\ IsFiniteSet(3..4) /\ Cardinality(3..4) = 2
  <2>1. 2 \in Int /\ 3 \in Int /\ 4 \in Int
    OBVIOUS
  <2>2. /\ IsFiniteSet(2..4) /\ Cardinality(2..4) = IF 2 > 4 THEN 0 ELSE 4 - 2 + 1
        /\ IsFiniteSet(3..4) /\ Cardinality(3..4) = IF 3 > 4 THEN 0 ELSE 4 - 3 + 1
    BY <2>1, FS_Interval, Zenon
  <2> QED
    BY <2>2
<1>9. /\ Cardinality((2..4) \X (3..4)) = 6
      /\ Cardinality({1, 5} \X {1, 6}) = 4
      /\ Cardinality({2, 4} \X {1, 6}) = 4
  <2>1. Cardinality((2..4) \X (3..4)) = Cardinality(2..4) * Cardinality(3..4)
    BY <1>8, FS_Product
  <2>2. /\ Cardinality({1, 5}) = 2 /\ Cardinality({1, 6}) = 2 /\ Cardinality({2, 4}) = 2
        /\ IsFiniteSet({1, 5}) /\ IsFiniteSet({1, 6}) /\ IsFiniteSet({2, 4})
    <3>1. 1 # 5 /\ 1 # 6 /\ 2 # 4
      OBVIOUS
    <3> QED
      BY ONLY <1>7, <3>1, Zenon
  <2>3. /\ Cardinality({1, 5} \X {1, 6}) = Cardinality({1, 5}) * Cardinality({1, 6})
        /\ Cardinality({2, 4} \X {1, 6}) = Cardinality({2, 4}) * Cardinality({1, 6})
    BY <2>2, FS_Product
  <2> QED
    BY <1>8, <2>1, <2>2, <2>3
<1>10. \A s \in Sides, t \in ReserveTypes : NoCapt[s][t] = 0
  BY ReserveFacts DEF NoCapt
<1>11. /\ Cardinality(OfType(b, "kodama")) = 6
       /\ Cardinality(OfType(b, "oni")) = 4
       /\ Cardinality(OfType(b, "kirin")) = 4
  BY <1>4, <1>5, <1>6, <1>9
<1> QED
  <2> HIDE DEF b
  <2>1. InitialPosition.board = b /\ InitialPosition.capt = NoCapt
    BY DEF InitialPosition, b
  <2>2. \A t \in ReserveTypes : InGame(InitialPosition, t) = Cardinality(OfType(b, t)) + 0 + 0
    BY <1>10, <2>1, SidesFacts DEF InGame
  <2> QED
    BY <1>11, <2>2 DEF ReserveTypes

-----------------------------------------------------------------------------
(* The inductive invariant: the numbers of pieces, on every position that  *)
(* somebody keeps, with the types of these positions and of the move.      *)
Whole(p) ==
  InGame(p, "kodama") = 6 /\ InGame(p, "oni") = 4 /\ InGame(p, "kirin") = 4

PiecesInv ==
  /\ PartieTypeOK
  /\ Whole(position)
  /\ \A s \in Sides : Whole(ia[s])

(* What keeps the count of each type keeps them all.                       *)
LEMMA KeepsWhole ==
  ASSUME NEW p, NEW q, Whole(p),
         \A t \in ReserveTypes : InGame(q, t) = InGame(p, t)
  PROVE  Whole(q)
BY DEF Whole, ReserveTypes

(* What the referee does to its board when it accepts a move.              *)
LEMMA ApresCoupConserves ==
  ASSUME NEW p \in Positions, NEW s \in Sides, NEW m, coupValide(p, s, m), Whole(p)
  PROVE  Whole(ApresCoup(p, s, m))
<1>1. Same(p, p)
  BY DEF Same
<1>2. CASE m.typeCoup # DEPOSER
  <2>1. DeplacerCorrect(p, s, m) /\ ApresCoup(p, s, m) = deplace(p, s, m)
    BY <1>2 DEF coupValide, ApresCoup
  <2>2. Same(After(p, s, m), deplace(p, s, m)) /\ force_move(p, s, m)
    BY <1>1, <2>1, DisplacedAlike, CorrectIsForced
  <2>3. \A t \in ReserveTypes : InGame(After(p, s, m), t) = InGame(p, t)
    BY <2>2, AfterConserves DEF force_move
  <2>4. \A t \in ReserveTypes : InGame(deplace(p, s, m), t) = InGame(p, t)
    BY <2>2, <2>3, SameInGame
  <2> QED
    BY <2>1, <2>4, KeepsWhole
<1>3. CASE m.typeCoup = DEPOSER
  <2>1. DeposerCorrect(p, s, m) /\ ApresCoup(p, s, m) = place(p, s, m)
    BY <1>3 DEF coupValide, ApresCoup
  <2>2. Same(AfterPut(p, s, m), place(p, s, m))
    BY <1>1, <2>1, DroppedAlike
  <2>3. isEmpty(p.board, m.to) /\ m.type \in CaptTypes
    BY <2>1, ReserveFacts DEF DeposerCorrect, isEmpty
  <2>4. \A t \in ReserveTypes : InGame(AfterPut(p, s, m), t) = InGame(p, t)
    BY <2>3, AfterPutConserves
  <2>5. \A t \in ReserveTypes : InGame(place(p, s, m), t) = InGame(p, t)
    BY <2>2, <2>4, SameInGame
  <2> QED
    BY <2>1, <2>5, KeepsWhole
<1> QED
  BY <1>2, <1>3

(* Playing on the AI's board: its own move, and the opponent's when the    *)
(* query has a solution.                                                   *)
LEMMA AfterWhole ==
  ASSUME NEW p \in Positions, Whole(p), NEW s \in Sides, NEW m
  PROVE  /\ m \in get_moves(p, s) => Whole(After(p, s, m))
         /\ force_move(p, s, m) => Whole(After(p, s, m))
         /\ put(p, s, m) => Whole(AfterPut(p, s, m))
<1>1. ASSUME m.from \in Squares, m.to \in Squares, p.board[m.from] = piece(s, m.type),
             isEmpty(p.board, m.to) \/ p.board[m.to].side = opponent(s)
      PROVE  Whole(After(p, s, m))
  BY <1>1, AfterConserves, KeepsWhole
<1>2. m \in get_moves(p, s) => m.from \in Squares /\ try_move(p, s, m)
  BY ListedMove
<1>3. put(p, s, m) => \A t \in ReserveTypes : InGame(AfterPut(p, s, m), t) = InGame(p, t)
  BY AfterPutConserves DEF put
<1> QED
  BY <1>1, <1>2, <1>3, KeepsWhole DEF try_move, force_move

LEMMA PiecesStep ==
  ASSUME PiecesInv, PartieTypeOK', Next
  PROVE  PiecesInv'
<1>1. ia \in [Sides -> Positions] /\ position \in Positions /\ trait \in Sides
  BY DEF PiecesInv, PartieTypeOK, PontTypeOK
<1>2. CASE AIPlays
  <2>1. PICK c \in generatedMoves(ia[trait], trait) : generateMove(trait, c)
    BY <1>2 DEF AIPlays
  <2>2. position' = position
    BY <1>2 DEF AIPlays
  <2>3. \/ ia' = ia
        \/ c \in get_moves(ia[trait], trait)
           /\ ia' = [ia EXCEPT ![trait] = After(ia[trait], trait, c)]
    BY <1>1, <2>1, GeneratedMove DEF generateMove
  <2>4. c \in get_moves(ia[trait], trait) => Whole(After(ia[trait], trait, c))
    BY <1>1, AfterWhole DEF PiecesInv
  <2>5. \A s \in Sides : Whole(ia'[s])
    BY <1>1, <2>3, <2>4 DEF PiecesInv
  <2> QED
    BY <2>2, <2>5 DEF PiecesInv
<1>3. CASE Judge
  <2>1. coupValide(position, trait, coup) => Whole(ApresCoup(position, trait, coup))
    BY <1>1, ApresCoupConserves DEF PiecesInv
  <2>2. Verdict.valid <=> coupValide(position, trait, coup)
    BY DEF Verdict, validationCoup
  <2>3. ia' = ia /\ position' = IF Verdict.valid THEN ApresCoup(position, trait, coup)
                                ELSE position
    BY <1>3 DEF Judge, iaVars
  <2> QED
    BY <2>1, <2>2, <2>3 DEF PiecesInv
<1>4. CASE Inform
  <2> DEFINE t == opponent(trait)
  <2>1. t \in Sides /\ opponent(t) = trait /\ position' = position
    BY <1>1, <1>4, SidesFacts DEF Inform
  <2>2. \/ ia' = ia
        \/ force_move(ia[t], trait, coup) /\ ia' = [ia EXCEPT ![t] = After(ia[t], trait, coup)]
        \/ put(ia[t], trait, coup) /\ ia' = [ia EXCEPT ![t] = AfterPut(ia[t], trait, coup)]
    BY <1>1, <1>4, <2>1 DEF Inform, forceEnnemyStrike, Accepts, iaVars
  <2>3. Whole(ia[t]) /\ ia[t] \in Positions
    BY <1>1, <2>1 DEF PiecesInv
  <2>4. /\ force_move(ia[t], trait, coup) => Whole(After(ia[t], trait, coup))
        /\ put(ia[t], trait, coup) => Whole(AfterPut(ia[t], trait, coup))
    BY <1>1, <2>3, AfterWhole
  <2>5. \A s \in Sides : Whole(ia'[s])
    <3> HIDE DEF t
    <3> QED
      BY <1>1, <2>1, <2>2, <2>4 DEF PiecesInv
  <2> QED
    BY <2>1, <2>5 DEF PiecesInv
<1>5. CASE NextGame
  BY <1>5, InitialPieces DEF NextGame, init, PiecesInv, Whole
<1>6. CASE OtherPlays \/ Over
  BY <1>6 DEF OtherPlays, Over, vars, iaVars, PiecesInv
<1> QED
  BY <1>2, <1>3, <1>4, <1>5, <1>6 DEF Next

(* No piece is lost, doubled or changed for another, on the referee's      *)
(* board and on each AI's, in games of any length: what Prolog.java keeps  *)
(* between two queries is always a position of the game ("capture and      *)
(* move, used alone, duplicate pieces", ia.pl:58).                         *)
THEOREM PiecesStay == Spec => []PiecesConserved
<1>1. Init => PiecesInv
  BY InitInv, InitialPieces DEF Init, PontInit, PiecesInv, Whole, PartieInv
<1>2. PiecesInv /\ PartieTypeOK' /\ [Next]_vars => PiecesInv'
  <2>1. UNCHANGED vars /\ PiecesInv => PiecesInv'
    BY DEF vars, iaVars, PiecesInv, PartieTypeOK, PontTypeOK
  <2> QED
    BY <2>1, PiecesStep
<1>3. PiecesInv => PiecesConserved
  <2>1. \A s \in Own : s \in Sides
    BY OwnAssumption
  <2> QED
    BY <2>1 DEF PiecesInv, PiecesConserved, Whole
<1> QED
  BY <1>1, <1>2, <1>3, PartieTypeCorrect, PTL DEF Spec
=============================================================================
