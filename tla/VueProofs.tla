------------------------------ MODULE VueProofs ------------------------------
(***************************************************************************)
(* What an AI sees of its opponent once it has ignored drops.  Its own     *)
(* pieces are no longer what they are on the referee's board, nor are the  *)
(* captured ones; but whatever it sees of the opponent is really there,    *)
(* and the opponent's king is always among it.                             *)
(***************************************************************************)
EXTENDS PartieProofs

-----------------------------------------------------------------------------
(* p shows no piece of side o that q does not have, and shows its king.    *)
Follows(p, q, o) ==
  /\ \A c \in Squares : p.board[c].side = o => q.board[c] = p.board[c]
  /\ Kings(q.board, o) \subseteq Kings(p.board, o)

(* The inductive invariant, over that of PartieProofs.  When no move is on *)
(* its way the view follows the referee's board,                           *)
InView ==
  \A s \in Own :
    \/ etape = "choisir"
    \/ etape = "informer" /\ s = trait
    \/ etape = "juger" /\ s # trait
    => Follows(ia[s], position, opponent(s))

(* while a move is judged its AI is one move ahead,                        *)
ViewAhead ==
  etape = "juger" /\ trait \in Own =>
    \E p \in Positions :
      /\ Follows(p, position, opponent(trait))
      /\ \/ coup = Unwritten /\ Kings(p.board, opponent(trait)) = {}
         \/ coup \in get_moves(p, trait) /\ ia[trait] = After(p, trait, coup)

(* and once the move is accepted the opponent's AI is one move behind.     *)
ViewBehind ==
  etape = "informer" =>
    \A s \in Own : s # trait =>
      \E q \in Positions :
        /\ Follows(ia[s], q, trait)
        /\ coupValide(q, trait, coup)
        /\ position = ApresCoup(q, trait, coup)

ViewInv == PartieInv /\ InView /\ ViewAhead /\ ViewBehind

-----------------------------------------------------------------------------
(* The referee's board after a displacement, and the AI's.                 *)
LEMMA BoardsAfter ==
  ASSUME NEW p \in Positions, NEW s \in Sides, NEW m, m.from \in Squares,
         m.to \in Squares, m.from # m.to, NEW c \in Squares
  PROVE  /\ deplace(p, s, m).board[c] =
              IF c = m.from THEN Vide
              ELSE IF c = m.to THEN piece(s, promotion(s, m.type, m.to)) ELSE p.board[c]
         /\ After(p, s, m).board[c] =
              IF c = m.from THEN Vide
              ELSE IF c = m.to THEN piece(s, NewType(s, m.type, m.to)) ELSE p.board[c]
<1>1. p.board \in [Squares -> Occupants]
  BY DEF Positions, Boards, Occupants
<1>2. deplace(p, s, m).board[c] =
        IF c = m.from THEN Vide
        ELSE IF c = m.to THEN piece(s, promotion(s, m.type, c)) ELSE p.board[c]
  BY DEF deplace
<1>3. After(p, s, m).board =
        [p.board EXCEPT ![m.from] = Vide, ![m.to] = piece(s, NewType(s, m.type, m.to))]
  BY DEF After
<1> QED
  BY <1>1, <1>2, <1>3

(* A displacement leaves the square of departure, for another one.         *)
LEMMA CorrectFacts ==
  ASSUME NEW q \in Positions, NEW s \in Sides, NEW m, DeplacerCorrect(q, s, m)
  PROVE  /\ m.from \in Squares /\ m.to \in Squares /\ m.from # m.to
         /\ q.board[m.from] = piece(s, m.type) /\ q.board[m.from].side = s
         /\ q.board[m.to].side # s /\ m.type \in Types
<1>1. /\ m.from \in Squares /\ m.to \in Squares
      /\ q.board[m.from] = piece(s, m.type) /\ q.board[m.to].side # s
  BY DEF DeplacerCorrect
<1>2. q.board[m.from].side = s
  BY <1>1 DEF piece
<1> QED
  BY <1>1, <1>2, PieceType

(* An empty square is nobody's.                                            *)
LEMMA NoOnesPiece == \A s \in Sides : Vide.side # s /\ \A t : Vide # piece(s, t)
<1>1. \A s, t : piece(s, t).side = s
  BY DEF piece
<1> QED
  BY <1>1, SidesFacts DEF Vide

(* The AI's own move, accepted: it takes from both boards what it takes.   *)
LEMMA OwnMoveFollows ==
  ASSUME NEW p \in Positions, NEW q \in Positions, NEW s \in Sides, NEW m,
         Follows(p, q, opponent(s)), DeplacerCorrect(q, s, m)
  PROVE  Follows(After(p, s, m), deplace(q, s, m), opponent(s))
<1> DEFINE o == opponent(s)
           a == After(p, s, m).board
           d == deplace(q, s, m).board
<1>1. m.from \in Squares /\ m.to \in Squares /\ m.from # m.to
  BY CorrectFacts
<1>2. o \in Sides /\ o # s
  BY SidesFacts
<1>3. \A c \in Squares :
        /\ c \in {m.from, m.to} => a[c].side # o /\ d[c].side # o
        /\ c \notin {m.from, m.to} => a[c] = p.board[c] /\ d[c] = q.board[c]
  <2>1. \A c \in Squares :
          /\ d[c] = IF c = m.from THEN Vide
                    ELSE IF c = m.to THEN piece(s, promotion(s, m.type, m.to)) ELSE q.board[c]
          /\ a[c] = IF c = m.from THEN Vide
                    ELSE IF c = m.to THEN piece(s, NewType(s, m.type, m.to)) ELSE p.board[c]
    BY <1>1, BoardsAfter
  <2>2. Vide.side # o /\ \A t : piece(s, t).side # o
    BY <1>2, NoOnesPiece DEF piece
  <2> QED
    BY <1>1, <2>1, <2>2
<1>4. \A c \in Squares : p.board[c].side = o => q.board[c] = p.board[c]
  BY DEF Follows
<1>5. \A c \in Squares : q.board[c] = piece(o, "koropokkuru") =>
                           p.board[c] = piece(o, "koropokkuru")
  BY DEF Follows, Kings
<1>6. \A c \in Squares : a[c].side = o => d[c] = a[c]
  BY <1>3, <1>4
<1>7. \A c \in Squares : d[c] = piece(o, "koropokkuru") => a[c] = piece(o, "koropokkuru")
  <2>1. piece(o, "koropokkuru").side = o
    BY DEF piece
  <2> QED
    BY <1>3, <1>5, <2>1
<1> QED
  BY <1>6, <1>7 DEF Follows, Kings

(* The opponent's displacement: played on both boards alike, or not at all *)
(* on the AI's, which then does not see the piece that moves.              *)
LEMMA DisplacementFollows ==
  ASSUME NEW p \in Positions, NEW q \in Positions, NEW o \in Sides, NEW m,
         Follows(p, q, o), DeplacerCorrect(q, o, m)
  PROVE  /\ force_move(p, o, m) => Follows(After(p, o, m), deplace(q, o, m), o)
         /\ ~force_move(p, o, m) => Follows(p, deplace(q, o, m), o)
<1> DEFINE k == piece(o, "koropokkuru")
           a == After(p, o, m).board
           d == deplace(q, o, m).board
<1>1. /\ m.from \in Squares /\ m.to \in Squares /\ m.from # m.to
      /\ q.board[m.from] = piece(o, m.type) /\ q.board[m.from].side = o
      /\ q.board[m.to].side # o /\ m.type \in Types
  BY CorrectFacts
<1>2. \A c \in Squares :
        /\ d[c] = IF c = m.from THEN Vide
                  ELSE IF c = m.to THEN piece(o, promotion(o, m.type, m.to)) ELSE q.board[c]
        /\ a[c] = IF c = m.from THEN Vide
                  ELSE IF c = m.to THEN piece(o, promotion(o, m.type, m.to)) ELSE p.board[c]
  BY <1>1, BoardsAfter, PromotionAgrees
<1>3. \A c \in Squares : p.board[c].side = o => q.board[c] = p.board[c]
  BY DEF Follows
<1>4. \A c \in Squares : q.board[c] = k => p.board[c] = k
  BY DEF Follows, Kings
<1>5. Vide.side # o /\ Vide # k /\ k.side = o /\ k.type = "koropokkuru"
  BY NoOnesPiece DEF piece
<1>6. Follows(After(p, o, m), deplace(q, o, m), o)
  <2>1. \A c \in Squares : a[c].side = o => d[c] = a[c]
    BY <1>2, <1>3, <1>5
  <2>2. \A c \in Squares : d[c] = k => a[c] = k
    BY <1>2, <1>4, <1>5
  <2> QED
    BY <2>1, <2>2 DEF Follows, Kings
<1>7. ASSUME ~force_move(p, o, m)
      PROVE  Follows(p, deplace(q, o, m), o)
  <2>1. p.board[m.to].side # o
    BY <1>1, <1>3
  <2>2. isEmpty(p.board, m.to) \/ p.board[m.to].side = opponent(o)
    BY <1>1, <2>1, Arrival
  <2>3. p.board[m.from] # q.board[m.from]
    BY <1>1, <1>7, <2>2 DEF force_move
  <2>4. p.board[m.from].side # o /\ q.board[m.from] # k
    BY <1>1, <1>3, <1>4, <2>3
  <2>5. \A c \in Squares : p.board[c].side = o => d[c] = p.board[c]
    BY <1>2, <1>3, <2>1, <2>4
  <2>6. d[m.to] # k
    <3>1. m.type # "koropokkuru"
      BY <1>1, <2>4
    <3>2. promotion(o, m.type, m.to) # "koropokkuru"
      BY <3>1 DEF promotion
    <3> QED
      BY <1>1, <1>2, <1>5, <3>2 DEF piece
  <2>7. \A c \in Squares : d[c] = k => p.board[c] = k
    BY <1>1, <1>2, <1>4, <1>5, <2>6
  <2> QED
    BY <2>5, <2>7 DEF Follows, Kings
<1> QED
  BY <1>6, <1>7

(* The opponent's drop: seen or not, it changes nothing else and is not    *)
(* the king's.                                                             *)
LEMMA DropFollows ==
  ASSUME NEW p \in Positions, NEW q \in Positions, NEW o \in Sides, NEW m,
         Follows(p, q, o), DeposerCorrect(q, o, m)
  PROVE  /\ Follows(AfterPut(p, o, m), place(q, o, m), o)
         /\ Follows(p, place(q, o, m), o)
<1> DEFINE k == piece(o, "koropokkuru")
           x == piece(o, m.type)
           a == AfterPut(p, o, m).board
           d == place(q, o, m).board
<1>1. m.to \in Squares /\ q.board[m.to] = Vide /\ m.type # "koropokkuru"
  BY DEF DeposerCorrect, ReserveTypes
<1>2. p.board \in [Squares -> Occupants]
  BY DEF Positions, Boards, Occupants
<1>3. \A c \in Squares : /\ d[c] = IF c = m.to THEN x ELSE q.board[c]
                         /\ a[c] = IF c = m.to THEN x ELSE p.board[c]
  BY <1>1, <1>2 DEF place, AfterPut
<1>4. \A c \in Squares : p.board[c].side = o => q.board[c] = p.board[c]
  BY DEF Follows
<1>5. \A c \in Squares : q.board[c] = k => p.board[c] = k
  BY DEF Follows, Kings
<1>6. x # k /\ Vide.side # o
  BY <1>1, NoOnesPiece DEF piece
<1>7. \A c \in Squares : /\ a[c].side = o => d[c] = a[c]
                         /\ p.board[c].side = o => d[c] = p.board[c]
  BY <1>1, <1>3, <1>4, <1>6
<1>8. \A c \in Squares : d[c] = k => a[c] = k /\ p.board[c] = k
  BY <1>3, <1>5, <1>6
<1> QED
  BY <1>7, <1>8 DEF Follows, Kings

LEMMA FollowsItself ==
  ASSUME NEW p, NEW o
  PROVE  Follows(p, p, o)
BY DEF Follows
-----------------------------------------------------------------------------
LEMMA InitView == Init => ViewInv
<1> SUFFICES ASSUME Init PROVE ViewInv
  OBVIOUS
<1>1. etape = "choisir" /\ position = InitialPosition
      /\ \A s \in Own : ia[s] = InitialPosition
  BY OwnAssumption DEF Init, PontInit
<1> QED
  BY <1>1, InitInv, FollowsItself DEF ViewInv, InView, ViewAhead, ViewBehind

LEMMA AIPlaysView ==
  ASSUME ViewInv, AIPlays
  PROVE  InView' /\ ViewAhead' /\ ViewBehind'
<1>1. PICK c \in generatedMoves(ia[trait], trait) :
        generateMove(trait, c) /\ coup' = c
  BY DEF AIPlays
<1>2. /\ etape = "choisir" /\ etape' = "juger" /\ trait \in Own
      /\ trait' = trait /\ position' = position
  BY DEF AIPlays
<1>3. ia[trait] \in Positions /\ trait \in Sides /\ ia \in [Sides -> Positions]
  BY DEF ViewInv, PartieInv, PartieTypeOK, PontTypeOK
<1>4. \/ c = Unwritten /\ Kings(ia[trait].board, opponent(trait)) = {} /\ ia' = ia
      \/ /\ c \in get_moves(ia[trait], trait)
         /\ ia' = [ia EXCEPT ![trait] = After(@, trait, c)]
  BY <1>1, <1>3, GeneratedMove, ListedMove DEF generateMove
<1>5. \A s \in Own : Follows(ia[s], position, opponent(s))
  BY <1>2 DEF ViewInv, InView
<1>6. \/ c = Unwritten /\ Kings(ia[trait].board, opponent(trait)) = {}
      \/ /\ c \in get_moves(ia[trait], trait)
         /\ ia'[trait] = After(ia[trait], trait, c)
  BY <1>3, <1>4
<1>7. ViewAhead'
  BY <1>1, <1>2, <1>3, <1>5, <1>6 DEF ViewAhead
<1>8. \A s \in Own : s # trait => ia'[s] = ia[s]
  BY <1>3, <1>4, OwnAssumption
<1>9. InView' /\ ViewBehind'
  BY <1>2, <1>5, <1>8 DEF InView, ViewBehind
<1> QED
  BY <1>7, <1>9

LEMMA OtherPlaysView ==
  ASSUME ViewInv, OtherPlays
  PROVE  InView' /\ ViewAhead' /\ ViewBehind'
<1>1. /\ etape = "choisir" /\ etape' = "juger" /\ trait \notin Own
      /\ UNCHANGED <<ia, trait, position>>
  BY DEF OtherPlays, iaVars
<1> QED
  BY <1>1 DEF ViewInv, InView, ViewAhead, ViewBehind

(* A move that is accepted was written.                                    *)
LEMMA AcceptedOwnMove ==
  ASSUME ViewInv, etape = "juger", trait \in Own, coupValide(position, trait, coup)
  PROVE  /\ DeplacerCorrect(position, trait, coup)
         /\ ApresCoup(position, trait, coup) = deplace(position, trait, coup)
         /\ \E p \in Positions : /\ Follows(p, position, opponent(trait))
                                 /\ ia[trait] = After(p, trait, coup)
<1>1. trait \in Sides /\ position \in Positions
  BY DEF ViewInv, PartieInv, PartieTypeOK
<1>2. PICK p \in Positions :
        /\ Follows(p, position, opponent(trait))
        /\ \/ coup = Unwritten
           \/ coup \in get_moves(p, trait) /\ ia[trait] = After(p, trait, coup)
  BY DEF ViewInv, ViewAhead
<1>3. coup.typeCoup = DEPLACER /\ DEPLACER # DEPOSER
  BY <1>1, <1>2, ListedMove DEF Unwritten, Displacement, DEPLACER, DEPOSER
<1>4. /\ DeplacerCorrect(position, trait, coup)
      /\ ApresCoup(position, trait, coup) = deplace(position, trait, coup)
  BY <1>3 DEF coupValide, ApresCoup
<1>5. coup # Unwritten
  BY <1>4 DEF DeplacerCorrect, Unwritten, Displacement, NullePart, Squares
<1> QED
  BY <1>2, <1>4, <1>5

LEMMA JudgeView ==
  ASSUME ViewInv, Judge
  PROVE  InView' /\ ViewAhead' /\ ViewBehind'
<1>1. /\ etape = "juger" /\ etape' \in {"informer", "finie"}
      /\ UNCHANGED <<ia, trait, coup>>
  BY DEF Judge, iaVars
<1>2. trait \in Sides /\ position \in Positions
  BY DEF ViewInv, PartieInv, PartieTypeOK
<1>3. CASE etape' = "finie"
  BY <1>3 DEF InView, ViewAhead, ViewBehind
<1>4. CASE etape' = "informer"
  <2>1. coupValide(position, trait, coup) /\ position' = ApresCoup(position, trait, coup)
    BY <1>4 DEF Judge, Verdict, validationCoup
  <2>2. ASSUME trait \in Own
        PROVE  Follows(ia[trait], position', opponent(trait))
    <3>1. /\ DeplacerCorrect(position, trait, coup)
          /\ position' = deplace(position, trait, coup)
      BY <1>1, <2>1, <2>2, AcceptedOwnMove
    <3>2. PICK p \in Positions : /\ Follows(p, position, opponent(trait))
                                 /\ ia[trait] = After(p, trait, coup)
      BY <1>1, <2>1, <2>2, AcceptedOwnMove
    <3> QED
      BY <1>2, <3>1, <3>2, OwnMoveFollows
  <2>3. ASSUME NEW s \in Own, s # trait
        PROVE  Follows(ia[s], position, trait)
    <3>1. opponent(s) = trait
      BY <1>2, <2>3, OwnAssumption, SidesFacts
    <3> QED
      BY <1>1, <2>3, <3>1 DEF ViewInv, InView
  <2>4. InView' /\ ViewAhead'
    BY <1>1, <1>4, <2>2 DEF InView, ViewAhead
  <2>5. ViewBehind'
    BY <1>1, <1>2, <2>1, <2>3 DEF ViewBehind
  <2> QED
    BY <2>4, <2>5
<1> QED
  BY <1>1, <1>3, <1>4

LEMMA InformView ==
  ASSUME ViewInv, Inform
  PROVE  InView' /\ ViewAhead' /\ ViewBehind'
<1> DEFINE t == opponent(trait)
<1>1. /\ etape = "informer" /\ etape' = "choisir" /\ position' = position
      /\ IF t \in Own THEN forceEnnemyStrike(t, coup) ELSE ia' = ia
  BY DEF Inform, iaVars
<1>2. /\ trait \in Sides /\ t \in Sides /\ t # trait /\ opponent(t) = trait
      /\ \A s \in Sides : s = trait \/ s = t
  BY SidesFacts DEF ViewInv, PartieInv, PartieTypeOK
<1>3. /\ ia \in [Sides -> Positions] /\ coup.typeCoup \in {DEPLACER, DEPOSER}
      /\ DEPLACER # DEPOSER
  BY DEF ViewInv, PartieInv, PartieTypeOK, PontTypeOK, Coups, DEPLACER, DEPOSER
<1> HIDE DEF t
<1>4. ASSUME t \in Own
      PROVE  Follows(ia'[t], position, trait)
  <2>1. PICK q \in Positions :
          /\ Follows(ia[t], q, trait) /\ coupValide(q, trait, coup)
          /\ position = ApresCoup(q, trait, coup)
    BY <1>1, <1>2, <1>4 DEF ViewInv, ViewBehind
  <2>2. ia[t] \in Positions
    BY <1>2, <1>3
  <2>3. CASE coup.typeCoup = DEPLACER
    <3>1. DeplacerCorrect(q, trait, coup) /\ position = deplace(q, trait, coup)
      BY <1>3, <2>1, <2>3 DEF coupValide, ApresCoup
    <3>2. ia'[t] = IF force_move(ia[t], trait, coup) THEN After(ia[t], trait, coup) ELSE ia[t]
      BY <1>1, <1>2, <1>3, <1>4, <2>3 DEF forceEnnemyStrike, Accepts
    <3> QED
      BY <1>2, <2>1, <2>2, <3>1, <3>2, DisplacementFollows
  <2>4. CASE coup.typeCoup = DEPOSER
    <3>1. DeposerCorrect(q, trait, coup) /\ position = place(q, trait, coup)
      BY <2>1, <2>4 DEF coupValide, ApresCoup
    <3>2. ia'[t] = IF put(ia[t], trait, coup) THEN AfterPut(ia[t], trait, coup) ELSE ia[t]
      BY <1>1, <1>2, <1>3, <1>4, <2>4 DEF forceEnnemyStrike, Accepts
    <3> QED
      BY <1>2, <2>1, <2>2, <3>1, <3>2, DropFollows
  <2> QED
    BY <1>3, <2>3, <2>4
<1>5. ASSUME trait \in Own
      PROVE  Follows(ia'[trait], position, t)
  <2>1. ia'[trait] = ia[trait]
    BY <1>1, <1>2, <1>3 DEF forceEnnemyStrike
  <2> QED
    BY <1>1, <1>5, <2>1 DEF ViewInv, InView, t
<1>6. \A s \in Own : Follows(ia'[s], position, opponent(s))
  BY <1>2, <1>4, <1>5, OwnAssumption DEF t
<1> QED
  BY <1>1, <1>6 DEF InView, ViewAhead, ViewBehind

LEMMA NextGameView ==
  ASSUME NextGame
  PROVE  InView' /\ ViewAhead' /\ ViewBehind'
<1>1. /\ etape' = "choisir" /\ position' = InitialPosition
      /\ ia' = [s \in Sides |-> InitialPosition]
  BY DEF NextGame, init
<1>2. \A s \in Own : ia'[s] = position'
  BY <1>1, OwnAssumption
<1> QED
  BY <1>1, <1>2, FollowsItself DEF InView, ViewAhead, ViewBehind

LEMMA StepView == ViewInv /\ [Next]_vars => ViewInv'
<1> SUFFICES ASSUME ViewInv, [Next]_vars
             PROVE  InView' /\ ViewAhead' /\ ViewBehind'
  BY StepInv DEF ViewInv
<1>1. CASE AIPlays
  BY <1>1, AIPlaysView
<1>2. CASE OtherPlays
  BY <1>2, OtherPlaysView
<1>3. CASE Judge
  BY <1>3, JudgeView
<1>4. CASE Inform
  BY <1>4, InformView
<1>5. CASE NextGame
  BY <1>5, NextGameView
<1>6. CASE UNCHANGED vars
  BY <1>6 DEF vars, iaVars, ViewInv, InView, ViewAhead, ViewBehind
<1> QED
  BY <1>1, <1>2, <1>3, <1>4, <1>5, <1>6 DEF Next, Over

(* An AI finds no king to measure the distance to (ia.pl:492), and sends a *)
(* move that it has never written, only in a game where a piece was        *)
(* dropped by a side in check: even one that has ignored drops.            *)
THEOREM AIWritesItsMoves == Spec => []MoveIsWritten
<1>1. ViewInv => MoveIsWritten
  <2> SUFFICES ASSUME ViewInv, etape = "juger", trait \in Own, coup = Unwritten
               PROVE  exposed
    BY DEF MoveIsWritten
  <2>1. trait \in Sides /\ opponent(trait) \in Sides /\ exposed \in BOOLEAN
    BY SidesFacts DEF ViewInv, PartieInv, PartieTypeOK
  <2>2. PICK p \in Positions :
          /\ Follows(p, position, opponent(trait))
          /\ coup \in get_moves(p, trait) \/ Kings(p.board, opponent(trait)) = {}
    BY DEF ViewInv, ViewAhead
  <2>3. Kings(position.board, opponent(trait)) = {}
    BY <2>1, <2>2, ListedMove DEF Follows
  <2> QED
    BY <2>1, <2>3 DEF ViewInv, PartieInv, KingsInv, BothKings
<1>2. Spec => []ViewInv
  BY InitView, StepView, PTL DEF Spec
<1> QED
  BY <1>1, <1>2, PTL
=============================================================================
