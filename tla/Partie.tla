------------------------------- MODULE Partie -------------------------------
(***************************************************************************)
(* The two games of a match as they are played on the boards: the AIs, the *)
(* referee, and each move on its way from one to the others.  Who is told  *)
(* what and when is the subject of Match and MatchIA; here a move is       *)
(* chosen, judged and passed on, and nothing is lost.                      *)
(*                                                                         *)
(* A side that is not in Own is played by another team's program, which    *)
(* may make any move its pieces can make on the referee's board, those     *)
(* that the rules about the king or about the columns forbid included.     *)
(***************************************************************************)
EXTENDS PontProlog, Arbitre, FiniteSets

CONSTANT Terrain    \* columns to which another team's program moves: a bound

ASSUME TerrainAssumption == Terrain \subseteq 1..5

VARIABLES
  referee,    \* the state of the referee, see Referee
  position,   \* its board and reserves
  numero,     \* the game that is played
  trait,      \* the side whose move it is
  etape,      \* what happens next to the move
  coup,       \* the last move that was chosen
  exposed     \* a side has dropped a piece while its king was in check

vars == <<iaVars, referee, position, numero, trait, etape, coup, exposed>>

Coups == [typeCoup : {DEPLACER, DEPOSER}, type : Types \union {"aucun"},
          from : Squares \union {NullePart}, to : Squares \union {NullePart},
          estCapt : BOOLEAN]

(* The types of all variables.                                             *)
PartieTypeOK ==
  /\ PontTypeOK
  /\ referee \in RefereeStates
  /\ position \in Positions
  /\ numero \in 1..2
  /\ trait \in Sides
  /\ etape \in {"choisir", "juger", "informer", "finie"}
  /\ coup \in Coups
  /\ exposed \in BOOLEAN

(* Mutant: the same player opens both games.                               *)
Opener_Same(n) == north

(* north, the player who faces SUD, opens the first game.                  *)
Opener(n) == IF n = 1 THEN north ELSE south

Init ==
  /\ PontInit
  /\ referee = RefereeInit
  /\ position = InitialPosition
  /\ numero = 1
  /\ trait = Opener(1)
  /\ etape = "choisir"
  /\ coup = Unwritten
  /\ exposed = FALSE

(* jSicstus: the AI chooses, plays on its board and sends.                 *)
AIPlays ==
  /\ etape = "choisir"
  /\ trait \in Own
  /\ \E c \in generatedMoves(ia[trait], trait) :
       generateMove(trait, c) /\ coup' = c
  /\ etape' = "juger"
  /\ UNCHANGED <<referee, position, numero, trait, exposed>>

Drops(p, s) ==
  {Drop(t, c) : t \in {u \in ReserveTypes : p.capt[s][u] > 0},
                c \in {d \in Squares : p.board[d] = Vide}}

(* Another team's program moves a piece or drops one.                      *)
OtherPlays ==
  /\ etape = "choisir"
  /\ trait \notin Own
  /\ coup' \in get_moves(position, trait) \union Drops(position, trait)
  /\ coup'.to[1] \in Terrain
  /\ etape' = "juger"
  /\ UNCHANGED <<iaVars, referee, position, numero, trait, exposed>>

Verdict == validationCoup(referee, position, trait, coup)

(* The server calls validationCoup().                                      *)
Judge ==
  /\ etape = "juger"
  /\ referee' = AfterVerdict(referee, Verdict)
  /\ etape' = IF Verdict.prop = "CONT" THEN "informer" ELSE "finie"
  /\ position' = IF Verdict.valid THEN ApresCoup(position, trait, coup) ELSE position
  /\ exposed' = (exposed \/ (Verdict.valid /\ coup.typeCoup = DEPOSER
                               /\ verifierEchec(position.board, trait)))
  /\ UNCHANGED <<iaVars, numero, trait, coup>>

(* The move reaches the opponent, whose turn it is then.                   *)
Inform ==
  /\ etape = "informer"
  /\ IF opponent(trait) \in Own THEN forceEnnemyStrike(opponent(trait), coup)
     ELSE UNCHANGED iaVars
  /\ trait' = opponent(trait)
  /\ etape' = "choisir"
  /\ UNCHANGED <<referee, position, numero, coup, exposed>>

(* The end of the first game: the AIs and the referee set up their boards. *)
NextGame ==
  /\ etape = "finie"
  /\ numero = 1
  /\ numero' = 2
  /\ trait' = Opener(2)
  /\ etape' = "choisir"
  /\ referee' = initialiserPartie(referee)
  /\ position' = InitialPosition
  /\ init
  /\ coup' = Unwritten
  /\ exposed' = FALSE

(* Nothing happens on the boards after the second game.                    *)
Over ==
  /\ etape = "finie"
  /\ numero = 2
  /\ UNCHANGED vars

Next == AIPlays \/ OtherPlays \/ Judge \/ Inform \/ NextGame \/ Over

Spec == Init /\ [][Next]_vars
-----------------------------------------------------------------------------
(* The AI and the referee see the same game: the same board, the same      *)
(* pieces to drop.  A king that was captured can never be dropped, and     *)
(* only the AI keeps it.                                                   *)
Same(p, q) ==
  /\ p.board = q.board
  /\ \A s \in Sides, t \in ReserveTypes : p.capt[s][t] = q.capt[s][t]

(* As long as no move was ignored, the AI's position is the referee's      *)
(* whenever a move is to be chosen, and the mover's as soon as its move is *)
(* accepted: force_move, put and try_move do to the board and the reserves *)
(* what deplace() and place() do (Prolog.java, ia.pl, the referee).        *)
BoardsAgree ==
  \A s \in Own :
    ~ignored[s] /\ (etape = "choisir" \/ (etape = "informer" /\ s = trait))
      => Same(ia[s], position)

(* The referee refuses a move of an AI that sees the board as it is for    *)
(* one reason only, that it leaves the AI's king in check: get_moves       *)
(* (ia.pl:479) looks at nothing else but the displacement.  The move that  *)
(* was never written (Prolog.java:350) needs a king that is gone.          *)
RefusedOnlyForCheck ==
  etape = "juger" /\ trait \in Own /\ ~ignored[trait] /\ ~coupValide(position, trait, coup)
    => IF coup = Unwritten THEN exposed
       ELSE verifierEchec(deplace(position, trait, coup).board, trait)

(* Nobody loses a king without having dropped a piece while in check, the  *)
(* one move on which the referee does not look at the mover's king.        *)
KingsStand ==
  ~exposed => \A s \in Sides : Kings(position.board, s) # {}

(* Only in such a game does distance_to_koropokkuru (ia.pl:492) find no    *)
(* king and an AI send the move that was never written (Prolog.java:350),  *)
(* be it one that has ignored drops and no longer sees the referee's       *)
(* board: of the opponent's pieces it may miss some, never the king.       *)
MoveIsWritten ==
  etape = "juger" /\ trait \in Own /\ coup = Unwritten => exposed

OfType(b, t) == {c \in Squares : b[c] # Vide /\ CorrectedType(b[c].type) = t}

InGame(p, t) ==
  Cardinality(OfType(p.board, t)) + p.capt[north][t] + p.capt[south][t]

(* No piece is lost, doubled or changed for another, on the referee's      *)
(* board and on each AI's, whatever moves were ignored or refused          *)
(* ("capture and move, used alone, duplicate pieces", ia.pl:58).           *)
PiecesConserved ==
  \A p \in {position} \union {ia[s] : s \in Own} :
    InGame(p, "kodama") = 6 /\ InGame(p, "oni") = 4 /\ InGame(p, "kirin") = 4

(* The verdicts that the match is modelled with (module Referee) include   *)
(* each one that the rules of the game lead to, for the player whose move  *)
(* the server expects.                                                     *)
VerdictAllowed ==
  etape = "juger" =>
    Verdict \in Verdicts(referee, IF trait = Opener(numero) THEN 1 ELSE 2,
                         [sens |-> trait])

(* An AI that has followed the game so far ignores no displacement, and of *)
(* the drops only those that ia.pl:456 forbids and the referee does not:   *)
(* in a column where the dropper has another piece, on its last line.      *)
IgnoresOnlyDrops ==
  [][\A s \in Own :
       ~ignored[s] /\ ignored'[s] =>
         /\ coup.typeCoup = DEPOSER
         /\ \/ coup.to[2] \notin PutLines(trait)
            \/ \E c \in Squares \ {coup.to} :
                 c[1] = coup.to[1] /\ position.board[c].side = trait]_vars
=============================================================================
