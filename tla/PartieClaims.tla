---------------------------- MODULE PartieClaims ----------------------------
(***************************************************************************)
(* What a comment of IA/ia.pl says of one of its predicates, for an AI     *)
(* that is about to be told a move, on the board as it is.                 *)
(***************************************************************************)
EXTENDS Partie

(* ia.pl:466, in put: "Check if there's a kodama in the column".  Of the   *)
(* drops that the referee has accepted on its lines, put refuses those in  *)
(* a column with a kodama.  (It refuses any other piece as well.)          *)
PutLooksForKodama ==
  \A s \in Own :
    /\ etape = "informer" /\ trait = opponent(s) /\ ~ignored[s]
    /\ coup.typeCoup = DEPOSER /\ coup.to[2] \in PutLines(trait)
    => (put(ia[s], trait, coup) <=>
          \A c \in Squares :
            c[1] = coup.to[1] => ia[s].board[c] # piece(trait, "kodama"))
=============================================================================
