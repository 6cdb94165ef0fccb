--------------------------- MODULE ProtocolYokai ---------------------------
(***************************************************************************)
(* The protocol of TCP/protocolYokai.h: the enumerations and the four      *)
(* structures that the game server and its two clients exchange.           *)
(*                                                                         *)
(* Names, piece types and squares are left out: no rule of the server or   *)
(* of the client's control depends on them, the referee's verdict on a     *)
(* move is nondeterministic (module Referee).  The structures carry no tag *)
(* on the wire: "kind" says which structure the sender put there, so that  *)
(* a reader which is out of step with the stream can be told from one      *)
(* which is not.                                                           *)
(***************************************************************************)
EXTENDS Integers

CONSTANT NB_COUP_MAX    \* moves per player in one game (30 in the code)

(* With a single move per player the counters below would be degenerate.   *)
ASSUME NbCoupMaxAssumption == NB_COUP_MAX \in Nat /\ NB_COUP_MAX > 1

(* The bound that serveur.c writes as the literal 60.                      *)
MoveLimit == 2 * NB_COUP_MAX

(* Player 1 is the client whose connection the server accepts first.       *)
Players == {1, 2}

Other(p) == 3 - p

TIdReq == {"PARTIE", "COUP"}

TCodeRep == {"ERR_OK", "ERR_PARTIE", "ERR_COUP", "ERR_TYP"}

TSensTetePiece == {"NORD", "SUD"}

TValidSensTete == {"OK", "KO"}

TValCoup == {"VALID", "TIMEOUT", "TRICHE"}

TPropCoup == {"CONT", "GAGNE", "NUL", "PERDU"}

TPartieReq == [kind : {"PartieReq"}, idReq : TIdReq, piece : TSensTetePiece]

TPartieRep == [kind : {"PartieRep"}, err : TCodeRep,
               validSensTete : TValidSensTete]

TCoupReq == [kind : {"CoupReq"}, numPartie : 1..2, sens : TSensTetePiece]

TCoupRep == [kind : {"CoupRep"}, err : TCodeRep, validCoup : TValCoup,
             propCoup : TPropCoup]
=============================================================================
