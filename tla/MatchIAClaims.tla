--------------------------- MODULE MatchIAClaims ---------------------------
(***************************************************************************)
(* What comments of the client's and the AI's source say of the connection *)
(* between the two, and the code does not do: each of these properties is  *)
(* refuted by a behaviour of MatchIA.                                      *)
(***************************************************************************)
EXTENDS MatchIA

(* client.c: "Send opponent's move to the AI": what the AI skips between   *)
(* the games is the rest of the last structure of the first game, never a  *)
(* move that was sent to it.                                               *)
SkipSparesMoves ==
  [][\A p \in Players : ai[p].loc = "skip" /\ ai[p] # ai'[p] =>
       Len(toAI[p]) - Len(toAI'[p]) < Size]_allVars

(* Coup.java: "Function to read a move from the network": a move is read   *)
(* as it was written, whole.                                               *)
ReadsWholeMoves ==
  [][\A p \in Players : ai[p].loc = "read" /\ ai'[p].loc = "think" =>
       Len(toAI[p]) - Len(toAI'[p]) = Size]_allVars

(* libClient.c: "Read a move from the AI": what a client sends to the      *)
(* server is a move that its AI has chosen.                                *)
MovesComeFromTheAI ==
  [][\A p \in Own : client[p].loc = "askAI" /\ client'[p].loc = "coupRep" =>
       fromAI[p] # <<>>]_allVars
=============================================================================
