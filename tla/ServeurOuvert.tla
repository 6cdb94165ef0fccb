--------------------------- MODULE ServeurOuvert ---------------------------
(***************************************************************************)
(* The server among clients it knows nothing about: programs of another    *)
(* team that speak protocolYokai.h, that may ask for either side or with   *)
(* the wrong request, move out of turn or with the opponent's pieces, stop *)
(* reading, stop writing or leave.  What the server promises here it owes  *)
(* to nobody's good will.                                                  *)
(***************************************************************************)
EXTENDS Serveur

CONSTANT MaxAhead   \* bound: structures a client sends ahead of the server

ASSUME MaxAheadAssumption == MaxAhead \in Nat /\ MaxAhead > 0

VARIABLE asked      \* asked[p]: client p has sent its TPartieReq

openVars == <<serverVars, asked, netVars>>

OpenTypeOK ==
  /\ NetTypeOK
  /\ ServerTypeOK
  /\ asked \in [Players -> BOOLEAN]

OpenInit == NetInit /\ ServerInit /\ asked = [p \in Players |-> FALSE]

-----------------------------------------------------------------------------
Join(p) == Connect(p) /\ UNCHANGED <<toServer, toClient, serverUp, asked>>

MaySend(p) == link[p] = "up" /\ Len(toServer[p]) < MaxAhead

Ask(p) ==
  /\ MaySend(p)
  /\ ~asked[p]
  /\ \E idReq \in TIdReq, piece \in TSensTetePiece :
       SendToServer(p, [kind |-> "PartieReq", idReq |-> idReq, piece |-> piece])
  /\ asked' = [asked EXCEPT ![p] = TRUE]
  /\ UNCHANGED <<toClient, link, serverUp>>

(* The server never looks at numPartie: one value stands for all.          *)
Move(p) ==
  /\ MaySend(p)
  /\ asked[p]
  /\ \E sens \in TSensTetePiece :
       SendToServer(p, [kind |-> "CoupReq", numPartie |-> 1, sens |-> sens])
  /\ UNCHANGED <<toClient, link, serverUp, asked>>

(* What the server has sent reaches the client's machine, read or not; the *)
(* server cannot tell, so nothing is lost by taking it off at once.        *)
Deliver(p) ==
  /\ toClient[p] # <<>>
  /\ toClient' = [toClient EXCEPT ![p] = <<>>]
  /\ UNCHANGED <<toServer, link, serverUp, asked, serverVars>>

LeaveMatch(p) ==
  /\ link[p] = "up"
  /\ link' = [link EXCEPT ![p] = "down"]
  /\ UNCHANGED <<toServer, toClient, serverUp, asked>>

OpenClient(p) ==
  /\ serverUp
  /\ Join(p) \/ Ask(p) \/ Move(p) \/ LeaveMatch(p)
  /\ UNCHANGED serverVars

Delivered == \A p \in Players : toClient[p] = <<>>

OpenServer == Delivered /\ ServerNext /\ UNCHANGED asked

OpenNext ==
  \/ OpenServer
  \/ \E p \in Players : Deliver(p) \/ (Delivered /\ OpenClient(p))

(* Only the server is fair, its recv returns or times out and its sends do *)
(* not block (a whole match fits in the socket's buffer), and the network. *)
OpenSpec ==
  /\ OpenInit /\ [][OpenNext]_openVars
  /\ WF_openVars(OpenServer)
  /\ \A p \in Players : WF_openVars(Deliver(p))

-----------------------------------------------------------------------------
(* Once the first move is awaited the match ends whatever the clients do.  *)
MatchTerminates == (spc = "recvMove") ~> (spc = "exit")
=============================================================================
