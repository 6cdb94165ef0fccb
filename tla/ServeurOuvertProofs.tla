------------------------ MODULE ServeurOuvertProofs ------------------------
(***************************************************************************)
(* What the server guarantees among arbitrary clients, for every value of  *)
(* NB_COUP_MAX and MaxAhead: the server's invariant and its refinement of  *)
(* TwoGames, from module ServeurProofs, hold of OpenSpec.                  *)
(***************************************************************************)
EXTENDS ServeurOuvert, ServeurProofs

(* "asked" is what the server's own state and streams say of the clients.  *)
AskedInv == spc # "exit" => \A p \in Players : asked[p] <=> Started(p)

OpenInv == ServerInv /\ asked \in [Players -> BOOLEAN] /\ AskedInv

-----------------------------------------------------------------------------
(* The invariant holds before anybody has connected.                       *)
LEMMA OpenInitInv == OpenInit => OpenInv
<1> SUFFICES ASSUME OpenInit PROVE OpenInv
  OBVIOUS
<1>1. ServerInv
  BY ServerInitInv DEF OpenInit
<1>2. asked \in [Players -> BOOLEAN] /\ AskedInv
  BY DEF OpenInit, NetInit, ServerInit, AskedInv, Started, Awaited
<1> QED
  BY <1>1, <1>2 DEF OpenInv

(* A client that connects, leaves, or is delivered what it was sent.       *)
LEMMA OpenQuietInv ==
  ASSUME OpenInv, NEW p \in Players,
         Deliver(p) \/ ((Join(p) \/ LeaveMatch(p)) /\ UNCHANGED serverVars)
  PROVE  OpenInv'
<1>1. UNCHANGED <<serverVars, serverUp, toServer, asked>>
  BY DEF Deliver, Join, LeaveMatch
<1>2. NetTypeOK
  BY DEF OpenInv, ServerInv, TypesOK
<1>3. /\ link' \in [Players -> {"absent", "up", "down"}]
      /\ toClient' \in [Players -> Seq(TPartieRep \union TCoupRep \union TCoupReq)]
  <2>1. CASE Deliver(p)
    <3>1. <<>> \in Seq(TPartieRep \union TCoupRep \union TCoupReq)
      OBVIOUS
    <3> QED
      BY <1>2, <2>1, <3>1 DEF Deliver, NetTypeOK
  <2>2. CASE Join(p) \/ LeaveMatch(p)
    BY <1>2, <2>2 DEF Join, LeaveMatch, Connect, NetTypeOK
  <2> QED
    BY <2>1, <2>2
<1>4. NetTypeOK'
  BY <1>1, <1>2, <1>3 DEF NetTypeOK
<1>5. ServerInv' /\ \A q : Started(q)' <=> Started(q)
  BY <1>1, <1>4, QuietClientInv DEF OpenInv
<1>6. AskedInv'
  BY <1>1, <1>5 DEF OpenInv, AskedInv, serverVars
<1> QED
  BY <1>1, <1>5, <1>6 DEF OpenInv

(* A client that asks for a match, or plays.                               *)
LEMMA OpenSendInv ==
  ASSUME OpenInv, NEW p \in Players, serverUp, Ask(p) \/ Move(p),
         UNCHANGED serverVars
  PROVE  OpenInv'
<1>1. spc # "exit" /\ (asked[p] <=> Started(p))
  BY DEF OpenInv, ServerInv, ResultInv, AskedInv
<1>2. PICK m \in (IF Started(p) THEN TCoupReq ELSE TPartieReq) : SendToServer(p, m)
  <2>1. CASE Ask(p)
    BY <1>1, <2>1 DEF Ask, TPartieReq
  <2>2. CASE Move(p)
    BY <1>1, <2>2 DEF Move, TCoupReq
  <2> QED
    BY <2>1, <2>2
<1>3. /\ UNCHANGED <<toClient, link, serverUp>>
      /\ asked' = [asked EXCEPT ![p] = TRUE]
  BY DEF OpenInv, Ask, Move
<1>4. ServerInv' /\ \A q \in Players : Started(q)' <=> (q = p \/ Started(q))
  BY <1>2, <1>3, ClientSendInv DEF OpenInv
<1>5. AskedInv'
  BY <1>3, <1>4 DEF OpenInv, AskedInv, serverVars
<1> QED
  BY <1>3, <1>4, <1>5 DEF OpenInv

(* A step of the server.                                                   *)
LEMMA OpenServerInv ==
  ASSUME OpenInv, OpenServer
  PROVE  OpenInv'
<1>1. ServerInv'
  BY ServerStepInv DEF OpenInv, OpenServer
<1>2. AskedInv'
  <2> SUFFICES ASSUME spc' # "exit", NEW p \in Players
               PROVE  asked'[p] <=> Started(p)'
    BY DEF AskedInv
  <2>1. Started(p)' <=> Started(p)
    BY ServerKeepsStarted DEF OpenInv, OpenServer
  <2>2. spc # "exit"
    BY DEF OpenServer, ServerNext, Accept, RecvPartie, SendFirstAnswer,
           SendSecondAnswer, RefuseMatch, RecvMove, SendToMover, SendToOther,
           SendMove, NextGame, LastGame, RecvError, SendError, KilledBySigpipe,
           Sending, Receiving
  <2> QED
    BY <2>1, <2>2 DEF OpenInv, AskedInv, OpenServer
<1> QED
  BY <1>1, <1>2 DEF OpenInv, OpenServer

(* A step in which nothing happens.                                        *)
LEMMA OpenStutterInv ==
  ASSUME OpenInv, UNCHANGED openVars
  PROVE  OpenInv'
<1>1. UNCHANGED <<serverVars, serverUp, toServer, asked>> /\ NetTypeOK'
  BY DEF openVars, netVars, OpenInv, ServerInv, TypesOK, NetTypeOK
<1>2. ServerInv' /\ \A q : Started(q)' <=> Started(q)
  BY <1>1, QuietClientInv DEF OpenInv
<1> QED
  BY <1>1, <1>2 DEF OpenInv, AskedInv, serverVars

(* Every step keeps the invariant.                                         *)
LEMMA OpenStepInv ==
  ASSUME OpenInv, [OpenNext]_openVars
  PROVE  OpenInv'
<1>1. CASE OpenServer
  BY <1>1, OpenServerInv
<1>2. ASSUME NEW p \in Players, Deliver(p) PROVE OpenInv'
  BY <1>2, OpenQuietInv
<1>3. ASSUME NEW p \in Players, OpenClient(p) PROVE OpenInv'
  BY <1>3, OpenQuietInv, OpenSendInv DEF OpenClient
<1>4. CASE UNCHANGED openVars
  BY <1>4, OpenStutterInv
<1> QED
  BY <1>1, <1>2, <1>3, <1>4 DEF OpenNext

-----------------------------------------------------------------------------
(* The invariant holds in every reachable state.                           *)
THEOREM OpenInvariance == OpenSpec => []OpenInv
<1>1. OpenInit => OpenInv
  BY OpenInitInv
<1>2. OpenInv /\ [OpenNext]_openVars => OpenInv'
  BY OpenStepInv
<1> QED
  BY <1>1, <1>2, PTL DEF OpenSpec

(* Types: in particular the points of a player never pass two, whatever    *)
(* the clients send.                                                       *)
THEOREM OpenTypeCorrect == OpenSpec => []OpenTypeOK
<1>1. OpenInv => OpenTypeOK
  BY DEF OpenInv, ServerInv, TypesOK, OpenTypeOK
<1> QED
  BY <1>1, OpenInvariance, PTL

(* Whoever checkRecvrError or checkSendError blames loses the match.       *)
THEOREM OpenBlamedLoses == OpenSpec => []BlamedLoses
<1>1. OpenInv => BlamedLoses
  BY DEF OpenInv, ServerInv
<1> QED
  BY <1>1, OpenInvariance, PTL

(* The draw rule that main applies after the answer has been prepared      *)
(* never changes the verdict.                                              *)
THEOREM OpenAnswerCarriesVerdict == OpenSpec => []AnswerCarriesVerdict
<1>1. OpenInv => AnswerCarriesVerdict
  BY InvVerdict DEF OpenInv
<1> QED
  BY <1>1, OpenInvariance, PTL

(* Server and referee agree on which player holds which side.              *)
THEOREM OpenSameSides == OpenSpec => []SameSides
<1>1. OpenInv => SameSides
  BY InvSides DEF OpenInv
<1> QED
  BY <1>1, OpenInvariance, PTL

(* Nothing the clients do makes the server break the promise of TwoGames:  *)
(* the result is announced after two games, or in favour of the opponent   *)
(* of the player who is blamed.                                            *)
THEOREM OpenImplementsTwoGames == OpenSpec => ImplementsTwoGames
<1>1. OpenInit => Abstract!TGInit
  BY RefineInit DEF OpenInit
<1>2. OpenInv /\ [OpenNext]_openVars => [Abstract!TGNext]_(Abstract!tgVars)
  <2> SUFFICES ASSUME OpenInv, [OpenNext]_openVars
               PROVE  Abstract!TGNext
    OBVIOUS
  <2>1. CASE OpenServer
    BY <2>1, RefineServerStep DEF OpenServer, OpenInv
  <2>2. CASE UNCHANGED serverVars
    BY <2>2, RefineClientStep
  <2> QED
    BY <2>1, <2>2 DEF OpenNext, Deliver, OpenClient, openVars
<1> QED
  BY <1>1, <1>2, OpenInvariance, PTL DEF OpenSpec, ImplementsTwoGames, Abstract!TGSpec


(* Whatever the clients send, and whenever they leave, the server makes at *)
(* most 2 * GameCalls + 5 calls, and each brings its end nearer.           *)
THEOREM OpenCallsRunOut == OpenSpec => CallsRunOut
<1>1. OpenInv /\ [OpenNext]_openVars => [CallsLeft' \in 0..(CallsLeft - 1)]_serverVars
  <2> SUFFICES ASSUME OpenInv, [OpenNext]_openVars, serverVars' # serverVars
               PROVE  CallsLeft' \in 0..(CallsLeft - 1)
    OBVIOUS
  <2>1. ServerNext
    BY DEF OpenNext, OpenServer, Deliver, OpenClient, openVars
  <2> QED
    BY <2>1, ServerStepRuns DEF OpenInv
<1> QED
  BY <1>1, OpenInvariance, PTL DEF OpenSpec, CallsRunOut
=============================================================================
