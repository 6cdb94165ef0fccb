--------------------------- MODULE MatchIAProofs ---------------------------
(***************************************************************************)
(* Whatever the AIs do, die or never answer, a match with them is a match: *)
(* each step of MatchIA is a step of Match or leaves its variables alone,  *)
(* so that what MatchProofs shows of the server and the clients holds of   *)
(* the whole system.                                                       *)
(***************************************************************************)
EXTENDS MatchIA, MatchProofs

(* A client's step, AI included, is a step of that client.                 *)
LEMMA ClientStepMaps ==
  ASSUME NEW p \in Players, ClientIANext(p)
  PROVE  ClientNext(p)
<1>1. CASE Crash(p)
  BY <1>1 DEF ClientIANext, ClientNext
<1>2. CASE ClientIAStep(p)
  <2>1. ClientStep(p)
    BY <1>2 DEF ClientIAStep, ReceiveAndTell, AskAI, LoseServerIA, ClientStep
  <2> QED
    BY <2>1 DEF ClientIANext, ClientNext
<1> QED
  BY <1>1, <1>2 DEF ClientIANext

(* Every step of the match with AIs is one of the match, or a stutter.     *)
LEMMA StepMaps ==
  ASSUME [IAMatchNext]_allVars
  PROVE  [Next]_vars
<1>1. CASE IAServerStep
  BY <1>1 DEF IAServerStep, Next
<1>2. ASSUME NEW p \in Players, ClientIANext(p) PROVE [Next]_vars
  BY <1>2, ClientStepMaps DEF Next
<1>3. ASSUME NEW p \in Players, AINext(p) \/ AIDies(p) PROVE [Next]_vars
  BY <1>3 DEF AINext, AIDies
<1>4. CASE AllTerminated
  BY <1>4 DEF AllTerminated, Next
<1>5. CASE UNCHANGED allVars
  BY <1>5 DEF allVars
<1> QED
  BY <1>1, <1>2, <1>3, <1>4, <1>5 DEF IAMatchNext

(* The system with the AIs implements the match of module Match.           *)
THEOREM AIsKeepTheMatch == IAMatchSpec => Spec
<1>1. IAMatchInit => Init
  BY DEF IAMatchInit
<1> QED
  BY <1>1, StepMaps, PTL DEF IAMatchSpec, Spec

(* Whatever the AIs do, no structure is misread by a client, the clients   *)
(* count the points the server gave them, and nobody who has played both   *)
(* games is blamed.                                                        *)
THEOREM AIsHarmNoMatch ==
  IAMatchSpec => [](NeverGarbled /\ SameScore /\ FinishedNotBlamed)
BY AIsKeepTheMatch, ClientsNeverGarbled, ScoresAgree, FinishedNeverBlamed, PTL

(* The server waits only for a player whose client waits for its own AI,   *)
(* or will: an AI that starves keeps nobody but itself and its client.     *)
THEOREM OnlyTheMoverIsAwaited ==
  IAMatchSpec => [](MoveAdmissible /\ WaitsForTheMover)
BY AIsKeepTheMatch, MovesAdmissible, ServerWaitsForTheMover, PTL

(* With the AIs too, a match is one of TwoGames: its result is announced   *)
(* after two games, or for the opponent of whoever is blamed, whatever an  *)
(* AI says or however late it is, and no point is ever taken back.         *)
THEOREM MatchWithAIsImplementsTwoGames == IAMatchSpec => ImplementsTwoGames
BY AIsKeepTheMatch, MatchImplementsTwoGames, PTL
=============================================================================
