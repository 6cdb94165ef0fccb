---------------------------- MODULE MatchProofs ----------------------------
(***************************************************************************)
(* The server and two of its own clients agree on the match, for every     *)
(* value of NB_COUP_MAX.                                                   *)
(*                                                                         *)
(* A client may be several structures behind the server.  The invariant    *)
(* relates the server's program point not to where a client is but to      *)
(* where it will be once it has read what it was sent, UpToDate(p): that   *)
(* does not change when the client reads, and changes as the server        *)
(* intends when the server sends.                                          *)
(***************************************************************************)
EXTENDS Match, ServeurProofs

ToClients == TPartieRep \union TCoupRep \union TCoupReq

(* The states of a client: it leaves after the second game.                *)
Active == {c \in Clients : c.nbPartie = 3 => c.loc \in {"done", "garbled"}}

ClientsActive == client \in [Players -> Active]

(* How many structures a client that will be in state c may have to read   *)
(* before it gets there: it never sends before it has read everything.     *)
Lag(c) ==
  CASE c.loc = "enemyRep" -> c.nbPartie
    [] c.loc = "enemyMove" -> c.nbPartie + 1
    [] c.loc = "askAI" -> c.nbPartie + 2
    [] c.loc = "done" -> 3
    [] OTHER -> 0

InStep(p) ==
  /\ UpToDate(p).loc # "garbled"
  /\ Len(toClient[p]) <= Lag(UpToDate(p))

(* Where client p is, or will be, with respect to game g.                  *)
At(p, loc, g) ==
  /\ UpToDate(p).loc = loc
  /\ UpToDate(p).nbPartie = g
  /\ toServer[p] = <<>>

(* It has the turn: its move is still to come, or there to be read.        *)
HasTurn(p, g) ==
  /\ UpToDate(p).nbPartie = g
  /\ \/ UpToDate(p).loc = "askAI" /\ toServer[p] = <<>>
     \/ /\ UpToDate(p).loc = "coupRep"
        /\ toServer[p] = <<convertAItoServer(UpToDate(p))>>

Finished(p, g) ==
  IF g = 2 THEN At(p, "done", 3)
  ELSE IF UpToDate(p).sens = "NORD" THEN HasTurn(p, 2) ELSE At(p, "enemyRep", 2)

(* It has asked, or will ask, for a match.                                 *)
Asking(p) ==
  /\ UpToDate(p).nbPartie = 1
  /\ IF Awaited(p)
     THEN \/ UpToDate(p).loc \in {"connect", "sendPartie"} /\ toServer[p] = <<>>
          \/ UpToDate(p).loc = "partieRep" /\ toServer[p] = <<PartieRequest>>
     ELSE /\ At(p, "partieRep", 1)
          /\ requests[p] = PartieRequest

(* Where client p is, by the program point of the server.                  *)
Position(p) ==
  LET g == game.gameNumber
  IN /\ spc \in {"accept", "recvPartie"} => Asking(p)
     /\ spc = "sendAnswers" =>
          /\ requests[p] = PartieRequest
          /\ IF p = 1 /\ serving = 2 THEN HasTurn(p, 1) ELSE At(p, "partieRep", 1)
     /\ spc = "recvMove" =>
          IF p = serving THEN HasTurn(p, g) ELSE At(p, "enemyRep", g)
     /\ spc = "sendToMover" =>
          At(p, IF p = serving THEN "coupRep" ELSE "enemyRep", g)
     /\ spc = "sendToOther" =>
          IF p = serving /\ moveRep.propCoup # "CONT" THEN Finished(p, g)
          ELSE At(p, "enemyRep", g)
     /\ spc = "sendMove" =>
          At(p, IF p = serving THEN "enemyRep" ELSE "enemyMove", g)
     /\ spc = "endOfGame" => Finished(p, g)

Answered(p) == spc \notin Setup \/ (spc = "sendAnswers" /\ p < serving)

Side(p) ==
  /\ spc # "exit" /\ Answered(p) =>
       UpToDate(p).sens = (IF p = 1 THEN "SUD" ELSE "NORD")
  /\ spc \notin Setup \union {"exit"} => player1Sud

(* A client counts the points the server does, as far as it has come.      *)
Points(p) ==
  /\ \A n \in 1..2 : UpToDate(p).win[n] => n < UpToDate(p).nbPartie
  /\ spc # "exit" =>
       Wins(UpToDate(p)) =
         IF spc = "endOfGame" \/ (spc = "sendToOther" /\ p = serving)
         THEN NewScore[p] ELSE game.score[p]
  /\ spc = "sendToOther" /\ p = serving /\ UpToDate(p).win[game.gameNumber] =>
       moveRep.propCoup = "GAGNE"

OneWins == \A n \in 1..2 : \E p \in Players : ~UpToDate(p).win[n]

(* What remains true of the clients once the server has left.              *)
EndInv ==
  spc = "exit" =>
    /\ \E p \in Players : UpToDate(p).loc # "askAI"
    /\ \A p \in Players : UpToDate(p).loc = "done" =>
         /\ result.forfeit # p
         /\ result.announced /\ result.forfeit = 0 =>
              Wins(UpToDate(p)) = game.score[p]

MatchInv ==
  /\ ServerInv
  /\ ClientsActive
  /\ \A p \in Players : InStep(p) /\ Position(p) /\ Side(p) /\ Points(p)
  /\ OneWins
  /\ EndInv

-----------------------------------------------------------------------------
(* The end of a game, for a client.                                        *)
LEMMA GameOverFacts ==
  ASSUME NEW c \in Clients, c.nbPartie \in 1..2, NEW won \in BOOLEAN
  PROVE  /\ GameOver(c, won) \in Active
         /\ GameOver(c, won).loc \notin {"garbled", "connect", "sendPartie"}
         /\ GameOver(c, won).loc = (IF c.nbPartie = 2 THEN "done"
                                    ELSE IF c.sens = "NORD" THEN "askAI" ELSE "enemyRep")
         /\ GameOver(c, won).nbPartie = c.nbPartie + 1
         /\ GameOver(c, won).sens = c.sens
         /\ \A n \in 1..2 :
              GameOver(c, won).win[n] <=> (c.win[n] \/ (n = c.nbPartie /\ won))
<1> DEFINE w == [n \in 1..2 |-> c.win[n] \/ (n = c.nbPartie /\ won)]
           l == IF c.nbPartie = 2 THEN "done"
                ELSE IF c.sens = "NORD" THEN "askAI" ELSE "enemyRep"
<1>1. GameOver(c, won) = [c EXCEPT !.win = w, !.nbPartie = @ + 1, !.loc = l]
  BY DEF GameOver
<1>2. w \in [1..2 -> BOOLEAN]
  BY DEF Clients
<1>3. l \in {"done", "askAI", "enemyRep"} /\ (l = "done" <=> c.nbPartie = 2)
  OBVIOUS
<1>4. c.nbPartie + 1 \in 1..3 /\ (c.nbPartie + 1 = 3 => c.nbPartie = 2)
  OBVIOUS
<1>5. \A n \in 1..2 : w[n] <=> (c.win[n] \/ (n = c.nbPartie /\ won))
  BY Zenon
<1>6. l = (IF c.nbPartie = 2 THEN "done"
           ELSE IF c.sens = "NORD" THEN "askAI" ELSE "enemyRep")
  OBVIOUS
<1> HIDE DEF w, l
<1>7. /\ GameOver(c, won).loc = l /\ GameOver(c, won).nbPartie = c.nbPartie + 1
      /\ GameOver(c, won).sens = c.sens /\ GameOver(c, won).win = w
      /\ GameOver(c, won) \in Clients
  BY <1>1, <1>2, <1>3, <1>4 DEF Clients, Reading
<1>8. GameOver(c, won) \in Active
  BY <1>7, <1>3, <1>4 DEF Active
<1> QED
  BY <1>3, <1>5, <1>6, <1>7, <1>8

(* Client state d may come after c when the client has read something: it  *)
(* was waiting for it, and its wins are never taken back.                  *)
Follows(c, d) ==
  /\ d \in Active
  /\ d.loc # "garbled" => c.loc \in Reading
  /\ \A n \in 1..2 : c.win[n] => d.win[n]

(* What reading one structure does to a client.                            *)
LEMMA HandleFacts ==
  ASSUME NEW c \in Active, NEW m \in ToClients
  PROVE  Follows(c, Handle(c, m))
<1> USE DEF Follows
<1>1. c \in Clients /\ (c.nbPartie = 3 => c.loc \in {"done", "garbled"})
  BY DEF Active
<1>2. CASE c.loc = "partieRep" /\ m.kind = "PartieRep"
  <2>1. Handle(c, m) = Orientation(c, m)
    BY <1>2 DEF Handle
  <2> QED
    BY <2>1, <1>1, <1>2 DEF Orientation, Active, Clients, Reading, TSensTetePiece
<1>3. CASE \/ c.loc = "coupRep" /\ m.kind = "CoupRep"
           \/ c.loc = "enemyRep" /\ m.kind = "CoupRep"
  <2>1. c.nbPartie \in 1..2 /\ c.loc \in Reading
    BY <1>1, <1>3 DEF Clients, Reading
  <2>2. CASE m.propCoup = "CONT"
    <3>1. Handle(c, m) \in {[c EXCEPT !.loc = "enemyRep"], [c EXCEPT !.loc = "enemyMove"]}
      BY <1>3, <2>2 DEF Handle, OwnMoveJudged, EnemyMoveJudged
    <3> QED
      BY <3>1, <2>1, <1>1 DEF Active, Clients, Reading
  <2>3. CASE m.propCoup # "CONT"
    <3>1. PICK won \in BOOLEAN : Handle(c, m) = GameOver(c, won)
      BY <1>3, <2>3 DEF Handle, OwnMoveJudged, EnemyMoveJudged
    <3> QED
      BY <3>1, <2>1, <1>1, GameOverFacts
  <2> QED
    BY <2>2, <2>3
<1>4. CASE c.loc = "enemyMove" /\ m.kind = "CoupReq"
  <2>1. Handle(c, m) = [c EXCEPT !.loc = "askAI"]
    BY <1>4 DEF Handle
  <2> QED
    BY <2>1, <1>1, <1>4 DEF Active, Clients, Reading
<1>5. CASE /\ ~(c.loc = "partieRep" /\ m.kind = "PartieRep")
           /\ ~(c.loc = "coupRep" /\ m.kind = "CoupRep")
           /\ ~(c.loc = "enemyRep" /\ m.kind = "CoupRep")
           /\ ~(c.loc = "enemyMove" /\ m.kind = "CoupReq")
  <2>1. Handle(c, m) = [c EXCEPT !.loc = "garbled"]
    BY <1>5 DEF Handle
  <2> QED
    BY <2>1, <1>1 DEF Active, Clients
<1> QED
  BY <1>2, <1>3, <1>4, <1>5

(* A client that has nothing to read is where it will be.                  *)
LEMMA DrainedNothing == \A c : Drained(c, <<>>) = c
BY DEF Drained

(* Lengths, one by one.                                                    *)
LEMMA LenCases ==
  ASSUME NEW q \in Seq(ToClients)
  PROVE  /\ Len(q) \in Nat
         /\ Len(q) > 4 \/ Len(q) \in {0, 1, 2, 3, 4}
         /\ Len(q) \in {1, 2, 3, 4} => Len(q) <= 4
         /\ Len(q) <= 3 => Len(q) \in {0, 1, 2, 3}
         /\ Len(q) <= 4 /\ q # <<>> => Len(q) \in {1, 2, 3, 4}
<1>1. PICK n \in Nat : n = Len(q)
  OBVIOUS
<1>2. q # <<>> => n # 0
  BY <1>1, EmptySeq
<1>3. /\ n > 4 \/ n \in {0, 1, 2, 3, 4}
      /\ n \in {1, 2, 3, 4} => n <= 4
      /\ n <= 3 => n \in {0, 1, 2, 3}
      /\ n <= 4 /\ n # 0 => n \in {1, 2, 3, 4}
  OBVIOUS
<1> QED
  BY <1>1, <1>2, <1>3, Zenon

(* What a client that reads everything goes through.                       *)
LEMMA DrainedFacts ==
  ASSUME NEW c \in Active, NEW q \in Seq(ToClients)
  PROVE  /\ Drained(c, q) \in Active
         /\ Drained(c, q).loc # "garbled" =>
              /\ Len(q) <= 4
              /\ (q = <<>> /\ Drained(c, q) = c) \/ Follows(c, Drained(c, q))
<1>1. Len(q) \in Nat /\ \A i \in 1..Len(q) : q[i] \in ToClients
  OBVIOUS
<1>2. CASE Len(q) = 0
  BY <1>2, EmptySeq DEF Drained
<1> DEFINE c1 == Handle(c, q[1])
           c2 == Handle(c1, q[2])
           c3 == Handle(c2, q[3])
           c4 == Handle(c3, q[4])
<1>3. Len(q) >= 1 => Follows(c, c1)
  BY <1>1, HandleFacts
<1> HIDE DEF c1
<1>4. Len(q) >= 2 => Follows(c1, c2)
  <2>1. Len(q) >= 2 => c1 \in Active /\ q[2] \in ToClients
    BY <1>1, <1>3 DEF Follows
  <2> QED
    BY <2>1, HandleFacts
<1> HIDE DEF c2
<1>5. Len(q) >= 3 => Follows(c2, c3)
  <2>1. Len(q) >= 3 => c2 \in Active /\ q[3] \in ToClients
    BY <1>1, <1>4 DEF Follows
  <2> QED
    BY <2>1, HandleFacts
<1> HIDE DEF c3
<1>6. Len(q) >= 4 => Follows(c3, c4)
  <2>1. Len(q) >= 4 => c3 \in Active /\ q[4] \in ToClients
    BY <1>1, <1>5 DEF Follows
  <2> QED
    BY <2>1, HandleFacts
<1> HIDE DEF c4
<1>7. CASE Len(q) \in {1, 2, 3, 4}
  <2>1. /\ Len(q) = 1 => Drained(c, q) = c1
        /\ Len(q) = 2 => Drained(c, q) = c2
        /\ Len(q) = 3 => Drained(c, q) = c3
        /\ Len(q) = 4 => Drained(c, q) = c4
    BY <1>7 DEF Drained, c1, c2, c3, c4
  <2>3. \A d, e, f : Follows(d, e) /\ Follows(e, f) /\ e.loc \in Reading => Follows(d, f)
    BY DEF Follows, Reading
  <2>2. \A d, e : Follows(d, e) /\ e.loc # "garbled" =>
                    d.loc \in Reading /\ d.loc # "garbled"
    BY DEF Follows, Reading
  <2>a. \A d, e : Follows(d, e) => e \in Active
    BY DEF Follows
  <2>4. PICK d : d = Drained(c, q)
    OBVIOUS
  <2>5. d \in Active /\ (d.loc # "garbled" => Follows(c, d))
    <3>1. CASE Len(q) = 1
      BY <2>1, <2>4, <2>a, <3>1, <1>3
    <3>2. CASE Len(q) = 2
      BY <2>1, <2>2, <2>3, <2>4, <2>a, <3>2, <1>3, <1>4
    <3>3. CASE Len(q) = 3
      <4>1. d = c3 /\ d \in Active /\ Follows(c2, d)
        BY <2>1, <2>4, <2>a, <3>3, <1>5
      <4>2. d.loc # "garbled" => Follows(c1, d)
        BY <2>2, <4>1, <2>3, <3>3, <1>4
      <4> QED
        BY <2>2, <4>1, <4>2, <2>3, <3>3, <1>3
    <3>4. CASE Len(q) = 4
      <4>1. d = c4 /\ d \in Active /\ Follows(c3, d)
        BY <2>1, <2>4, <2>a, <3>4, <1>6
      <4>2. d.loc # "garbled" => Follows(c2, d)
        BY <2>2, <4>1, <2>3, <3>4, <1>5
      <4>3. d.loc # "garbled" => Follows(c1, d)
        BY <2>2, <4>1, <4>2, <2>3, <3>4, <1>4
      <4> QED
        BY <2>2, <4>1, <4>3, <2>3, <3>4, <1>3
    <3> QED
      BY <1>7, <3>1, <3>2, <3>3, <3>4
  <2> QED
    BY <2>4, <2>5, <1>7, <2>2, LenCases
<1>8. CASE Len(q) > 4
  <2>1. Drained(c, q) = [c EXCEPT !.loc = "garbled"]
    BY <1>1, <1>8 DEF Drained
  <2> QED
    BY <2>1 DEF Active, Clients
<1> QED
  BY <1>2, <1>7, <1>8, LenCases

(* Reading one structure leads to where the client was going anyway.       *)
LEMMA DrainedTail ==
  ASSUME NEW c, NEW q \in Seq(ToClients), q # <<>>, Len(q) <= 4
  PROVE  Drained(Handle(c, Head(q)), Tail(q)) = Drained(c, q)
<1>1. PICK h, r : h = Head(q) /\ r = Tail(q)
  OBVIOUS
<1>2. /\ Len(q) \in {1, 2, 3, 4}
      /\ h = q[1]
      /\ Len(r) = Len(q) - 1
      /\ \A i \in 1..Len(r) : r[i] = q[i + 1]
  BY <1>1, LenCases, HeadTailProperties
<1>3. CASE Len(q) = 1
  <2>1. Len(r) = 0
    BY <1>2, <1>3
  <2>2. Drained(Handle(c, h), r) = Handle(c, h)
    BY <2>1 DEF Drained
  <2>3. Drained(c, q) = Handle(c, q[1])
    BY <1>3 DEF Drained
  <2> QED
    BY <1>1, <1>2, <2>2, <2>3
<1>4. CASE Len(q) = 2
  <2>1. Len(r) = 1 /\ r[1] = q[2]
    BY <1>2, <1>4
  <2>2. Drained(Handle(c, h), r) = Handle(Handle(c, h), r[1])
    BY <2>1 DEF Drained
  <2>3. Drained(c, q) = Handle(Handle(c, q[1]), q[2])
    BY <1>4 DEF Drained
  <2> QED
    BY <1>1, <1>2, <2>1, <2>2, <2>3
<1>5. CASE Len(q) = 3
  <2>1. Len(r) = 2 /\ r[1] = q[2] /\ r[2] = q[3]
    BY <1>2, <1>5
  <2>2. Drained(Handle(c, h), r) = Handle(Handle(Handle(c, h), r[1]), r[2])
    BY <2>1 DEF Drained
  <2>3. Drained(c, q) = Handle(Handle(Handle(c, q[1]), q[2]), q[3])
    BY <1>5 DEF Drained
  <2> QED
    BY <1>1, <1>2, <2>1, <2>2, <2>3
<1>6. CASE Len(q) = 4
  <2>1. Len(r) = 3 /\ r[1] = q[2] /\ r[2] = q[3] /\ r[3] = q[4]
    BY <1>2, <1>6
  <2>2. Drained(Handle(c, h), r) = Handle(Handle(Handle(Handle(c, h), r[1]), r[2]), r[3])
    BY <2>1 DEF Drained
  <2>3. Drained(c, q) = Handle(Handle(Handle(Handle(c, q[1]), q[2]), q[3]), q[4])
    BY <1>6 DEF Drained
  <2> QED
    BY <1>1, <1>2, <2>1, <2>2, <2>3
<1> QED
  BY <1>2, <1>3, <1>4, <1>5, <1>6

(* A structure sent to a client will be read last.                         *)
LEMMA DrainedAppend ==
  ASSUME NEW c, NEW q \in Seq(ToClients), Len(q) <= 3, NEW m \in ToClients
  PROVE  Drained(c, Append(q, m)) = Handle(Drained(c, q), m)
<1>1. /\ Len(q) \in {0, 1, 2, 3}
      /\ Len(Append(q, m)) = Len(q) + 1
      /\ \A i \in 1..Len(q) : Append(q, m)[i] = q[i]
      /\ Append(q, m)[Len(q) + 1] = m
  BY LenCases
<1> DEFINE r == Append(q, m)
<1> HIDE DEF r
<1>2. CASE Len(q) = 0
  <2>1. Len(r) = 1 /\ r[1] = m
    BY <1>1, <1>2 DEF r
  <2> QED
    BY <1>2, <2>1 DEF Drained, r
<1>3. CASE Len(q) = 1
  <2>1. Len(r) = 2 /\ r[1] = q[1] /\ r[2] = m
    BY <1>1, <1>3 DEF r
  <2> QED
    BY <1>3, <2>1 DEF Drained, r
<1>4. CASE Len(q) = 2
  <2>1. Len(r) = 3 /\ r[1] = q[1] /\ r[2] = q[2] /\ r[3] = m
    BY <1>1, <1>4 DEF r
  <2> QED
    BY <1>4, <2>1 DEF Drained, r
<1>5. CASE Len(q) = 3
  <2>1. Len(r) = 4 /\ r[1] = q[1] /\ r[2] = q[2] /\ r[3] = q[3] /\ r[4] = m
    BY <1>1, <1>5 DEF r
  <2> QED
    BY <1>5, <2>1 DEF Drained, r
<1> QED
  BY <1>1, <1>2, <1>3, <1>4, <1>5

(* Where a client's lag takes it: every structure it is sent adds one.     *)
LEMMA HandleLag ==
  ASSUME NEW c \in Active, NEW m \in ToClients, Handle(c, m).loc # "garbled"
  PROVE  Lag(c) \in 0..3 /\ Lag(Handle(c, m)) \in Nat /\ Lag(Handle(c, m)) >= Lag(c) + 1
<1>1. c \in Clients /\ c.loc \in Reading /\ c.nbPartie \in 1..2
  BY HandleFacts DEF Follows, Active, Clients, Reading
<1>2. Lag(c) = (CASE c.loc = "enemyRep" -> c.nbPartie
                  [] c.loc = "enemyMove" -> c.nbPartie + 1
                  [] OTHER -> 0)
  BY <1>1 DEF Lag, Reading
<1>3. CASE c.loc = "partieRep"
  <2>1. m.kind = "PartieRep" /\ Handle(c, m) = Orientation(c, m)
    BY <1>1, <1>3 DEF Handle, Clients
  <2>2. /\ Handle(c, m).loc \in {"askAI", "enemyRep"}
        /\ Handle(c, m).nbPartie = c.nbPartie
    BY <2>1, <1>1 DEF Orientation, Clients
  <2> QED
    BY <2>2, <1>1, <1>2, <1>3 DEF Lag
<1>4. CASE c.loc = "enemyMove"
  <2>1. Handle(c, m) = [c EXCEPT !.loc = "askAI"]
    BY <1>1, <1>4 DEF Handle, Clients
  <2>2. Handle(c, m).loc = "askAI" /\ Handle(c, m).nbPartie = c.nbPartie
    BY <2>1, <1>1 DEF Clients
  <2> QED
    BY <2>2, <1>1, <1>2, <1>4 DEF Lag
<1>5. CASE c.loc \in {"coupRep", "enemyRep"}
  <2>1. m.kind = "CoupRep"
    BY <1>1, <1>5 DEF Handle, Clients
  <2>2. CASE m.propCoup = "CONT"
    <3>1. Handle(c, m) = [c EXCEPT !.loc = IF c.loc = "coupRep" THEN "enemyRep" ELSE "enemyMove"]
      BY <2>1, <2>2, <1>5 DEF Handle, OwnMoveJudged, EnemyMoveJudged
    <3>2. /\ Handle(c, m).loc = (IF c.loc = "coupRep" THEN "enemyRep" ELSE "enemyMove")
          /\ Handle(c, m).nbPartie = c.nbPartie
      BY <3>1, <1>1 DEF Clients
    <3> QED
      BY <3>2, <1>1, <1>2, <1>5 DEF Lag
  <2>3. CASE m.propCoup # "CONT"
    <3>1. PICK won \in BOOLEAN : Handle(c, m) = GameOver(c, won)
      BY <2>1, <2>3, <1>5 DEF Handle, OwnMoveJudged, EnemyMoveJudged
    <3>2. /\ Handle(c, m).nbPartie = c.nbPartie + 1
          /\ Handle(c, m).loc \in {"done", "askAI", "enemyRep"}
          /\ Handle(c, m).loc = "enemyRep" => c.nbPartie = 1
      BY <3>1, <1>1, GameOverFacts
    <3> QED
      BY <3>2, <1>1, <1>2, <1>5 DEF Lag
  <2> QED
    BY <2>2, <2>3
<1> QED
  BY <1>1, <1>3, <1>4, <1>5 DEF Reading

-----------------------------------------------------------------------------
(* The view of a client: types, and what follows from being in step.       *)
LEMMA ViewType ==
  ASSUME ClientsActive, NetTypeOK, NEW p \in Players
  PROVE  /\ client[p] \in Active /\ toClient[p] \in Seq(ToClients)
         /\ UpToDate(p) \in Active
         /\ UpToDate(p).loc # "garbled" =>
              /\ Len(toClient[p]) <= 4
              /\ \/ toClient[p] = <<>> /\ UpToDate(p) = client[p]
                 \/ Follows(client[p], UpToDate(p))
<1>1. client[p] \in Active /\ toClient[p] \in Seq(ToClients)
  BY DEF ClientsActive, NetTypeOK, ToClients
<1> QED
  BY <1>1, DrainedFacts DEF UpToDate

(* A client that does not wait for the server has read everything.         *)
LEMMA NothingToRead ==
  ASSUME ClientsActive, NetTypeOK, NEW p \in Players, InStep(p),
         client[p].loc \notin Reading
  PROVE  toClient[p] = <<>> /\ UpToDate(p) = client[p]
BY ViewType DEF InStep, Follows

(* The server sends m to t, which expects it.                              *)
LEMMA SendView ==
  ASSUME ClientsActive, NetTypeOK, NEW t \in Players, InStep(t),
         NEW m \in ToClients, SendToClient(t, m), UNCHANGED client,
         Handle(UpToDate(t), m).loc # "garbled"
  PROVE  /\ UpToDate(t)' = Handle(UpToDate(t), m)
         /\ InStep(t)'
         /\ \A p \in Players : p # t => UpToDate(p)' = UpToDate(p) /\ (InStep(p) => InStep(p)')
<1>1. /\ client[t] \in Active /\ toClient[t] \in Seq(ToClients)
      /\ UpToDate(t) \in Active
  BY ViewType
<1>2. /\ Lag(UpToDate(t)) \in 0..3 /\ Lag(Handle(UpToDate(t), m)) \in Nat
      /\ Lag(Handle(UpToDate(t), m)) >= Lag(UpToDate(t)) + 1
  BY <1>1, HandleLag
<1>3. toClient' = [toClient EXCEPT ![t] = Append(toClient[t], m)] /\ DOMAIN toClient = Players
  BY DEF SendToClient, NetTypeOK
<1>4. toClient'[t] = Append(toClient[t], m)
  BY <1>3
<1>5. Len(toClient[t]) \in Nat /\ Len(toClient[t]) <= Lag(UpToDate(t))
  BY <1>1 DEF InStep
<1>6. Len(toClient[t]) <= 3
  BY <1>2, <1>5
<1>7. UpToDate(t)' = Handle(UpToDate(t), m)
  BY <1>1, <1>4, <1>6, DrainedAppend DEF UpToDate
<1>8. Len(toClient'[t]) = Len(toClient[t]) + 1
  BY <1>1, <1>4
<1>9. InStep(t)'
  BY <1>2, <1>5, <1>7, <1>8 DEF InStep
<1>10. ASSUME NEW p \in Players, p # t
       PROVE  UpToDate(p)' = UpToDate(p) /\ (InStep(p) => InStep(p)')
  <2>1. toClient'[p] = toClient[p]
    BY <1>3, <1>10
  <2> QED
    BY <2>1 DEF UpToDate, InStep
<1> QED
  BY <1>7, <1>9, <1>10

(* Nothing is sent or read.                                                *)
LEMMA SameView ==
  ASSUME UNCHANGED <<client, toClient>>
  PROVE  \A p : UpToDate(p)' = UpToDate(p) /\ (InStep(p)' <=> InStep(p))
BY DEF UpToDate, InStep

(* A client that reads gets closer to where it was going.                  *)
LEMMA ReceiveView ==
  ASSUME ClientsActive, NetTypeOK, NEW p \in Players, InStep(p), Receive(p)
  PROVE  /\ ClientsActive' /\ NetTypeOK'
         /\ \A q \in Players : UpToDate(q)' = UpToDate(q) /\ (InStep(q) => InStep(q)')
<1>1. /\ client[p] \in Active /\ toClient[p] \in Seq(ToClients)
      /\ UpToDate(p) \in Active
      /\ Len(toClient[p]) <= 4
  BY ViewType DEF InStep
<1>2. /\ toClient[p] # <<>>
      /\ toClient' = [toClient EXCEPT ![p] = Tail(toClient[p])]
      /\ client' = [client EXCEPT ![p] = Handle(client[p], Head(toClient[p]))]
      /\ DOMAIN toClient = Players /\ DOMAIN client = Players
  BY DEF Receive, NetTypeOK, ClientsActive
<1>3. /\ Head(toClient[p]) \in ToClients
      /\ Tail(toClient[p]) \in Seq(ToClients)
      /\ Len(Tail(toClient[p])) = Len(toClient[p]) - 1
  BY <1>1, <1>2, HeadTailProperties
<1>4. Handle(client[p], Head(toClient[p])) \in Active
  BY <1>1, <1>3, HandleFacts DEF Follows
<1>5. ClientsActive'
  BY <1>2, <1>4 DEF ClientsActive
<1>6. NetTypeOK'
  <2>1. toClient' \in [Players -> Seq(ToClients)]
    BY <1>2, <1>3 DEF NetTypeOK, ToClients
  <2>2. link' \in [Players -> {"absent", "up", "down"}]
    BY DEF Receive, NetTypeOK
  <2> QED
    BY <2>1, <2>2 DEF NetTypeOK, Receive, ToClients
<1>7. UpToDate(p)' = UpToDate(p)
  BY <1>1, <1>2, DrainedTail DEF UpToDate
<1>8. InStep(p)'
  <2>1. Lag(UpToDate(p)) \in Nat
    BY <1>1 DEF Lag, Active, Clients
  <2>2. toClient'[p] = Tail(toClient[p])
    BY <1>2
  <2>3. Len(toClient[p]) \in Nat
    BY <1>1
  <2> QED
    BY <1>3, <1>7, <2>1, <2>2, <2>3 DEF InStep
<1>9. ASSUME NEW q \in Players, q # p
      PROVE  UpToDate(q)' = UpToDate(q) /\ (InStep(q) => InStep(q)')
  <2>1. toClient'[q] = toClient[q] /\ client'[q] = client[q]
    BY <1>2, <1>9
  <2> QED
    BY <2>1 DEF UpToDate, InStep
<1> QED
  BY <1>5, <1>6, <1>7, <1>8, <1>9

(* A client that connects or sends goes to l: it had nothing left to read. *)
LEMMA LocView ==
  ASSUME ClientsActive, NetTypeOK, NEW p \in Players, InStep(p),
         client[p].loc \in {"connect", "sendPartie", "askAI"},
         NEW l \in {"sendPartie", "partieRep", "coupRep"},
         client' = [client EXCEPT ![p].loc = l], UNCHANGED toClient
  PROVE  /\ ClientsActive'
         /\ UpToDate(p) = client[p] /\ client[p] \in Active /\ client[p].nbPartie \in 1..2
         /\ UpToDate(p)' = [UpToDate(p) EXCEPT !.loc = l]
         /\ InStep(p)'
         /\ \A q \in Players : q # p => UpToDate(q)' = UpToDate(q) /\ (InStep(q) => InStep(q)')
<1>1. client[p] \in Active
  BY ViewType
<1>2. toClient[p] = <<>> /\ UpToDate(p) = client[p]
  BY NothingToRead DEF Reading
<1>3. /\ [client[p] EXCEPT !.loc = l] \in Active
      /\ [client[p] EXCEPT !.loc = l].loc = l
      /\ client[p].nbPartie \in 1..2
  BY <1>1 DEF Active, Clients, Reading
<1>4. client' = [client EXCEPT ![p] = [client[p] EXCEPT !.loc = l]] /\ DOMAIN client = Players
  BY DEF ClientsActive
<1>5. client'[p] = [client[p] EXCEPT !.loc = l]
  BY <1>4
<1>6. ClientsActive'
  BY <1>3, <1>4 DEF ClientsActive
<1>7. UpToDate(p)' = [UpToDate(p) EXCEPT !.loc = l]
  BY <1>2, <1>5, DrainedNothing DEF UpToDate
<1>8. InStep(p)'
  <2>1. Len(toClient'[p]) = 0
    BY <1>2
  <2>2. UpToDate(p)'.loc = l
    BY <1>2, <1>3, <1>7
  <2> QED
    BY <2>1, <2>2 DEF InStep, Lag
<1>9. ASSUME NEW q \in Players, q # p
      PROVE  UpToDate(q)' = UpToDate(q) /\ (InStep(q) => InStep(q)')
  <2>1. toClient'[q] = toClient[q] /\ client'[q] = client[q]
    BY <1>4, <1>9
  <2> QED
    BY <2>1 DEF UpToDate, InStep
<1> QED
  BY <1>1, <1>2, <1>3, <1>6, <1>7, <1>8, <1>9

-----------------------------------------------------------------------------
(* What MatchInv says of client p while the match is on.                   *)
ClientAt(p) == InStep(p) /\ Position(p) /\ Side(p) /\ Points(p)

(* The types the steps below rely on.                                      *)
LEMMA MatchTypes ==
  ASSUME MatchInv
  PROVE  /\ ClientsActive /\ NetTypeOK
         /\ serving \in Players /\ Other(serving) \in Players /\ Other(serving) # serving
         /\ requests \in [Players -> TPartieReq]
         /\ toServer \in [Players -> Seq(TPartieReq \union TCoupReq)]
         /\ moveRep \in TCoupRep /\ moveReq \in TCoupReq
         /\ game \in [gameNumber : 1..3, score : [Players -> 0..2], nbStrike : Nat]
         /\ spc # "exit" => game.gameNumber \in 1..2
         /\ \A p \in Players : UpToDate(p) \in Active
BY ViewType DEF MatchInv, ServerInv, TypesOK, NetTypeOK, ServerTypeOK, ResultInv,
                Players, Other

(* Both connections are accepted.                                          *)
LEMMA AcceptMatch ==
  ASSUME MatchInv, Accept, UNCHANGED client, NEW p \in Players
  PROVE  ClientAt(p)' /\ UpToDate(p)' = UpToDate(p)
<1>1. UpToDate(p)' = UpToDate(p) /\ InStep(p)'
  BY SameView DEF MatchInv, Accept, netVars
<1>2. /\ spc = "accept" /\ spc' = "recvPartie" /\ serving = 1
      /\ Awaited(p) /\ Awaited(p)' /\ Asking(p)
  BY DEF MatchInv, Accept, Position, Awaited, ServerInv, SetupInv, Setup
<1>3. Asking(p)'
  BY <1>1, <1>2 DEF Accept, Asking, netVars
<1>4. Points(p)'
  BY <1>1, <1>2 DEF MatchInv, Points, Accept
<1> QED
  BY <1>1, <1>2, <1>3, <1>4 DEF ClientAt, Position, Side, Setup, Answered

(* A request is received.                                                  *)
LEMMA RecvPartieMatch ==
  ASSUME MatchInv, RecvPartie, UNCHANGED client, NEW p \in Players
  PROVE  ClientAt(p)' /\ UpToDate(p)' = UpToDate(p)
<1>1. UpToDate(p)' = UpToDate(p) /\ InStep(p)'
  BY SameView DEF MatchInv, RecvPartie
<1>2. /\ serving \in Players /\ requests \in [Players -> TPartieReq]
      /\ toServer \in [Players -> Seq(TPartieReq \union TCoupReq)]
  BY MatchTypes
<1>3. Asking(p)
  BY DEF MatchInv, RecvPartie, Position
<1>4. ASSUME p = serving PROVE Asking(p)'
  <2>1. Awaited(p) /\ ~Awaited(p)'
    BY <1>2, <1>4 DEF RecvPartie, Awaited, Players, Other
  <2>2. UpToDate(p).loc = "partieRep" /\ toServer[p] = <<PartieRequest>>
    BY <1>3, <1>4, <2>1 DEF RecvPartie, Asking
  <2>3. Head(<<PartieRequest>>) = PartieRequest /\ Tail(<<PartieRequest>>) = <<>>
    OBVIOUS
  <2>4. requests'[p] = PartieRequest /\ toServer'[p] = <<>>
    BY <1>2, <1>4, <2>2, <2>3 DEF RecvPartie
  <2>5. UpToDate(p)'.loc = "partieRep" /\ UpToDate(p)'.nbPartie = 1
    BY <1>1, <1>3, <2>2 DEF Asking
  <2> QED
    BY <2>1, <2>4, <2>5 DEF Asking, At
<1>5. ASSUME p # serving PROVE Asking(p)'
  <2>1. Awaited(p)' <=> Awaited(p)
    BY <1>2, <1>5 DEF RecvPartie, Awaited, Players, Other
  <2>2. requests'[p] = requests[p] /\ toServer'[p] = toServer[p]
    BY <1>2, <1>5 DEF RecvPartie
  <2> QED
    BY <1>1, <1>3, <2>1, <2>2 DEF Asking, At
<1>6. Asking(p)'
  BY <1>4, <1>5
<1>7. spc' = "sendAnswers" => serving' = 1 /\ ~Awaited(p)'
  BY <1>2 DEF RecvPartie, Players, Other, Awaited
<1>8. Position(p)' /\ Side(p)'
  BY <1>6, <1>7 DEF RecvPartie, Position, Side, Asking, Answered, Setup, Players
<1>9. Points(p)'
  BY <1>1 DEF MatchInv, Points, RecvPartie
<1> QED
  BY <1>1, <1>8, <1>9 DEF ClientAt

(* The answers: both clients have asked for the south, the first gets it.  *)
LEMMA AnswersMatch ==
  ASSUME MatchInv, spc = "sendAnswers", NEW p \in Players, NEW rep \in Answers(p)
  PROVE  /\ WellAsked(1) /\ WellAsked(2)
         /\ rep \in ToClients /\ rep.kind = "PartieRep"
         /\ rep.validSensTete = (IF p = 1 THEN "OK" ELSE "KO")
<1>1. requests[1] = PartieRequest /\ requests[2] = PartieRequest
  BY DEF MatchInv, Position, Players
<1>2. WellAsked(1) /\ WellAsked(2) /\ requests[1].piece = requests[2].piece
  BY <1>1 DEF WellAsked, PartieRequest
<1>3. rep = [kind |-> "PartieRep", err |-> "ERR_OK",
             validSensTete |-> IF p = 1 THEN "OK" ELSE "KO"]
  BY <1>2 DEF Answers
<1> QED
  BY <1>2, <1>3, AnswersType DEF ToClients

(* The view of a client that is sent its orientation.                      *)
LEMMA OrientationView ==
  ASSUME NEW c \in Active, c.loc = "partieRep", c.nbPartie = 1, NEW m,
         m.kind = "PartieRep"
  PROVE  /\ Handle(c, m).loc = (IF m.validSensTete = "OK" THEN "askAI" ELSE "enemyRep")
         /\ Handle(c, m).sens = (IF m.validSensTete = "OK" THEN "SUD" ELSE "NORD")
         /\ Handle(c, m).nbPartie = 1
         /\ Handle(c, m).win = c.win
<1>1. Handle(c, m) = Orientation(c, m)
  BY DEF Handle
<1> QED
  BY <1>1 DEF Orientation, Active, Clients

(* The first answer.                                                       *)
LEMMA FirstAnswerMatch ==
  ASSUME MatchInv, SendFirstAnswer, UNCHANGED client, NEW p \in Players
  PROVE  ClientAt(p)' /\ UpToDate(p)'.win = UpToDate(p).win
<1>1. /\ spc = "sendAnswers" /\ spc' = "sendAnswers" /\ serving = 1 /\ serving' = 2
      /\ UNCHANGED <<game, requests, moveRep, toServer, player1Sud>>
  BY DEF SendFirstAnswer, moveVars
<1>2. PICK rep \in Answers(1) : SendToClient(1, rep)
  BY DEF SendFirstAnswer
<1>3. rep \in ToClients /\ rep.kind = "PartieRep" /\ rep.validSensTete = "OK"
  BY <1>1, AnswersMatch DEF Players
<1>4. /\ At(p, "partieRep", 1) /\ requests[p] = PartieRequest
      /\ InStep(p) /\ UpToDate(p) \in Active
      /\ InStep(1) /\ 1 \in Players
  BY <1>1, MatchTypes DEF MatchInv, Position, Players
<1>5. UpToDate(1) \in Active /\ UpToDate(1).loc = "partieRep" /\ UpToDate(1).nbPartie = 1
  BY <1>1, MatchTypes DEF MatchInv, Position, At, Players
<1>6. /\ Handle(UpToDate(1), rep).loc = "askAI" /\ Handle(UpToDate(1), rep).sens = "SUD"
      /\ Handle(UpToDate(1), rep).nbPartie = 1
      /\ Handle(UpToDate(1), rep).win = UpToDate(1).win
  BY <1>3, <1>5, OrientationView
<1>7. /\ UpToDate(1)' = Handle(UpToDate(1), rep) /\ InStep(1)'
      /\ p # 1 => UpToDate(p)' = UpToDate(p) /\ InStep(p)'
  BY <1>2, <1>3, <1>4, <1>6, SendView, MatchTypes
<1>8. CASE p = 1
  <2>1. HasTurn(p, 1)' /\ UpToDate(p)'.sens = "SUD"
    BY <1>1, <1>4, <1>6, <1>7, <1>8 DEF At, HasTurn
  <2>2. Points(p)' /\ UpToDate(p)'.win = UpToDate(p).win
    BY <1>1, <1>4, <1>6, <1>7, <1>8 DEF MatchInv, Points, At, Wins
  <2> QED
    BY <1>1, <1>4, <1>7, <1>8, <2>1, <2>2
    DEF ClientAt, Position, Side, Setup, Answered
<1>9. CASE p = 2
  <2>1. At(p, "partieRep", 1)'
    BY <1>1, <1>4, <1>7, <1>9 DEF At
  <2>2. Points(p)' /\ UpToDate(p)'.win = UpToDate(p).win
    BY <1>1, <1>7, <1>9 DEF MatchInv, Points
  <2> QED
    BY <1>1, <1>4, <1>7, <1>9, <2>1, <2>2
    DEF ClientAt, Position, Side, Setup, Answered
<1> QED
  BY <1>8, <1>9 DEF Players

(* The second answer, and the beginning of the first game.                 *)
LEMMA SecondAnswerMatch ==
  ASSUME MatchInv, SendSecondAnswer, UNCHANGED client, NEW p \in Players
  PROVE  ClientAt(p)' /\ UpToDate(p)'.win = UpToDate(p).win
<1>1. /\ spc = "sendAnswers" /\ spc' = "recvMove" /\ serving = 2
      /\ UNCHANGED <<game, requests, moveRep, toServer>>
      /\ game.gameNumber = 1
  BY DEF SendSecondAnswer, moveVars, MatchInv, ServerInv, SetupInv, Setup
<1>2. player1Sud' /\ serving' = 1
  <2>1. requests[1] = PartieRequest /\ requests[1].piece = "SUD"
    BY <1>1 DEF MatchInv, Position, Players, PartieRequest
  <2> QED
    BY <2>1 DEF SendSecondAnswer, FirstPlayer
<1>3. PICK rep \in Answers(2) : SendToClient(2, rep)
  BY DEF SendSecondAnswer
<1>4. rep \in ToClients /\ rep.kind = "PartieRep" /\ rep.validSensTete = "KO"
  BY <1>1, AnswersMatch DEF Players
<1>5. /\ InStep(p) /\ UpToDate(p) \in Active
      /\ InStep(2) /\ 2 \in Players /\ At(2, "partieRep", 1)
      /\ HasTurn(1, 1) /\ UpToDate(1).sens = "SUD"
  BY <1>1, MatchTypes DEF MatchInv, Position, Side, Answered, Setup, Players
<1>6. UpToDate(2) \in Active /\ UpToDate(2).loc = "partieRep" /\ UpToDate(2).nbPartie = 1
  BY <1>5, MatchTypes DEF At
<1>7. /\ Handle(UpToDate(2), rep).loc = "enemyRep" /\ Handle(UpToDate(2), rep).sens = "NORD"
      /\ Handle(UpToDate(2), rep).nbPartie = 1
      /\ Handle(UpToDate(2), rep).win = UpToDate(2).win
  BY <1>4, <1>6, OrientationView
<1>8. /\ UpToDate(2)' = Handle(UpToDate(2), rep) /\ InStep(2)'
      /\ p # 2 => UpToDate(p)' = UpToDate(p) /\ InStep(p)'
  BY <1>3, <1>4, <1>5, <1>7, SendView, MatchTypes
<1>9. CASE p = 2
  <2>1. At(p, "enemyRep", 1)' /\ UpToDate(p)'.sens = "NORD"
    BY <1>1, <1>5, <1>7, <1>8, <1>9 DEF At
  <2>2. Points(p)' /\ UpToDate(p)'.win = UpToDate(p).win
    BY <1>1, <1>6, <1>7, <1>8, <1>9 DEF MatchInv, Points, Wins
  <2> QED
    BY <1>1, <1>2, <1>8, <1>9, <2>1, <2>2
    DEF ClientAt, Position, Side, Setup, Answered
<1>10. CASE p = 1
  <2>1. HasTurn(p, 1)' /\ UpToDate(p)'.sens = "SUD"
    BY <1>1, <1>5, <1>8, <1>10 DEF HasTurn
  <2>2. Points(p)' /\ UpToDate(p)'.win = UpToDate(p).win
    BY <1>1, <1>8, <1>10 DEF MatchInv, Points
  <2> QED
    BY <1>1, <1>2, <1>8, <1>10, <2>1, <2>2
    DEF ClientAt, Position, Side, Setup, Answered
<1> QED
  BY <1>9, <1>10 DEF Players

(* A move is received: it was there, its sender waits for the answer.      *)
LEMMA RecvMoveMatch ==
  ASSUME MatchInv, RecvMove, UNCHANGED client, NEW p \in Players
  PROVE  ClientAt(p)' /\ UpToDate(p)'.win = UpToDate(p).win
<1>1. UpToDate(p)' = UpToDate(p) /\ InStep(p)'
  BY SameView DEF MatchInv, RecvMove
<1>2. /\ spc = "recvMove" /\ spc' = "sendToMover"
      /\ UNCHANGED <<serving, game, player1Sud>>
  BY DEF RecvMove
<1>3. Position(p) /\ Side(p) /\ Points(p)
  BY DEF MatchInv
<1>4. CASE p = serving
  <2>1. HasTurn(p, game.gameNumber) /\ toServer[p] # <<>>
    BY <1>2, <1>3, <1>4 DEF Position, RecvMove
  <2>2. /\ UpToDate(p).loc = "coupRep"
        /\ toServer[p] = <<convertAItoServer(UpToDate(p))>>
    BY <2>1 DEF HasTurn
  <2>3. toServer' = [toServer EXCEPT ![p] = Tail(toServer[p])] /\ DOMAIN toServer = Players
    BY <1>4, MatchTypes DEF RecvMove
  <2>4. \A m : Tail(<<m>>) = <<>>
    OBVIOUS
  <2>5. toServer'[p] = <<>>
    BY <2>2, <2>3, <2>4
  <2>6. At(p, "coupRep", game.gameNumber)'
    BY <1>1, <1>2, <2>1, <2>2, <2>5 DEF At, HasTurn
  <2>7. Position(p)'
    BY <1>2, <1>4, <2>6 DEF Position
  <2> QED
    BY <1>1, <1>2, <1>3, <2>7 DEF ClientAt, Side, Points, Setup, Answered
<1>5. CASE p # serving
  <2>1. toServer'[p] = toServer[p]
    BY <1>5, MatchTypes DEF RecvMove
  <2>2. At(p, "enemyRep", game.gameNumber)'
    BY <1>1, <1>2, <1>3, <1>5, <2>1 DEF At, Position
  <2>3. Position(p)'
    BY <1>2, <1>5, <2>2 DEF Position
  <2> QED
    BY <1>1, <1>2, <1>3, <2>3 DEF ClientAt, Side, Points, Setup, Answered
<1> QED
  BY <1>4, <1>5

(* The view of a client that is told of a verdict which ends a game: its   *)
(* own move's when it waits in coupRep, the opponent's in enemyRep.        *)
LEMMA VerdictView ==
  ASSUME NEW c \in Active, c.loc \in {"coupRep", "enemyRep"}, NEW m \in TCoupRep
  PROVE  /\ m \in ToClients
         /\ m.propCoup = "CONT" =>
              /\ Handle(c, m).loc = (IF c.loc = "coupRep" THEN "enemyRep" ELSE "enemyMove")
              /\ Handle(c, m).nbPartie = c.nbPartie
              /\ Handle(c, m).sens = c.sens /\ Handle(c, m).win = c.win
         /\ m.propCoup # "CONT" =>
              /\ c.nbPartie \in 1..2
              /\ Handle(c, m) = GameOver(c, m.propCoup = (IF c.loc = "coupRep" THEN "GAGNE" ELSE "PERDU"))
         /\ Handle(c, m).loc # "garbled"
<1>1. m \in ToClients /\ m.kind = "CoupRep" /\ c \in Clients /\ c.nbPartie \in 1..2
  BY DEF ToClients, TCoupRep, Active, Clients
<1>2. CASE m.propCoup = "CONT"
  <2>1. Handle(c, m) = [c EXCEPT !.loc = IF c.loc = "coupRep" THEN "enemyRep" ELSE "enemyMove"]
    BY <1>1, <1>2 DEF Handle, OwnMoveJudged, EnemyMoveJudged
  <2> QED
    BY <2>1, <1>1, <1>2 DEF Clients
<1>3. CASE m.propCoup # "CONT"
  <2>1. PICK won \in BOOLEAN :
          won = (m.propCoup = (IF c.loc = "coupRep" THEN "GAGNE" ELSE "PERDU"))
    OBVIOUS
  <2>2. Handle(c, m) = GameOver(c, won)
    BY <1>1, <1>3, <2>1 DEF Handle, OwnMoveJudged, EnemyMoveJudged
  <2>3. GameOver(c, won).loc # "garbled"
    BY <1>1, GameOverFacts
  <2> QED
    BY <1>1, <1>3, <2>1, <2>2, <2>3
<1> QED
  BY <1>2, <1>3

(* The games won, when the one being played is over.                       *)
LEMMA WinsGameOver ==
  ASSUME NEW c \in Active, c.nbPartie \in 1..2, NEW won \in BOOLEAN,
         \A n \in 1..2 : c.win[n] => n < c.nbPartie
  PROVE  /\ \A n \in 1..2 : GameOver(c, won).win[n] => n < GameOver(c, won).nbPartie
         /\ GameOver(c, won).win[c.nbPartie] <=> won
         /\ Wins(GameOver(c, won)) = Wins(c) + (IF won THEN 1 ELSE 0)
<1> DEFINE d == GameOver(c, won)
<1>1. /\ d.nbPartie = c.nbPartie + 1
      /\ \A n \in 1..2 : d.win[n] <=> (c.win[n] \/ (n = c.nbPartie /\ won))
  BY GameOverFacts DEF Active
<1> HIDE DEF d
<1>2. /\ \A n \in 1..2 : d.win[n] => n < d.nbPartie
      /\ d.win[c.nbPartie] <=> won
  BY <1>1
<1>3. CASE c.nbPartie = 1
  <2>1. ~c.win[1] /\ ~c.win[2] /\ ~d.win[2] /\ (d.win[1] <=> won)
    BY <1>1, <1>3
  <2> QED
    BY <1>2, <2>1 DEF Wins, d
<1>4. CASE c.nbPartie = 2
  <2>1. ~c.win[2] /\ (d.win[1] <=> c.win[1]) /\ (d.win[2] <=> won)
    BY <1>1, <1>4
  <2> QED
    BY <1>2, <2>1 DEF Wins, d
<1> QED
  BY <1>3, <1>4

(* The answer is sent to t: what becomes of its view.                      *)
LEMMA VerdictSent ==
  ASSUME MatchInv, NEW t \in Players, NEW l \in {"coupRep", "enemyRep"},
         At(t, l, game.gameNumber), SendToClient(t, moveRep),
         UNCHANGED <<client, game, toServer, moveRep>>,
         NEW won \in BOOLEAN,
         won <=> moveRep.propCoup = (IF l = "coupRep" THEN "GAGNE" ELSE "PERDU")
  PROVE  /\ InStep(t)' /\ UpToDate(t)'.sens = UpToDate(t).sens
         /\ moveRep.propCoup = "CONT" =>
              /\ At(t, IF l = "coupRep" THEN "enemyRep" ELSE "enemyMove", game.gameNumber)'
              /\ UpToDate(t)'.win = UpToDate(t).win
         /\ moveRep.propCoup # "CONT" =>
              /\ game.gameNumber \in 1..2 => Finished(t, game.gameNumber)'
              /\ UpToDate(t)'.win[game.gameNumber] <=> won
              /\ \A n \in 1..2 : UpToDate(t)'.win[n] <=>
                   (UpToDate(t).win[n] \/ (n = game.gameNumber /\ won))
              /\ Wins(UpToDate(t)') = Wins(UpToDate(t)) + (IF won THEN 1 ELSE 0)
         /\ \A n \in 1..2 : UpToDate(t)'.win[n] => n < UpToDate(t)'.nbPartie
         /\ \A p \in Players : p # t => UpToDate(p)' = UpToDate(p) /\ InStep(p)'
<1> DEFINE c == UpToDate(t)
<1>1. /\ c \in Active /\ c.loc = l /\ c.nbPartie = game.gameNumber
      /\ toServer[t] = <<>> /\ moveRep \in TCoupRep
      /\ \A p \in Players : InStep(p)
      /\ \A n \in 1..2 : c.win[n] => n < c.nbPartie
  BY MatchTypes DEF MatchInv, At, Points
<1>2. /\ moveRep \in ToClients
      /\ moveRep.propCoup = "CONT" =>
           /\ Handle(c, moveRep).loc = (IF l = "coupRep" THEN "enemyRep" ELSE "enemyMove")
           /\ Handle(c, moveRep).nbPartie = c.nbPartie
           /\ Handle(c, moveRep).sens = c.sens /\ Handle(c, moveRep).win = c.win
      /\ moveRep.propCoup # "CONT" =>
           c.nbPartie \in 1..2 /\ Handle(c, moveRep) = GameOver(c, won)
      /\ Handle(c, moveRep).loc # "garbled"
  BY <1>1, VerdictView
<1>3. /\ UpToDate(t)' = Handle(c, moveRep) /\ InStep(t)'
      /\ \A p \in Players : p # t => UpToDate(p)' = UpToDate(p) /\ InStep(p)'
  BY <1>1, <1>2, SendView, MatchTypes
<1> HIDE DEF c
<1>4. CASE moveRep.propCoup = "CONT"
  <2>1. At(t, IF l = "coupRep" THEN "enemyRep" ELSE "enemyMove", game.gameNumber)'
    BY <1>1, <1>2, <1>3, <1>4 DEF At
  <2> QED
    BY <1>1, <1>2, <1>3, <1>4, <2>1 DEF c
<1>5. CASE moveRep.propCoup # "CONT"
  <2>1. /\ UpToDate(t)' = GameOver(c, won) /\ c.nbPartie \in 1..2
    BY <1>2, <1>3, <1>5
  <2>a. c \in Clients
    BY <1>1 DEF Active
  <2>b. PICK d : d = GameOver(c, won)
    OBVIOUS
  <2>c. /\ d.loc = (IF c.nbPartie = 2 THEN "done"
                    ELSE IF c.sens = "NORD" THEN "askAI" ELSE "enemyRep")
        /\ d.nbPartie = c.nbPartie + 1
        /\ d.sens = c.sens
        /\ \A n \in 1..2 : d.win[n] <=> (c.win[n] \/ (n = c.nbPartie /\ won))
    BY <2>1, <2>a, <2>b, GameOverFacts
  <2>2. /\ UpToDate(t)'.loc = (IF c.nbPartie = 2 THEN "done"
                               ELSE IF c.sens = "NORD" THEN "askAI" ELSE "enemyRep")
        /\ UpToDate(t)'.nbPartie = c.nbPartie + 1
        /\ UpToDate(t)'.sens = c.sens
        /\ \A n \in 1..2 :
             UpToDate(t)'.win[n] <=> (c.win[n] \/ (n = c.nbPartie /\ won))
    BY <2>1, <2>b, <2>c
  <2>3. /\ \A n \in 1..2 : UpToDate(t)'.win[n] => n < UpToDate(t)'.nbPartie
        /\ UpToDate(t)'.win[c.nbPartie] <=> won
        /\ Wins(UpToDate(t)') = Wins(c) + (IF won THEN 1 ELSE 0)
    BY <1>1, <2>1, WinsGameOver
  <2>4. Finished(t, game.gameNumber)'
    BY <1>1, <2>1, <2>2 DEF Finished, At, HasTurn
  <2> QED
    BY <1>1, <1>3, <1>5, <2>2, <2>3, <2>4 DEF c
<1> QED
  BY <1>4, <1>5

(* The answer is sent to the mover.                                        *)
LEMMA ToMoverMatch ==
  ASSUME MatchInv, SendToMover, UNCHANGED client
  PROVE  (\A p \in Players : ClientAt(p)') /\ OneWins'
<1>1. /\ spc = "sendToMover" /\ spc' = "sendToOther"
      /\ UNCHANGED <<serving, game, player1Sud, moveRep, toServer>>
      /\ SendToClient(serving, moveRep)
  BY DEF SendToMover, moveVars
<1>2. PICK s \in Players, o \in Players : s = serving /\ o = Other(serving)
  BY MatchTypes
<1>3. s # o /\ Players = {s, o} /\ game.gameNumber \in 1..2
  BY <1>1, <1>2, MatchTypes DEF Players, Other
<1>4. /\ At(s, "coupRep", game.gameNumber) /\ At(o, "enemyRep", game.gameNumber)
      /\ Side(s) /\ Side(o) /\ Points(s) /\ Points(o) /\ OneWins
  BY <1>1, <1>2, <1>3 DEF MatchInv, Position
<1>5. PICK won \in BOOLEAN : won <=> moveRep.propCoup = "GAGNE"
  OBVIOUS
<1>6. /\ InStep(s)' /\ UpToDate(s)'.sens = UpToDate(s).sens
      /\ moveRep.propCoup = "CONT" =>
           /\ At(s, "enemyRep", game.gameNumber)'
           /\ UpToDate(s)'.win = UpToDate(s).win
      /\ moveRep.propCoup # "CONT" =>
           /\ Finished(s, game.gameNumber)'
           /\ UpToDate(s)'.win[game.gameNumber] <=> won
           /\ \A n \in 1..2 : UpToDate(s)'.win[n] <=>
                (UpToDate(s).win[n] \/ (n = game.gameNumber /\ won))
           /\ Wins(UpToDate(s)') = Wins(UpToDate(s)) + (IF won THEN 1 ELSE 0)
      /\ \A n \in 1..2 : UpToDate(s)'.win[n] => n < UpToDate(s)'.nbPartie
      /\ UpToDate(o)' = UpToDate(o) /\ InStep(o)'
  BY <1>1, <1>2, <1>3, <1>4, <1>5, VerdictSent
<1>7. NewScore' = NewScore
  BY <1>1 DEF NewScore
<1>8. NewScore[s] = game.score[s] + (IF won THEN 1 ELSE 0)
  <2>1. NewScore[s] = IF \/ moveRep.propCoup = "GAGNE" /\ s = serving
                         \/ moveRep.propCoup = "PERDU" /\ s = Other(serving)
                      THEN game.score[s] + 1 ELSE game.score[s]
    BY <1>1, NewScoreFacts DEF MatchInv
  <2>2. game.score[s] \in Int
    BY MatchTypes
  <2>3. moveRep.propCoup = "PERDU" /\ s = Other(serving) => FALSE
    BY <1>2, <1>3
  <2>4. CASE won
    BY <2>1, <2>4, <1>2, <1>5
  <2>5. CASE ~won
    BY <2>1, <2>2, <2>3, <2>5, <1>2, <1>5
  <2> QED
    BY <2>4, <2>5
<1>9. Position(s)' /\ Position(o)'
  BY <1>1, <1>2, <1>3, <1>4, <1>6 DEF Position, At
<1>10. Side(s)' /\ Side(o)'
  BY <1>1, <1>4, <1>6 DEF Side, Setup, Answered
<1>11. Points(o)'
  BY <1>1, <1>2, <1>3, <1>4, <1>6 DEF Points
<1>12. Points(s)'
  <2>1. Wins(UpToDate(s)) = game.score[s] /\ game.score[s] \in Int
    BY <1>1, <1>4, MatchTypes DEF Points
  <2>2. moveRep.propCoup = "CONT" => Wins(UpToDate(s)') = Wins(UpToDate(s)) /\ ~won
    BY <1>5, <1>6 DEF Wins
  <2>3. Wins(UpToDate(s)') = NewScore'[s]
    BY <1>6, <1>7, <1>8, <2>1, <2>2
  <2>4. UpToDate(s)'.win[game.gameNumber] => moveRep.propCoup = "GAGNE"
    <3>1. ~UpToDate(s).win[game.gameNumber]
      BY <1>3, <1>4 DEF Points, At
    <3> QED
      BY <1>5, <1>6, <3>1
  <2> QED
    BY <1>1, <1>2, <1>6, <2>3, <2>4 DEF Points
<1>13. OneWins'
  <2>1. ~UpToDate(o).win[game.gameNumber]
    BY <1>3, <1>4 DEF Points, At
  <2>2. ASSUME NEW n \in 1..2 PROVE ~UpToDate(s)'.win[n] \/ ~UpToDate(o)'.win[n]
    BY <1>3, <1>4, <1>6, <2>1 DEF OneWins
  <2> QED
    BY <2>2 DEF OneWins
<1> QED
  BY <1>3, <1>6, <1>9, <1>10, <1>11, <1>12, <1>13 DEF ClientAt

(* The answer is sent to the other player.                                 *)
LEMMA ToOtherMatch ==
  ASSUME MatchInv, SendToOther, UNCHANGED client
  PROVE  (\A p \in Players : ClientAt(p)') /\ OneWins'
<1>1. /\ spc = "sendToOther"
      /\ spc' = IF moveRep.propCoup = "CONT" THEN "sendMove" ELSE "endOfGame"
      /\ UNCHANGED <<serving, game, player1Sud, moveRep, toServer>>
      /\ SendToClient(Other(serving), moveRep)
  BY DEF SendToOther, moveVars
<1>2. PICK s \in Players, o \in Players : s = serving /\ o = Other(serving)
  BY MatchTypes
<1>3. s # o /\ Players = {s, o} /\ game.gameNumber \in 1..2
  BY <1>1, <1>2, MatchTypes DEF Players, Other
<1>4. /\ IF moveRep.propCoup # "CONT" THEN Finished(s, game.gameNumber)
         ELSE At(s, "enemyRep", game.gameNumber)
      /\ At(o, "enemyRep", game.gameNumber)
      /\ Side(s) /\ Side(o) /\ Points(s) /\ Points(o) /\ OneWins
  BY <1>1, <1>2, <1>3 DEF MatchInv, Position
<1>5. PICK won \in BOOLEAN : won <=> moveRep.propCoup = "PERDU"
  OBVIOUS
<1>6. /\ InStep(o)' /\ UpToDate(o)'.sens = UpToDate(o).sens
      /\ moveRep.propCoup = "CONT" =>
           /\ At(o, "enemyMove", game.gameNumber)'
           /\ UpToDate(o)'.win = UpToDate(o).win
      /\ moveRep.propCoup # "CONT" =>
           /\ Finished(o, game.gameNumber)'
           /\ \A n \in 1..2 : UpToDate(o)'.win[n] <=>
                (UpToDate(o).win[n] \/ (n = game.gameNumber /\ won))
           /\ Wins(UpToDate(o)') = Wins(UpToDate(o)) + (IF won THEN 1 ELSE 0)
      /\ \A n \in 1..2 : UpToDate(o)'.win[n] => n < UpToDate(o)'.nbPartie
      /\ UpToDate(s)' = UpToDate(s) /\ InStep(s)'
  BY <1>1, <1>2, <1>3, <1>4, <1>5, VerdictSent
<1>7. NewScore' = NewScore
  BY <1>1 DEF NewScore
<1>8. NewScore[o] = game.score[o] + (IF won THEN 1 ELSE 0)
  <2>1. NewScore[o] = IF \/ moveRep.propCoup = "GAGNE" /\ o = serving
                         \/ moveRep.propCoup = "PERDU" /\ o = Other(serving)
                      THEN game.score[o] + 1 ELSE game.score[o]
    BY <1>1, NewScoreFacts DEF MatchInv
  <2>2. game.score[o] \in Int
    BY MatchTypes
  <2>3. ~(moveRep.propCoup = "GAGNE" /\ o = serving)
    BY <1>2, <1>3
  <2>4. CASE won
    BY <2>1, <2>4, <1>2, <1>5
  <2>5. CASE ~won
    BY <2>1, <2>2, <2>3, <2>5, <1>2, <1>5
  <2> QED
    BY <2>4, <2>5
<1>9. moveRep.propCoup = "CONT" => NewScore = game.score
  BY DEF NewScore
<1>10. Side(s)' /\ Side(o)'
  BY <1>1, <1>4, <1>6 DEF Side, Setup, Answered
<1>11. Position(s)' /\ Position(o)'
  <2>1. CASE moveRep.propCoup = "CONT"
    BY <1>1, <1>2, <1>3, <1>4, <1>6, <2>1 DEF Position, At
  <2>2. CASE moveRep.propCoup # "CONT"
    <3>1. Finished(s, game.gameNumber)'
      BY <1>1, <1>4, <1>6, <2>2 DEF Finished, HasTurn, At
    <3> QED
      BY <1>1, <1>2, <1>3, <1>6, <2>2, <3>1 DEF Position
  <2> QED
    BY <2>1, <2>2
<1>12. Points(s)'
  <2>1. Wins(UpToDate(s)) = NewScore[s]
    BY <1>1, <1>2, <1>4 DEF Points
  <2> QED
    BY <1>1, <1>4, <1>6, <1>7, <1>9, <2>1 DEF Points
<1>13. Points(o)'
  <2>1. Wins(UpToDate(o)) = game.score[o] /\ game.score[o] \in Int
    BY <1>1, <1>2, <1>3, <1>4, MatchTypes DEF Points
  <2>2. moveRep.propCoup = "CONT" => Wins(UpToDate(o)') = Wins(UpToDate(o))
    BY <1>6 DEF Wins
  <2>3. moveRep.propCoup # "CONT" => Wins(UpToDate(o)') = NewScore'[o]
    BY <1>6, <1>7, <1>8, <2>1
  <2> QED
    BY <1>1, <1>2, <1>6, <2>1, <2>2, <2>3 DEF Points
<1>14. OneWins'
  <2>1. UpToDate(s).win[game.gameNumber] => ~won
    BY <1>1, <1>2, <1>4, <1>5 DEF Points
  <2>2. ASSUME NEW n \in 1..2 PROVE ~UpToDate(s)'.win[n] \/ ~UpToDate(o)'.win[n]
    <3>1. ~UpToDate(s).win[n] \/ ~UpToDate(o).win[n]
      BY <1>3, <1>4 DEF OneWins
    <3>2. CASE moveRep.propCoup = "CONT"
      BY <1>6, <3>1, <3>2
    <3>3. CASE moveRep.propCoup # "CONT"
      BY <1>6, <2>1, <3>1, <3>3
    <3> QED
      BY <3>2, <3>3
  <2> QED
    BY <2>2 DEF OneWins
<1> QED
  BY <1>3, <1>6, <1>10, <1>11, <1>12, <1>13, <1>14 DEF ClientAt

(* The move is sent to the other player, who has the turn once it reads it.*)
LEMMA SendMoveMatch ==
  ASSUME MatchInv, SendMove, UNCHANGED client
  PROVE  (\A p \in Players : ClientAt(p)' /\ UpToDate(p)'.win = UpToDate(p).win)
<1>1. /\ spc = "sendMove" /\ spc' = "recvMove" /\ serving' = Other(serving)
      /\ UNCHANGED <<player1Sud, moveRep, toServer>>
      /\ SendToClient(Other(serving), moveReq)
  BY DEF SendMove, moveVars
<1>2. PICK s \in Players, o \in Players : s = serving /\ o = Other(serving)
  BY MatchTypes
<1>3. s # o /\ Players = {s, o} /\ Other(o) = s
  BY <1>2, MatchTypes DEF Players, Other
<1>4. /\ At(s, "enemyRep", game.gameNumber) /\ At(o, "enemyMove", game.gameNumber)
      /\ Side(s) /\ Side(o) /\ Points(s) /\ Points(o)
      /\ \A p \in Players : InStep(p)
  BY <1>1, <1>2, <1>3 DEF MatchInv, Position
<1>5. game'.gameNumber = game.gameNumber /\ game'.score = game.score
  BY MatchTypes DEF SendMove
<1>6. moveReq \in ToClients /\ moveReq.kind = "CoupReq" /\ UpToDate(o) \in Active
  BY MatchTypes DEF TCoupReq, ToClients
<1>7. Handle(UpToDate(o), moveReq) = [UpToDate(o) EXCEPT !.loc = "askAI"]
  BY <1>4, <1>6 DEF Handle, At
<1>8. /\ Handle(UpToDate(o), moveReq).loc = "askAI"
      /\ Handle(UpToDate(o), moveReq).nbPartie = UpToDate(o).nbPartie
      /\ Handle(UpToDate(o), moveReq).sens = UpToDate(o).sens
      /\ Handle(UpToDate(o), moveReq).win = UpToDate(o).win
  BY <1>6, <1>7 DEF Active, Clients
<1>9. /\ UpToDate(o)' = Handle(UpToDate(o), moveReq) /\ InStep(o)'
      /\ UpToDate(s)' = UpToDate(s) /\ InStep(s)'
  BY <1>1, <1>2, <1>3, <1>4, <1>6, <1>8, SendView, MatchTypes
<1>10. HasTurn(o, game.gameNumber)' /\ At(s, "enemyRep", game.gameNumber)'
  BY <1>1, <1>4, <1>5, <1>8, <1>9 DEF HasTurn, At
<1>11. Position(s)' /\ Position(o)'
  BY <1>1, <1>2, <1>3, <1>10 DEF Position
<1>12. Side(s)' /\ Side(o)'
  BY <1>1, <1>4, <1>8, <1>9 DEF Side, Setup, Answered
<1>13. Points(s)' /\ Points(o)'
  BY <1>1, <1>4, <1>5, <1>8, <1>9 DEF Points, Wins
<1> QED
  BY <1>3, <1>8, <1>9, <1>11, <1>12, <1>13 DEF ClientAt

(* The second game begins with the other player's move.                    *)
LEMMA NextGameMatch ==
  ASSUME MatchInv, NextGame, UNCHANGED client, NEW p \in Players
  PROVE  ClientAt(p)' /\ UpToDate(p)' = UpToDate(p)
<1>1. UpToDate(p)' = UpToDate(p) /\ InStep(p)'
  BY SameView DEF MatchInv, NextGame, netVars
<1>2. /\ spc = "endOfGame" /\ spc' = "recvMove" /\ game.gameNumber = 1
      /\ game'.gameNumber = 2 /\ game'.score = NewScore
      /\ serving' = FirstPlayer(player1Sud, 2)
      /\ UNCHANGED <<player1Sud, moveRep, toServer>>
  BY DEF NextGame, netVars, moveVars
<1>3. Finished(p, 1) /\ Side(p) /\ Points(p)
  BY <1>2 DEF MatchInv, Position
<1>4. player1Sud /\ serving' = 2 /\ UpToDate(p).sens = (IF p = 1 THEN "SUD" ELSE "NORD")
  BY <1>2, <1>3 DEF Side, Setup, Answered, FirstPlayer
<1>5. Position(p)'
  <2>1. p # serving' => UpToDate(p).sens = "SUD"
    BY <1>4 DEF Players
  <2>2. p = serving' => UpToDate(p).sens = "NORD"
    BY <1>4
  <2>3. p # serving' => At(p, "enemyRep", 2)
    BY <1>3, <2>1 DEF Finished
  <2>4. p = serving' => HasTurn(p, 2)
    BY <1>3, <2>2 DEF Finished
  <2>5. p # serving' => At(p, "enemyRep", game.gameNumber)'
    BY <1>1, <1>2, <2>3 DEF At
  <2>6. p = serving' => HasTurn(p, game.gameNumber)'
    BY <1>1, <1>2, <2>4 DEF HasTurn
  <2> QED
    BY <1>2, <2>5, <2>6 DEF Position
<1>6. Side(p)' /\ Points(p)'
  BY <1>1, <1>2, <1>3, <1>4 DEF Side, Points, Setup, Answered
<1> QED
  BY <1>1, <1>5, <1>6 DEF ClientAt

-----------------------------------------------------------------------------
(* The steps with which the server leaves.  No client waits for the other  *)
(* to move while the other waits for it, and no client that has finished   *)
(* is blamed.                                                              *)
LEMMA NotBothAtWork ==
  ASSUME MatchInv
  PROVE  \E p \in Players : UpToDate(p).loc # "askAI"
<1>1. CASE spc = "exit"
  BY <1>1 DEF MatchInv, EndInv
<1>2. CASE spc \in {"accept", "recvPartie"}
  <2>1. Asking(1) /\ 1 \in Players
    BY <1>2 DEF MatchInv, Position, Players
  <2> QED
    BY <2>1 DEF Asking, At
<1>3. CASE spc = "sendAnswers"
  <2>1. At(2, "partieRep", 1) /\ 2 \in Players
    BY <1>3 DEF MatchInv, Position, Players
  <2> QED
    BY <2>1 DEF At
<1>4. CASE spc \in {"recvMove", "sendToMover", "sendToOther", "sendMove"}
  <2>1. PICK o \in Players : o = Other(serving) /\ o # serving
    BY MatchTypes
  <2>2. At(o, "enemyRep", game.gameNumber) \/ At(o, "enemyMove", game.gameNumber)
    BY <1>4, <2>1 DEF MatchInv, Position
  <2> QED
    BY <2>2 DEF At
<1>5. CASE spc = "endOfGame"
  <2>1. 1 \in Players /\ Finished(1, game.gameNumber) /\ Side(1)
    BY <1>5 DEF MatchInv, Position, Players
  <2>2. UpToDate(1).sens = "SUD"
    BY <1>5, <2>1 DEF Side, Setup, Answered
  <2> QED
    BY <2>1, <2>2 DEF Finished, At
<1> QED
  BY <1>1, <1>2, <1>3, <1>4, <1>5 DEF MatchInv, ServerInv, TypesOK, ServerTypeOK,
                                      Sending, Receiving

(* The player a failed call is about is waiting for the server, or has the *)
(* turn.                                                                   *)
LEMMA BlamedStillPlays ==
  ASSUME MatchInv, NEW p \in Players,
         \/ spc \in Receiving /\ p = serving
         \/ spc \in Sending /\ p = Target
  PROVE  UpToDate(p).loc # "done"
<1>1. Position(p) /\ serving \in Players /\ Other(serving) # serving
  BY MatchTypes DEF MatchInv
<1>2. CASE spc \in {"recvPartie", "sendAnswers", "recvMove"}
  BY <1>1, <1>2 DEF Position, Asking, HasTurn, At
<1>3. CASE spc \in {"sendToMover", "sendToOther", "sendMove"}
  BY <1>1, <1>3 DEF Position, At, Target, Sending, Receiving
<1> QED
  BY <1>2, <1>3 DEF Sending, Receiving

(* A step that leaves the views alone.                                     *)
LEMMA OneWinsKept ==
  ASSUME OneWins, \A p \in Players : UpToDate(p)'.win = UpToDate(p).win
  PROVE  OneWins'
BY DEF OneWins

(* Every step of the server that does not leave.                           *)
LEMMA ServerStaysMatch ==
  ASSUME MatchInv, ServerStep,
         \/ Accept \/ RecvPartie \/ SendFirstAnswer \/ SendSecondAnswer \/ RecvMove
         \/ SendToMover \/ SendToOther \/ SendMove \/ NextGame
  PROVE  MatchInv'
<1>1. ServerInv' /\ ClientsActive'
  BY ServerStepInv DEF MatchInv, ServerStep, ClientsActive
<1>2. spc' # "exit"
  BY DEF Accept, RecvPartie, SendFirstAnswer, SendSecondAnswer, RecvMove,
         SendToMover, SendToOther, SendMove, NextGame
<1>3. UNCHANGED client /\ OneWins
  BY DEF ServerStep, MatchInv
<1>4. (\A p \in Players : ClientAt(p)') /\ OneWins'
  <2>1. CASE \/ Accept \/ RecvPartie \/ SendFirstAnswer \/ SendSecondAnswer
             \/ RecvMove \/ SendMove \/ NextGame
    <3>1. \A p \in Players : ClientAt(p)' /\ UpToDate(p)'.win = UpToDate(p).win
      BY <2>1, <1>3, AcceptMatch, RecvPartieMatch, FirstAnswerMatch, SecondAnswerMatch,
         RecvMoveMatch, SendMoveMatch, NextGameMatch
    <3> QED
      BY <1>3, <3>1, OneWinsKept
  <2>2. CASE SendToMover
    BY <2>2, <1>3, ToMoverMatch
  <2>3. CASE SendToOther
    BY <2>3, <1>3, ToOtherMatch
  <2> QED
    BY <2>1, <2>2, <2>3
<1> QED
  BY <1>1, <1>2, <1>4 DEF MatchInv, ClientAt, EndInv

(* Once the server has left only EndInv is left to show.                   *)
LEMMA ExitMatch ==
  ASSUME MatchInv, ServerInv', UNCHANGED <<client, toClient>>, spc # "exit", spc' = "exit",
         \A p \in Players : UpToDate(p).loc = "done" =>
           /\ result'.forfeit # p
           /\ result'.announced /\ result'.forfeit = 0 =>
                Wins(UpToDate(p)) = game'.score[p]
  PROVE  MatchInv'
<1>1. ClientsActive' /\ \A p : UpToDate(p)' = UpToDate(p) /\ (InStep(p)' <=> InStep(p))
  BY SameView DEF MatchInv, ClientsActive
<1>2. \A p \in Players : InStep(p)' /\ Position(p)' /\ Side(p)' /\ Points(p)'
  BY <1>1 DEF MatchInv, Position, Side, Points, Setup
<1>3. OneWins'
  BY <1>1 DEF MatchInv, OneWins
<1>4. EndInv'
  BY <1>1, NotBothAtWork DEF EndInv
<1> QED
  BY <1>1, <1>2, <1>3, <1>4 DEF MatchInv

(* The end of the second game: both clients have finished too.             *)
LEMMA LastGameMatch ==
  ASSUME MatchInv, LastGame, UNCHANGED client, ServerInv'
  PROVE  MatchInv'
<1>1. /\ spc = "endOfGame" /\ spc' = "exit" /\ game'.score = NewScore
      /\ result'.forfeit = 0 /\ UNCHANGED toClient
  BY DEF LastGame, endGame, Leave
<1>2. ASSUME NEW p \in Players PROVE result'.forfeit # p /\ Wins(UpToDate(p)) = game'.score[p]
  BY <1>1 DEF MatchInv, Points, Players
<1> QED
  BY <1>1, <1>2, ExitMatch

(* A failed call.                                                          *)
LEMMA FailureMatch ==
  ASSUME MatchInv, RecvError \/ SendError \/ KilledBySigpipe, UNCHANGED client, ServerInv'
  PROVE  MatchInv'
<1>1. CASE RecvError \/ SendError
  <2>1. PICK p \in Players : /\ Forfeit(p)
                             /\ \/ spc \in Receiving /\ p = serving
                                \/ spc \in Sending /\ p = Target
    BY <1>1, MatchTypes, TargetType DEF RecvError, SendError, MatchInv
  <2>2. UpToDate(p).loc # "done"
    BY <2>1, BlamedStillPlays
  <2>3. /\ result'.forfeit = p /\ spc' = "exit" /\ spc # "exit" /\ UNCHANGED toClient
    BY <2>1 DEF Forfeit, endGame, Leave, Receiving, Sending
  <2>4. p # 0
    BY DEF Players
  <2> QED
    BY <2>2, <2>3, <2>4, ExitMatch
<1>2. CASE KilledBySigpipe
  <2>1. /\ spc' = "exit" /\ spc # "exit" /\ UNCHANGED <<toClient, result>>
    BY <1>2 DEF KilledBySigpipe, Leave, Sending
  <2>2. ~result.announced /\ result.forfeit = 0 /\ 0 \notin Players
    BY <2>1 DEF MatchInv, ServerInv, ResultInv, Players
  <2> QED
    BY <2>1, <2>2, ExitMatch
<1> QED
  BY <1>1, <1>2

(* Any step of the server.                                                 *)
LEMMA ServerStepMatch ==
  ASSUME MatchInv, ServerStep
  PROVE  MatchInv'
<1>1. ServerInv' /\ UNCHANGED client /\ ServerNext
  BY ServerStepInv DEF MatchInv, ServerStep
<1>2. ~RefuseMatch
  <2>1. CASE spc = "sendAnswers"
    <3>1. Answers(1) # {} => WellAsked(1) /\ WellAsked(2)
      BY <2>1, AnswersMatch DEF Players
    <3>2. ~WellAsked(1) \/ ~WellAsked(2) => Answers(2) = {}
      BY <2>1, AnswersMatch DEF Players
    <3> QED
      BY <3>1, <3>2 DEF RefuseMatch
  <2> QED
    BY <2>1 DEF RefuseMatch
<1> QED
  BY <1>1, <1>2, ServerStaysMatch, LastGameMatch, FailureMatch DEF ServerNext

-----------------------------------------------------------------------------
(* The steps of a client that change no view: it reads, leaves, or dies.   *)
LEMMA QuietMatch ==
  ASSUME MatchInv, UNCHANGED <<serverVars, serverUp, toServer>>,
         NetTypeOK', ClientsActive',
         \A p \in Players : UpToDate(p)' = UpToDate(p) /\ InStep(p)'
  PROVE  MatchInv'
<1>1. ServerInv'
  BY QuietClientInv DEF MatchInv
<1>2. /\ UNCHANGED <<spc, serving, game, player1Sud, requests, moveReq, moveRep, result>>
      /\ NewScore' = NewScore
  BY DEF serverVars, NewScore
<1>3. ASSUME NEW p \in Players PROVE Position(p)'
  <2>1. /\ Awaited(p)' <=> Awaited(p)
        /\ Asking(p) => Asking(p)'
    BY <1>2 DEF Awaited, Asking, At
  <2>2. /\ \A loc, g : At(p, loc, g) => At(p, loc, g)'
        /\ \A g : HasTurn(p, g) => HasTurn(p, g)'
        /\ \A g : Finished(p, g) => Finished(p, g)'
    BY DEF At, HasTurn, Finished
  <2>3. Position(p)
    BY DEF MatchInv
  <2> QED
    BY <1>2, <2>1, <2>2, <2>3 DEF Position
<1>4. ASSUME NEW p \in Players PROVE Side(p)' /\ Points(p)'
  BY <1>2 DEF MatchInv, Side, Points, Setup, Answered
<1>5. OneWins' /\ EndInv'
  BY <1>2 DEF MatchInv, OneWins, EndInv
<1> QED
  BY <1>1, <1>3, <1>4, <1>5 DEF MatchInv

(* The link of a client comes up or goes down.                             *)
LEMMA LinkMatch ==
  ASSUME MatchInv, UNCHANGED <<serverVars, serverUp, toServer, toClient, client>>,
         link' \in [Players -> {"absent", "up", "down"}]
  PROVE  MatchInv'
<1>1. NetTypeOK' /\ ClientsActive'
  BY MatchTypes DEF NetTypeOK, ClientsActive
<1>2. \A p \in Players : UpToDate(p)' = UpToDate(p) /\ InStep(p)'
  BY SameView DEF MatchInv
<1> QED
  BY <1>1, <1>2, QuietMatch

(* A client at the beginning of its program: the server awaits its request,*)
(* or has left.                                                            *)
LEMMA AskingFirst ==
  ASSUME MatchInv, spc # "exit", NEW p \in Players,
         UpToDate(p).loc \in {"connect", "sendPartie"}
  PROVE  /\ spc \in {"accept", "recvPartie"} /\ Awaited(p) /\ toServer[p] = <<>>
         /\ UpToDate(p).nbPartie = 1
<1>1. Position(p)
  BY DEF MatchInv
<1>2. spc \notin {"sendAnswers", "recvMove", "sendToMover", "sendMove"}
  BY <1>1 DEF Position, HasTurn, At
<1>3. spc \notin {"sendToOther", "endOfGame"}
  BY <1>1 DEF Position, Finished, HasTurn, At
<1>4. spc \in {"accept", "recvPartie"}
  BY <1>2, <1>3 DEF MatchInv, ServerInv, TypesOK, ServerTypeOK, Sending, Receiving
<1> QED
  BY <1>1, <1>4 DEF Position, Asking, At

(* A client whose AI is at work: it has the turn, and has not moved yet.   *)
LEMMA AtWorkHasTurn ==
  ASSUME MatchInv, spc # "exit", NEW p \in Players, UpToDate(p).loc = "askAI"
  PROVE  /\ ~Awaited(p) /\ toServer[p] = <<>>
         /\ \/ spc = "sendAnswers" /\ p = 1 /\ serving = 2 /\ UpToDate(p).nbPartie = 1
            \/ spc = "recvMove" /\ p = serving /\ UpToDate(p).nbPartie = game.gameNumber
            \/ /\ \/ spc = "endOfGame"
                  \/ spc = "sendToOther" /\ p = serving /\ moveRep.propCoup # "CONT"
               /\ game.gameNumber # 2 /\ UpToDate(p).nbPartie = 2
               /\ UpToDate(p).sens = "NORD"
<1>1. Position(p)
  BY DEF MatchInv
<1>2. spc \notin {"accept", "recvPartie", "sendToMover", "sendMove"}
  BY <1>1 DEF Position, Asking, At
<1>3. CASE spc \in {"sendAnswers", "recvMove"}
  BY <1>1, <1>3 DEF Position, HasTurn, At, Awaited
<1>4. CASE spc \in {"sendToOther", "endOfGame"}
  BY <1>1, <1>4 DEF Position, Finished, HasTurn, At, Awaited
<1> QED
  BY <1>2, <1>3, <1>4 DEF MatchInv, ServerInv, TypesOK, ServerTypeOK, Sending, Receiving

(* What is left to show when client p goes to l and the others stay.       *)
LEMMA MovedMatch ==
  ASSUME MatchInv, NEW p \in Players, NEW l \in {"sendPartie", "partieRep", "coupRep"},
         UNCHANGED serverVars, ServerInv', ClientsActive',
         UpToDate(p) \in Active,
         UpToDate(p)' = [UpToDate(p) EXCEPT !.loc = l], InStep(p)',
         \A q \in Players : q # p =>
           UpToDate(q)' = UpToDate(q) /\ InStep(q)' /\ toServer'[q] = toServer[q],
         Position(p)'
  PROVE  MatchInv'
<1>1. /\ UNCHANGED <<spc, serving, game, player1Sud, requests, moveReq, moveRep, result>>
      /\ NewScore' = NewScore
  BY DEF serverVars, NewScore
<1>2. /\ UpToDate(p)'.loc = l /\ UpToDate(p)'.nbPartie = UpToDate(p).nbPartie
      /\ UpToDate(p)'.sens = UpToDate(p).sens /\ UpToDate(p)'.win = UpToDate(p).win
  BY DEF Active, Clients
<1>3. Side(p)' /\ Points(p)'
  BY <1>1, <1>2 DEF MatchInv, Side, Points, Setup, Answered, Wins
<1>4. ASSUME NEW q \in Players, q # p PROVE Position(q)' /\ Side(q)' /\ Points(q)'
  <2>1. UpToDate(q)' = UpToDate(q) /\ toServer'[q] = toServer[q]
    BY <1>4
  <2>2. /\ Awaited(q)' <=> Awaited(q)
        /\ Asking(q) => Asking(q)'
    BY <1>1, <2>1 DEF Awaited, Asking, At
  <2>3. /\ \A loc, g : At(q, loc, g) => At(q, loc, g)'
        /\ \A g : HasTurn(q, g) => HasTurn(q, g)'
        /\ \A g : Finished(q, g) => Finished(q, g)'
    BY <2>1 DEF At, HasTurn, Finished
  <2>4. Position(q)'
    BY <1>1, <2>2, <2>3 DEF MatchInv, Position
  <2> QED
    BY <1>1, <2>1, <2>4 DEF MatchInv, Side, Points, Setup, Answered
<1>5. OneWins'
  BY <1>2, <1>4, OneWinsKept DEF MatchInv
<1>6. EndInv'
  BY <1>1, <1>2 DEF MatchInv, EndInv
<1> QED
  BY <1>3, <1>4, <1>5, <1>6 DEF MatchInv

(* A client connects.                                                      *)
LEMMA ConnectMatch ==
  ASSUME MatchInv, NEW p \in Players, ConnectToServer(p), UNCHANGED serverVars
  PROVE  MatchInv'
<1>1. /\ client[p].loc = "connect" /\ client' = [client EXCEPT ![p].loc = "sendPartie"]
      /\ UNCHANGED <<toServer, toClient, serverUp>>
  BY DEF ConnectToServer
<1>2. NetTypeOK'
  BY MatchTypes DEF NetTypeOK, ConnectToServer, Connect
<1>3. ServerInv'
  BY <1>1, <1>2, QuietClientInv DEF MatchInv
<1>4. /\ ClientsActive'
      /\ UpToDate(p) = client[p] /\ client[p] \in Active
      /\ UpToDate(p)' = [UpToDate(p) EXCEPT !.loc = "sendPartie"]
      /\ InStep(p)'
      /\ \A q \in Players : q # p => UpToDate(q)' = UpToDate(q) /\ (InStep(q) => InStep(q)')
  BY <1>1, LocView, MatchTypes DEF MatchInv
<1>5. spc' = spc /\ (Awaited(p)' <=> Awaited(p))
  BY DEF serverVars, Awaited
<1>6. Position(p)'
  <2>1. UpToDate(p)'.loc = "sendPartie" /\ UpToDate(p)'.nbPartie = UpToDate(p).nbPartie
    BY <1>4 DEF Active, Clients
  <2>2. CASE spc # "exit"
    <3>1. /\ spc \in {"accept", "recvPartie"} /\ Awaited(p) /\ toServer[p] = <<>>
          /\ UpToDate(p).nbPartie = 1
      BY <1>1, <1>4, <2>2, AskingFirst
    <3>2. Asking(p)'
      BY <1>1, <1>5, <2>1, <3>1 DEF Asking
    <3> QED
      BY <1>5, <3>1, <3>2 DEF Position
  <2>3. CASE spc = "exit"
    BY <1>5, <2>3 DEF Position
  <2> QED
    BY <2>2, <2>3
<1> QED
  BY <1>1, <1>3, <1>4, <1>6, MovedMatch DEF MatchInv

(* A client asks for a match.                                              *)
LEMMA SendPartieMatch ==
  ASSUME MatchInv, NEW p \in Players, SendPartie(p), UNCHANGED serverVars
  PROVE  MatchInv'
<1>1. /\ client[p].loc = "sendPartie" /\ client' = [client EXCEPT ![p].loc = "partieRep"]
      /\ SendToServer(p, PartieRequest) /\ UNCHANGED <<toClient, link, serverUp>>
  BY DEF SendPartie
<1>2. PartieRequest \in TPartieReq
  BY DEF PartieRequest, TPartieReq, TIdReq, TSensTetePiece
<1>3. /\ ClientsActive'
      /\ UpToDate(p) = client[p] /\ client[p] \in Active
      /\ UpToDate(p)' = [UpToDate(p) EXCEPT !.loc = "partieRep"]
      /\ InStep(p)'
      /\ \A q \in Players : q # p => UpToDate(q)' = UpToDate(q) /\ (InStep(q) => InStep(q)')
  BY <1>1, LocView, MatchTypes DEF MatchInv
<1>4. spc' = spc /\ (Awaited(p)' <=> Awaited(p))
  BY DEF serverVars, Awaited
<1>5. UpToDate(p)'.loc = "partieRep" /\ UpToDate(p)'.nbPartie = UpToDate(p).nbPartie
  BY <1>3 DEF Active, Clients
<1>6. /\ toServer'[p] = Append(toServer[p], PartieRequest)
      /\ \A q \in Players : q # p => toServer'[q] = toServer[q]
  BY <1>1, MatchTypes DEF SendToServer
<1>7. CASE spc # "exit"
  <2>1. /\ spc \in {"accept", "recvPartie"} /\ Awaited(p) /\ toServer[p] = <<>>
        /\ UpToDate(p).nbPartie = 1
    BY <1>1, <1>3, <1>7, AskingFirst
  <2>2. ~Started(p)
    BY <2>1 DEF Started
  <2>3. ServerInv'
    BY <1>1, <1>2, <2>2, ClientSendInv DEF MatchInv
  <2>4. \A m : Append(<<>>, m) = <<m>>
    OBVIOUS
  <2>5. toServer'[p] = <<PartieRequest>>
    BY <1>6, <2>1, <2>4
  <2>6. Asking(p)'
    BY <1>4, <1>5, <2>1, <2>5 DEF Asking
  <2>7. Position(p)'
    BY <1>4, <2>1, <2>6 DEF Position
  <2> QED
    BY <1>1, <1>3, <1>6, <2>3, <2>7, MovedMatch DEF MatchInv
<1>8. CASE spc = "exit"
  <2>1. ServerInv'
    BY <1>1, <1>2, <1>8, LateSendInv DEF MatchInv
  <2>2. Position(p)'
    BY <1>4, <1>8 DEF Position
  <2> QED
    BY <1>1, <1>3, <1>6, <2>1, <2>2, MovedMatch DEF MatchInv
<1> QED
  BY <1>7, <1>8

(* A client sends its AI's move.                                           *)
LEMMA SendCoupMatch ==
  ASSUME MatchInv, NEW p \in Players, SendCoup(p), UNCHANGED serverVars
  PROVE  MatchInv'
<1> DEFINE m == convertAItoServer(client[p])
<1>1. /\ client[p].loc = "askAI" /\ client' = [client EXCEPT ![p].loc = "coupRep"]
      /\ SendToServer(p, m) /\ UNCHANGED <<toClient, link, serverUp>>
  BY DEF SendCoup
<1>2. /\ ClientsActive'
      /\ UpToDate(p) = client[p] /\ client[p] \in Active /\ client[p].nbPartie \in 1..2
      /\ UpToDate(p)' = [UpToDate(p) EXCEPT !.loc = "coupRep"]
      /\ InStep(p)'
      /\ \A q \in Players : q # p => UpToDate(q)' = UpToDate(q) /\ (InStep(q) => InStep(q)')
  BY <1>1, LocView, MatchTypes DEF MatchInv
<1>3. m \in TCoupReq
  BY <1>2 DEF convertAItoServer, TCoupReq, Active, Clients
<1>4. /\ UNCHANGED <<spc, serving, game, moveRep, requests>>
      /\ (Awaited(p)' <=> Awaited(p))
  BY DEF serverVars, Awaited
<1>5. /\ UpToDate(p)'.loc = "coupRep" /\ UpToDate(p)'.nbPartie = UpToDate(p).nbPartie
      /\ UpToDate(p)'.sens = UpToDate(p).sens
  BY <1>2 DEF Active, Clients
<1>6. convertAItoServer(UpToDate(p)') = m
  BY <1>2, <1>5 DEF convertAItoServer
<1>7. /\ toServer'[p] = Append(toServer[p], m)
      /\ \A q \in Players : q # p => toServer'[q] = toServer[q]
  BY <1>1, MatchTypes DEF SendToServer
<1> HIDE DEF m
<1>8. CASE spc # "exit"
  <2>1. /\ ~Awaited(p) /\ toServer[p] = <<>>
        /\ \/ spc = "sendAnswers" /\ p = 1 /\ serving = 2 /\ UpToDate(p).nbPartie = 1
           \/ spc = "recvMove" /\ p = serving /\ UpToDate(p).nbPartie = game.gameNumber
           \/ /\ \/ spc = "endOfGame"
                 \/ spc = "sendToOther" /\ p = serving /\ moveRep.propCoup # "CONT"
              /\ game.gameNumber # 2 /\ UpToDate(p).nbPartie = 2
              /\ UpToDate(p).sens = "NORD"
    BY <1>1, <1>2, <1>8, AtWorkHasTurn
  <2>2. ServerInv'
    BY <1>1, <1>3, <2>1, ClientSendInv DEF MatchInv, Started
  <2>3. \A x : Append(<<>>, x) = <<x>>
    OBVIOUS
  <2>4. toServer'[p] = <<convertAItoServer(UpToDate(p)')>>
    BY <1>6, <1>7, <2>1, <2>3
  <2>5. \A g : UpToDate(p).nbPartie = g => HasTurn(p, g)'
    BY <1>5, <2>4 DEF HasTurn
  <2>6. requests[p] = requests'[p] /\ (spc = "sendAnswers" => requests[p] = PartieRequest)
    BY <1>4 DEF MatchInv, Position
  <2>7. Position(p)'
    <3>1. CASE spc = "sendAnswers"
      BY <1>4, <2>1, <2>5, <2>6, <3>1 DEF Position
    <3>2. CASE spc = "recvMove"
      <4>1. HasTurn(p, game.gameNumber)'
        BY <1>4, <1>5, <2>1, <2>4, <3>2 DEF HasTurn
      <4> QED
        BY <1>4, <2>1, <3>2, <4>1 DEF Position
    <3>3. CASE spc \in {"endOfGame", "sendToOther"}
      <4>1. Finished(p, game.gameNumber)'
        BY <1>4, <1>5, <2>1, <2>4, <3>3 DEF Finished, HasTurn
      <4> QED
        BY <1>4, <2>1, <3>3, <4>1 DEF Position
    <3> QED
      BY <2>1, <3>1, <3>2, <3>3
  <2> QED
    BY <1>1, <1>2, <1>7, <2>2, <2>7, MovedMatch DEF MatchInv
<1>9. CASE spc = "exit"
  <2>1. ServerInv'
    BY <1>1, <1>3, <1>9, LateSendInv DEF MatchInv
  <2>2. Position(p)'
    BY <1>4, <1>9 DEF Position
  <2> QED
    BY <1>1, <1>2, <1>7, <2>1, <2>2, MovedMatch DEF MatchInv
<1> QED
  BY <1>8, <1>9

-----------------------------------------------------------------------------
(* The invariant holds before anybody has connected.                       *)
LEMMA MatchInitInv == Init => MatchInv
<1> SUFFICES ASSUME Init PROVE MatchInv
  OBVIOUS
<1>1. ServerInv
  BY ServerInitInv DEF Init
<1>2. ClientsActive
  <2>1. [loc |-> "connect", sens |-> "SUD", nbPartie |-> 1,
         win |-> [n \in 1..2 |-> FALSE]] \in Active
    BY DEF Active, Clients, TSensTetePiece
  <2> QED
    BY <2>1 DEF Init, ClientInit, ClientsActive
<1>3. ASSUME NEW p \in Players
      PROVE  InStep(p) /\ Position(p) /\ Side(p) /\ Points(p) /\ \A n \in 1..2 : ~UpToDate(p).win[n]
  <2>1. toClient[p] = <<>> /\ toServer[p] = <<>>
    BY DEF Init, NetInit
  <2>2. UpToDate(p) = client[p]
    BY <2>1, DrainedNothing DEF UpToDate
  <2>3. /\ UpToDate(p).loc = "connect" /\ UpToDate(p).nbPartie = 1
        /\ ~UpToDate(p).win[1] /\ ~UpToDate(p).win[2]
    BY <2>2 DEF Init, ClientInit
  <2>4. Len(toClient[p]) = 0
    BY <2>1
  <2>5. InStep(p)
    BY <2>3, <2>4 DEF InStep, Lag
  <2>6. spc = "accept" /\ game.score[p] = 0
    BY DEF Init, ServerInit
  <2>7. Position(p)
    BY <2>1, <2>3, <2>6 DEF Position, Asking, Awaited
  <2>8. Side(p) /\ Points(p)
    BY <2>3, <2>6 DEF Side, Setup, Answered, Points, Wins
  <2> QED
    BY <2>3, <2>5, <2>7, <2>8
<1>4. OneWins
  BY <1>3 DEF OneWins, Players
<1>5. EndInv
  BY DEF Init, ServerInit, EndInv
<1> QED
  BY <1>1, <1>2, <1>3, <1>4, <1>5 DEF MatchInv

(* Every step keeps the invariant.                                         *)
LEMMA MatchStepInv ==
  ASSUME MatchInv, [Next]_vars
  PROVE  MatchInv'
<1>1. CASE ServerStep
  BY <1>1, ServerStepMatch
<1>2. ASSUME NEW p \in Players, ClientNext(p) PROVE MatchInv'
  <2>1. UNCHANGED serverVars
    BY <1>2 DEF ClientNext
  <2>2. CASE ConnectToServer(p) \/ SendPartie(p) \/ SendCoup(p)
    BY <2>1, <2>2, ConnectMatch, SendPartieMatch, SendCoupMatch
  <2>3. CASE Receive(p)
    <3>1. /\ ClientsActive' /\ NetTypeOK'
          /\ \A q \in Players : UpToDate(q)' = UpToDate(q) /\ InStep(q)'
      BY <2>3, ReceiveView, MatchTypes DEF MatchInv
    <3> QED
      BY <2>1, <2>3, <3>1, QuietMatch DEF Receive
  <2>4. CASE LoseServer(p) \/ Crash(p)
    <3>1. /\ UNCHANGED <<client, toServer, toClient, serverUp>>
          /\ link' = [link EXCEPT ![p] = "down"]
      BY <2>4 DEF LoseServer, Crash
    <3>2. link' \in [Players -> {"absent", "up", "down"}]
      BY <3>1, MatchTypes DEF NetTypeOK
    <3> QED
      BY <2>1, <3>1, <3>2, LinkMatch
  <2> QED
    BY <1>2, <2>2, <2>3, <2>4 DEF ClientNext, ClientStep
<1>3. CASE UNCHANGED vars
  <2>1. UNCHANGED <<serverVars, serverUp, toServer, toClient, client, link>>
    BY <1>3 DEF vars, netVars
  <2>2. link' \in [Players -> {"absent", "up", "down"}]
    BY <2>1, MatchTypes DEF NetTypeOK
  <2> QED
    BY <2>1, <2>2, LinkMatch
<1> QED
  BY <1>1, <1>2, <1>3 DEF Next, Terminated

(* The invariant holds in every reachable state of a match.                *)
THEOREM MatchInvariance == Spec => []MatchInv
<1>1. Init => MatchInv
  BY MatchInitInv
<1>2. MatchInv /\ [Next]_vars => MatchInv'
  BY MatchStepInv
<1> QED
  BY <1>1, <1>2, PTL DEF Spec

(* Types.                                                                  *)
THEOREM MatchTypeCorrect == Spec => []TypeOK
<1>1. MatchInv => TypeOK
  BY DEF MatchInv, ServerInv, TypesOK, TypeOK, ClientsActive, Active, ClientTypeOK
<1> QED
  BY <1>1, MatchInvariance, PTL

(* A client that has come as far as "done", or is waiting for its AI, has  *)
(* nothing to read.                                                        *)
LEMMA ClientIsUpToDate ==
  ASSUME MatchInv, NEW p \in Players
  PROVE  /\ client[p].loc # "garbled"
         /\ client[p].loc \in {"done", "askAI"} => UpToDate(p) = client[p]
         /\ \A n \in 1..2 : client[p].win[n] => UpToDate(p).win[n]
<1>1. /\ InStep(p)
      /\ \/ toClient[p] = <<>> /\ UpToDate(p) = client[p]
         \/ Follows(client[p], UpToDate(p))
  BY ViewType, MatchTypes DEF MatchInv, InStep
<1> QED
  BY <1>1 DEF InStep, Follows, Reading

(* The client's recv calls never get out of step with the server's sends:  *)
(* a structure is always read as what it was sent as.                      *)
THEOREM ClientsNeverGarbled == Spec => []NeverGarbled
<1>1. MatchInv => NeverGarbled
  BY ClientIsUpToDate DEF NeverGarbled
<1> QED
  BY <1>1, MatchInvariance, PTL

(* A move the server reads is one of the game being played, from the side  *)
(* the referee expects.                                                    *)
THEOREM MovesAdmissible == Spec => []MoveAdmissible
<1>1. MatchInv => MoveAdmissible
  <2> SUFFICES ASSUME MatchInv, spc = "recvMove", toServer[serving] # <<>>,
                      NEW m, m = Head(toServer[serving])
               PROVE  /\ m.kind = "CoupReq" /\ m.numPartie = game.gameNumber
                      /\ m.sens = Facing(referee, Joueur)
    BY DEF MoveAdmissible
  <2>1. PICK p \in Players : p = serving
    BY MatchTypes
  <2>2. HasTurn(p, game.gameNumber) /\ Side(p)
    BY <2>1 DEF MatchInv, Position
  <2>3. toServer[p] = <<convertAItoServer(UpToDate(p))>>
    BY <2>1, <2>2 DEF HasTurn
  <2>4. \A x : Head(<<x>>) = x
    OBVIOUS
  <2>5. m = convertAItoServer(UpToDate(p))
    BY <2>1, <2>3, <2>4
  <2>6. /\ UpToDate(p).sens = (IF p = 1 THEN "SUD" ELSE "NORD")
        /\ player1Sud
    BY <2>2 DEF Side, Setup, Answered
  <2>7. player1Sud \in BOOLEAN
    BY DEF MatchInv, ServerInv, TypesOK, ServerTypeOK
  <2>8. Facing(referee, Joueur) = (IF player1Sud = (serving = 1) THEN "SUD" ELSE "NORD")
    BY InvSides DEF MatchInv, SameSides
  <2>9. Facing(referee, Joueur) = UpToDate(p).sens
    BY <2>1, <2>6, <2>7, <2>8
  <2> QED
    BY <2>2, <2>5, <2>9 DEF convertAItoServer, HasTurn
<1> QED
  BY <1>1, MatchInvariance, PTL

(* Server and clients never wait for each other: the server waits for a    *)
(* client that has moved or is to be asked for a move.                     *)
THEOREM ServerWaitsForTheMover == Spec => []WaitsForTheMover
<1>1. MatchInv => WaitsForTheMover
  <2> SUFFICES ASSUME MatchInv, spc = "recvMove", toServer[serving] = <<>>
               PROVE  UpToDate(serving).loc = "askAI"
    BY DEF WaitsForTheMover
  <2>1. PICK p \in Players : p = serving
    BY MatchTypes
  <2>2. HasTurn(p, game.gameNumber) /\ toServer[p] = <<>>
    BY <2>1 DEF MatchInv, Position
  <2>3. \A x : <<x>> # <<>>
    OBVIOUS
  <2> QED
    BY <2>1, <2>2, <2>3 DEF HasTurn
<1> QED
  BY <1>1, MatchInvariance, PTL

(* At most one AI is at work.                                              *)
THEOREM OneAIAtWork == Spec => []OneAtWork
<1>1. MatchInv => OneAtWork
  BY NotBothAtWork, ClientIsUpToDate DEF OneAtWork
<1> QED
  BY <1>1, MatchInvariance, PTL

(* The clients never both count a game as won.                             *)
THEOREM GamesHaveOneWinner == Spec => []OneWinnerPerGame
<1>1. MatchInv => OneWinnerPerGame
  BY ClientIsUpToDate DEF MatchInv, OneWins, OneWinnerPerGame
<1> QED
  BY <1>1, MatchInvariance, PTL

(* A client that has played both games has the score the server announced. *)
THEOREM ScoresAgree == Spec => []SameScore
<1>1. MatchInv => SameScore
  BY ClientIsUpToDate DEF MatchInv, EndInv, SameScore
<1> QED
  BY <1>1, MatchInvariance, PTL

(* A client that has played both games and left is never blamed for it.    *)
THEOREM FinishedNeverBlamed == Spec => []FinishedNotBlamed
<1>1. MatchInv => FinishedNotBlamed
  <2> SUFFICES ASSUME MatchInv, NEW p \in Players, client[p].loc = "done"
               PROVE  result.forfeit # p
    BY DEF FinishedNotBlamed
  <2>1. CASE spc = "exit"
    BY <2>1, ClientIsUpToDate DEF MatchInv, EndInv
  <2>2. CASE spc # "exit"
    BY <2>2 DEF MatchInv, ServerInv, ResultInv, Players
  <2> QED
    BY <2>1, <2>2
<1> QED
  BY <1>1, MatchInvariance, PTL


-----------------------------------------------------------------------------
(* What a client may still do is a number, and goes with its stream, where *)
(* it is and its end of the connection.                                    *)
LocLeft(c) ==
  CASE c.loc = "connect" -> 2
    [] c.loc \in {"sendPartie", "askAI"} -> 1
    [] OTHER -> 0

LinkLeft(l) == IF l = "down" THEN 0 ELSE 1

Left(q, c, l) == 2 * Len(q) + LocLeft(c) + LinkLeft(l)

(* StepsLeft as a sum over what the two clients have.                      *)
LEMMA StepsLeftIs ==
  /\ StepsLeft = 3 * CallsLeft + Left(toClient[1], client[1], link[1])
                               + Left(toClient[2], client[2], link[2])
  /\ StepsLeft' = 3 * CallsLeft' + Left(toClient'[1], client'[1], link'[1])
                                 + Left(toClient'[2], client'[2], link'[2])
<1>1. \A p : /\ ClientStepsLeft(p) = Left(toClient[p], client[p], link[p])
             /\ ClientStepsLeft(p)' = Left(toClient'[p], client'[p], link'[p])
  BY DEF ClientStepsLeft, Left, LocLeft, LinkLeft
<1> QED
  BY <1>1 DEF StepsLeft

(* Each of its terms is a number.                                          *)
LEMMA LeftFacts ==
  ASSUME NEW q \in Seq(ToClients), NEW c, NEW l
  PROVE  /\ Len(q) \in Nat /\ LocLeft(c) \in 0..2 /\ LinkLeft(l) \in 0..1
         /\ Left(q, c, l) \in Nat
<1>1. Len(q) \in Nat
  BY LenProperties
<1>2. LocLeft(c) \in 0..2 /\ LinkLeft(l) \in 0..1
  BY DEF LocLeft, LinkLeft
<1> QED
  BY <1>1, <1>2 DEF Left

(* The sends of the server.                                                *)
LEMMA ServerSendsOne ==
  ASSUME ServerInv, ServerNext
  PROVE  /\ UNCHANGED link
         /\ \/ UNCHANGED toClient
            \/ \E p \in Players : \E m : SendToClient(p, m)
<1>0. serving \in Players /\ Other(serving) \in Players /\ 1 \in Players /\ 2 \in Players
  BY DEF ServerInv, TypesOK, ServerTypeOK, Players, Other
<1>1. CASE SendFirstAnswer \/ SendSecondAnswer \/ RefuseMatch
  BY <1>0, <1>1 DEF SendFirstAnswer, SendSecondAnswer, RefuseMatch
<1>2. CASE SendToMover \/ SendToOther \/ SendMove
  BY <1>0, <1>2 DEF SendToMover, SendToOther, SendMove
<1>3. CASE Accept \/ RecvPartie \/ RecvMove \/ NextGame \/ LastGame \/ KilledBySigpipe
  BY <1>3 DEF Accept, RecvPartie, RecvMove, NextGame, LastGame, KilledBySigpipe, netVars
<1>4. CASE RecvError \/ SendError
  BY <1>4 DEF RecvError, SendError, Forfeit
<1> QED
  BY <1>1, <1>2, <1>3, <1>4 DEF ServerNext

(* A step of the server costs it a call and gives one client at most one   *)
(* structure to read.                                                      *)
LEMMA ServerStepLeft ==
  ASSUME ServerInv, TypeOK, TypeOK', ServerStep
  PROVE  StepsLeft' \in 0..(StepsLeft - 1)
<1>1. CallsLeft \in Nat /\ CallsLeft' \in 0..(CallsLeft - 1)
  BY ServerStepRuns DEF ServerStep
<1> DEFINE a == Left(toClient[1], client[1], link[1])
           b == Left(toClient[2], client[2], link[2])
           a1 == Left(toClient'[1], client'[1], link'[1])
           b1 == Left(toClient'[2], client'[2], link'[2])
<1>2. /\ client' = client /\ link' = link
      /\ \A p \in Players : toClient[p] \in Seq(ToClients) /\ toClient'[p] \in Seq(ToClients)
      /\ DOMAIN toClient = Players
  BY ServerSendsOne DEF ServerStep, TypeOK, NetTypeOK, ToClients
<1>3. \/ a1 = a /\ b1 = b
      \/ a1 = a + 2 /\ b1 = b
      \/ a1 = a /\ b1 = b + 2
  <2>1. CASE UNCHANGED toClient
    BY <1>2, <2>1
  <2>2. ASSUME NEW p \in Players, NEW m, SendToClient(p, m)
        PROVE  /\ Left(toClient'[p], client'[p], link'[p]) = Left(toClient[p], client[p], link[p]) + 2
               /\ \A q \in Players \ {p} : toClient'[q] = toClient[q]
    <3>1. /\ toClient'[p] = Append(toClient[p], m)
          /\ \A q \in Players \ {p} : toClient'[q] = toClient[q]
      BY <1>2, <2>2 DEF SendToClient
    <3>2. Left(toClient'[p], client[p], link[p]) = Left(toClient[p], client[p], link[p]) + 2
      <4>1. PICK q \in Seq(ToClients) : q = toClient[p]
        BY <1>2
      <4>2. toClient'[p] = Append(q, m)
        BY <3>1, <4>1
      <4>3. toClient'[p] \in Seq(ToClients)
        BY <1>2
      <4>4. Len(Append(q, m)) = Len(q) + 1
        OBVIOUS
      <4>5. /\ Len(q) \in Nat /\ LocLeft(client[p]) \in 0..2 /\ LinkLeft(link[p]) \in 0..1
        BY LeftFacts
      <4> QED
        BY <4>1, <4>2, <4>4, <4>5 DEF Left
    <3> QED
      BY <1>2, <3>1, <3>2
  <2>3. CASE \E p \in Players : \E m : SendToClient(p, m)
    BY <1>2, <2>2, <2>3 DEF Players
  <2> QED
    BY <2>1, <2>3, ServerSendsOne DEF ServerStep
<1>4. a \in Nat /\ b \in Nat /\ a1 \in Nat /\ b1 \in Nat
  BY <1>2, LeftFacts DEF Players
<1>5. StepsLeft = 3 * CallsLeft + a + b /\ StepsLeft' = 3 * CallsLeft' + a1 + b1
  BY StepsLeftIs
<1> HIDE DEF a, b, a1, b1
<1>6. PICK k \in Nat : k = CallsLeft
  BY <1>1
<1>7. PICK k1 \in 0..(k - 1) : k1 = CallsLeft'
  BY <1>1, <1>6
<1>8. 3 * k1 + a1 + b1 \in 0..(3 * k + a + b - 1)
  BY ONLY <1>3, <1>4, k \in Nat, k1 \in 0..(k - 1)
<1>9. StepsLeft = 3 * k + a + b /\ StepsLeft' = 3 * k1 + a1 + b1
  BY <1>5, <1>6, <1>7
<1> QED
  BY ONLY <1>4, <1>8, <1>9, k \in Nat, k1 \in 0..(k - 1)

(* Nothing that a client reads makes it connect again.                     *)
LEMMA ReadNoConnect ==
  ASSUME NEW c \in Clients, c.nbPartie = 3 => c.loc \notin Reading, NEW m \in ToClients
  PROVE  Handle(c, m).loc # "connect"
<1>1. CASE \/ c.loc = "coupRep" /\ m.kind = "CoupRep" /\ m.propCoup # "CONT"
           \/ c.loc = "enemyRep" /\ m.kind = "CoupRep" /\ m.propCoup # "CONT"
  <2>1. c.nbPartie \in 1..2
    BY <1>1 DEF Clients, Reading
  <2>2. PICK won \in BOOLEAN : Handle(c, m) = GameOver(c, won)
    BY <1>1 DEF Handle, OwnMoveJudged, EnemyMoveJudged
  <2> QED
    BY <2>1, <2>2, GameOverFacts
<1>2. CASE /\ ~(c.loc = "coupRep" /\ m.kind = "CoupRep" /\ m.propCoup # "CONT")
           /\ ~(c.loc = "enemyRep" /\ m.kind = "CoupRep" /\ m.propCoup # "CONT")
  BY <1>2 DEF Handle, Orientation, OwnMoveJudged, EnemyMoveJudged, Clients
<1> QED
  BY <1>1, <1>2

(* A client that reads a structure has two steps less to make, and at most *)
(* one more, the call that sends its AI's move.                            *)
LEMMA ReadLeft ==
  ASSUME NEW q \in Seq(ToClients), q # <<>>, NEW c, NEW d, NEW l, NEW k,
         c.loc \in Reading, d.loc # "connect", l = "up"
  PROVE  Left(Tail(q), d, k) < Left(q, c, l)
<1>1. Len(Tail(q)) = Len(q) - 1 /\ Tail(q) \in Seq(ToClients) /\ Len(q) \in Nat
  BY HeadTailProperties, EmptySeq, LenProperties
<1>2. LocLeft(c) = 0 /\ LinkLeft(l) = 1
  BY DEF LocLeft, LinkLeft, Reading
<1>3. LocLeft(d) \in 0..1 /\ LinkLeft(k) \in 0..1
  BY DEF LocLeft, LinkLeft
<1> QED
  BY <1>1, <1>2, <1>3 DEF Left

(* Each step of a client takes something off what it may still do.         *)
LEMMA ClientStepLess ==
  ASSUME MatchInv, NEW p \in Players, ClientNext(p)
  PROVE  /\ Left(toClient'[p], client'[p], link'[p]) < Left(toClient[p], client[p], link[p])
         /\ \A q \in Players \ {p} :
              toClient'[q] = toClient[q] /\ client'[q] = client[q] /\ link'[q] = link[q]
<1>1. /\ toClient[p] \in Seq(ToClients) /\ client[p] \in Active
      /\ DOMAIN toClient = Players /\ DOMAIN client = Players /\ DOMAIN link = Players
  BY MatchTypes DEF ClientsActive, NetTypeOK, ToClients
<1>2. CASE ConnectToServer(p)
  <2>1. /\ client[p].loc = "connect" /\ client' = [client EXCEPT ![p].loc = "sendPartie"]
        /\ link[p] = "absent" /\ link' = [link EXCEPT ![p] = "up"] /\ UNCHANGED toClient
    BY <1>2 DEF ConnectToServer, Connect
  <2>2. client'[p].loc = "sendPartie"
    BY <1>1, <2>1 DEF Active, Clients
  <2>3. LocLeft(client[p]) = 2 /\ LocLeft(client'[p]) = 1 /\ LinkLeft(link'[p]) = 1 /\ LinkLeft(link[p]) = 1
    BY <1>1, <2>1, <2>2 DEF LocLeft, LinkLeft
  <2> QED
    BY <1>1, <2>1, <2>3, LeftFacts DEF Left
<1>3. CASE SendPartie(p) \/ SendCoup(p)
  <2>1. /\ client[p].loc \in {"sendPartie", "askAI"} /\ UNCHANGED <<toClient, link>>
        /\ \E loc \in Reading : client' = [client EXCEPT ![p].loc = loc]
    BY <1>3 DEF SendPartie, SendCoup, Reading
  <2>2. client'[p].loc \in Reading
    BY <1>1, <2>1 DEF Active, Clients
  <2>3. LocLeft(client[p]) = 1 /\ LocLeft(client'[p]) = 0
    BY <2>1, <2>2 DEF LocLeft, Reading
  <2> QED
    BY <1>1, <2>1, <2>3, LeftFacts DEF Left
<1>4. CASE Receive(p)
  <2>1. /\ link[p] = "up" /\ client[p].loc \in Reading /\ toClient[p] # <<>>
        /\ client' = [client EXCEPT ![p] = Handle(client[p], Head(toClient[p]))]
        /\ toClient' = [toClient EXCEPT ![p] = Tail(toClient[p])]
        /\ \E k : link' = [link EXCEPT ![p] = k]
    BY <1>4 DEF Receive
  <2>2. Head(toClient[p]) \in ToClients
    BY <1>1, <2>1, HeadTailProperties, EmptySeq
  <2>3. client'[p].loc # "connect"
    BY <1>1, <2>1, <2>2, ReadNoConnect DEF Active, Reading
  <2>4. Left(Tail(toClient[p]), client'[p], link'[p]) < Left(toClient[p], client[p], link[p])
    BY <1>1, <2>1, <2>3, ReadLeft
  <2> QED
    BY <1>1, <2>1, <2>4
<1>5. CASE LoseServer(p) \/ Crash(p)
  <2>1. /\ link[p] = "up" /\ link' = [link EXCEPT ![p] = "down"] /\ UNCHANGED <<toClient, client>>
    BY <1>5 DEF LoseServer, Crash
  <2>2. LinkLeft(link[p]) = 1 /\ LinkLeft(link'[p]) = 0
    BY <1>1, <2>1 DEF LinkLeft
  <2> QED
    BY <1>1, <2>1, <2>2, LeftFacts DEF Left
<1> QED
  BY <1>2, <1>3, <1>4, <1>5 DEF ClientNext, ClientStep

(* A step of a client leaves the server and the other client where they    *)
(* were.                                                                   *)
LEMMA ClientStepLeft ==
  ASSUME MatchInv, MatchInv', NEW p \in Players, ClientNext(p)
  PROVE  StepsLeft' \in 0..(StepsLeft - 1)
<1>1. CallsLeft \in Nat /\ CallsLeft' = CallsLeft
  <2>1. CallsLeft \in Nat
    BY CallsLeftFacts DEF MatchInv, CallsFacts
  <2>2. UNCHANGED <<spc, serving, game, referee>>
    BY DEF ClientNext, serverVars
  <2> QED
    BY <2>1, <2>2 DEF CallsLeft, MovesJudged
<1> DEFINE a == Left(toClient[1], client[1], link[1])
           b == Left(toClient[2], client[2], link[2])
           a1 == Left(toClient'[1], client'[1], link'[1])
           b1 == Left(toClient'[2], client'[2], link'[2])
<1>2. \A q \in Players : toClient[q] \in Seq(ToClients) /\ toClient'[q] \in Seq(ToClients)
  <2>1. NetTypeOK /\ NetTypeOK'
    BY DEF MatchInv, ServerInv, TypesOK
  <2> QED
    BY <2>1 DEF NetTypeOK, ToClients
<1>3. a \in Nat /\ b \in Nat /\ a1 \in Nat /\ b1 \in Nat
  BY <1>2, LeftFacts DEF Players
<1>4. (a1 < a /\ b1 = b) \/ (a1 = a /\ b1 < b)
  BY ClientStepLess DEF Players
<1>5. StepsLeft = 3 * CallsLeft + a + b /\ StepsLeft' = 3 * CallsLeft' + a1 + b1
  BY StepsLeftIs
<1>6. \A c \in Nat, x \in Nat, x1 \in Nat, y \in Nat, y1 \in Nat :
        (x1 < x /\ y1 = y) \/ (x1 = x /\ y1 < y) =>
          3 * c + x1 + y1 \in 0..(3 * c + x + y - 1)
  OBVIOUS
<1> HIDE DEF a, b, a1, b1
<1>7. 3 * CallsLeft' + a1 + b1 \in 0..(3 * CallsLeft + a + b - 1)
  BY ONLY <1>1, <1>3, <1>4, <1>6, Zenon
<1> QED
  BY ONLY <1>1, <1>3, <1>5, <1>7

(* Each step of the server, of a client, or of the two that crash, uses up *)
(* one of a number of steps that depends on NB_COUP_MAX alone: no history  *)
(* of verdicts, late reads, timeouts and crashes makes them go round in    *)
(* circles.                                                                *)
THEOREM StepsOfAMatchRunOut == Spec => StepsRunOut
<1>1. MatchInv => TypeOK
  BY DEF MatchInv, ServerInv, TypesOK, TypeOK, ClientsActive, Active, ClientTypeOK
<1>2. /\ MatchInv /\ TypeOK /\ MatchInv' /\ TypeOK'
      /\ [Next]_vars
      => [StepsLeft' \in 0..(StepsLeft - 1)]_vars
  <2> SUFFICES ASSUME MatchInv, TypeOK, MatchInv', TypeOK', Next, ~UNCHANGED vars
               PROVE  StepsLeft' \in 0..(StepsLeft - 1)
    OBVIOUS
  <2>1. CASE ServerStep
    BY <2>1, ServerStepLeft DEF MatchInv
  <2>2. CASE \E p \in Players : ClientNext(p)
    BY <2>2, ClientStepLeft
  <2> QED
    BY <2>1, <2>2 DEF Next, Terminated
<1> QED
  BY <1>1, <1>2, MatchInvariance, PTL DEF Spec, StepsRunOut

-----------------------------------------------------------------------------
(* The match of the repository's own programs is a match of TwoGames: its  *)
(* result is announced after two games, or for the opponent of whoever is  *)
(* blamed, and nobody's points are ever taken back.                        *)
THEOREM MatchImplementsTwoGames == Spec => ImplementsTwoGames
<1>1. Init => Abstract!TGInit
  BY RefineInit DEF Init
<1>2. MatchInv /\ [Next]_vars => [Abstract!TGNext]_(Abstract!tgVars)
  <2> SUFFICES ASSUME MatchInv, [Next]_vars
               PROVE  Abstract!TGNext
    OBVIOUS
  <2>1. CASE ServerStep
    BY <2>1, RefineServerStep DEF ServerStep, MatchInv
  <2>2. CASE UNCHANGED serverVars
    BY <2>2, RefineClientStep
  <2> QED
    BY <2>1, <2>2 DEF Next, ClientNext, Terminated, vars
<1> QED
  BY <1>1, <1>2, MatchInvariance, PTL DEF Spec, ImplementsTwoGames, Abstract!TGSpec
=============================================================================
