---------------------------- MODULE LienIAProofs ----------------------------
(***************************************************************************)
(* Between a client and its AI no word is misread and no move is stale,    *)
(* for every value of the constants, as long as the opponent displaces: a  *)
(* drop, or what a client sends for a move once its AI has died, puts the  *)
(* words of the other side out of step, and only those.                    *)
(*                                                                         *)
(* The AI lags behind its client as the client lags behind the server.     *)
(* The invariant has two parts, tied by a number: k, how many moves of its *)
(* game the client knows of.  InTouch says what of these the AI has still  *)
(* to read, Counts how many of the moves the referee has judged the client *)
(* has still to read.                                                      *)
(***************************************************************************)
EXTENDS MatchIAProofs

(* The words of a displacement, and of the end of a game.                  *)
Move == TCoupIa(0, DEPLACER)

End == TCoupIa(1, Data)

Words == Seq({0, 1, Data})

(* The program points of a client that has not got its orientation.        *)
Starting == {"connect", "sendPartie", "partieRep"}

(* AI a, with the words q to read, will be waiting in game g with k moves  *)
(* on its board and the words s to read.                                   *)
Behind(a, q, g, k, s) ==
  \/ a.loc = "read" /\ a.nbPartie = g /\ a.coups = k /\ q = s
  \/ g = 1 /\ k = 0 /\ a.loc = "readSens" /\ q = <<0>> \o s
  \/ g = 2 /\ k = 0 /\ a.loc = "read" /\ a.nbPartie = 1 /\ a.sens /\ q = End \o s
  \/ g = 2 /\ k = 0 /\ a.loc = "skip" /\ a.nbPartie = 2 /\ a.sens
     /\ q = Tail(End) \o s

(* It will be thinking of the first move of game g.                        *)
ToOpen(a, q, g) ==
  \/ g = 1 /\ a.loc = "readSens" /\ q = <<1>>
  \/ g = 2 /\ a.loc = "readSens" /\ q = <<0>> \o End
  \/ g = 2 /\ a.loc = "read" /\ a.nbPartie = 1 /\ ~a.sens /\ q = End
  \/ g = 2 /\ a.loc = "skip" /\ a.nbPartie = 2 /\ ~a.sens /\ q = Tail(End)

(* Its client asks it for a move after k others, and it thinks of it, has  *)
(* chosen it or will think of it.                                          *)
ToMove(a, q, f, g, k) ==
  \/ /\ a.loc = "think" /\ a.nbPartie = g /\ a.coups = k
     /\ q = <<>> /\ f = <<>>
  \/ /\ a.loc = "read" /\ a.nbPartie = g /\ a.coups = k + 1
     /\ q = <<>> /\ f = <<[partie |-> g, coups |-> k]>>
  \/ f = <<>> /\ k > 0 /\ Behind(a, q, g, k - 1, Move)
  \/ f = <<>> /\ k = 0 /\ ToOpen(a, q, g)

(* It has skipped the first move of the second game.                       *)
Starved(a, q, f, g, k) ==
  /\ a.loc = "read" /\ a.nbPartie = 2 /\ a.coups = 0 /\ a.sens
  /\ q = <<>> /\ f = <<>> /\ g = 2 /\ k = 1

(* A client in state c that knows of k moves, and its AI.                  *)
Together(c, a, q, f, l, k) ==
  /\ a.loc = "readSens" =>
       /\ a.nbPartie = 1 /\ a.coups = 0
       /\ q # <<>> => Head(q) = (IF c.sens = "SUD" THEN 1 ELSE 0)
  /\ a.loc # "readSens" => (a.sens <=> c.sens = "SUD")
  /\ c.loc \in Starting => a.loc = "readSens" /\ q = <<>> /\ f = <<>>
  /\ c.loc \in {"coupRep", "enemyRep", "enemyMove"} =>
       f = <<>> /\ Behind(a, q, c.nbPartie, k, <<>>)
  /\ c.loc = "askAI" =>
       \/ ToMove(a, q, f, c.nbPartie, k)
       \/ Starved(a, q, f, c.nbPartie, k)
       \/ /\ l = "down" /\ f = <<>>
          /\ a.loc = "read" /\ a.nbPartie = c.nbPartie /\ q = <<>>
  /\ c.loc = "done" =>
       /\ l = "down" /\ f = <<>>
       /\ \/ a.loc = "read" /\ a.nbPartie = 2 /\ q \in {<<>>, End}
          \/ Behind(a, q, 2, 0, End)

(* An AI that has gone was never of this code, has died, or has lost its   *)
(* client; own says that it was of this code and has not died.             *)
Apart(own, c, q, f, l, k) ==
  /\ own => l = "down"
  /\ q = <<>>
  /\ f = <<>> \/ (c.loc = "askAI" /\ f = <<[partie |-> c.nbPartie, coups |-> k]>>)

InTouch(own, c, a, q, f, l, k) ==
  /\ ~own => a.loc \in {"off", "dead"}
  /\ c.loc \in Starting => k = 0 /\ c.nbPartie = 1
  /\ IF a.loc \in {"off", "dead"} THEN Apart(own, c, q, f, l, k)
     ELSE Together(c, a, q, f, l, k)

Living == {p \in Own : ai[p].loc # "dead"}

Knows(p, k) ==
  InTouch(p \in Living, client[p], ai[p], toAI[p], fromAI[p], link[p], k)

-----------------------------------------------------------------------------
(* The moves of its game that a client in state c, which knows of k, knows *)
(* of once it has read m, and once it has read the whole stream q.         *)
NextCount(c, k, m) ==
  IF Handle(c, m).nbPartie # c.nbPartie THEN 0
  ELSE IF c.loc = "enemyMove" THEN k + 1 ELSE k

CountOf(c, k, q) ==
  LET c1 == Handle(c, q[1])
      c2 == Handle(c1, q[2])
      c3 == Handle(c2, q[3])
      k1 == NextCount(c, k, q[1])
      k2 == NextCount(c1, k1, q[2])
      k3 == NextCount(c2, k2, q[3])
  IN CASE Len(q) = 0 -> k
       [] Len(q) = 1 -> k1
       [] Len(q) = 2 -> k2
       [] Len(q) = 3 -> k3
       [] OTHER -> NextCount(c3, k3, q[4])

Count(p, k) == CountOf(client[p], k, toClient[p])

(* The moves of p's game that are judged and sent to p, or about to be.    *)
Answering == {"sendToMover", "sendToOther", "sendMove"}

Judged(p) == IF spc \in Answering /\ p # serving /\ moveRep.propCoup = "CONT"
             THEN Played - 1 ELSE Played

(* A move of p that the server has not read.                               *)
Sent(p) == IF UpToDate(p).loc = "coupRep" /\ toServer[p] # <<>> THEN 1 ELSE 0

(* The server and client p are, or will be, in the same game.              *)
SameGameAs(p) ==
  \/ spc \in {"accept", "recvPartie", "sendAnswers", "recvMove", "endOfGame"}
  \/ spc \in Answering /\ moveRep.propCoup = "CONT"
  \/ spc = "sendToOther" /\ p = serving

Counts(p, k) == SameGameAs(p) => Count(p, k) = Judged(p) + Sent(p)

(* Two players who have nothing to make them drop a piece do not.          *)
NoDrop ==
  \A p \in Players : Displaces(p) /\ Displaces(Other(p)) => lastCoup[p] = DEPLACER

LinkInv ==
  /\ MatchInv
  /\ IAMatchTypeOK
  /\ NoDrop
  /\ \A p \in WellTold : \E k \in Nat : Knows(p, k) /\ Counts(p, k)

-----------------------------------------------------------------------------
(* One stream followed by another.                                         *)
LEMMA Joined ==
  ASSUME NEW r \in Words, NEW s \in Words
  PROVE  /\ r \o s \in Words
         /\ Len(r \o s) = Len(r) + Len(s)
         /\ \A i \in 1..Len(r) : (r \o s)[i] = r[i]
         /\ r # <<>> => /\ r \o s # <<>> /\ Head(r \o s) = Head(r)
                        /\ (r \o s)[1] = r[1]
                        /\ Tail(r \o s) = Tail(r) \o s
         /\ SubSeq(r \o s, Len(r) + 1, Len(r) + Len(s)) = s
         /\ r \o <<>> = r
<1>1. PICK S : S = {0, 1, Data}
  OBVIOUS
<1>2. Words = Seq(S)
  BY <1>1 DEF Words
<1> QED
  BY <1>2

(* One word, and a stream that begins with it.                             *)
LEMMA ReadSensWord ==
  ASSUME NEW x \in {0, 1}, NEW s \in Words
  PROVE  /\ <<x>> \in Words /\ <<x>> # <<>> /\ Len(<<x>>) = 1
         /\ Head(<<x>>) = x /\ Tail(<<x>>) = <<>>
         /\ <<x>> \o s \in Words /\ <<x>> \o s # <<>>
         /\ Head(<<x>> \o s) = x /\ Tail(<<x>> \o s) = s
<1>1. PICK S : S = {0, 1, Data}
  OBVIOUS
<1>2. Words = Seq(S) /\ x \in S
  BY <1>1 DEF Words
<1> QED
  BY <1>2

(* A stream, its first word and the rest.                                  *)
LEMMA FirstAndRest ==
  ASSUME NEW s \in Words
  PROVE  /\ Len(s) \in Nat
         /\ s # <<>> <=> Len(s) > 0
         /\ s # <<>> => /\ Head(s) = s[1] /\ Head(s) \in {0, 1, Data}
                        /\ Tail(s) \in Words /\ Len(Tail(s)) = Len(s) - 1
         /\ SubSeq(s, Len(s) + 1, Len(s)) = <<>>
         /\ \A n \in Nat : SubSeq(s, n + 1, Len(s)) \in Words
<1>1. PICK S : S = {0, 1, Data}
  OBVIOUS
<1>2. Words = Seq(S)
  BY <1>1 DEF Words
<1>3. /\ Len(s) \in Nat
      /\ s # <<>> <=> Len(s) > 0
      /\ s # <<>> => /\ Head(s) = s[1] /\ Head(s) \in S
                     /\ Tail(s) \in Seq(S) /\ Len(Tail(s)) = Len(s) - 1
      /\ SubSeq(s, Len(s) + 1, Len(s)) = <<>>
      /\ \A n \in Nat : SubSeq(s, n + 1, Len(s)) \in Seq(S)
  BY <1>2
<1> QED
  BY <1>1, <1>2, <1>3

(* The structures the client sends: eight words, of which two matter.      *)
LEMMA CoupWords ==
  ASSUME NEW x \in {0, 1}, NEW y \in {0, 1, Data}
  PROVE  /\ TCoupIa(x, y) \in Words
         /\ Len(TCoupIa(x, y)) = 8
         /\ TCoupIa(x, y)[1] = x /\ TCoupIa(x, y)[2] = y
<1> DEFINE d == [i \in 1..6 |-> Data]
           h == <<x, y>>
<1>1. d \in Words /\ Len(d) = 6
  BY DEF Words
<1>2. h \in Words /\ Len(h) = 2 /\ h[1] = x /\ h[2] = y
  BY DEF Words
<1>3. TCoupIa(x, y) = h \o d
  BY DEF TCoupIa
<1> HIDE DEF d, h
<1>4. /\ h \o d \in Words /\ Len(h \o d) = Len(h) + Len(d)
      /\ \A i \in 1..Len(h) : (h \o d)[i] = h[i]
  BY <1>1, <1>2, Joined
<1> QED
  BY <1>1, <1>2, <1>3, <1>4

(* Every structure has the same size.                                      *)
LEMMA SizeIs8 == Size = 8
BY CoupWords DEF Size, DEPLACER

(* A displacement and the end of a game, and what is left of the latter    *)
(* once its first word has been read.                                      *)
LEMMA MoveAndEnd ==
  /\ Move \in Words /\ Len(Move) = 8 /\ Move[1] = 0 /\ Move[2] = 0
  /\ End \in Words /\ Len(End) = 8 /\ End[1] = 1 /\ Head(End) = 1
  /\ Tail(End) \in Words /\ Len(Tail(End)) = 7
  /\ End # <<>> /\ Move # <<>> /\ Tail(End) # <<>>
  /\ <<>> \in Words
<1>1. Move \in Words /\ Len(Move) = 8 /\ Move[1] = 0 /\ Move[2] = 0
  BY CoupWords DEF Move, DEPLACER
<1>2. End \in Words /\ Len(End) = 8 /\ End[1] = 1
  BY CoupWords DEF End
<1>3. /\ Move # <<>> /\ End # <<>> /\ Head(End) = 1
      /\ Tail(End) \in Words /\ Len(Tail(End)) = 7
  BY <1>1, <1>2, FirstAndRest
<1>4. \A t : Len(t) = 7 => t # <<>>
  OBVIOUS
<1>5. <<>> \in Words
  BY DEF Words
<1> QED
  BY <1>1, <1>2, <1>3, <1>4, <1>5

(* The AI reads a displacement whole.                                      *)
LEMMA ReadsWholeMove ==
  /\ MoveSizes(Move) = {8}
  /\ SubSeq(Move, 9, Len(Move)) = <<>>
<1>1. Taken(Move[1]) = {0} /\ Taken(Move[2]) = {0}
  BY MoveAndEnd DEF Taken, Data
<1>2. MoveSizes(Move) = {8}
  <2>1. \A n \in {5, 8} :
          n \in MoveSizes(Move) <=> Len(Move) >= n /\ (n = 8 <=> 0 = DEPLACER)
    BY <1>1 DEF MoveSizes
  <2>2. MoveSizes(Move) \subseteq {5, 8}
    BY DEF MoveSizes
  <2> QED
    BY <2>1, <2>2, MoveAndEnd DEF DEPLACER
<1>3. SubSeq(Move, Len(Move) + 1, Len(Move)) = <<>>
  BY MoveAndEnd, FirstAndRest
<1> QED
  BY <1>2, <1>3, MoveAndEnd

(* It never takes the end of a game for a move, nor nothing.               *)
LEMMA ReadsNoEnd ==
  ASSUME NEW s \in Words
  PROVE  MoveSizes(End \o s) = {} /\ MoveSizes(End) = {} /\ MoveSizes(<<>>) = {}
<1>1. (End \o s)[1] = 1 /\ End[1] = 1
  BY MoveAndEnd, Joined
<1>2. Taken(1) = {1}
  BY DEF Taken, Data
<1>3. MoveSizes(End \o s) = {} /\ MoveSizes(End) = {}
  BY <1>1, <1>2 DEF MoveSizes
<1>4. MoveSizes(<<>>) = {}
  BY DEF MoveSizes
<1> QED
  BY <1>3, <1>4

(* The AI skips a number of whole structures after what is left of one.    *)
LEMMA SkipSizes ==
  ASSUME NEW l \in {0, 8}, NEW n \in 0..(7 + l), (7 + l - n) % 8 = 0
  PROVE  n = 7 \/ n = 7 + l
<1>1. PICK m : m = 7 + l - n
  OBVIOUS
<1>2. m \in 0..15 /\ m % 8 = 0
  BY <1>1
<1>3. m \in {0, 8}
  BY <1>2
<1> QED
  BY <1>1, <1>3

(* What the AI has left when it skips whatever has arrived: structures     *)
(* come whole, so the one that follows the end of the game, or nothing.    *)
LEMMA Skips ==
  ASSUME NEW r \in Words, Len(r) = 7, NEW s \in Words, Len(s) \in {0, 8},
         NEW n \in 0..Len(r \o s), (Len(r \o s) - n) % Size = 0
  PROVE  SubSeq(r \o s, n + 1, Len(r \o s)) \in {s, <<>>}
<1>1. PICK l \in {0, 8} : l = Len(s)
  OBVIOUS
<1>2. /\ Len(r \o s) = 7 + l
      /\ SubSeq(r \o s, 7 + 1, 7 + l) = s
      /\ SubSeq(r \o s, 7 + l + 1, 7 + l) = <<>>
  <2>1. /\ r \o s \in Words /\ Len(r \o s) = Len(r) + Len(s)
        /\ SubSeq(r \o s, Len(r) + 1, Len(r) + Len(s)) = s
    BY Joined
  <2>2. Len(r \o s) = 7 + l
    BY <1>1, <2>1
  <2> QED
    BY <1>1, <2>1, <2>2, FirstAndRest
<1>3. n \in 0..(7 + l) /\ (7 + l - n) % 8 = 0
  BY <1>2, SizeIs8
<1>4. n = 7 \/ n = 7 + l
  BY <1>3, SkipSizes
<1> QED
  BY <1>2, <1>4

-----------------------------------------------------------------------------
(* An AI that has played both games is off.                                *)
AIsActive == \A p \in Players : ai[p].nbPartie = 3 => ~Alive(p)

IATypes ==
  IATypeOK /\ AIsActive /\ lastCoup \in [Players -> {DEPLACER, DEPOSER}]

(* One AI, its stream of words and its stream of moves change.             *)
LEMMA OneAIChanges ==
  ASSUME IATypes, NEW p \in Players, UNCHANGED lastCoup,
         NEW b \in AIs, b.nbPartie = 3 => b.loc \in {"off", "dead"},
         NEW q \in Words, NEW f \in Seq(Coups),
         ai' = [ai EXCEPT ![p] = b],
         toAI' = [toAI EXCEPT ![p] = q],
         fromAI' = [fromAI EXCEPT ![p] = f]
  PROVE  IATypes'
BY DEF IATypes, IATypeOK, AIsActive, Alive, Words

(* A game begins with a thought or with a read.                            *)
LEMMA Begins == \A sens, n : Begin(sens, n) \in {"think", "read"}
BY DEF Begin

(* The second game.                                                        *)
LEMMA NewGame ==
  ASSUME NEW a \in AIs, a.nbPartie \in 1..2, NEW l \in {"think", "read"}
  PROVE  /\ [a EXCEPT !.loc = l, !.coups = 0] \in AIs
         /\ [a EXCEPT !.loc = l, !.coups = 0].nbPartie # 3
<1>1. PICK z \in Nat : z = 0
  OBVIOUS
<1>2. PICK n \in 1..2 : n = a.nbPartie
  OBVIOUS
<1>3. PICK b : b = [a EXCEPT !.loc = l, !.coups = z]
  OBVIOUS
<1>4. /\ b = [loc |-> l, sens |-> a.sens, nbPartie |-> n, coups |-> z]
      /\ a.sens \in BOOLEAN
  BY <1>2, <1>3 DEF AIs
<1>5. b \in AIs /\ b.nbPartie # 3
  BY <1>4 DEF AIs
<1> QED
  BY <1>1, <1>3, <1>5

(* What the steps of an AI do to it.                                       *)
LEMMA AIStepTypes ==
  ASSUME IATypes, NEW p \in Players, AINext(p) \/ AIDies(p)
  PROVE  IATypes'
<1> DEFINE a == ai[p]
<1>1. /\ a \in AIs /\ toAI[p] \in Words /\ fromAI[p] \in Seq(Coups)
      /\ a.loc \notin {"off", "dead"} => a.nbPartie \in 1..2
      /\ toAI = [toAI EXCEPT ![p] = toAI[p]]
      /\ fromAI = [fromAI EXCEPT ![p] = fromAI[p]]
      /\ UNCHANGED lastCoup
      /\ ai \in [Players -> AIs]
  BY DEF IATypes, IATypeOK, AIsActive, Alive, Words, AIs, AINext, AIDies
<1>2. <<>> \in Words
  BY MoveAndEnd
<1>3. CASE ReadSens(p)
  <2>1. toAI[p] # <<>> /\ Tail(toAI[p]) \in Words
    BY <1>1, <1>3, FirstAndRest DEF ReadSens
  <2>2. PICK sens \in BOOLEAN :
          ai' = [ai EXCEPT ![p] = [a EXCEPT !.sens = sens, !.loc = Begin(sens, 1)]]
    BY <1>1, <1>3 DEF ReadSens
  <2> DEFINE b == [a EXCEPT !.sens = sens, !.loc = Begin(sens, 1)]
  <2>3. b \in AIs /\ b.nbPartie # 3
    BY <1>1, <1>3, Begins DEF ReadSens, AIs
  <2>4. toAI' = [toAI EXCEPT ![p] = Tail(toAI[p])] /\ UNCHANGED fromAI
    BY <1>3 DEF ReadSens
  <2>5. ai' = [ai EXCEPT ![p] = b]
    BY <2>2
  <2> HIDE DEF b
  <2> QED
    BY <1>1, <2>1, <2>3, <2>4, <2>5, OneAIChanges
<1>4. CASE Think(p)
  <2> DEFINE m == [partie |-> a.nbPartie, coups |-> a.coups]
             b == [a EXCEPT !.loc = "read", !.coups = @ + 1]
  <2>1. /\ m \in Coups /\ b \in AIs /\ b.nbPartie # 3
        /\ Append(fromAI[p], m) \in Seq(Coups)
    BY <1>1, <1>4 DEF Think, AIs, Coups
  <2>2. /\ ai' = [ai EXCEPT ![p] = b]
        /\ fromAI' = [fromAI EXCEPT ![p] = Append(fromAI[p], m)]
        /\ UNCHANGED toAI
    BY <1>1, <1>4 DEF Think
  <2> HIDE DEF m, b
  <2> QED
    BY <1>1, <2>1, <2>2, OneAIChanges
<1>5. CASE ReadCoup(p)
  <2> DEFINE b == [a EXCEPT !.loc = "think", !.coups = @ + 1]
  <2>1. b \in AIs /\ b.nbPartie # 3
    BY <1>1, <1>5 DEF ReadCoup, AIs
  <2>2. ai' = [ai EXCEPT ![p] = b] /\ UNCHANGED fromAI
    BY <1>1, <1>5 DEF ReadCoup
  <2>3. PICK n \in Nat : toAI' = [toAI EXCEPT ![p] = SubSeq(toAI[p], n + 1, Len(toAI[p]))]
    BY <1>1, <1>5 DEF ReadCoup, MoveSizes
  <2> HIDE DEF b
  <2> QED
    BY <1>1, <2>1, <2>2, <2>3, FirstAndRest, OneAIChanges
<1>6. CASE ReadEnd(p)
  <2> DEFINE b == [a EXCEPT !.loc = IF a.nbPartie = 1 THEN "skip" ELSE "off", !.nbPartie = @ + 1]
             q == IF a.nbPartie = 1 THEN Tail(toAI[p]) ELSE <<>>
  <2>1. b \in AIs /\ (b.nbPartie = 3 => b.loc \in {"off", "dead"})
    BY <1>1, <1>6 DEF ReadEnd, AIs
  <2>2. ai' = [ai EXCEPT ![p] = b] /\ toAI' = [toAI EXCEPT ![p] = q] /\ UNCHANGED fromAI
    BY <1>1, <1>6 DEF ReadEnd
  <2>3. q \in Words
    BY <1>1, <1>2, <1>6, FirstAndRest DEF ReadEnd
  <2> HIDE DEF b, q
  <2> QED
    BY <1>1, <2>1, <2>2, <2>3, OneAIChanges
<1>7. CASE Skip(p)
  <2> DEFINE b == [a EXCEPT !.loc = Begin(a.sens, 2), !.coups = 0]
  <2>1. PICK n \in 0..Len(toAI[p]) :
          toAI' = [toAI EXCEPT ![p] = SubSeq(toAI[p], n + 1, Len(toAI[p]))]
    BY <1>7, Zenon DEF Skip
  <2>2. n \in Nat
    OBVIOUS
  <2>3. a.loc = "skip" /\ UNCHANGED fromAI
    BY <1>7, Zenon DEF Skip
  <2>4. ai' = [ai EXCEPT ![p] = b]
    <3>1. ai' = [ai EXCEPT ![p].loc = Begin(ai[p].sens, 2), ![p].coups = 0]
      BY <1>7, Zenon DEF Skip
    <3> QED
      BY <1>1, <3>1
  <2>5. b \in AIs /\ b.nbPartie # 3
    <3>1. a \in AIs /\ a.nbPartie \in 1..2 /\ Begin(a.sens, 2) \in {"think", "read"}
      BY <1>1, <2>3, Begins
    <3> HIDE DEF a
    <3> QED
      BY <3>1, NewGame
  <2> HIDE DEF b
  <2> QED
    BY <1>1, <2>1, <2>2, <2>3, <2>4, <2>5, FirstAndRest, OneAIChanges
<1>8. CASE LoseClient(p, link[p] = "down") \/ Die(p)
  <2>1. PICK l \in {"off", "dead"} : ai' = [ai EXCEPT ![p] = [a EXCEPT !.loc = l]]
    BY <1>1, <1>8 DEF LoseClient, Die
  <2>2. [a EXCEPT !.loc = l] \in AIs /\ [a EXCEPT !.loc = l].loc \in {"off", "dead"}
    BY <1>1 DEF AIs
  <2>3. toAI' = [toAI EXCEPT ![p] = <<>>] /\ UNCHANGED fromAI
    BY <1>8 DEF LoseClient, Die
  <2> HIDE DEF a
  <2> QED
    BY <1>1, <1>2, <2>1, <2>2, <2>3, OneAIChanges
<1> QED
  BY <1>3, <1>4, <1>5, <1>6, <1>7, <1>8 DEF AINext, AIDies, AIStep

(* What a client tells its AI are words.                                   *)
LEMMA NewsAreWords ==
  ASSUME NEW c, NEW d, NEW enemyCoup \in {DEPLACER, DEPOSER}
  PROVE  News(c, d, enemyCoup) \in Words
<1>1. enemyCoup \in {0, 1, Data}
  BY DEF DEPLACER, DEPOSER
<1>2. <<IF d.sens = "SUD" THEN 1 ELSE 0>> \in Words
  BY ReadSensWord, MoveAndEnd
<1>3. /\ TCoupIa(0, enemyCoup) \in Words /\ TCoupIa(1, Data) \in Words
      /\ <<>> \in Words
  BY <1>1, CoupWords, MoveAndEnd
<1> QED
  BY <1>2, <1>3 DEF News

(* The steps of a client.                                                  *)
LEMMA ClientStepTypes ==
  ASSUME IATypes, NEW p \in Players, ClientIANext(p)
  PROVE  IATypes'
<1>1. ai \in [Players -> AIs] /\ toAI \in [Players -> Words] /\ fromAI \in [Players -> Seq(Coups)]
  BY DEF IATypes, IATypeOK, Words
<1>2. CASE UNCHANGED <<iaVars, lastCoup>>
  BY <1>2 DEF IATypes, IATypeOK, AIsActive, Alive, iaVars
<1>3. CASE ReceiveAndTell(p)
  <2>1. lastCoup[Other(p)] \in {DEPLACER, DEPOSER}
    BY DEF IATypes, Players, Other
  <2>2. PICK w \in Words : Tell(p, w)
    BY <1>3, <2>1, NewsAreWords DEF ReceiveAndTell
  <2>3. toAI[p] \o w \in Words
    BY <1>1, Joined
  <2>4. toAI' \in [Players -> Words]
    BY <1>1, <2>2, <2>3 DEF Tell
  <2> QED
    BY <1>3, <2>4 DEF ReceiveAndTell, IATypes, IATypeOK, AIsActive, Alive, Words
<1>4. ASSUME GetCoup(p) PROVE fromAI' \in [Players -> Seq(Coups)]
  <2>1. fromAI[p] # <<>> => Tail(fromAI[p]) \in Seq(Coups)
    BY <1>1
  <2> QED
    BY <1>1, <1>4, <2>1 DEF GetCoup
<1>5. CASE AskAI(p)
  <2>1. lastCoup' \in [Players -> {DEPLACER, DEPOSER}]
    BY <1>5 DEF AskAI, Chosen, IATypes
  <2> QED
    BY <1>4, <1>5, <2>1 DEF AskAI, IATypes, IATypeOK, AIsActive, Alive
<1>6. CASE LoseServerIA(p)
  <2>1. fromAI' \in [Players -> Seq(Coups)]
    BY <1>1, <1>4, <1>6 DEF LoseServerIA
  <2> QED
    BY <1>6, <2>1 DEF LoseServerIA, IATypes, IATypeOK, AIsActive, Alive
<1> QED
  BY <1>2, <1>3, <1>5, <1>6 DEF ClientIANext, ClientIAStep

(* The inductive invariant: types, and an AI that has played both games is *)
(* off.                                                                    *)
LEMMA AITypesInvariance == IAMatchSpec => []IATypes
<1>1. IAMatchInit => IATypes
  <2> SUFFICES ASSUME IAMatchInit PROVE IATypes
    OBVIOUS
  <2>1. ai \in [Players -> AIs] /\ \A p \in Players : ai[p].nbPartie = 1
    BY DEF IAMatchInit, IAInit, AIs
  <2>2. toAI \in [Players -> Seq({0, 1, Data})] /\ fromAI \in [Players -> Seq(Coups)]
    BY MoveAndEnd DEF IAMatchInit, IAInit, Words
  <2> QED
    BY <2>1, <2>2 DEF IAMatchInit, IATypes, IATypeOK, AIsActive
<1>2. IATypes /\ [IAMatchNext]_allVars => IATypes'
  <2> SUFFICES ASSUME IATypes, [IAMatchNext]_allVars PROVE IATypes'
    OBVIOUS
  <2>1. CASE IAServerStep \/ AllTerminated \/ UNCHANGED allVars
    <3>1. UNCHANGED <<iaVars, lastCoup>>
      BY <2>1 DEF IAServerStep, AllTerminated, allVars
    <3> QED
      BY <3>1 DEF IATypes, IATypeOK, AIsActive, Alive, iaVars
  <2> QED
    BY <2>1, ClientStepTypes, AIStepTypes DEF IAMatchNext
<1> QED
  BY <1>1, <1>2, PTL DEF IAMatchSpec

(* Types: the counters of the AIs and the words and moves in their streams *)
(* are what the code's structures can hold, whoever dies or drops.         *)
THEOREM AITypeCorrect == IAMatchSpec => []IAMatchTypeOK
<1>1. TypeOK /\ IATypes => IAMatchTypeOK
  BY DEF IATypes, IAMatchTypeOK
<1> QED
  BY <1>1, AITypesInvariance, AIsKeepTheMatch, MatchTypeCorrect, PTL

-----------------------------------------------------------------------------
(* Who begins.                                                             *)
LEMMA BeginFacts ==
  ASSUME NEW sens \in BOOLEAN
  PROVE  /\ Begin(sens, 1) = (IF sens THEN "think" ELSE "read")
         /\ Begin(sens, 2) = (IF sens THEN "read" ELSE "think")
BY DEF Begin

(* The AI learns the orientation its client has been given.                *)
LEMMA ReadSensKeeps ==
  ASSUME NEW own \in BOOLEAN, NEW c \in Active, NEW a, NEW q, NEW f, NEW l, NEW k \in Nat,
         InTouch(own, c, a, q, f, l, k), a.loc = "readSens", q # <<>>,
         NEW b, b.loc = (IF Head(q) = 1 THEN "think" ELSE "read"),
         b.sens <=> Head(q) = 1, b.nbPartie = a.nbPartie, b.coups = a.coups
  PROVE  InTouch(own, c, b, Tail(q), f, l, k)
<1>1. /\ own /\ Together(c, a, q, f, l, k) /\ (c.loc \in Starting => k = 0 /\ c.nbPartie = 1)
      /\ a.nbPartie = 1 /\ a.coups = 0
      /\ Head(q) = (IF c.sens = "SUD" THEN 1 ELSE 0)
  BY DEF InTouch, Together
<1>2. /\ b.loc \in {"think", "read"} /\ (b.sens <=> c.sens = "SUD")
      /\ b.nbPartie = 1 /\ b.coups = 0
  BY <1>1
<1>3. c.loc \notin Starting
  BY <1>1 DEF Together
<1>4. /\ Tail(<<0>> \o <<>>) = <<>> /\ Head(<<0>> \o <<>>) = 0
      /\ Tail(<<0>> \o Move) = Move /\ Head(<<0>> \o Move) = 0
      /\ Tail(<<0>> \o End) = End /\ Head(<<0>> \o End) = 0
      /\ Tail(<<1>>) = <<>> /\ Head(<<1>>) = 1
  BY ReadSensWord, MoveAndEnd
<1>5. ASSUME c.loc \in {"coupRep", "enemyRep", "enemyMove"}
      PROVE  f = <<>> /\ Behind(b, Tail(q), c.nbPartie, k, <<>>)
  <2>1. f = <<>> /\ c.nbPartie = 1 /\ k = 0 /\ q = <<0>> \o <<>>
    BY <1>1, <1>5 DEF Together, Behind
  <2> QED
    BY <1>2, <1>4, <2>1 DEF Behind
<1>6. ASSUME c.loc = "askAI"
      PROVE  ToMove(b, Tail(q), f, c.nbPartie, k)
  <2>1. /\ f = <<>>
        /\ \/ k > 0 /\ c.nbPartie = 1 /\ k - 1 = 0 /\ q = <<0>> \o Move
           \/ k = 0 /\ c.nbPartie = 1 /\ q = <<1>>
           \/ k = 0 /\ c.nbPartie = 2 /\ q = <<0>> \o End
    BY <1>1, <1>6 DEF Together, ToMove, ToOpen, Behind, Starved
  <2>2. CASE k > 0 /\ c.nbPartie = 1 /\ k - 1 = 0 /\ q = <<0>> \o Move
    BY <1>2, <1>4, <2>1, <2>2 DEF ToMove, Behind
  <2>3. CASE k = 0 /\ c.nbPartie = 1 /\ q = <<1>>
    BY <1>2, <1>4, <2>1, <2>3 DEF ToMove
  <2>4. CASE k = 0 /\ c.nbPartie = 2 /\ q = <<0>> \o End
    BY <1>1, <1>2, <1>4, <2>1, <2>4 DEF ToMove, ToOpen
  <2> QED
    BY <2>1, <2>2, <2>3, <2>4
<1>7. c.loc # "done"
  BY <1>1 DEF Together, Behind
<1> QED
  BY <1>1, <1>2, <1>3, <1>5, <1>6, <1>7 DEF InTouch, Together

(* It chooses a move.                                                      *)
LEMMA ThinkKeeps ==
  ASSUME NEW own \in BOOLEAN, NEW c \in Active, NEW a, NEW q, NEW f, NEW l, NEW k \in Nat,
         InTouch(own, c, a, q, f, l, k), a.loc = "think",
         NEW b, b.loc = "read", b.sens <=> a.sens, b.nbPartie = a.nbPartie,
         b.coups = a.coups + 1
  PROVE  InTouch(own, c, b, q, Append(f, [partie |-> a.nbPartie, coups |-> a.coups]), l, k)
<1>1. own /\ Together(c, a, q, f, l, k) /\ (c.loc \in Starting => k = 0 /\ c.nbPartie = 1)
  BY DEF InTouch
<1>2. c.loc \notin Starting \union {"coupRep", "enemyRep", "enemyMove", "done"}
  BY <1>1 DEF Together, Behind
<1>3. ASSUME c.loc = "askAI"
      PROVE  ToMove(b, q, Append(f, [partie |-> a.nbPartie, coups |-> a.coups]), c.nbPartie, k)
  <2>1. /\ a.nbPartie = c.nbPartie /\ a.coups = k /\ q = <<>> /\ f = <<>>
    BY <1>1, <1>3 DEF Together, ToMove, ToOpen, Behind, Starved
  <2>2. \A m : Append(<<>>, m) = <<m>>
    OBVIOUS
  <2> QED
    BY <2>1, <2>2 DEF ToMove
<1> QED
  BY <1>1, <1>2, <1>3 DEF InTouch, Together

(* It reads a move of the opponent, which it waits for.                    *)
LEMMA ReadCoupKeeps ==
  ASSUME NEW own \in BOOLEAN, NEW c \in Active, NEW a, NEW q, NEW f, NEW l, NEW k \in Nat,
         InTouch(own, c, a, q, f, l, k), a.loc = "read",
         NEW n \in MoveSizes(q),
         NEW b, b.loc = "think", b.sens <=> a.sens, b.nbPartie = a.nbPartie,
         b.coups = a.coups + 1
  PROVE  InTouch(own, c, b, SubSeq(q, n + 1, Len(q)), f, l, k)
<1>1. own /\ Together(c, a, q, f, l, k) /\ (c.loc \in Starting => k = 0 /\ c.nbPartie = 1)
  BY DEF InTouch
<1>2. /\ q # <<>> /\ q # End /\ q # End \o <<>> /\ q # End \o Move /\ q # End \o End
  BY ReadsNoEnd, MoveAndEnd
<1>3. c.loc \notin Starting \union {"coupRep", "enemyRep", "enemyMove", "done"}
  BY <1>1, <1>2 DEF Together, Behind
<1>4. ASSUME c.loc = "askAI"
      PROVE  ToMove(b, SubSeq(q, n + 1, Len(q)), f, c.nbPartie, k)
  <2>1. /\ f = <<>> /\ k > 0 /\ a.nbPartie = c.nbPartie /\ a.coups = k - 1 /\ q = Move
    BY <1>1, <1>2, <1>4 DEF Together, ToMove, ToOpen, Behind, Starved
  <2>2. n = 8 /\ SubSeq(q, 8 + 1, Len(q)) = <<>>
    BY <2>1, ReadsWholeMove
  <2>3. b.coups = k
    BY <2>1
  <2> QED
    BY <2>1, <2>2, <2>3 DEF ToMove
<1> QED
  BY <1>1, <1>3, <1>4 DEF InTouch, Together

(* It reads that the game is over, or that the match is.                   *)
LEMMA ReadEndKeeps ==
  ASSUME NEW own \in BOOLEAN, NEW c \in Active, c.loc # "garbled", NEW a, NEW q, NEW f,
         NEW l, NEW k \in Nat, InTouch(own, c, a, q, f, l, k), a.loc = "read",
         q # <<>>, Taken(Head(q)) # {0},
         NEW b, b.loc = (IF a.nbPartie = 1 THEN "skip" ELSE "off"),
         b.sens <=> a.sens, b.nbPartie = a.nbPartie + 1,
         NEW r, r = (IF a.nbPartie = 1 THEN Tail(q) ELSE <<>>)
  PROVE  InTouch(own, c, b, r, f, l, k)
<1>1. /\ own /\ Together(c, a, q, f, l, k) /\ (c.loc \in Starting => k = 0 /\ c.nbPartie = 1)
      /\ a.sens <=> c.sens = "SUD"
  BY DEF InTouch, Together
<1>2. q # Move
  BY MoveAndEnd, FirstAndRest DEF Taken, Data
<1>3. /\ Tail(End \o <<>>) = Tail(End) \o <<>>
      /\ Tail(End \o Move) = Tail(End) \o Move
      /\ Tail(End \o End) = Tail(End) \o End
  BY MoveAndEnd, Joined
<1>4. c.loc \notin Starting
  BY <1>1 DEF Together
<1>5. CASE a.nbPartie = 1
  <2>1. b.loc = "skip" /\ b.nbPartie = 2 /\ r = Tail(q)
    BY <1>5
  <2>2. ASSUME c.loc \in {"coupRep", "enemyRep", "enemyMove"}
        PROVE  f = <<>> /\ Behind(b, r, c.nbPartie, k, <<>>)
    <3>1. /\ f = <<>> /\ c.nbPartie = 2 /\ k = 0 /\ a.sens /\ q = End \o <<>>
      BY <1>1, <1>5, <2>2 DEF Together, Behind
    <3> QED
      BY <1>3, <2>1, <3>1 DEF Behind
  <2>3. ASSUME c.loc = "askAI"
        PROVE  ToMove(b, r, f, c.nbPartie, k)
    <3>1. /\ f = <<>> /\ c.nbPartie = 2
          /\ \/ k > 0 /\ k - 1 = 0 /\ a.sens /\ q = End \o Move
             \/ k = 0 /\ ~a.sens /\ q = End
      BY <1>1, <1>2, <1>5, <2>3 DEF Together, ToMove, ToOpen, Behind, Starved
    <3> QED
      BY <1>3, <2>1, <3>1 DEF ToMove, ToOpen, Behind
  <2>4. ASSUME c.loc = "done"
        PROVE  l = "down" /\ f = <<>> /\ Behind(b, r, 2, 0, End)
    <3>1. l = "down" /\ f = <<>> /\ a.sens /\ q = End \o End
      BY <1>1, <1>5, <2>4 DEF Together, Behind
    <3> QED
      BY <1>3, <2>1, <3>1 DEF Behind
  <2> QED
    BY <1>1, <1>4, <2>1, <2>2, <2>3, <2>4 DEF InTouch, Together
<1>6. CASE a.nbPartie # 1
  <2>1. b.loc = "off" /\ r = <<>>
    BY <1>6
  <2>2. c.loc \notin {"coupRep", "enemyRep", "enemyMove"}
    BY <1>1, <1>6 DEF Together, Behind
  <2>3. c.loc # "askAI"
    BY <1>1, <1>2, <1>6 DEF Together, ToMove, ToOpen, Behind, Starved
  <2>4. c.loc = "done"
    BY <1>4, <2>2, <2>3 DEF Active, Clients, Reading, Starting
  <2>5. l = "down" /\ f = <<>>
    BY <1>1, <2>4 DEF Together
  <2> QED
    BY <1>1, <2>1, <2>5 DEF InTouch, Apart
<1> QED
  BY <1>5, <1>6

(* It skips what has arrived between the games.                            *)
LEMMA SkipKeeps ==
  ASSUME NEW own \in BOOLEAN, NEW c \in Active, NEW a, NEW q, NEW f,
         NEW l, NEW k \in Nat, InTouch(own, c, a, q, f, l, k), a.loc = "skip",
         NEW n \in 0..Len(q), (Len(q) - n) % Size = 0,
         NEW b, b.loc = (IF a.sens THEN "read" ELSE "think"),
         b.sens <=> a.sens, b.nbPartie = a.nbPartie, b.coups = 0
  PROVE  InTouch(own, c, b, SubSeq(q, n + 1, Len(q)), f, l, k)
<1> DEFINE r == SubSeq(q, n + 1, Len(q))
<1>1. /\ own /\ Together(c, a, q, f, l, k) /\ (c.loc \in Starting => k = 0 /\ c.nbPartie = 1)
      /\ a.sens <=> c.sens = "SUD"
  BY DEF InTouch, Together
<1>2. /\ q = Tail(End) \o <<>> => r = <<>>
      /\ q = Tail(End) \o Move => r \in {Move, <<>>}
      /\ q = Tail(End) \o End => r \in {End, <<>>}
      /\ q = Tail(End) => r = <<>>
  <2>1. Tail(End) \o <<>> = Tail(End)
    BY MoveAndEnd, Joined
  <2>2. Len(<<>>) = 0
    OBVIOUS
  <2>3. \A s \in Words : Len(s) \in {0, 8} /\ q = Tail(End) \o s => r \in {s, <<>>}
    BY MoveAndEnd, Skips
  <2> QED
    BY <2>1, <2>2, <2>3, MoveAndEnd
<1> HIDE DEF r
<1>3. c.loc \notin Starting
  BY <1>1 DEF Together
<1>4. ASSUME c.loc \in {"coupRep", "enemyRep", "enemyMove"}
      PROVE  f = <<>> /\ Behind(b, r, c.nbPartie, k, <<>>)
  <2>1. /\ f = <<>> /\ c.nbPartie = 2 /\ k = 0 /\ a.sens /\ a.nbPartie = 2
        /\ q = Tail(End) \o <<>>
    BY <1>1, <1>4 DEF Together, Behind
  <2> QED
    BY <1>2, <2>1 DEF Behind
<1>5. ASSUME c.loc = "askAI"
      PROVE  ToMove(b, r, f, c.nbPartie, k) \/ Starved(b, r, f, c.nbPartie, k)
  <2>1. /\ f = <<>> /\ c.nbPartie = 2 /\ a.nbPartie = 2
        /\ \/ k > 0 /\ k - 1 = 0 /\ a.sens /\ q = Tail(End) \o Move
           \/ k = 0 /\ ~a.sens /\ q = Tail(End)
    BY <1>1, <1>5 DEF Together, ToMove, ToOpen, Behind, Starved
  <2>2. CASE k > 0 /\ k - 1 = 0 /\ a.sens /\ q = Tail(End) \o Move
    <3>1. r \in {Move, <<>>} /\ k = 1
      BY <1>2, <2>2
    <3>2. b.loc = "read" /\ b.sens
      BY <2>2
    <3> QED
      BY <2>1, <2>2, <3>1, <3>2 DEF ToMove, Behind, Starved
  <2>3. CASE k = 0 /\ ~a.sens /\ q = Tail(End)
    BY <1>2, <2>1, <2>3 DEF ToMove
  <2> QED
    BY <2>1, <2>2, <2>3
<1>6. ASSUME c.loc = "done"
      PROVE  l = "down" /\ f = <<>> /\ b.loc = "read" /\ b.nbPartie = 2 /\ r \in {<<>>, End}
  <2>1. l = "down" /\ f = <<>> /\ a.sens /\ a.nbPartie = 2 /\ q = Tail(End) \o End
    BY <1>1, <1>6 DEF Together, Behind
  <2> QED
    BY <1>2, <2>1
<1>7. b.loc \in {"read", "think"} /\ (b.sens <=> c.sens = "SUD")
  BY <1>1
<1>8. InTouch(own, c, b, r, f, l, k)
  BY <1>1, <1>3, <1>4, <1>5, <1>6, <1>7 DEF InTouch, Together
<1> QED
  BY <1>8 DEF r

(* Its client has left, and it exits.                                      *)
LEMMA LoseClientKeeps ==
  ASSUME NEW own \in BOOLEAN, NEW c \in Active, c.loc # "garbled", NEW a, NEW q, NEW f,
         NEW k \in Nat, InTouch(own, c, a, q, f, "down", k), a.loc \in {"readSens", "read"},
         NEW b, b.loc = "off"
  PROVE  InTouch(own, c, b, <<>>, f, "down", k)
<1>1. own /\ Together(c, a, q, f, "down", k) /\ (c.loc \in Starting => k = 0 /\ c.nbPartie = 1)
  BY DEF InTouch
<1>2. c.loc \in Starting \union {"coupRep", "enemyRep", "enemyMove", "askAI", "done"}
  BY DEF Active, Clients, Reading, Starting
<1>3. c.loc # "askAI" => f = <<>>
  BY <1>1, <1>2 DEF Together
<1>4. c.loc = "askAI" => f = <<>> \/ f = <<[partie |-> c.nbPartie, coups |-> k]>>
  BY <1>1 DEF Together, ToMove, ToOpen, Starved
<1> QED
  BY <1>1, <1>3, <1>4 DEF InTouch, Apart

(* An AI of this code lives until it dies.                                 *)
LEMMA LivesOn ==
  ASSUME IAMatchTypeOK, NEW p \in Players, AINext(p)
  PROVE  Living' = Living
<1>1. ai[p] \in AIs /\ DOMAIN ai = Players
  BY DEF IAMatchTypeOK, IATypeOK
<1>2. CASE Skip(p)
  <2>1. /\ ai[p].loc = "skip"
        /\ ai' = [ai EXCEPT ![p].loc = Begin(ai[p].sens, 2), ![p].coups = 0]
    BY <1>2, Zenon DEF Skip
  <2>2. ai'[p].loc \in {"think", "read"}
    BY <1>1, <2>1, Begins DEF AIs
  <2> QED
    BY <1>1, <2>1, <2>2, PlayersAssumption DEF Living
<1>3. CASE ReadSens(p)
  <2>1. /\ ai[p].loc = "readSens"
        /\ \E s \in BOOLEAN : ai' = [ai EXCEPT ![p].sens = s, ![p].loc = Begin(s, 1)]
    BY <1>3 DEF ReadSens
  <2>2. ai'[p].loc \in {"think", "read"}
    BY <1>1, <2>1, Begins DEF AIs
  <2> QED
    BY <1>1, <2>1, <2>2, PlayersAssumption DEF Living
<1>4. CASE Think(p) \/ ReadCoup(p) \/ ReadEnd(p) \/ LoseClient(p, link[p] = "down")
  <2>1. /\ ai[p].loc # "dead" /\ ai'[p].loc # "dead"
        /\ \A q \in Players \ {p} : ai'[q] = ai[q]
    BY <1>1, <1>4 DEF Think, ReadCoup, ReadEnd, LoseClient, AIs
  <2> QED
    BY <2>1, PlayersAssumption DEF Living
<1> QED
  BY <1>2, <1>3, <1>4 DEF AINext, AIStep

(* A dead AI does nothing.                                                 *)
LEMMA DeadForGood ==
  ASSUME IAMatchTypeOK, NEW p \in Players, AINext(p)
  PROVE  \A o \in Players : ai[o].loc = "dead" => ai'[o].loc = "dead"
<1>1. DOMAIN ai = Players
  BY DEF IAMatchTypeOK, IATypeOK
<1>2. ai[p].loc # "dead" /\ \A o \in Players \ {p} : ai'[o] = ai[o]
  BY <1>1, Zenon DEF AINext, AIStep, ReadSens, Think, ReadCoup, ReadEnd, Skip, LoseClient
<1> QED
  BY <1>2

(* Its machine fails, or Prolog does: the client will hear of it.          *)
LEMMA DieKeeps ==
  ASSUME NEW own \in BOOLEAN, NEW c \in Active, c.loc # "garbled", NEW a, NEW q, NEW f,
         NEW l, NEW k \in Nat, InTouch(own, c, a, q, f, l, k), a.loc \notin {"off", "dead"},
         NEW b, b.loc = "dead", NEW own1 \in BOOLEAN, ~own1
  PROVE  InTouch(own1, c, b, <<>>, f, l, k)
<1>1. Together(c, a, q, f, l, k) /\ (c.loc \in Starting => k = 0 /\ c.nbPartie = 1)
  BY DEF InTouch
<1>2. c.loc \in Starting \union {"coupRep", "enemyRep", "enemyMove", "askAI", "done"}
  BY DEF Active, Clients, Reading, Starting
<1>3. c.loc # "askAI" => f = <<>>
  BY <1>1, <1>2 DEF Together
<1>4. c.loc = "askAI" => f = <<>> \/ f = <<[partie |-> c.nbPartie, coups |-> k]>>
  BY <1>1 DEF Together, ToMove, ToOpen, Starved
<1> QED
  BY <1>1, <1>3, <1>4 DEF InTouch, Apart

(* Whatever an AI does, it and its client stay in touch.                   *)
LEMMA AIKeepsInTouch ==
  ASSUME MatchInv, IAMatchTypeOK, NEW p \in Players, AINext(p),
         NEW o \in Players, NEW k \in Nat, Knows(o, k)
  PROVE  Knows(o, k)'
<1> DEFINE a == ai[p]
           b == ai'[p]
           c == client[p]
<1>1. /\ c \in Active /\ c.loc # "garbled" /\ a \in AIs
      /\ toAI[p] \in Words
      /\ DOMAIN ai = Players /\ DOMAIN toAI = Players /\ DOMAIN fromAI = Players
      /\ UNCHANGED <<client, link>>
  BY ClientIsUpToDate DEF MatchInv, ClientsActive, IAMatchTypeOK, IATypeOK, Words,
                          AINext, vars, netVars
<1>2. ASSUME o # p PROVE Knows(o, k)'
  <2>1. ai'[o] = ai[o] /\ toAI'[o] = toAI[o] /\ fromAI'[o] = fromAI[o]
    BY <1>1, <1>2, Zenon DEF AINext, AIStep, ReadSens, Think, ReadCoup, ReadEnd, Skip, LoseClient
  <2> QED
    BY <1>1, <2>1, LivesOn DEF Knows
<1>3. ASSUME o = p PROVE Knows(p, k)'
  <2>o. PICK own \in BOOLEAN : own = (p \in Living)
    <3>1. (p \in Living) \in BOOLEAN
      OBVIOUS
    <3> QED
      BY <3>1, Zenon
  <2>b. own = (p \in Living')
    BY <2>o, LivesOn
  <2>a. PICK q, f, l, q1, f1 :
          /\ l = link[p]
          /\ q = toAI[p] /\ f = fromAI[p] /\ q1 = toAI'[p] /\ f1 = fromAI'[p]
    OBVIOUS
  <2>1. InTouch(own, c, a, q, f, l, k) /\ q \in Words
    BY <1>1, <1>3, <2>a, <2>o DEF Knows
  <2>2. SUFFICES InTouch(own, c, b, q1, f1, l, k)
    BY <1>1, <2>a, <2>b DEF Knows
  <2>3. CASE ReadSens(p)
    <3>1. /\ a.loc = "readSens" /\ q # <<>>
          /\ b = [a EXCEPT !.sens = (Head(q) = 1), !.loc = Begin(Head(q) = 1, 1)]
          /\ q1 = Tail(q) /\ f1 = f
      BY <1>1, <2>a, <2>3 DEF ReadSens
    <3>2. PICK sens \in BOOLEAN : sens <=> Head(q) = 1
      OBVIOUS
    <3>3. b = [a EXCEPT !.sens = sens, !.loc = Begin(sens, 1)]
      BY <3>1, <3>2
    <3>4. /\ b.loc = (IF Head(q) = 1 THEN "think" ELSE "read")
          /\ b.sens <=> Head(q) = 1
          /\ b.nbPartie = a.nbPartie /\ b.coups = a.coups
      BY <1>1, <3>2, <3>3, BeginFacts DEF AIs
    <3> HIDE DEF a, b, c
    <3> QED
      BY <1>1, <2>1, <3>1, <3>4, ReadSensKeeps
  <2>4. CASE Think(p)
    <3>1. /\ a.loc = "think"
          /\ b = [a EXCEPT !.loc = "read", !.coups = @ + 1]
          /\ f1 = Append(f, [partie |-> a.nbPartie, coups |-> a.coups])
          /\ q1 = q
      BY <1>1, <2>a, <2>4 DEF Think
    <3>2. b.loc = "read" /\ (b.sens <=> a.sens) /\ b.nbPartie = a.nbPartie /\ b.coups = a.coups + 1
      BY <1>1, <3>1 DEF AIs
    <3> HIDE DEF a, b, c
    <3> QED
      BY <1>1, <2>1, <3>1, <3>2, ThinkKeeps
  <2>5. CASE ReadCoup(p)
    <3>1. PICK n \in MoveSizes(q) : q1 = SubSeq(q, n + 1, Len(q))
      BY <1>1, <2>a, <2>5 DEF ReadCoup
    <3>2. /\ a.loc = "read" /\ b = [a EXCEPT !.loc = "think", !.coups = @ + 1]
          /\ f1 = f
      BY <1>1, <2>a, <2>5 DEF ReadCoup
    <3>3. b.loc = "think" /\ (b.sens <=> a.sens) /\ b.nbPartie = a.nbPartie /\ b.coups = a.coups + 1
      BY <1>1, <3>2 DEF AIs
    <3> HIDE DEF a, b, c
    <3> QED
      BY <1>1, <2>1, <3>1, <3>2, <3>3, ReadCoupKeeps
  <2>6. CASE ReadEnd(p)
    <3>1. /\ a.loc = "read" /\ q # <<>> /\ Taken(Head(q)) # {0}
          /\ b = [a EXCEPT !.loc = IF a.nbPartie = 1 THEN "skip" ELSE "off", !.nbPartie = @ + 1]
          /\ q1 = (IF a.nbPartie = 1 THEN Tail(q) ELSE <<>>)
          /\ f1 = f
      BY <1>1, <2>a, <2>6 DEF ReadEnd
    <3>2. /\ b.loc = (IF a.nbPartie = 1 THEN "skip" ELSE "off")
          /\ (b.sens <=> a.sens) /\ b.nbPartie = a.nbPartie + 1
      BY <1>1, <3>1 DEF AIs
    <3> HIDE DEF a, b, c
    <3> QED
      BY <1>1, <2>1, <3>1, <3>2, ReadEndKeeps
  <2>7. CASE Skip(p)
    <3>1. PICK n \in 0..Len(q) :
            /\ (Len(q) - n) % Size = 0
            /\ toAI' = [toAI EXCEPT ![p] = SubSeq(toAI[p], n + 1, Len(toAI[p]))]
      BY <2>7, <2>a, Zenon DEF Skip
    <3>2. /\ a.loc = "skip" /\ UNCHANGED fromAI
          /\ ai' = [ai EXCEPT ![p].loc = Begin(ai[p].sens, 2), ![p].coups = 0]
      BY <2>7, Zenon DEF Skip
    <3>3. PICK lo : lo = Begin(a.sens, 2)
      OBVIOUS
    <3>4. b = [a EXCEPT !.loc = lo, !.coups = 0]
      BY <1>1, <3>2, <3>3
    <3>5. lo = (IF a.sens THEN "read" ELSE "think")
      <4>1. a.sens \in BOOLEAN
        BY <1>1 DEF AIs
      <4> QED
        BY <3>3, <4>1, BeginFacts
    <3>6. b.loc = lo /\ (b.sens <=> a.sens) /\ b.nbPartie = a.nbPartie /\ b.coups = 0
      BY <1>1, <3>4 DEF AIs
    <3>7. q1 = SubSeq(q, n + 1, Len(q)) /\ f1 = f
      BY <1>1, <2>a, <3>1, <3>2, Zenon
    <3> HIDE DEF a, b, c
    <3> QED
      BY <1>1, <2>1, <3>1, <3>2, <3>5, <3>6, <3>7, SkipKeeps
  <2>8. CASE LoseClient(p, link[p] = "down")
    <3>1. /\ a.loc \in {"readSens", "read"} /\ l = "down"
          /\ b = [a EXCEPT !.loc = "off"] /\ q1 = <<>> /\ f1 = f
      BY <1>1, <2>a, <2>8 DEF LoseClient
    <3>2. b.loc = "off"
      BY <1>1, <3>1 DEF AIs
    <3> HIDE DEF a, b, c
    <3> QED
      BY <1>1, <2>1, <3>1, <3>2, LoseClientKeeps
  <2> QED
    BY <2>3, <2>4, <2>5, <2>6, <2>7, <2>8 DEF AINext, AIStep
<1> QED
  BY <1>2, <1>3

(* The client connects, then asks for a match.                             *)
LEMMA StartKeeps ==
  ASSUME NEW own \in BOOLEAN, NEW c, NEW a, NEW q, NEW f, NEW l, NEW k \in Nat,
         NEW d, NEW l1,
         InTouch(own, c, a, q, f, l, k), c.loc \in {"connect", "sendPartie"},
         d.loc \in {"sendPartie", "partieRep"}, d.sens = c.sens,
         d.nbPartie = c.nbPartie, l # "down"
  PROVE  InTouch(own, d, a, q, f, l1, k)
<1>1. c.loc \in Starting /\ d.loc \in Starting
  BY DEF Starting
<1>2. CASE a.loc \in {"off", "dead"}
  BY <1>1, <1>2 DEF InTouch, Apart, Starting
<1>3. CASE a.loc \notin {"off", "dead"}
  <2>1. Together(c, a, q, f, l, k)
    BY <1>3 DEF InTouch
  <2>2. Together(d, a, q, f, l1, k)
    BY <1>1, <2>1 DEF Together, Starting
  <2> QED
    BY <1>1, <1>3, <2>2 DEF InTouch
<1> QED
  BY <1>2, <1>3

(* What a client that waits for its AI may find.                           *)
LEMMA AskedFor ==
  ASSUME NEW own \in BOOLEAN, NEW c, NEW a, NEW q, NEW f, NEW l, NEW k \in Nat,
         InTouch(own, c, a, q, f, l, k), c.loc = "askAI",
         f = <<>> => a.loc \in {"off", "dead"},
         NEW h, h = (IF f = <<>> THEN f ELSE Tail(f))
  PROVE  /\ h = <<>>
         /\ a.loc \in {"off", "dead"} => q = <<>> /\ (own => l = "down")
         /\ a.loc \notin {"off", "dead"} =>
              /\ f # <<>> /\ q = <<>> /\ a.loc = "read" /\ a.nbPartie = c.nbPartie
              /\ a.coups = k + 1
<1>1. \A m : Tail(<<m>>) = <<>> /\ <<m>> # <<>>
  OBVIOUS
<1>2. CASE a.loc \in {"off", "dead"}
  <2>1. Apart(own, c, q, f, l, k)
    BY <1>2 DEF InTouch
  <2>2. h = <<>>
    BY <1>1, <2>1 DEF Apart
  <2> QED
    BY <1>2, <2>1, <2>2 DEF Apart
<1>3. CASE a.loc \notin {"off", "dead"}
  <2>1. Together(c, a, q, f, l, k)
    BY <1>3 DEF InTouch
  <2>2. f # <<>>
    BY <1>3, <2>1 DEF Together
  <2>3. ToMove(a, q, f, c.nbPartie, k)
    BY <2>1, <2>2 DEF Together, Starved
  <2>4. /\ a.loc = "read" /\ a.nbPartie = c.nbPartie /\ a.coups = k + 1
        /\ q = <<>> /\ f = <<[partie |-> c.nbPartie, coups |-> k]>>
    BY <2>2, <2>3 DEF ToMove
  <2> QED
    BY <1>1, <1>3, <2>2, <2>4
<1> QED
  BY <1>2, <1>3

(* The client gets a move from its AI and sends it.                        *)
LEMMA AskKeeps ==
  ASSUME NEW own \in BOOLEAN, NEW c, NEW a, NEW q, NEW f, NEW k \in Nat, NEW d, NEW h,
         InTouch(own, c, a, q, f, "up", k), c.loc = "askAI",
         f = <<>> => a.loc \in {"off", "dead"},
         h = (IF f = <<>> THEN f ELSE Tail(f)),
         d.loc = "coupRep", d.sens = c.sens, d.nbPartie = c.nbPartie
  PROVE  /\ InTouch(own, d, a, q, h, "up", k + 1)
         /\ own => f # <<>>
<1>1. /\ h = <<>>
      /\ a.loc \in {"off", "dead"} => q = <<>> /\ ~own
      /\ a.loc \notin {"off", "dead"} =>
           /\ f # <<>> /\ q = <<>> /\ a.loc = "read" /\ a.nbPartie = c.nbPartie
           /\ a.coups = k + 1
  BY AskedFor
<1>2. d.loc \notin Starting
  BY DEF Starting
<1>3. CASE a.loc \in {"off", "dead"}
  BY <1>1, <1>2, <1>3 DEF InTouch, Apart
<1>4. CASE a.loc \notin {"off", "dead"}
  <2>1. Together(c, a, q, f, "up", k) /\ own
    BY <1>4 DEF InTouch
  <2>2. Behind(a, q, d.nbPartie, k + 1, <<>>)
    BY <1>1, <1>4 DEF Behind
  <2>3. Together(d, a, q, h, "up", k + 1)
    BY <1>1, <1>2, <1>4, <2>1, <2>2 DEF Together
  <2> QED
    BY <1>1, <1>2, <1>4, <2>1, <2>3 DEF InTouch
<1> QED
  BY <1>3, <1>4

(* The client leaves or dies: its AI will learn of it.                     *)
LEMMA LeaveKeeps ==
  ASSUME NEW own \in BOOLEAN, NEW c, NEW a, NEW q, NEW f, NEW l, NEW k \in Nat,
         InTouch(own, c, a, q, f, l, k),
         NEW h, \/ h = f
                \/ /\ c.loc = "askAI" /\ (f = <<>> => a.loc \in {"off", "dead"})
                   /\ h = (IF f = <<>> THEN f ELSE Tail(f))
  PROVE  InTouch(own, c, a, q, h, "down", k)
<1>1. CASE h = f
  BY <1>1 DEF InTouch, Together, Apart
<1>2. CASE /\ c.loc = "askAI" /\ (f = <<>> => a.loc \in {"off", "dead"})
           /\ h = (IF f = <<>> THEN f ELSE Tail(f))
  <2>1. /\ h = <<>>
        /\ a.loc \in {"off", "dead"} => q = <<>>
        /\ a.loc \notin {"off", "dead"} => q = <<>> /\ a.loc = "read" /\ a.nbPartie = c.nbPartie
    BY <1>2, AskedFor
  <2>2. CASE a.loc \in {"off", "dead"}
    BY <1>2, <2>1, <2>2 DEF InTouch, Apart
  <2>3. CASE a.loc \notin {"off", "dead"}
    <3>1. Together(c, a, q, f, l, k)
      BY <2>3 DEF InTouch
    <3>2. Together(c, a, q, h, "down", k)
      BY <1>2, <2>1, <2>3, <3>1 DEF Together, Starting
    <3> QED
      BY <2>3, <3>2 DEF InTouch
  <2> QED
    BY <2>2, <2>3
<1> QED
  BY <1>1, <1>2

(* Nothing, followed by a stream.                                          *)
LEMMA NothingBefore ==
  ASSUME NEW s \in Words
  PROVE  <<>> \o s = s
<1>1. PICK S : S = {0, 1, Data}
  OBVIOUS
<1>2. s \in Seq(S)
  BY <1>1 DEF Words
<1> QED
  BY <1>2

(* An AI with nothing left to read is told s.                              *)
LEMMA BehindGrows ==
  ASSUME NEW a, NEW q, NEW g, NEW k, Behind(a, q, g, k, <<>>), NEW s \in Words
  PROVE  Behind(a, q \o s, g, k, s)
<1>1. <<0>> \o <<>> = <<0>> /\ End \o <<>> = End /\ Tail(End) \o <<>> = Tail(End)
  BY ReadSensWord, MoveAndEnd, Joined
<1> QED
  BY <1>1, NothingBefore DEF Behind

(* An AI whose game has ended is told so: it will wait in the second game, *)
(* or open it, or be told so too late.                                     *)
LEMMA ToldOfEnd ==
  ASSUME NEW a, NEW q, NEW g \in 1..2, NEW k, Behind(a, q, g, k, <<>>)
  PROVE  /\ g = 1 /\ a.loc # "readSens" /\ a.sens => Behind(a, q \o End, 2, 0, <<>>)
         /\ g = 1 /\ a.loc = "readSens" => q \o End = <<0>> \o End
         /\ g = 1 /\ a.loc # "readSens" /\ ~a.sens => ToOpen(a, q \o End, 2)
         /\ g = 2 => \/ a.loc = "read" /\ a.nbPartie = 2 /\ q \o End = End
                     \/ Behind(a, q \o End, 2, 0, End)
<1>1. /\ <<0>> \o <<>> = <<0>> /\ End \o <<>> = End /\ Tail(End) \o <<>> = Tail(End)
      /\ <<>> \o End = End
  BY ReadSensWord, MoveAndEnd, Joined, NothingBefore
<1>2. CASE g = 1
  <2>1. CASE a.loc = "read" /\ a.nbPartie = 1 /\ q = <<>>
    <3>1. q \o End = End
      BY <1>1, <2>1
    <3>2. ToOpen(a, End, 2) \/ a.sens
      BY <2>1 DEF ToOpen
    <3>3. a.sens => Behind(a, End, 2, 0, <<>>)
      BY <1>1, <2>1 DEF Behind
    <3> QED
      BY <1>2, <2>1, <3>1, <3>2, <3>3
  <2>2. CASE a.loc = "readSens" /\ q = <<0>> \o <<>>
    <3>1. q \o End = <<0>> \o End
      BY <1>1, <2>2
    <3> QED
      BY <1>2, <2>2, <3>1
  <2> QED
    BY <1>2, <2>1, <2>2 DEF Behind
<1>3. CASE g = 2
  <2>1. CASE a.loc = "read" /\ a.nbPartie = 2 /\ q = <<>>
    <3>1. q \o End = End
      BY <1>1, <2>1
    <3> QED
      BY <1>3, <2>1, <3>1
  <2>2. CASE a.loc = "read" /\ a.nbPartie = 1 /\ a.sens /\ q = End \o <<>>
    <3>1. q \o End = End \o End
      BY <1>1, <2>2
    <3> QED
      BY <1>3, <2>2, <3>1 DEF Behind
  <2>3. CASE a.loc = "skip" /\ a.nbPartie = 2 /\ a.sens /\ q = Tail(End) \o <<>>
    <3>1. q \o End = Tail(End) \o End
      BY <1>1, <2>3
    <3> QED
      BY <1>3, <2>3, <3>1 DEF Behind
  <2> QED
    BY <1>3, <2>1, <2>2, <2>3 DEF Behind
<1> QED
  BY <1>2, <1>3

(* The client reads something and passes it on: here its orientation.      *)
LEMMA OrientationKeeps ==
  ASSUME NEW own \in BOOLEAN, NEW c, NEW a, NEW q, NEW f, NEW k \in Nat,
         InTouch(own, c, a, q, f, "up", k), c.loc = "partieRep",
         NEW d, d.loc = (IF d.sens = "SUD" THEN "askAI" ELSE "enemyRep"), d.nbPartie = 1,
         NEW r, r = (IF a.loc \in {"off", "dead"} THEN q
                     ELSE q \o <<IF d.sens = "SUD" THEN 1 ELSE 0>>)
  PROVE  InTouch(own, d, a, r, f, "up", k)
<1>1. c.loc \in Starting /\ k = 0 /\ d.loc \notin Starting
  BY DEF InTouch, Starting
<1>2. CASE a.loc \in {"off", "dead"}
  BY <1>1, <1>2 DEF InTouch, Apart
<1>3. CASE a.loc \notin {"off", "dead"}
  <2>1. own /\ a.loc = "readSens" /\ a.nbPartie = 1 /\ a.coups = 0 /\ q = <<>> /\ f = <<>>
    BY <1>1, <1>3 DEF InTouch, Together
  <2>2. PICK w \in {0, 1} : w = (IF d.sens = "SUD" THEN 1 ELSE 0)
    OBVIOUS
  <2>3. r = <<w>> /\ Head(r) = w
    BY <2>1, <2>2, ReadSensWord, NothingBefore
  <2>4. <<0>> \o <<>> = <<0>>
    BY ReadSensWord, MoveAndEnd, Joined
  <2>5. CASE d.sens = "SUD"
    <3>1. ToMove(a, r, f, 1, k)
      BY <1>1, <2>1, <2>2, <2>3, <2>5 DEF ToMove, ToOpen
    <3> QED
      BY <1>1, <1>3, <2>1, <2>2, <2>3, <2>5, <3>1 DEF InTouch, Together
  <2>6. CASE d.sens # "SUD"
    <3>1. Behind(a, r, 1, k, <<>>)
      BY <1>1, <2>1, <2>2, <2>3, <2>4, <2>6 DEF Behind
    <3> QED
      BY <1>1, <1>3, <2>1, <2>2, <2>3, <2>6, <3>1 DEF InTouch, Together
  <2> QED
    BY <2>5, <2>6
<1> QED
  BY <1>2, <1>3

(* A verdict with which the game goes on: the AI is told nothing.          *)
LEMMA GoesOnKeeps ==
  ASSUME NEW own \in BOOLEAN, NEW c, NEW a, NEW q, NEW f, NEW k \in Nat,
         InTouch(own, c, a, q, f, "up", k), c.loc \in {"coupRep", "enemyRep"},
         NEW d, d.loc \in {"enemyRep", "enemyMove"}, d.sens = c.sens, d.nbPartie = c.nbPartie
  PROVE  InTouch(own, d, a, q, f, "up", k)
<1>1. d.loc \notin Starting
  BY DEF Starting
<1>2. CASE a.loc \in {"off", "dead"}
  BY <1>1, <1>2 DEF InTouch, Apart
<1>3. CASE a.loc \notin {"off", "dead"}
  <2>1. own /\ Together(c, a, q, f, "up", k)
    BY <1>3 DEF InTouch
  <2>2. Together(d, a, q, f, "up", k)
    BY <1>1, <2>1 DEF Together
  <2> QED
    BY <1>1, <1>3, <2>1, <2>2 DEF InTouch
<1> QED
  BY <1>2, <1>3

(* A verdict that ends the game: the AI is told that it is over.           *)
LEMMA GameOverKeeps ==
  ASSUME NEW own \in BOOLEAN, NEW c, NEW a, NEW q, NEW f, NEW k \in Nat,
         InTouch(own, c, a, q, f, "up", k), c.loc \in {"coupRep", "enemyRep"},
         c.nbPartie \in 1..2, c.sens \in {"NORD", "SUD"},
         NEW d, d.sens = c.sens, d.nbPartie = c.nbPartie + 1,
         d.loc = (IF c.nbPartie = 2 THEN "done"
                  ELSE IF c.sens = "NORD" THEN "askAI" ELSE "enemyRep"),
         NEW l, l = (IF d.loc = "done" THEN "down" ELSE "up"),
         NEW r, r = (IF a.loc \in {"off", "dead"} THEN q ELSE q \o End)
  PROVE  InTouch(own, d, a, r, f, l, 0)
<1>1. d.loc \notin Starting
  BY DEF Starting
<1>2. CASE a.loc \in {"off", "dead"}
  <2>1. ~own /\ q = <<>> /\ f = <<>> /\ r = q
    BY <1>2 DEF InTouch, Apart
  <2> QED
    BY <1>1, <1>2, <2>1 DEF InTouch, Apart
<1>3. CASE a.loc \notin {"off", "dead"}
  <2>1. /\ own /\ Together(c, a, q, f, "up", k) /\ r = q \o End
        /\ f = <<>> /\ Behind(a, q, c.nbPartie, k, <<>>)
    BY <1>3 DEF InTouch, Together
  <2>2. /\ a.loc = "readSens" => a.nbPartie = 1 /\ a.coups = 0 /\ q = <<0>> \o <<>>
                                 /\ c.nbPartie = 1
        /\ a.loc # "readSens" => (a.sens <=> c.sens = "SUD")
    BY <2>1 DEF Together, Behind
  <2>3. /\ a.loc = "readSens" => c.sens = "NORD"
        /\ a.loc = "readSens" => Head(<<0>> \o End) = 0
    <3>1. <<0>> \o <<>> # <<>> /\ Head(<<0>> \o <<>>) = 0 /\ Head(<<0>> \o End) = 0
      BY ReadSensWord, MoveAndEnd
    <3>2. a.loc = "readSens" => q # <<>> /\ Head(q) = 0
      BY <2>2, <3>1
    <3>3. a.loc = "readSens" /\ q # <<>> => Head(q) = (IF c.sens = "SUD" THEN 1 ELSE 0)
      BY <2>1 DEF Together
    <3> QED
      BY <3>1, <3>2, <3>3
  <2>4. /\ c.nbPartie = 1 /\ a.loc # "readSens" /\ a.sens => Behind(a, r, 2, 0, <<>>)
        /\ c.nbPartie = 1 /\ a.loc = "readSens" => r = <<0>> \o End
        /\ c.nbPartie = 1 /\ a.loc # "readSens" /\ ~a.sens => ToOpen(a, r, 2)
        /\ c.nbPartie = 2 => \/ a.loc = "read" /\ a.nbPartie = 2 /\ r = End
                             \/ Behind(a, r, 2, 0, End)
    BY <2>1, <2>2, ToldOfEnd
  <2>5. CASE c.nbPartie = 2
    BY <1>1, <1>3, <2>1, <2>2, <2>4, <2>5 DEF InTouch, Together
  <2>6. CASE c.nbPartie = 1 /\ c.sens = "SUD"
    BY <1>1, <1>3, <2>1, <2>2, <2>3, <2>4, <2>6 DEF InTouch, Together
  <2>7. CASE c.nbPartie = 1 /\ c.sens = "NORD"
    <3>1. ToOpen(a, r, 2)
      BY <2>2, <2>4, <2>7 DEF ToOpen
    <3>2. ToMove(a, r, f, 2, 0)
      BY <2>1, <3>1 DEF ToMove
    <3>3. d.loc = "askAI" /\ d.nbPartie = 2 /\ l = "up"
      BY <2>7
    <3>4. a.loc = "readSens" => (r # <<>> => Head(r) = 0)
      BY <2>2, <2>3, <2>4
    <3> QED
      BY <1>1, <1>3, <2>1, <2>2, <2>7, <3>2, <3>3, <3>4 DEF InTouch, Together
  <2> QED
    BY <2>5, <2>6, <2>7
<1> QED
  BY <1>2, <1>3

(* The opponent's move: the AI is told it.                                 *)
LEMMA EnemyMoveKeeps ==
  ASSUME NEW own \in BOOLEAN, NEW c, NEW a, NEW q, NEW f, NEW k \in Nat,
         InTouch(own, c, a, q, f, "up", k), c.loc = "enemyMove",
         NEW d, d.loc = "askAI", d.sens = c.sens, d.nbPartie = c.nbPartie,
         NEW r, r = (IF a.loc \in {"off", "dead"} THEN q ELSE q \o Move)
  PROVE  InTouch(own, d, a, r, f, "up", k + 1)
<1>1. d.loc \notin Starting
  BY DEF Starting
<1>2. CASE a.loc \in {"off", "dead"}
  <2>1. ~own /\ q = <<>> /\ f = <<>> /\ r = q
    BY <1>2 DEF InTouch, Apart
  <2> QED
    BY <1>1, <1>2, <2>1 DEF InTouch, Apart
<1>3. CASE a.loc \notin {"off", "dead"}
  <2>1. /\ own /\ Together(c, a, q, f, "up", k) /\ r = q \o Move
        /\ f = <<>> /\ Behind(a, q, c.nbPartie, k, <<>>)
    BY <1>3 DEF InTouch, Together
  <2>2. Behind(a, r, d.nbPartie, k, Move)
    BY <2>1, BehindGrows, MoveAndEnd
  <2>3. ToMove(a, r, f, d.nbPartie, k + 1)
    <3>1. k + 1 > 0 /\ (k + 1) - 1 = k
      OBVIOUS
    <3> QED
      BY <2>1, <2>2, <3>1 DEF ToMove
  <2>4. a.loc = "readSens" => (r # <<>> => Head(r) = (IF d.sens = "SUD" THEN 1 ELSE 0))
    <3>1. ASSUME a.loc = "readSens" PROVE q # <<>> /\ Head(r) = Head(q)
      <4>1. q = <<0>> \o <<>>
        BY <2>1, <3>1 DEF Behind
      <4>2. q \in Words /\ q # <<>>
        BY <4>1, ReadSensWord, MoveAndEnd
      <4> QED
        BY <2>1, <4>2, Joined, MoveAndEnd
    <3> QED
      BY <2>1, <3>1 DEF Together
  <2>5. Together(d, a, r, f, "up", k + 1)
    BY <1>1, <2>1, <2>3, <2>4 DEF Together
  <2> QED
    BY <1>1, <1>3, <2>1, <2>5 DEF InTouch
<1> QED
  BY <1>2, <1>3

(* What a client reads is what it waits for.                               *)
LEMMA ReadsInStep ==
  ASSUME MatchInv, NEW p \in Players, Receive(p),
         NEW c, c = client[p], NEW m, m = Head(toClient[p])
  PROVE  /\ c \in Active /\ c.nbPartie \in 1..2 /\ c.loc \in Reading
         /\ m \in ToClients /\ link[p] = "up"
         /\ client' = [client EXCEPT ![p] = Handle(c, m)] /\ client'[p] = Handle(c, m)
         /\ link' = [link EXCEPT ![p] = IF Handle(c, m).loc = "done" THEN "down" ELSE "up"]
         /\ Handle(c, m).loc # "garbled"
         /\ m.kind = (CASE c.loc = "partieRep" -> "PartieRep"
                        [] c.loc = "enemyMove" -> "CoupReq"
                        [] OTHER -> "CoupRep")
<1>1. /\ c \in Active /\ c.loc \in Reading /\ InStep(p) /\ link[p] = "up"
      /\ toClient[p] \in Seq(ToClients) /\ toClient[p] # <<>>
      /\ DOMAIN client = Players
      /\ client' = [client EXCEPT ![p] = Handle(c, m)]
  BY ViewType, MatchTypes DEF MatchInv, Receive, ClientsActive
<1>2. m \in ToClients /\ Tail(toClient[p]) \in Seq(ToClients) /\ Len(toClient[p]) <= 4
  BY <1>1, HeadTailProperties, ViewType, MatchTypes DEF InStep
<1>3. client'[p] = Handle(c, m)
  BY <1>1
<1>4. Handle(c, m) \in Active
  BY <1>1, <1>2, HandleFacts DEF Follows
<1>5. Handle(c, m).loc # "garbled"
  <2>1. PICK d, r : d = Handle(c, m) /\ r = Tail(toClient[p])
    OBVIOUS
  <2>2. Drained(d, r) = UpToDate(p)
    BY <1>1, <1>2, <2>1, DrainedTail DEF UpToDate
  <2>3. Drained(d, r).loc # "garbled"
    BY <1>1, <2>2 DEF InStep
  <2>4. d \in Active /\ r \in Seq(ToClients)
    BY <1>2, <1>4, <2>1
  <2>5. Drained(d, r) = d \/ Follows(d, Drained(d, r))
    BY <2>3, <2>4, DrainedFacts
  <2> QED
    BY <2>1, <2>3, <2>5 DEF Follows, Reading
<1>6. c.nbPartie \in 1..2 /\ c \in Clients
  BY <1>1 DEF Active, Clients, Reading
<1>7. m.kind = (CASE c.loc = "partieRep" -> "PartieRep"
                  [] c.loc = "enemyMove" -> "CoupReq"
                  [] OTHER -> "CoupRep")
  <2>1. [c EXCEPT !.loc = "garbled"].loc = "garbled"
    BY <1>6 DEF Clients
  <2> QED
    BY <1>1, <1>5, <2>1 DEF Handle, Reading
<1>8. link' = [link EXCEPT ![p] = IF Handle(c, m).loc = "done" THEN "down" ELSE "up"]
  BY <1>3 DEF Receive
<1> QED
  BY <1>1, <1>2, <1>3, <1>5, <1>6, <1>7, <1>8

(* The opponent of an AI that lives has sent displacements only, if it has *)
(* nothing to make it drop.                                                *)
LEMMA Displacing ==
  ASSUME NoDrop, NEW p \in WellTold, p \in Own, ai[p].loc # "dead"
  PROVE  lastCoup[Other(p)] = DEPLACER
<1>1. Other(p) \in Players /\ Other(Other(p)) = p
  BY DEF WellTold, Players, Other
<1>2. Displaces(p) /\ Displaces(Other(p))
  BY PlayersAssumption DEF WellTold, Displaces
<1> QED
  BY <1>1, <1>2 DEF NoDrop

(* A client reads something and tells its AI.                              *)
LEMMA ReceiveKeeps ==
  ASSUME MatchInv, IAMatchTypeOK, NoDrop, NEW p \in WellTold, ReceiveAndTell(p),
         NEW k \in Nat, Knows(p, k),
         NEW n, n = NextCount(client[p], k, Head(toClient[p]))
  PROVE  Knows(p, n)'
<1>p. p \in Players
  BY DEF WellTold
<1>1. PICK c, d, m, a, q, f, r, l :
        /\ c = client[p] /\ d = client'[p] /\ m = Head(toClient[p]) /\ a = ai[p]
        /\ q = toAI[p] /\ f = fromAI[p] /\ r = toAI'[p] /\ l = link'[p]
  OBVIOUS
<1>2. PICK own \in BOOLEAN : own = (p \in Living)
  <2>1. (p \in Living) \in BOOLEAN
    OBVIOUS
  <2> QED
    BY <2>1, Zenon
<1>3. /\ c \in Active /\ c.nbPartie \in 1..2 /\ c.loc \in Reading
      /\ m \in ToClients /\ link[p] = "up"
      /\ d = Handle(c, m) /\ d.loc # "garbled"
      /\ l = (IF d.loc = "done" THEN "down" ELSE "up")
      /\ m.kind = (CASE c.loc = "partieRep" -> "PartieRep"
                     [] c.loc = "enemyMove" -> "CoupReq"
                     [] OTHER -> "CoupRep")
  <2>1. Receive(p)
    BY DEF ReceiveAndTell
  <2>2. DOMAIN link = Players
    BY MatchTypes DEF NetTypeOK
  <2> QED
    BY <1>p, <1>1, <2>1, <2>2, ReadsInStep
<1>4. c.sens \in {"NORD", "SUD"} /\ c \in Clients
  BY <1>3 DEF Active, Clients, TSensTetePiece
<1>5. InTouch(own, c, a, q, f, "up", k) /\ q \in Words
  BY <1>p, <1>1, <1>2, <1>3 DEF Knows, IAMatchTypeOK, IATypeOK, Words
<1>o. Living' = Living
  BY DEF Living, ReceiveAndTell
<1>6. SUFFICES InTouch(own, d, a, r, f, l, n)
  BY <1>1, <1>2, <1>o DEF Knows, ReceiveAndTell
<1>7. r = IF a.loc \in {"off", "dead"} THEN q ELSE q \o News(c, d, DEPLACER)
  <2>1. Tell(p, News(c, d, lastCoup[Other(p)])) /\ DOMAIN toAI = Players
    BY <1>1 DEF ReceiveAndTell, IAMatchTypeOK, IATypeOK
  <2>2. CASE a.loc \in {"off", "dead"}
    BY <1>p, <1>1, <2>1, <2>2 DEF Tell, Alive
  <2>3. CASE a.loc \notin {"off", "dead"}
    <3>1. own
      BY <1>5, <2>3 DEF InTouch
    <3>2. lastCoup[Other(p)] = DEPLACER
      BY <1>2, <3>1, Displacing DEF Living
    <3> QED
      BY <1>p, <1>1, <2>1, <2>3, <3>2 DEF Tell, Alive
  <2> QED
    BY <2>2, <2>3
<1>8. n = IF d.nbPartie # c.nbPartie THEN 0
          ELSE IF c.loc = "enemyMove" THEN k + 1 ELSE k
  BY <1>1, <1>3 DEF NextCount
<1>9. CASE c.loc = "partieRep"
  <2>1. c.nbPartie = 1
    BY <1>5, <1>9 DEF InTouch, Starting
  <2>2. /\ d.loc = (IF m.validSensTete = "OK" THEN "askAI" ELSE "enemyRep")
        /\ d.sens = (IF m.validSensTete = "OK" THEN "SUD" ELSE "NORD")
        /\ d.nbPartie = 1
    BY <1>3, <1>9, <2>1, OrientationView
  <2>3. News(c, d, DEPLACER) = <<IF d.sens = "SUD" THEN 1 ELSE 0>>
    BY <1>9, <2>1, <2>2 DEF News
  <2>4. n = k /\ l = "up" /\ d.loc = (IF d.sens = "SUD" THEN "askAI" ELSE "enemyRep")
    BY <1>3, <1>8, <1>9, <2>1, <2>2
  <2> QED
    BY <1>5, <1>7, <1>9, <2>2, <2>3, <2>4, OrientationKeeps
<1>10. CASE c.loc \in {"coupRep", "enemyRep"} /\ m.propCoup = "CONT"
  <2>1. m \in TCoupRep
    BY <1>3, <1>10 DEF ToClients, TPartieRep, TCoupReq
  <2>2. /\ d.loc = (IF c.loc = "coupRep" THEN "enemyRep" ELSE "enemyMove")
        /\ d.nbPartie = c.nbPartie /\ d.sens = c.sens
    BY <1>3, <1>10, <2>1, VerdictView
  <2>3. News(c, d, DEPLACER) = <<>>
    BY <1>10, <2>2 DEF News
  <2>4. q \o <<>> = q
    BY <1>5, MoveAndEnd, Joined
  <2>5. r = q /\ n = k /\ l = "up"
    BY <1>3, <1>7, <1>8, <1>10, <2>2, <2>3, <2>4
  <2> QED
    BY <1>5, <1>10, <2>2, <2>5, GoesOnKeeps
<1>11. CASE c.loc \in {"coupRep", "enemyRep"} /\ m.propCoup # "CONT"
  <2>1. m \in TCoupRep
    BY <1>3, <1>11 DEF ToClients, TPartieRep, TCoupReq
  <2>2. PICK won \in BOOLEAN : d = GameOver(c, won)
    BY <1>3, <1>11, <2>1, VerdictView
  <2>3. /\ d.loc = (IF c.nbPartie = 2 THEN "done"
                    ELSE IF c.sens = "NORD" THEN "askAI" ELSE "enemyRep")
        /\ d.nbPartie = c.nbPartie + 1 /\ d.sens = c.sens
    BY <1>3, <1>4, <2>2, GameOverFacts
  <2>4. News(c, d, DEPLACER) = End /\ n = 0
    BY <1>3, <1>8, <1>11, <2>3 DEF News, End
  <2>5. r = (IF a.loc \in {"off", "dead"} THEN q ELSE q \o End)
    BY <1>7, <2>4
  <2>6. n = 0
    BY <2>4
  <2>7. c.nbPartie \in 1..2 /\ l = (IF d.loc = "done" THEN "down" ELSE "up")
    BY <1>3
  <2>8. c.loc \in {"coupRep", "enemyRep"}
    BY <1>11
  <2>9. c.sens \in {"NORD", "SUD"}
    BY <1>4
  <2>10. InTouch(own, c, a, q, f, "up", k)
    BY <1>5
  <2>11. InTouch(own, d, a, r, f, l, 0)
    BY <2>3, <2>5, <2>7, <2>8, <2>9, <2>10, GameOverKeeps
  <2> QED
    BY <2>6, <2>11
<1>12. CASE c.loc = "enemyMove"
  <2>1. d = [c EXCEPT !.loc = "askAI"]
    BY <1>3, <1>12 DEF Handle
  <2>2. d.loc = "askAI" /\ d.sens = c.sens /\ d.nbPartie = c.nbPartie
    BY <1>4, <2>1 DEF Clients
  <2>3. News(c, d, DEPLACER) = Move
    BY <1>12, <2>2 DEF News, Move
  <2>4. n = k + 1 /\ l = "up"
    BY <1>3, <1>8, <1>12, <2>2
  <2>5. r = (IF a.loc \in {"off", "dead"} THEN q ELSE q \o Move)
    BY <1>7, <2>3
  <2>6. InTouch(own, d, a, r, f, "up", k + 1)
    BY <1>5, <1>12, <2>2, <2>5, EnemyMoveKeeps
  <2> QED
    BY <2>4, <2>6
<1> QED
  BY <1>3, <1>9, <1>10, <1>11, <1>12 DEF Reading

(* The other client and its AI.                                            *)
LEMMA OthersKeep ==
  ASSUME MatchInv, IAMatchTypeOK, NEW p \in Players, ClientIANext(p),
         NEW o \in Players, o # p, NEW k \in Nat, Knows(o, k)
  PROVE  Knows(o, k)'
<1>1. /\ DOMAIN client = Players /\ DOMAIN link = Players /\ DOMAIN toAI = Players
      /\ DOMAIN fromAI = Players
  BY MatchTypes DEF MatchInv, ClientsActive, NetTypeOK, IAMatchTypeOK, IATypeOK
<1>2. client'[o] = client[o] /\ link'[o] = link[o]
  BY <1>1 DEF ClientIANext, ClientIAStep, ReceiveAndTell, AskAI, LoseServerIA, Crash,
              ConnectToServer, Connect, SendPartie, SendCoup, Receive, LoseServer
<1>3. UNCHANGED ai
  BY DEF ClientIANext, ClientIAStep, ReceiveAndTell, AskAI, LoseServerIA, iaVars
<1>4. toAI'[o] = toAI[o] /\ fromAI'[o] = fromAI[o]
  BY <1>1 DEF ClientIANext, ClientIAStep, ReceiveAndTell, AskAI, LoseServerIA, iaVars,
              Tell, GetCoup
<1>5. Living' = Living
  BY <1>3 DEF Living
<1> QED
  BY <1>2, <1>3, <1>4, <1>5 DEF Knows

(* A client gets a move from its AI: it knows of one move more.            *)
LEMMA AskKnows ==
  ASSUME MatchInv, IAMatchTypeOK, NEW p \in Players, AskAI(p),
         NEW k \in Nat, Knows(p, k)
  PROVE  /\ Knows(p, k + 1)'
         /\ Displaces(p) => Chosen(p) = {DEPLACER}
<1>1. PICK c, d, a, q, f, h :
        /\ c = client[p] /\ d = client'[p] /\ a = ai[p] /\ q = toAI[p]
        /\ f = fromAI[p] /\ h = fromAI'[p]
  OBVIOUS
<1>2. PICK own \in BOOLEAN : own = (p \in Living)
  <2>1. (p \in Living) \in BOOLEAN
    OBVIOUS
  <2> QED
    BY <2>1, Zenon
<1>3. /\ c \in Clients /\ DOMAIN client = Players /\ DOMAIN fromAI = Players
  BY <1>1 DEF MatchInv, ClientsActive, Active, IAMatchTypeOK, IATypeOK
<1>4. link[p] = "up" /\ c.loc = "askAI" /\ UNCHANGED <<link, ai, toAI>>
  BY <1>1 DEF AskAI, SendCoup
<1>5. d.loc = "coupRep" /\ d.sens = c.sens /\ d.nbPartie = c.nbPartie
  <2>1. d = [c EXCEPT !.loc = "coupRep"]
    BY <1>1, <1>3 DEF AskAI, SendCoup
  <2> QED
    BY <1>3, <2>1 DEF Clients
<1>6. /\ f = <<>> => a.loc \in {"off", "dead"}
      /\ h = (IF f = <<>> THEN f ELSE Tail(f))
  BY <1>1, <1>3 DEF AskAI, GetCoup, Alive
<1>7. InTouch(own, c, a, q, f, "up", k)
  BY <1>1, <1>2, <1>4 DEF Knows
<1>8. InTouch(own, d, a, q, h, "up", k + 1) /\ (own => f # <<>>)
  BY <1>4, <1>5, <1>6, <1>7, AskKeeps
<1>9. Knows(p, k + 1)'
  <2>1. Living' = Living
    BY <1>4 DEF Living
  <2> QED
    BY <1>1, <1>2, <1>4, <1>8, <2>1 DEF Knows
<1>10. ASSUME Displaces(p) PROVE Chosen(p) = {DEPLACER}
  BY <1>1, <1>2, <1>8, <1>10 DEF Chosen, Displaces, Living
<1> QED
  BY <1>9, <1>10

(* Players who have nothing to make them drop a piece still have not.      *)
LEMMA AskNoDrop ==
  ASSUME IAMatchTypeOK, NoDrop, NEW p \in Players, AskAI(p),
         p \in WellTold /\ Displaces(p) => Chosen(p) = {DEPLACER}
  PROVE  NoDrop'
<1>1. /\ \E t \in Chosen(p) : lastCoup' = [lastCoup EXCEPT ![p] = t]
      /\ UNCHANGED ai /\ DOMAIN lastCoup = Players
  BY DEF AskAI, IAMatchTypeOK
<1>2. ASSUME NEW o \in Players, o \notin Droppers, ai[o].loc # "dead",
             Other(o) \notin Droppers, ai[Other(o)].loc # "dead"
      PROVE  lastCoup'[o] = DEPLACER
  <2>1. o \in WellTold /\ Displaces(o) /\ Displaces(Other(o))
    BY <1>2 DEF WellTold, Displaces
  <2> QED
    BY <1>1, <2>1 DEF NoDrop
<1> QED
  BY <1>1, <1>2 DEF NoDrop, Displaces

(* Nobody drops a piece in a step in which nobody moves, and no AI comes   *)
(* back to life.                                                           *)
LEMMA StillNoDrop ==
  ASSUME NoDrop, UNCHANGED lastCoup, \A o \in Players : ai[o].loc = "dead" => ai'[o].loc = "dead"
  PROVE  NoDrop' /\ WellTold' \subseteq WellTold
<1>1. \A o \in Players : Other(o) \in Players
  BY DEF Players, Other
<1>2. ASSUME NEW o \in Players, o \notin Droppers, ai'[o].loc # "dead",
             Other(o) \notin Droppers, ai'[Other(o)].loc # "dead"
      PROVE  lastCoup'[o] = DEPLACER
  BY <1>1, <1>2 DEF NoDrop, Displaces
<1>3. ASSUME NEW o \in Players, Other(o) \notin Droppers, ai'[Other(o)].loc # "dead"
      PROVE  o \in WellTold
  BY <1>1, <1>3 DEF WellTold, Displaces
<1> QED
  BY <1>2, <1>3 DEF NoDrop, Displaces, WellTold

(* A client connects, asks for a match, leaves or dies.                    *)
LEMMA QuietKnows ==
  ASSUME MatchInv, IAMatchTypeOK, NEW p \in Players,
         \/ (ConnectToServer(p) \/ SendPartie(p) \/ Crash(p)) /\ UNCHANGED iaVars
         \/ LoseServerIA(p),
         NEW k \in Nat, Knows(p, k)
  PROVE  Knows(p, k)'
<1>1. PICK c, d, a, q, f, h, l, l1 :
        /\ c = client[p] /\ d = client'[p] /\ a = ai[p] /\ q = toAI[p]
        /\ f = fromAI[p] /\ h = fromAI'[p] /\ l = link[p] /\ l1 = link'[p]
  OBVIOUS
<1>2. PICK own \in BOOLEAN : own = (p \in Living)
  <2>1. (p \in Living) \in BOOLEAN
    OBVIOUS
  <2> QED
    BY <2>1, Zenon
<1>3. /\ c \in Clients /\ DOMAIN client = Players /\ DOMAIN link = Players
      /\ DOMAIN fromAI = Players
  BY <1>1, MatchTypes DEF MatchInv, ClientsActive, Active, NetTypeOK, IAMatchTypeOK, IATypeOK
<1>4. InTouch(own, c, a, q, f, l, k) /\ UNCHANGED <<ai, toAI>>
  BY <1>1, <1>2 DEF Knows, iaVars, LoseServerIA
<1>o. Living' = Living
  BY <1>4 DEF Living
<1>5. SUFFICES InTouch(own, d, a, q, h, l1, k)
  BY <1>1, <1>2, <1>4, <1>o DEF Knows
<1>6. CASE (ConnectToServer(p) \/ SendPartie(p)) /\ UNCHANGED iaVars
  <2>1. c.loc \in {"connect", "sendPartie"} /\ l # "down" /\ h = f
    BY <1>1, <1>3, <1>6 DEF ConnectToServer, Connect, SendPartie, iaVars
  <2>2. d.loc \in {"sendPartie", "partieRep"} /\ d.sens = c.sens /\ d.nbPartie = c.nbPartie
    <3>1. PICK x \in {"sendPartie", "partieRep"} : d = [c EXCEPT !.loc = x]
      BY <1>1, <1>3, <1>6 DEF ConnectToServer, SendPartie
    <3> QED
      BY <1>3, <3>1 DEF Clients
  <2>3. InTouch(own, d, a, q, f, l1, k)
    BY <1>4, <2>1, <2>2, StartKeeps
  <2> QED
    BY <2>1, <2>3
<1>7. CASE (Crash(p) /\ UNCHANGED iaVars) \/ LoseServerIA(p)
  <2>1. /\ d = c /\ l1 = "down"
        /\ \/ h = f
           \/ /\ c.loc = "askAI" /\ (f = <<>> => a.loc \in {"off", "dead"})
              /\ h = (IF f = <<>> THEN f ELSE Tail(f))
    BY <1>1, <1>3, <1>7 DEF Crash, LoseServerIA, LoseServer, GetCoup, Alive, iaVars
  <2> QED
    BY <1>4, <2>1, LeaveKeeps
<1> QED
  BY <1>6, <1>7

-----------------------------------------------------------------------------
(* The number of moves known after a stream does not depend on how much of *)
(* the stream has been read.                                               *)
LEMMA CountTail ==
  ASSUME NEW c, NEW k, NEW q \in Seq(ToClients), q # <<>>, Len(q) <= 4
  PROVE  CountOf(Handle(c, Head(q)), NextCount(c, k, Head(q)), Tail(q)) = CountOf(c, k, q)
<1>a. PICK h, r : h = Head(q) /\ r = Tail(q)
  OBVIOUS
<1>1. /\ Len(q) \in {1, 2, 3, 4}
      /\ h = q[1]
      /\ Len(r) = Len(q) - 1
      /\ \A i \in 1..Len(r) : r[i] = q[i + 1]
  BY <1>a, LenCases, HeadTailProperties
<1>2. CASE Len(q) = 1
  <2>1. Len(r) = 0
    BY <1>1, <1>2
  <2>2. CountOf(Handle(c, h), NextCount(c, k, h), r) = NextCount(c, k, h)
    BY <2>1 DEF CountOf
  <2>3. CountOf(c, k, q) = NextCount(c, k, q[1])
    BY <1>2 DEF CountOf
  <2> QED
    BY <1>a, <1>1, <2>2, <2>3
<1>3. CASE Len(q) = 2
  <2>1. Len(r) = 1 /\ r[1] = q[2]
    BY <1>1, <1>3
  <2>2. CountOf(Handle(c, h), NextCount(c, k, h), r)
          = NextCount(Handle(c, h), NextCount(c, k, h), r[1])
    BY <2>1 DEF CountOf
  <2>3. CountOf(c, k, q) = NextCount(Handle(c, q[1]), NextCount(c, k, q[1]), q[2])
    BY <1>3 DEF CountOf
  <2> QED
    BY <1>a, <1>1, <2>1, <2>2, <2>3
<1>4. CASE Len(q) = 3
  <2>1. Len(r) = 2 /\ r[1] = q[2] /\ r[2] = q[3]
    BY <1>1, <1>4
  <2>2. CountOf(Handle(c, h), NextCount(c, k, h), r)
          = NextCount(Handle(Handle(c, h), r[1]),
                      NextCount(Handle(c, h), NextCount(c, k, h), r[1]), r[2])
    BY <2>1 DEF CountOf
  <2>3. CountOf(c, k, q)
          = NextCount(Handle(Handle(c, q[1]), q[2]),
                      NextCount(Handle(c, q[1]), NextCount(c, k, q[1]), q[2]), q[3])
    BY <1>4 DEF CountOf
  <2> QED
    BY <1>a, <1>1, <2>1, <2>2, <2>3
<1>5. CASE Len(q) = 4
  <2>1. Len(r) = 3 /\ r[1] = q[2] /\ r[2] = q[3] /\ r[3] = q[4]
    BY <1>1, <1>5
  <2> DEFINE c1 == Handle(c, q[1])
             c2 == Handle(c1, q[2])
             c3 == Handle(c2, q[3])
             k1 == NextCount(c, k, q[1])
             k2 == NextCount(c1, k1, q[2])
             k3 == NextCount(c2, k2, q[3])
  <2>2. CountOf(c1, k1, r)
          = NextCount(Handle(Handle(c1, r[1]), r[2]),
                      NextCount(Handle(c1, r[1]), NextCount(c1, k1, r[1]), r[2]), r[3])
    <3> HIDE DEF c1, k1
    <3> QED
      BY <2>1 DEF CountOf
  <2>3. CountOf(c, k, q) = NextCount(c3, k3, q[4])
    BY <1>5 DEF CountOf
  <2> QED
    BY <1>a, <1>1, <2>1, <2>2, <2>3
<1> QED
  BY <1>1, <1>2, <1>3, <1>4, <1>5

(* A structure sent to a client will be counted last.                      *)
LEMMA CountAppend ==
  ASSUME NEW c, NEW k, NEW q \in Seq(ToClients), Len(q) <= 3, NEW m \in ToClients
  PROVE  CountOf(c, k, Append(q, m)) = NextCount(Drained(c, q), CountOf(c, k, q), m)
<1>1. /\ Len(q) \in {0, 1, 2, 3}
      /\ Len(Append(q, m)) = Len(q) + 1
      /\ \A i \in 1..Len(q) : Append(q, m)[i] = q[i]
      /\ Append(q, m)[Len(q) + 1] = m
  BY LenCases
<1> DEFINE r == Append(q, m)
<1> HIDE DEF r
<1>2. CASE Len(q) = 0
  <2>1. Len(r) = 1 /\ r[1] = m
    BY <1>1, <1>2 DEF r
  <2> QED
    BY <1>2, <2>1 DEF CountOf, Drained, r
<1>3. CASE Len(q) = 1
  <2>1. Len(r) = 2 /\ r[1] = q[1] /\ r[2] = m
    BY <1>1, <1>3 DEF r
  <2> QED
    BY <1>3, <2>1 DEF CountOf, Drained, r
<1>4. CASE Len(q) = 2
  <2>1. Len(r) = 3 /\ r[1] = q[1] /\ r[2] = q[2] /\ r[3] = m
    BY <1>1, <1>4 DEF r
  <2> QED
    BY <1>4, <2>1 DEF CountOf, Drained, r
<1>5. CASE Len(q) = 3
  <2>1. Len(r) = 4 /\ r[1] = q[1] /\ r[2] = q[2] /\ r[3] = q[3] /\ r[4] = m
    BY <1>1, <1>5 DEF r
  <2> QED
    BY <1>5, <2>1 DEF CountOf, Drained, r
<1> QED
  BY <1>1, <1>2, <1>3, <1>4, <1>5

(* What a structure changes in the count of a client that expects it.      *)
LEMMA NextCountFacts ==
  ASSUME NEW c \in Active, NEW k, NEW m
  PROVE  /\ c.loc = "partieRep" /\ c.nbPartie = 1 /\ m.kind = "PartieRep" =>
              NextCount(c, k, m) = k
         /\ c.loc \in {"coupRep", "enemyRep"} /\ m \in TCoupRep =>
              NextCount(c, k, m) = IF m.propCoup = "CONT" THEN k ELSE 0
         /\ c.loc = "enemyMove" /\ m.kind = "CoupReq" => NextCount(c, k, m) = k + 1
<1>1. ASSUME c.loc = "partieRep", c.nbPartie = 1, m.kind = "PartieRep"
      PROVE  NextCount(c, k, m) = k
  BY <1>1, OrientationView DEF NextCount
<1>2. ASSUME c.loc \in {"coupRep", "enemyRep"}, m \in TCoupRep
      PROVE  NextCount(c, k, m) = IF m.propCoup = "CONT" THEN k ELSE 0
  <2>1. CASE m.propCoup = "CONT"
    <3>1. Handle(c, m).nbPartie = c.nbPartie
      BY <1>2, <2>1, VerdictView
    <3> QED
      BY <1>2, <2>1, <3>1 DEF NextCount
  <2>2. CASE m.propCoup # "CONT"
    <3>1. c.nbPartie \in 1..2
      BY <1>2, <2>2, VerdictView
    <3>2. PICK won \in BOOLEAN : Handle(c, m) = GameOver(c, won)
      BY <1>2, <2>2, VerdictView
    <3>3. Handle(c, m).nbPartie = c.nbPartie + 1
      BY <3>1, <3>2, GameOverFacts DEF Active
    <3>4. Handle(c, m).nbPartie # c.nbPartie
      BY <3>1, <3>3
    <3> QED
      BY <2>2, <3>4 DEF NextCount
  <2> QED
    BY <2>1, <2>2
<1>3. ASSUME c.loc = "enemyMove", m.kind = "CoupReq"
      PROVE  NextCount(c, k, m) = k + 1
  <2>1. Handle(c, m) = [c EXCEPT !.loc = "askAI"]
    BY <1>3 DEF Handle
  <2>2. Handle(c, m).nbPartie = c.nbPartie
    BY <2>1 DEF Active, Clients
  <2> QED
    BY <1>3, <2>2 DEF NextCount
<1> QED
  BY <1>1, <1>2, <1>3

(* The server sends m to t.                                                *)
LEMMA CountSend ==
  ASSUME MatchInv, NEW t \in Players, NEW m \in ToClients,
         SendToClient(t, m), UNCHANGED client, Handle(UpToDate(t), m).loc # "garbled",
         NEW p \in Players, NEW k
  PROVE  Count(p, k)' = IF p = t THEN NextCount(UpToDate(t), Count(t, k), m) ELSE Count(p, k)
<1>1. toClient' = [toClient EXCEPT ![t] = Append(toClient[t], m)] /\ DOMAIN toClient = Players
  BY MatchTypes DEF SendToClient, NetTypeOK
<1>2. CASE p = t
  <2>1. toClient[t] \in Seq(ToClients) /\ UpToDate(t) \in Active /\ InStep(t)
    BY ViewType, MatchTypes DEF MatchInv
  <2>2. /\ Lag(UpToDate(t)) \in 0..3 /\ Lag(Handle(UpToDate(t), m)) \in Nat
    BY <2>1, HandleLag
  <2>3. Len(toClient[t]) <= 3
    BY <2>1, <2>2 DEF InStep
  <2>4. toClient'[t] = Append(toClient[t], m)
    BY <1>1
  <2> QED
    BY <1>2, <2>1, <2>3, <2>4, CountAppend DEF Count, UpToDate
<1>3. CASE p # t
  BY <1>1, <1>3 DEF Count
<1> QED
  BY <1>2, <1>3

(* The moves played in a game are counted from 0.                          *)
LEMMA PlayedType == ServerInv => Played \in Nat
BY NbCoupMaxAssumption DEF ServerInv, TypesOK, ServerTypeOK, RefereeStates, MoveLimit, Played

(* The types the counts rely on.                                           *)
LEMMA CountTypes ==
  ASSUME MatchInv, NEW p \in Players
  PROVE  /\ Played \in Nat /\ Judged(p) \in Int /\ Sent(p) \in {0, 1}
         /\ toServer[p] = <<>> => Sent(p) = 0
         /\ UpToDate(p).loc # "coupRep" => Sent(p) = 0
BY PlayedType DEF MatchInv, Judged, Sent

(* While the match is set up no move has been judged, nor sent before both *)
(* clients have asked.                                                     *)
LEMMA SetupCounts ==
  ASSUME MatchInv, spc \in Setup, NEW p \in Players
  PROVE  /\ Played = 0 /\ Judged(p) = 0 /\ SameGameAs(p)
         /\ spc \in {"accept", "recvPartie"} => UpToDate(p).loc # "coupRep"
<1>1. Played = 0 /\ Judged(p) = 0
  BY DEF MatchInv, ServerInv, SetupInv, Setup, Played, Judged, Answering
<1>2. SameGameAs(p)
  BY DEF SameGameAs, Setup
<1>3. ASSUME spc \in {"accept", "recvPartie"} PROVE UpToDate(p).loc # "coupRep"
  <2>1. Asking(p)
    BY <1>3 DEF MatchInv, Position
  <2> QED
    BY <2>1 DEF Asking, At
<1> QED
  BY <1>1, <1>2, <1>3

(* A connection or a request is accepted.                                  *)
LEMMA SetupKeepsCounts ==
  ASSUME MatchInv, Accept \/ RecvPartie, UNCHANGED client, NEW p \in Players, NEW k
  PROVE  Counts(p, k) => Counts(p, k)'
<1>1. /\ spc \in {"accept", "recvPartie"} /\ spc' \in {"recvPartie", "sendAnswers"}
      /\ UNCHANGED <<referee, toClient>>
  BY DEF Accept, RecvPartie, netVars
<1>2. UpToDate(p)' = UpToDate(p) /\ Count(p, k)' = Count(p, k)
  BY <1>1, SameView DEF Count
<1>3. Played = 0 /\ Judged(p) = 0 /\ SameGameAs(p) /\ UpToDate(p).loc # "coupRep"
  BY <1>1, SetupCounts DEF Setup
<1>4. Sent(p) = 0 /\ Sent(p)' = 0
  BY <1>2, <1>3 DEF Sent
<1>5. Judged(p)' = 0
  BY <1>1, <1>3 DEF Judged, Answering, Played
<1> QED
  BY <1>2, <1>3, <1>4, <1>5 DEF Counts

(* A client is sent its orientation.                                       *)
LEMMA AnswerKeepsCounts ==
  ASSUME MatchInv, SendFirstAnswer \/ SendSecondAnswer, UNCHANGED client,
         NEW p \in Players, NEW k
  PROVE  Counts(p, k) => Counts(p, k)'
<1>1. /\ spc = "sendAnswers" /\ spc' \in {"sendAnswers", "recvMove"}
      /\ UNCHANGED toServer
      /\ Played = 0 /\ Judged(p) = 0 /\ SameGameAs(p)
  BY SetupCounts DEF SendFirstAnswer, SendSecondAnswer, Setup
<1>2. PICK t \in Players : t = serving
  BY MatchTypes
<1>3. PICK rep \in Answers(t) : SendToClient(t, rep)
  BY <1>2 DEF SendFirstAnswer, SendSecondAnswer
<1>4. rep \in ToClients /\ rep.kind = "PartieRep" /\ rep.validSensTete \in {"OK", "KO"}
  BY <1>1, AnswersMatch
<1>5. /\ At(t, "partieRep", 1)
      /\ \A o \in Players : InStep(o)
  BY <1>1, <1>2 DEF MatchInv, Position
<1>6. UpToDate(t) \in Active /\ UpToDate(t).loc = "partieRep" /\ UpToDate(t).nbPartie = 1
  BY <1>5, MatchTypes DEF At
<1>7. Handle(UpToDate(t), rep).loc \in {"askAI", "enemyRep"}
  BY <1>4, <1>6, OrientationView
<1>8. Handle(UpToDate(t), rep).loc # "garbled"
  BY <1>7
<1>9. Count(p, k)' = Count(p, k)
  <2>1. NextCount(UpToDate(t), Count(t, k), rep) = Count(t, k)
    BY <1>4, <1>6, NextCountFacts
  <2> QED
    BY <1>3, <1>4, <1>8, <2>1, CountSend
<1>10. Sent(p)' = Sent(p)
  <2>1. CASE p = t
    BY <1>1, <1>5, <2>1 DEF At, Sent
  <2>2. CASE p # t
    <3>1. UpToDate(p)' = UpToDate(p)
      BY <1>3, <1>4, <1>5, <1>8, <2>2, SendView, MatchTypes
    <3> QED
      BY <1>1, <3>1 DEF Sent
  <2> QED
    BY <2>1, <2>2
<1>11. Judged(p)' = 0
  <2>1. Played' = 0
    BY <1>1 DEF SendFirstAnswer, SendSecondAnswer, initialiserPartie, Played,
                MatchInv, ServerInv, TypesOK, ServerTypeOK, RefereeStates
  <2> QED
    BY <1>1, <2>1 DEF Judged, Answering
<1> QED
  BY <1>1, <1>9, <1>10, <1>11 DEF Counts

(* The referee judges a move.                                              *)
LEMMA RecvMoveKeepsCounts ==
  ASSUME MatchInv, RecvMove, UNCHANGED client, NEW p \in Players, NEW k
  PROVE  Counts(p, k) => Counts(p, k)'
<1>1. /\ spc = "recvMove" /\ spc' = "sendToMover" /\ toServer[serving] # <<>>
      /\ UNCHANGED <<serving, toClient>>
      /\ toServer' = [toServer EXCEPT ![serving] = Tail(toServer[serving])]
      /\ DOMAIN toServer = Players
  BY MatchTypes DEF RecvMove
<1>2. UpToDate(p)' = UpToDate(p) /\ Count(p, k)' = Count(p, k)
  BY <1>1, SameView DEF Count
<1>3. moveRep'.propCoup = "CONT" => Played' = Played + 1
  <2>1. PICK v \in Verdicts(referee, Joueur, Head(toServer[serving])) :
          /\ referee' = AfterVerdict(referee, v)
          /\ moveRep' = prepareStrikeAnswer(v.valid, v.prop)
    BY DEF RecvMove
  <2>2. moveRep'.propCoup = v.prop
    BY <2>1 DEF prepareStrikeAnswer
  <2>3. /\ OpenGame(referee).numCoup = Played
        /\ referee'.numCoup = OpenGame(referee).numCoup + 1
        /\ referee'.partieCree <=> v.prop = "CONT"
    BY <2>1 DEF AfterVerdict, OpenGame, Played, MatchInv, ServerInv, TypesOK, ServerTypeOK,
                RefereeStates
  <2> QED
    BY <2>2, <2>3 DEF Played
<1>4. Position(p)
  BY DEF MatchInv
<1>5. Played \in Nat /\ SameGameAs(p) /\ Judged(p) = Played
  BY <1>1, PlayedType DEF MatchInv, SameGameAs, Judged, Answering
<1>6. SameGameAs(p)' => moveRep'.propCoup = "CONT"
  BY <1>1 DEF SameGameAs, Answering
<1>7. CASE p = serving
  <2>1. HasTurn(p, game.gameNumber)
    BY <1>1, <1>4, <1>7 DEF Position
  <2>2. /\ UpToDate(p).loc = "coupRep" /\ toServer[p] # <<>>
        /\ toServer[p] = <<convertAItoServer(UpToDate(p))>>
    BY <1>1, <1>7, <2>1 DEF HasTurn
  <2>3. \A m : Tail(<<m>>) = <<>>
    OBVIOUS
  <2>4. toServer'[p] = <<>>
    BY <1>1, <1>7, <2>2, <2>3
  <2>5. Sent(p) = 1 /\ Sent(p)' = 0
    BY <2>2, <2>4 DEF Sent
  <2>6. moveRep'.propCoup = "CONT" => Judged(p)' = Played + 1
    BY <1>1, <1>3, <1>7 DEF Judged
  <2> QED
    BY <1>2, <1>5, <1>6, <2>5, <2>6 DEF Counts
<1>8. CASE p # serving
  <2>1. toServer[p] = <<>> /\ toServer'[p] = <<>>
    BY <1>1, <1>4, <1>8 DEF Position, At
  <2>2. Sent(p) = 0 /\ Sent(p)' = 0
    BY <2>1 DEF Sent
  <2>3. moveRep'.propCoup = "CONT" => Judged(p)' = Played
    BY <1>1, <1>3, <1>5, <1>8 DEF Judged, Answering
  <2> QED
    BY <1>2, <1>5, <1>6, <2>2, <2>3 DEF Counts
<1> QED
  BY <1>7, <1>8

(* A verdict is sent to client t, which waits for it.                      *)
LEMMA VerdictCount ==
  ASSUME MatchInv, NEW t \in Players, NEW l \in {"coupRep", "enemyRep"}, NEW g,
         At(t, l, g), SendToClient(t, moveRep), UNCHANGED client, NEW p \in Players, NEW k
  PROVE  /\ Count(p, k)' = IF p = t /\ moveRep.propCoup # "CONT" THEN 0 ELSE Count(p, k)
         /\ p # t => UpToDate(p)' = UpToDate(p)
<1>1. /\ UpToDate(t) \in Active /\ UpToDate(t).loc \in {"coupRep", "enemyRep"}
      /\ moveRep \in TCoupRep /\ InStep(t)
  BY MatchTypes DEF At, MatchInv
<1>2. moveRep \in ToClients /\ Handle(UpToDate(t), moveRep).loc # "garbled"
  BY <1>1, VerdictView
<1>3. NextCount(UpToDate(t), Count(t, k), moveRep)
        = IF moveRep.propCoup = "CONT" THEN Count(t, k) ELSE 0
  BY <1>1, NextCountFacts
<1>4. Count(p, k)' = IF p = t THEN NextCount(UpToDate(t), Count(t, k), moveRep)
                     ELSE Count(p, k)
  BY <1>2, CountSend
<1>5. p # t => UpToDate(p)' = UpToDate(p)
  BY <1>1, <1>2, SendView, MatchTypes
<1> QED
  BY <1>3, <1>4, <1>5

(* The answer is sent to the mover.                                        *)
LEMMA ToMoverKeepsCounts ==
  ASSUME MatchInv, SendToMover, UNCHANGED client, NEW p \in Players, NEW k
  PROVE  Counts(p, k) => Counts(p, k)'
<1>1. /\ spc = "sendToMover" /\ spc' = "sendToOther"
      /\ UNCHANGED <<serving, moveRep, toServer, referee>>
      /\ SendToClient(serving, moveRep)
  BY DEF SendToMover, moveVars
<1>2. PICK t \in Players : t = serving
  BY MatchTypes
<1>3. At(t, "coupRep", game.gameNumber) /\ toServer[p] = <<>>
  BY <1>1, <1>2 DEF MatchInv, Position, At
<1>4. Count(p, k)' = IF p = t /\ moveRep.propCoup # "CONT" THEN 0 ELSE Count(p, k)
  BY <1>1, <1>2, <1>3, VerdictCount
<1>5. Sent(p) = 0 /\ Sent(p)' = 0
  BY <1>1, <1>3 DEF Sent
<1>6. CASE moveRep.propCoup = "CONT"
  <2>1. Judged(p)' = Judged(p) /\ SameGameAs(p)
    BY <1>1, <1>6 DEF Judged, Played, Answering, SameGameAs
  <2> QED
    BY <1>4, <1>5, <1>6, <2>1 DEF Counts
<1>7. CASE moveRep.propCoup # "CONT"
  <2>1. Played' = 0
    BY <1>1, <1>7 DEF MatchInv, ServerInv, RefereeInv, Played
  <2>2. Judged(p)' = 0
    BY <1>1, <1>7, <2>1 DEF Judged
  <2>3. SameGameAs(p)' => p = t
    BY <1>1, <1>2, <1>7 DEF SameGameAs
  <2> QED
    BY <1>4, <1>5, <1>7, <2>2, <2>3 DEF Counts
<1> QED
  BY <1>6, <1>7

(* The answer is sent to the other player.                                 *)
LEMMA ToOtherKeepsCounts ==
  ASSUME MatchInv, SendToOther, UNCHANGED client, NEW p \in Players, NEW k
  PROVE  Counts(p, k) => Counts(p, k)'
<1>1. /\ spc = "sendToOther"
      /\ spc' = IF moveRep.propCoup = "CONT" THEN "sendMove" ELSE "endOfGame"
      /\ UNCHANGED <<serving, moveRep, toServer, referee>>
      /\ SendToClient(Other(serving), moveRep)
  BY DEF SendToOther, moveVars
<1>2. PICK t \in Players : t = Other(serving) /\ t # serving
  BY MatchTypes
<1>3. p # t => p = serving
  BY <1>2, MatchTypes DEF Players
<1>4. At(t, "enemyRep", game.gameNumber)
  BY <1>1, <1>2 DEF MatchInv, Position
<1>5. /\ Count(p, k)' = IF p = t /\ moveRep.propCoup # "CONT" THEN 0 ELSE Count(p, k)
      /\ p # t => UpToDate(p)' = UpToDate(p)
  BY <1>1, <1>2, <1>4, VerdictCount
<1>6. Sent(p)' = Sent(p) /\ (p = t => Sent(p) = 0)
  BY <1>1, <1>4, <1>5 DEF Sent, At
<1>7. CASE moveRep.propCoup = "CONT"
  <2>1. Judged(p)' = Judged(p) /\ SameGameAs(p)
    BY <1>1, <1>7 DEF Judged, Played, Answering, SameGameAs
  <2> QED
    BY <1>5, <1>6, <1>7, <2>1 DEF Counts
<1>8. CASE moveRep.propCoup # "CONT"
  <2>1. Played = 0 /\ Played' = 0
    BY <1>1, <1>8 DEF MatchInv, ServerInv, RefereeInv, Played
  <2>2. Judged(p) = 0 /\ Judged(p)' = 0
    BY <1>1, <1>8, <2>1 DEF Judged
  <2>3. p # t => SameGameAs(p)
    BY <1>1, <1>3 DEF SameGameAs
  <2> QED
    BY <1>5, <1>6, <1>8, <2>2, <2>3 DEF Counts
<1> QED
  BY <1>7, <1>8

(* The move is sent to the other player.                                   *)
LEMMA MoveKeepsCounts ==
  ASSUME MatchInv, SendMove, UNCHANGED client, NEW p \in Players, NEW k
  PROVE  Counts(p, k) => Counts(p, k)'
<1>1. /\ spc = "sendMove" /\ spc' = "recvMove" /\ moveRep.propCoup = "CONT"
      /\ UNCHANGED <<toServer, referee>>
      /\ SendToClient(Other(serving), moveReq)
  BY DEF SendMove, MatchInv, ServerInv, RefereeInv
<1>2. PICK t \in Players : t = Other(serving) /\ t # serving
  BY MatchTypes
<1>3. p # t => p = serving
  BY <1>2, MatchTypes DEF Players
<1>4. At(t, "enemyMove", game.gameNumber) /\ toServer[p] = <<>>
  BY <1>1, <1>2 DEF MatchInv, Position, At
<1>5. /\ UpToDate(t) \in Active /\ UpToDate(t).loc = "enemyMove"
      /\ moveReq \in ToClients /\ moveReq.kind = "CoupReq"
  BY <1>4, MatchTypes DEF At, TCoupReq, ToClients
<1>6. Handle(UpToDate(t), moveReq).loc # "garbled"
  <2>1. Handle(UpToDate(t), moveReq) = [UpToDate(t) EXCEPT !.loc = "askAI"]
    BY <1>5 DEF Handle
  <2> QED
    BY <1>5, <2>1 DEF Active, Clients
<1>7. NextCount(UpToDate(t), Count(t, k), moveReq) = Count(t, k) + 1
  BY <1>5, NextCountFacts
<1>8. Count(p, k)' = IF p = t THEN Count(t, k) + 1 ELSE Count(p, k)
  BY <1>1, <1>2, <1>5, <1>6, <1>7, CountSend
<1>9. Sent(p) = 0 /\ Sent(p)' = 0
  BY <1>1, <1>4 DEF Sent
<1>10. /\ Played \in Nat /\ SameGameAs(p)
       /\ Judged(p) = (IF p = t THEN Played - 1 ELSE Played)
       /\ Judged(p)' = Played
  BY <1>1, <1>2, <1>3, PlayedType DEF MatchInv, SameGameAs, Judged, Answering, Played
<1> QED
  BY <1>8, <1>9, <1>10 DEF Counts

(* The second game begins.                                                 *)
LEMMA NextGameKeepsCounts ==
  ASSUME MatchInv, NextGame, UNCHANGED client, NEW p \in Players, NEW k
  PROVE  Counts(p, k) => Counts(p, k)'
<1>1. /\ spc = "endOfGame" /\ spc' = "recvMove" /\ UNCHANGED <<toServer, toClient>>
      /\ referee' = initialiserPartie(referee)
  BY DEF NextGame, netVars
<1>2. /\ UpToDate(p)' = UpToDate(p) /\ Count(p, k)' = Count(p, k) /\ Sent(p)' = Sent(p)
  BY <1>1, SameView DEF Count, Sent
<1>3. Played = 0 /\ Played' = 0
  BY <1>1 DEF MatchInv, ServerInv, RefereeInv, Played, initialiserPartie, TypesOK,
              ServerTypeOK, RefereeStates
<1>4. Judged(p) = 0 /\ Judged(p)' = 0 /\ SameGameAs(p)
  BY <1>1, <1>3 DEF Judged, Answering, SameGameAs
<1> QED
  BY <1>2, <1>4 DEF Counts

(* Any step of the server.                                                 *)
LEMMA ServerKeepsCounts ==
  ASSUME MatchInv, ServerStep, NEW p \in Players, NEW k
  PROVE  Counts(p, k) => Counts(p, k)'
<1>1. UNCHANGED client /\ ServerNext
  BY DEF ServerStep
<1>2. CASE LastGame \/ RecvError \/ SendError \/ KilledBySigpipe \/ RefuseMatch
  <2>1. spc' = "exit"
    BY <1>2 DEF LastGame, endGame, RecvError, SendError, Forfeit, KilledBySigpipe,
                RefuseMatch, Leave
  <2>2. ~SameGameAs(p)'
    BY <2>1 DEF SameGameAs, Answering
  <2> QED
    BY <2>2 DEF Counts
<1> QED
  BY <1>1, <1>2, SetupKeepsCounts, AnswerKeepsCounts, RecvMoveKeepsCounts,
     ToMoverKeepsCounts, ToOtherKeepsCounts, MoveKeepsCounts, NextGameKeepsCounts
     DEF ServerNext

(* What the referee and the server know does not change when a client      *)
(* moves.                                                                  *)
LEMMA JudgedSame ==
  ASSUME UNCHANGED serverVars
  PROVE  \A p : Judged(p)' = Judged(p) /\ (SameGameAs(p)' <=> SameGameAs(p))
BY DEF serverVars, moveVars, Judged, Played, SameGameAs

(* What a client with nothing to read knows of.                            *)
LEMMA CountNothing == \A c, k : CountOf(c, k, <<>>) = k
BY DEF CountOf

(* The other client.                                                       *)
LEMMA OthersKeepCounts ==
  ASSUME MatchInv, NEW p \in Players, ClientIANext(p), NEW o \in Players, o # p, NEW k
  PROVE  Counts(o, k) => Counts(o, k)'
<1>1. /\ DOMAIN client = Players /\ DOMAIN toServer = Players /\ DOMAIN toClient = Players
  BY MatchTypes DEF ClientsActive, NetTypeOK
<1>2. client'[o] = client[o] /\ toServer'[o] = toServer[o] /\ toClient'[o] = toClient[o]
  BY <1>1 DEF ClientIANext, ClientIAStep, ReceiveAndTell, AskAI, LoseServerIA, Crash,
              ConnectToServer, SendPartie, SendCoup, Receive, LoseServer, SendToServer
<1>3. Judged(o)' = Judged(o) /\ (SameGameAs(o)' <=> SameGameAs(o))
  BY JudgedSame DEF ClientIANext
<1>4. Count(o, k)' = Count(o, k) /\ Sent(o)' = Sent(o)
  BY <1>2 DEF Count, Sent, UpToDate
<1> QED
  BY <1>3, <1>4 DEF Counts

(* A client connects, asks for a match, leaves or dies.                    *)
LEMMA QuietKeepsCounts ==
  ASSUME MatchInv, UNCHANGED serverVars, NEW p \in Players, NEW k,
         ConnectToServer(p) \/ SendPartie(p) \/ LoseServer(p) \/ Crash(p)
  PROVE  Counts(p, k) => Counts(p, k)'
<1>1. Judged(p)' = Judged(p) /\ (SameGameAs(p)' <=> SameGameAs(p))
  BY JudgedSame
<1>2. CASE LoseServer(p) \/ Crash(p)
  <2>1. UNCHANGED <<client, toServer, toClient>>
    BY <1>2 DEF LoseServer, Crash
  <2>2. Count(p, k)' = Count(p, k) /\ Sent(p)' = Sent(p)
    BY <2>1, SameView DEF Count, Sent
  <2> QED
    BY <1>1, <2>2 DEF Counts
<1>3. CASE ConnectToServer(p) \/ SendPartie(p)
  <2>1. PICK l \in {"sendPartie", "partieRep"} :
          /\ client[p].loc \in {"connect", "sendPartie"}
          /\ client' = [client EXCEPT ![p].loc = l] /\ UNCHANGED toClient
    BY <1>3 DEF ConnectToServer, SendPartie
  <2>2. /\ InStep(p) /\ client[p].loc \notin Reading
    BY <2>1 DEF MatchInv, Reading
  <2>3. toClient[p] = <<>> /\ toClient'[p] = <<>>
    BY <2>1, <2>2, NothingToRead, MatchTypes
  <2>4. Count(p, k) = k /\ Count(p, k)' = k
    BY <2>3, CountNothing DEF Count
  <2>5. /\ UpToDate(p) = client[p] /\ client[p] \in Active
        /\ UpToDate(p)' = [UpToDate(p) EXCEPT !.loc = l]
    BY <2>1, <2>2, LocView, MatchTypes
  <2>6. UpToDate(p).loc # "coupRep" /\ UpToDate(p)'.loc # "coupRep"
    BY <2>1, <2>5 DEF Active, Clients
  <2>7. Sent(p) = 0 /\ Sent(p)' = 0
    BY <2>6 DEF Sent
  <2> QED
    BY <1>1, <2>4, <2>7 DEF Counts
<1> QED
  BY <1>2, <1>3

(* A client sends a move: it knows of one more, which is still to be read. *)
LEMMA AskCounts ==
  ASSUME MatchInv, UNCHANGED serverVars, NEW p \in Players, NEW k \in Nat, SendCoup(p)
  PROVE  Counts(p, k) => Counts(p, k + 1)'
<1>1. Judged(p)' = Judged(p) /\ (SameGameAs(p)' <=> SameGameAs(p)) /\ Judged(p) \in Int
  BY JudgedSame, CountTypes
<1>2. /\ client[p].loc = "askAI" /\ client' = [client EXCEPT ![p].loc = "coupRep"]
      /\ UNCHANGED toClient
      /\ InStep(p) /\ client[p].loc \notin Reading
  BY DEF SendCoup, MatchInv, Reading
<1>3. toClient[p] = <<>> /\ toClient'[p] = <<>>
  BY <1>2, NothingToRead, MatchTypes
<1>4. Count(p, k) = k /\ Count(p, k + 1)' = k + 1
  BY <1>3, CountNothing DEF Count
<1>5. /\ UpToDate(p) = client[p] /\ client[p] \in Active
      /\ UpToDate(p)' = [UpToDate(p) EXCEPT !.loc = "coupRep"]
  BY <1>2, LocView, MatchTypes
<1>6. UpToDate(p).loc = "askAI" /\ UpToDate(p)'.loc = "coupRep"
  BY <1>2, <1>5 DEF Active, Clients
<1>7. Sent(p) = 0
  BY <1>6 DEF Sent
<1>8. Sent(p)' = 1
  <2>1. toServer'[p] = Append(toServer[p], convertAItoServer(client[p]))
        /\ toServer[p] \in Seq(TPartieReq \union TCoupReq)
    BY MatchTypes DEF SendCoup, SendToServer
  <2>2. convertAItoServer(client[p]) \in TPartieReq \union TCoupReq
    BY <1>2, <1>5 DEF convertAItoServer, TCoupReq, Active, Clients
  <2>3. toServer'[p] # <<>>
    BY <2>1, <2>2, AppendProperties
  <2> QED
    BY <1>6, <2>3 DEF Sent
<1>9. CASE spc = "exit"
  <2>1. ~SameGameAs(p)
    BY <1>9 DEF SameGameAs, Answering
  <2> QED
    BY <1>1, <2>1 DEF Counts
<1>10. SameGameAs(p) /\ Counts(p, k) => k = Judged(p)
  BY <1>1, <1>4, <1>7 DEF Counts
<1> QED
  BY <1>1, <1>4, <1>8, <1>10 DEF Counts

(* A client reads a structure: what it will know of stays the same.        *)
LEMMA ReceiveCounts ==
  ASSUME MatchInv, UNCHANGED serverVars, NEW p \in Players, NEW k, Receive(p),
         NEW n, n = NextCount(client[p], k, Head(toClient[p]))
  PROVE  Counts(p, k) => Counts(p, n)'
<1>1. Judged(p)' = Judged(p) /\ (SameGameAs(p)' <=> SameGameAs(p))
  BY JudgedSame
<1>2. /\ UpToDate(p)' = UpToDate(p) /\ UNCHANGED toServer
      /\ toClient[p] \in Seq(ToClients) /\ Len(toClient[p]) <= 4
  BY ReceiveView, ViewType, MatchTypes DEF MatchInv, Receive, InStep
<1>3. /\ toClient[p] # <<>>
      /\ toClient'[p] = Tail(toClient[p])
      /\ client'[p] = Handle(client[p], Head(toClient[p]))
  BY MatchTypes DEF Receive, ClientsActive, NetTypeOK
<1>4. CountOf(client'[p], n, toClient'[p]) = Count(p, k)
  BY <1>2, <1>3, CountTail DEF Count
<1>5. Sent(p)' = Sent(p)
  BY <1>2 DEF Sent
<1> QED
  BY <1>1, <1>4, <1>5 DEF Counts, Count

-----------------------------------------------------------------------------
(* The invariant holds before anybody has connected.                       *)
LEMMA LinkInit ==
  ASSUME IAMatchInit, IAMatchTypeOK
  PROVE  LinkInv
<1>1. MatchInv
  BY MatchInitInv DEF IAMatchInit
<1>2. NoDrop
  BY DEF IAMatchInit, NoDrop
<1>3. ASSUME NEW p \in Players PROVE Knows(p, 0) /\ Counts(p, 0)
  <2>1. /\ client[p].loc = "connect" /\ client[p].nbPartie = 1
        /\ spc = "accept"
        /\ toClient[p] = <<>> /\ toServer[p] = <<>>
    BY DEF IAMatchInit, Init, ClientInit, ServerInit, NetInit
  <2>2. /\ ai[p].loc = (IF p \in Own THEN "readSens" ELSE "off")
        /\ ai[p].nbPartie = 1 /\ ai[p].coups = 0
        /\ toAI[p] = <<>> /\ fromAI[p] = <<>>
    BY DEF IAMatchInit, IAInit
  <2>3. Knows(p, 0)
    BY <2>1, <2>2 DEF Knows, InTouch, Apart, Together, Starting, Living
  <2>4. Judged(p) = 0
    BY <1>1, <2>1, SetupCounts DEF Setup
  <2>5. Sent(p) = 0 /\ Count(p, 0) = 0
    BY <2>1, CountNothing DEF Sent, Count
  <2> QED
    BY <2>3, <2>4, <2>5 DEF Counts
<1> QED
  BY <1>1, <1>2, <1>3 DEF LinkInv, WellTold

(* A step of a client, as its AI and the server see it.                    *)
LEMMA ClientKeepsLink ==
  ASSUME LinkInv, NEW p \in Players, ClientIANext(p)
  PROVE  NoDrop' /\ \A o \in WellTold' : \E k \in Nat : Knows(o, k)' /\ Counts(o, k)'
<1>1. /\ MatchInv /\ IAMatchTypeOK /\ NoDrop
      /\ UNCHANGED serverVars /\ UNCHANGED ai
  BY DEF LinkInv, ClientIANext, ClientIAStep, ReceiveAndTell, AskAI, LoseServerIA, iaVars
<1>w. WellTold' = WellTold /\ WellTold \subseteq Players
  BY <1>1 DEF WellTold, Displaces
<1>2. ASSUME NEW o \in WellTold, o # p
      PROVE  \E k \in Nat : Knows(o, k)' /\ Counts(o, k)'
  <2>1. PICK k \in Nat : Knows(o, k) /\ Counts(o, k)
    BY DEF LinkInv
  <2> QED
    BY <1>w, <1>1, <1>2, <2>1, OthersKeep, OthersKeepCounts
<1>3. SUFFICES NoDrop' /\ (p \in WellTold => \E k \in Nat : Knows(p, k)' /\ Counts(p, k)')
  BY <1>w, <1>2
<1>4. CASE AskAI(p)
  <2>1. ASSUME p \in WellTold, NEW k \in Nat, Knows(p, k), Counts(p, k)
        PROVE  /\ Knows(p, k + 1)' /\ Counts(p, k + 1)'
               /\ Displaces(p) => Chosen(p) = {DEPLACER}
    BY <1>1, <1>4, <2>1, AskKnows, AskCounts DEF AskAI
  <2>2. p \in WellTold =>
          /\ \E k \in Nat : Knows(p, k)' /\ Counts(p, k)'
          /\ Displaces(p) => Chosen(p) = {DEPLACER}
    <3>1. \A k \in Nat : k + 1 \in Nat
      OBVIOUS
    <3> QED
      BY <2>1, <3>1 DEF LinkInv
  <2>3. NoDrop'
    BY <1>1, <1>4, <2>2, AskNoDrop
  <2> QED
    BY <2>2, <2>3
<1>5. CASE ReceiveAndTell(p)
  <2>1. NoDrop'
    BY <1>1, <1>5, StillNoDrop DEF ReceiveAndTell
  <2>2. ASSUME p \in WellTold
        PROVE  \E k \in Nat : Knows(p, k)' /\ Counts(p, k)'
    <3>1. PICK k \in Nat : Knows(p, k) /\ Counts(p, k)
      BY <2>2 DEF LinkInv
    <3>2. PICK n : n = NextCount(client[p], k, Head(toClient[p]))
      OBVIOUS
    <3>3. n \in Nat
      BY <3>2 DEF NextCount
    <3>4. Knows(p, n)'
      BY <1>1, <1>5, <2>2, <3>1, <3>2, ReceiveKeeps
    <3>5. Counts(p, n)'
      BY <1>1, <1>5, <3>1, <3>2, ReceiveCounts DEF ReceiveAndTell
    <3> QED
      BY <3>3, <3>4, <3>5
  <2> QED
    BY <2>1, <2>2
<1>6. CASE \/ (ConnectToServer(p) \/ SendPartie(p) \/ Crash(p)) /\ UNCHANGED <<iaVars, lastCoup>>
           \/ LoseServerIA(p)
  <2>1. NoDrop'
    BY <1>1, <1>6, StillNoDrop DEF LoseServerIA
  <2>2. ASSUME p \in WellTold
        PROVE  \E k \in Nat : Knows(p, k)' /\ Counts(p, k)'
    <3>1. PICK k \in Nat : Knows(p, k) /\ Counts(p, k)
      BY <2>2 DEF LinkInv
    <3>2. Knows(p, k)'
      BY <1>1, <1>6, <3>1, QuietKnows
    <3>3. Counts(p, k)'
      BY <1>1, <1>6, <3>1, QuietKeepsCounts DEF LoseServerIA
    <3> QED
      BY <3>2, <3>3
  <2> QED
    BY <2>1, <2>2
<1> QED
  BY <1>4, <1>5, <1>6 DEF ClientIANext, ClientIAStep

(* Nothing of what the server and a client hold changes.                   *)
LEMMA CountsSame ==
  ASSUME UNCHANGED vars
  PROVE  \A p, k : Counts(p, k)' <=> Counts(p, k)
<1>1. UNCHANGED <<serverVars, client, toServer, toClient>>
  BY DEF vars, netVars
<1>2. \A p : UpToDate(p)' = UpToDate(p) /\ Sent(p)' = Sent(p)
  BY <1>1, SameView DEF Sent
<1>3. \A p, k : Count(p, k)' = Count(p, k)
  BY <1>1 DEF Count
<1> QED
  BY <1>1, <1>2, <1>3, JudgedSame DEF Counts

(* An AI dies: from now on its client speaks for itself.                   *)
LEMMA DeathKeepsLink ==
  ASSUME LinkInv, NEW p \in Players, AIDies(p)
  PROVE  NoDrop' /\ \A o \in WellTold' : \E k \in Nat : Knows(o, k)' /\ Counts(o, k)'
<1>1. /\ MatchInv /\ IAMatchTypeOK /\ NoDrop
      /\ UNCHANGED <<vars, client, link, fromAI, lastCoup>>
      /\ ai[p].loc \notin {"off", "dead"}
      /\ ai' = [ai EXCEPT ![p].loc = "dead"] /\ toAI' = [toAI EXCEPT ![p] = <<>>]
  BY DEF LinkInv, AIDies, Die, Alive, vars, netVars
<1>2. ai[p] \in AIs /\ DOMAIN ai = Players /\ DOMAIN toAI = Players
  BY <1>1 DEF IAMatchTypeOK, IATypeOK
<1>3. /\ ai'[p].loc = "dead" /\ toAI'[p] = <<>>
      /\ \A o \in Players \ {p} : ai'[o] = ai[o] /\ toAI'[o] = toAI[o]
  BY <1>1, <1>2 DEF AIs
<1>4. NoDrop' /\ WellTold' \subseteq WellTold
  BY <1>1, <1>3, StillNoDrop
<1>5. ASSUME NEW o \in WellTold, NEW k \in Nat, Knows(o, k)
      PROVE  Knows(o, k)'
  <2>1. o \in Players
    BY DEF WellTold
  <2>2. CASE o # p
    <3>1. o \in Living' <=> o \in Living
      BY <1>3, <2>1, <2>2 DEF Living
    <3> QED
      BY <1>1, <1>3, <1>5, <2>1, <2>2, <3>1 DEF Knows, InTouch
  <2>3. CASE o = p
    <3>1. PICK own \in BOOLEAN : own = (p \in Living)
      <4>1. (p \in Living) \in BOOLEAN
        OBVIOUS
      <4> QED
        BY <4>1, Zenon
    <3>2. PICK c, a, q, f, l, b :
            /\ c = client[p] /\ a = ai[p] /\ q = toAI[p] /\ f = fromAI[p] /\ l = link[p]
            /\ b = ai'[p]
      OBVIOUS
    <3>3. c \in Active /\ c.loc # "garbled"
      BY <1>1, <3>2, ClientIsUpToDate DEF MatchInv, ClientsActive
    <3>4. InTouch(own, c, a, q, f, l, k)
      BY <1>5, <2>3, <3>1, <3>2 DEF Knows
    <3>5. PICK own1 \in BOOLEAN : own1 = (p \in Living')
      <4>1. (p \in Living') \in BOOLEAN
        OBVIOUS
      <4> QED
        BY <4>1, Zenon
    <3>6. ~own1
      BY <1>3, <3>5 DEF Living
    <3>7. b.loc = "dead" /\ a.loc \notin {"off", "dead"}
      BY <1>1, <1>3, <3>2
    <3>8. InTouch(own1, c, b, <<>>, f, l, k)
      BY <3>3, <3>4, <3>6, <3>7, DieKeeps
    <3> QED
      BY <1>1, <1>3, <2>3, <3>2, <3>5, <3>8 DEF Knows
  <2> QED
    BY <2>2, <2>3
<1> QED
  BY <1>1, <1>4, <1>5, CountsSame DEF LinkInv

(* Every step keeps the invariant.                                         *)
LEMMA LinkStep ==
  ASSUME LinkInv, IAMatchTypeOK', [IAMatchNext]_allVars
  PROVE  LinkInv'
<1>1. MatchInv /\ IAMatchTypeOK /\ NoDrop
  BY DEF LinkInv
<1>2. MatchInv'
  BY <1>1, StepMaps, MatchStepInv
<1>3. SUFFICES NoDrop' /\ \A o \in WellTold' : \E k \in Nat : Knows(o, k)' /\ Counts(o, k)'
  BY <1>2 DEF LinkInv
<1>4. CASE IAServerStep
  <2>1. ServerStep /\ UNCHANGED <<ai, toAI, fromAI, lastCoup>>
    BY <1>4 DEF IAServerStep, iaVars
  <2>2. UNCHANGED <<client, link>>
    BY <2>1 DEF ServerStep, ServerNext, Accept, RecvPartie, SendFirstAnswer,
                SendSecondAnswer, RefuseMatch, RecvMove, SendToMover, SendToOther, SendMove,
                NextGame, LastGame, RecvError, SendError, KilledBySigpipe, Forfeit, netVars
  <2>3. NoDrop' /\ WellTold' \subseteq WellTold /\ Living' = Living
    BY <1>1, <2>1, StillNoDrop DEF Living
  <2>4. ASSUME NEW o \in WellTold PROVE \E k \in Nat : Knows(o, k)' /\ Counts(o, k)'
    <3>1. PICK k \in Nat : Knows(o, k) /\ Counts(o, k)
      BY DEF LinkInv
    <3>2. Knows(o, k)'
      BY <2>1, <2>2, <2>3, <3>1 DEF Knows
    <3>3. o \in Players
      BY DEF WellTold
    <3> QED
      BY <1>1, <2>1, <3>1, <3>2, <3>3, ServerKeepsCounts
  <2> QED
    BY <2>3, <2>4
<1>5. ASSUME NEW p \in Players, AINext(p)
      PROVE  NoDrop' /\ \A o \in WellTold' : \E k \in Nat : Knows(o, k)' /\ Counts(o, k)'
  <2>1. UNCHANGED vars /\ UNCHANGED lastCoup
    BY <1>5 DEF AINext
  <2>2. NoDrop' /\ WellTold' \subseteq WellTold
    BY <1>1, <1>5, <2>1, DeadForGood, StillNoDrop
  <2>3. ASSUME NEW o \in WellTold PROVE \E k \in Nat : Knows(o, k)' /\ Counts(o, k)'
    <3>1. PICK k \in Nat : Knows(o, k) /\ Counts(o, k)
      BY DEF LinkInv
    <3>2. o \in Players
      BY DEF WellTold
    <3> QED
      BY <1>1, <1>5, <2>1, <3>1, <3>2, AIKeepsInTouch, CountsSame
  <2> QED
    BY <2>2, <2>3
<1>6. CASE AllTerminated \/ UNCHANGED allVars
  <2>1. UNCHANGED <<vars, ai, toAI, fromAI, lastCoup, client, link>>
    BY <1>6 DEF AllTerminated, Terminated, allVars, iaVars, vars, netVars
  <2>2. NoDrop' /\ WellTold' \subseteq WellTold /\ Living' = Living
    BY <1>1, <2>1, StillNoDrop DEF Living
  <2>3. \A o, k : Knows(o, k)' <=> Knows(o, k)
    BY <2>1, <2>2 DEF Knows
  <2> QED
    BY <2>1, <2>2, <2>3, CountsSame DEF LinkInv
<1> QED
  BY <1>4, <1>5, <1>6, ClientKeepsLink, DeathKeepsLink DEF IAMatchNext

(* The invariant holds in every reachable state of every match, whoever    *)
(* the players are and whatever happens to them.                           *)
THEOREM LinkInvariance == IAMatchSpec => []LinkInv
<1>1. IAMatchInit /\ IAMatchTypeOK => LinkInv
  BY LinkInit
<1>2. LinkInv /\ IAMatchTypeOK' /\ [IAMatchNext]_allVars => LinkInv'
  BY LinkStep
<1> QED
  BY <1>1, <1>2, AITypeCorrect, PTL DEF IAMatchSpec

-----------------------------------------------------------------------------
(* What the invariant says of an AI and its client.                        *)
LEMMA InTouchFacts ==
  ASSUME NEW own, NEW c, c.loc \in {"askAI", "done"} \union Starting \union Reading,
         NEW a, NEW q, NEW f, NEW l, NEW k \in Nat, InTouch(own, c, a, q, f, l, k)
  PROVE  /\ a.loc = "read" => Len(q) % Size = 0
         /\ \/ f = <<>>
            \/ /\ c.loc = "askAI" /\ a.loc # "think"
               /\ f = <<[partie |-> c.nbPartie, coups |-> k]>>
         /\ c.loc = "askAI" /\ l = "up" /\ f = <<>> /\ a.loc = "read" /\ q = <<>> =>
              a.nbPartie = 2 /\ a.sens /\ a.coups = 0
<1>1. CASE a.loc \in {"off", "dead"}
  BY <1>1 DEF InTouch, Apart
<1>2. CASE a.loc \notin {"off", "dead"}
  <2>1. Together(c, a, q, f, l, k)
    BY <1>2 DEF InTouch
  <2>2. /\ Len(<<>>) % Size = 0 /\ Len(Move) % Size = 0 /\ Len(End) % Size = 0
        /\ Len(End \o Move) % Size = 0 /\ Len(End \o End) % Size = 0
        /\ End \o <<>> = End
        /\ End # <<>> /\ Move # <<>> /\ End \o Move # <<>>
    <3>1. Len(<<>>) = 0
      OBVIOUS
    <3>2. /\ Len(Move) = 8 /\ Len(End) = 8
          /\ Len(End \o Move) = Len(End) + Len(Move) /\ Len(End \o End) = Len(End) + Len(End)
          /\ End \o <<>> = End /\ End # <<>> /\ Move # <<>> /\ End \o Move # <<>>
      BY MoveAndEnd, Joined
    <3>3. Len(End \o Move) = 16 /\ Len(End \o End) = 16
      BY <3>2
    <3> QED
      BY <3>1, <3>2, <3>3, SizeIs8
  <2>3. CASE c.loc \in Starting
    BY <2>1, <2>3 DEF Together, Starting
  <2>4. CASE c.loc \in {"coupRep", "enemyRep", "enemyMove"}
    BY <2>1, <2>2, <2>4 DEF Together, Starting, Behind
  <2>5. CASE c.loc = "done"
    BY <2>1, <2>2, <2>5 DEF Together, Starting, Behind
  <2>6. CASE c.loc = "askAI"
    <3>1. CASE ToMove(a, q, f, c.nbPartie, k)
      <4>1. CASE a.loc = "think" /\ f = <<>>
        BY <2>6, <4>1
      <4>2. CASE /\ a.loc = "read" /\ q = <<>>
                 /\ f = <<[partie |-> c.nbPartie, coups |-> k]>>
        <5>1. f # <<>>
          BY <4>2
        <5> QED
          BY <2>2, <2>6, <4>2, <5>1
      <4>3. CASE f = <<>> /\ Behind(a, q, c.nbPartie, k - 1, Move)
        BY <2>2, <2>6, <4>3 DEF Behind
      <4>4. CASE f = <<>> /\ ToOpen(a, q, c.nbPartie)
        BY <2>2, <2>6, <4>4 DEF ToOpen
      <4> QED
        BY <3>1, <4>1, <4>2, <4>3, <4>4 DEF ToMove
    <3>2. CASE Starved(a, q, f, c.nbPartie, k)
      BY <2>2, <2>6, <3>2 DEF Starved
    <3>3. CASE /\ l = "down" /\ f = <<>>
               /\ a.loc = "read" /\ a.nbPartie = c.nbPartie /\ q = <<>>
      BY <2>2, <2>6, <3>3
    <3> QED
      BY <2>1, <2>6, <3>1, <3>2, <3>3 DEF Together
  <2> QED
    BY <2>3, <2>4, <2>5, <2>6 DEF Reading, Starting
<1> QED
  BY <1>1, <1>2

(* The same, of the variables.                                             *)
LEMMA LinkFacts ==
  ASSUME LinkInv, NEW p \in WellTold
  PROVE  \E k \in Nat :
           /\ Counts(p, k)
           /\ ai[p].loc = "read" => Len(toAI[p]) % Size = 0
           /\ \/ fromAI[p] = <<>>
              \/ /\ client[p].loc = "askAI" /\ ai[p].loc # "think"
                 /\ fromAI[p] = <<[partie |-> client[p].nbPartie, coups |-> k]>>
           /\ BothWait(p) => ai[p].nbPartie = 2 /\ ai[p].sens /\ ai[p].coups = 0
<1>1. PICK k \in Nat : Knows(p, k) /\ Counts(p, k)
  BY DEF LinkInv
<1>2. client[p].loc \in {"askAI", "done"} \union Starting \union Reading
  <2>1. client[p] \in Clients /\ client[p].loc # "garbled"
    BY ClientIsUpToDate, MatchTypes DEF LinkInv, ClientsActive, Active, WellTold
  <2> QED
    BY <2>1 DEF Clients, Starting, Reading
<1>3. PICK own, c, a, q, f, l :
        /\ c = client[p] /\ a = ai[p] /\ q = toAI[p] /\ f = fromAI[p] /\ l = link[p]
        /\ InTouch(own, c, a, q, f, l, k)
  BY <1>1 DEF Knows
<1>4. /\ a.loc = "read" => Len(q) % Size = 0
      /\ \/ f = <<>>
         \/ /\ c.loc = "askAI" /\ a.loc # "think"
            /\ f = <<[partie |-> c.nbPartie, coups |-> k]>>
      /\ c.loc = "askAI" /\ l = "up" /\ f = <<>> /\ a.loc = "read" /\ q = <<>> =>
           a.nbPartie = 2 /\ a.sens /\ a.coups = 0
  BY <1>2, <1>3, InTouchFacts
<1> QED
  BY <1>1, <1>3, <1>4 DEF BothWait

(* The reads of an AI whose opponent displaces begin where its client's    *)
(* structures do: no word of a structure is ever taken for another.        *)
THEOREM WordsStayInStep == IAMatchSpec => []WordsInStep
<1>1. LinkInv => WordsInStep
  BY LinkFacts DEF WordsInStep
<1> QED
  BY <1>1, LinkInvariance, PTL

(* An AI whose opponent displaces chooses one move at a time, and only one *)
(* that its client asks for.                                               *)
THEOREM AIsChooseOneMove == IAMatchSpec => []OneMoveAtATime
<1>1. LinkInv => OneMoveAtATime
  <2> SUFFICES ASSUME LinkInv, NEW p \in WellTold
               PROVE  /\ Len(fromAI[p]) <= 1
                      /\ ai[p].loc = "think" => fromAI[p] = <<>>
                      /\ fromAI[p] # <<>> => client[p].loc = "askAI"
    BY DEF OneMoveAtATime
  <2>1. PICK x : \/ fromAI[p] = <<>>
                 \/ /\ client[p].loc = "askAI" /\ ai[p].loc # "think"
                    /\ fromAI[p] = <<x>>
    BY LinkFacts
  <2>2. Len(<<x>>) <= 1 /\ Len(<<>>) <= 1
    OBVIOUS
  <2>3. CASE fromAI[p] = <<>>
    BY <2>2, <2>3, Zenon
  <2>4. CASE fromAI[p] = <<x>>
    BY <2>1, <2>2, <2>4, Zenon
  <2> QED
    BY <2>1, <2>3, <2>4
<1> QED
  BY <1>1, LinkInvariance, PTL

(* A move that a client takes from its AI, a dead one included, was chosen *)
(* in the game that is being played, after all the moves the referee has   *)
(* judged in it, if the opponent displaces.                                *)
THEOREM MovesAreFresh == IAMatchSpec => []MoveIsFresh
<1>1. LinkInv => MoveIsFresh
  <2> SUFFICES ASSUME LinkInv, spc # "exit", NEW p \in WellTold,
                      client[p].loc = "askAI", fromAI[p] # <<>>
               PROVE  Head(fromAI[p]) = [partie |-> client[p].nbPartie, coups |-> Played]
    BY DEF MoveIsFresh, Played
  <2>p. p \in Players
    BY DEF WellTold
  <2>1. PICK k \in Nat :
          Counts(p, k) /\ fromAI[p] = <<[partie |-> client[p].nbPartie, coups |-> k]>>
    BY LinkFacts
  <2>2. MatchInv /\ UpToDate(p) = client[p]
    BY <2>p, ClientIsUpToDate DEF LinkInv
  <2>3. toClient[p] = <<>>
    BY <2>p, <2>2, NothingToRead, MatchTypes DEF MatchInv, Reading
  <2>4. Count(p, k) = k
    BY <2>3, CountNothing DEF Count
  <2>5. SameGameAs(p) /\ Judged(p) = Played
    BY <2>p, <2>2, AtWorkHasTurn DEF SameGameAs, Judged, Answering
  <2>6. Sent(p) = 0 /\ Played \in Nat
    BY <2>p, <2>2, CountTypes
  <2>7. k = Played
    BY <2>1, <2>4, <2>5, <2>6 DEF Counts
  <2>8. \A x : Head(<<x>>) = x
    OBVIOUS
  <2> QED
    BY <2>1, <2>7, <2>8
<1> QED
  BY <1>1, LinkInvariance, PTL

(* A client and its AI wait for each other, their opponent displacing,     *)
(* only when the AI has skipped the first move of the second game.         *)
THEOREM OnlyTheFirstMoveIsLost == IAMatchSpec => []OnlyFirstMoveLost
<1>1. LinkInv => OnlyFirstMoveLost
  BY LinkFacts DEF OnlyFirstMoveLost
<1> QED
  BY <1>1, LinkInvariance, PTL


-----------------------------------------------------------------------------
(* What an AI in state a with the words q to read may still do.            *)
ThoughtLeft(a) ==
  CASE a.loc = "skip" -> 2
    [] a.loc = "think" -> 1
    [] OTHER -> 0

AliveLeft(a) == IF a.loc \notin {"off", "dead"} THEN 1 ELSE 0

AILeft(a, q) == 3 * Len(q) + ThoughtLeft(a) + AliveLeft(a)

(* AllStepsLeft as a sum over what the two AIs have.                       *)
LEMMA AllStepsLeftIs ==
  /\ AllStepsLeft = 25 * StepsLeft + AILeft(ai[1], toAI[1]) + AILeft(ai[2], toAI[2])
  /\ AllStepsLeft' = 25 * StepsLeft' + AILeft(ai'[1], toAI'[1]) + AILeft(ai'[2], toAI'[2])
<1>1. \A p : /\ AIStepsLeft(p) = AILeft(ai[p], toAI[p])
             /\ AIStepsLeft(p)' = AILeft(ai'[p], toAI'[p])
  BY DEF AIStepsLeft, AILeft, ThoughtLeft, AliveLeft, Alive
<1> QED
  BY <1>1 DEF AllStepsLeft

(* Its terms are numbers.                                                  *)
LEMMA AILeftFacts ==
  ASSUME NEW q \in Words, NEW a
  PROVE  /\ Len(q) \in Nat /\ ThoughtLeft(a) \in 0..2 /\ AliveLeft(a) \in 0..1
         /\ AILeft(a, q) \in Nat
<1>1. Len(q) \in Nat
  BY FirstAndRest
<1>2. ThoughtLeft(a) \in 0..2 /\ AliveLeft(a) \in 0..1
  BY DEF ThoughtLeft, AliveLeft
<1> QED
  BY <1>1, <1>2 DEF AILeft

(* A word is worth more than the thought it leads to, whatever the AI      *)
(* takes it for.                                                           *)
LEMMA FewerWords ==
  ASSUME NEW q \in Words, NEW r \in Words, Len(r) < Len(q),
         NEW a, NEW b, a.loc \notin {"off", "dead"}
  PROVE  AILeft(b, r) < AILeft(a, q)
<1>1. /\ Len(q) \in Nat /\ ThoughtLeft(a) \in 0..2 /\ AliveLeft(a) = 1
      /\ Len(r) \in Nat /\ ThoughtLeft(b) \in 0..2 /\ AliveLeft(b) \in 0..1
  BY AILeftFacts DEF AliveLeft
<1> QED
  BY <1>1 DEF AILeft

(* The rest of a stream is no longer than the stream.                      *)
LEMMA RestLength ==
  ASSUME NEW q \in Words, NEW n \in 0..Len(q)
  PROVE  /\ SubSeq(q, n + 1, Len(q)) \in Words
         /\ Len(SubSeq(q, n + 1, Len(q))) = Len(q) - n
<1>1. PICK S : S = {0, 1, Data}
  OBVIOUS
<1>2. q \in Seq(S) /\ Len(q) \in Nat
  BY <1>1, FirstAndRest DEF Words
<1>3. SubSeq(q, n + 1, Len(q)) \in Words
  BY FirstAndRest, n \in Nat, <1>2
<1>4. Len(SubSeq(q, n + 1, Len(q))) = IF n + 1 <= Len(q) THEN Len(q) - (n + 1) + 1 ELSE 0
  BY <1>2
<1> QED
  BY <1>2, <1>3, <1>4

(* Each step of an AI takes something off what it may still do.            *)
LEMMA AIStepLess ==
  ASSUME IATypes, NEW p \in Players, AINext(p) \/ AIDies(p)
  PROVE  /\ AILeft(ai'[p], toAI'[p]) < AILeft(ai[p], toAI[p])
         /\ \A q \in Players \ {p} : toAI'[q] = toAI[q] /\ ai'[q] = ai[q]
<1>1. /\ ai[p] \in AIs /\ toAI[p] \in Words
      /\ ai \in [Players -> AIs] /\ toAI \in [Players -> Words]
  BY DEF IATypes, IATypeOK, Words
<1>2. CASE ReadSens(p)
  <2>1. /\ ai[p].loc = "readSens" /\ toAI[p] # <<>>
        /\ toAI' = [toAI EXCEPT ![p] = Tail(toAI[p])]
        /\ \E b : ai' = [ai EXCEPT ![p] = b]
    BY <1>1, <1>2 DEF ReadSens
  <2>2. Tail(toAI[p]) \in Words /\ Len(Tail(toAI[p])) < Len(toAI[p])
    BY <1>1, <2>1, FirstAndRest
  <2>3. AILeft(ai'[p], Tail(toAI[p])) < AILeft(ai[p], toAI[p])
    BY <1>1, <2>1, <2>2, FewerWords
  <2> QED
    BY <1>1, <2>1, <2>3
<1>3. CASE Think(p)
  <2>1. /\ ai[p].loc = "think" /\ UNCHANGED toAI
        /\ ai' = [ai EXCEPT ![p].loc = "read", ![p].coups = @ + 1]
    BY <1>3 DEF Think
  <2>2. ai'[p].loc = "read"
    BY <1>1, <2>1 DEF AIs
  <2>3. /\ ThoughtLeft(ai[p]) = 1 /\ ThoughtLeft(ai'[p]) = 0
        /\ AliveLeft(ai[p]) = 1 /\ AliveLeft(ai'[p]) = 1
    BY <2>1, <2>2 DEF ThoughtLeft, AliveLeft
  <2>4. AILeft(ai'[p], toAI[p]) < AILeft(ai[p], toAI[p])
    BY <1>1, <2>3, AILeftFacts DEF AILeft
  <2> QED
    BY <1>1, <2>1, <2>4
<1>4. CASE ReadCoup(p)
  <2>1. /\ ai[p].loc = "read" /\ \E b : ai' = [ai EXCEPT ![p] = b]
        /\ \E n \in MoveSizes(toAI[p]) :
             toAI' = [toAI EXCEPT ![p] = SubSeq(toAI[p], n + 1, Len(toAI[p]))]
    BY <1>1, <1>4 DEF ReadCoup
  <2>2. PICK n \in MoveSizes(toAI[p]) :
          toAI' = [toAI EXCEPT ![p] = SubSeq(toAI[p], n + 1, Len(toAI[p]))]
    BY <2>1
  <2>3. n \in 1..Len(toAI[p]) /\ Len(toAI[p]) \in Nat
    BY <1>1, FirstAndRest DEF MoveSizes
  <2> DEFINE r == SubSeq(toAI[p], n + 1, Len(toAI[p]))
  <2>4. r \in Words /\ Len(r) < Len(toAI[p])
    BY <1>1, <2>3, RestLength
  <2> HIDE DEF r
  <2>5. AILeft(ai'[p], r) < AILeft(ai[p], toAI[p])
    BY <1>1, <2>1, <2>4, FewerWords
  <2>6. toAI' = [toAI EXCEPT ![p] = r]
    BY <2>2 DEF r
  <2> QED
    BY <1>1, <2>1, <2>5, <2>6
<1>5. CASE ReadEnd(p)
  <2> DEFINE r == IF ai[p].nbPartie = 1 THEN Tail(toAI[p]) ELSE <<>>
  <2>1. /\ ai[p].loc = "read" /\ toAI[p] # <<>>
        /\ toAI' = [toAI EXCEPT ![p] = r]
        /\ \E b : ai' = [ai EXCEPT ![p] = b]
    BY <1>1, <1>5 DEF ReadEnd
  <2>2. r \in Words /\ Len(r) < Len(toAI[p])
    <3>1. Tail(toAI[p]) \in Words /\ Len(Tail(toAI[p])) < Len(toAI[p]) /\ Len(toAI[p]) > 0
      BY <1>1, <2>1, FirstAndRest
    <3>2. <<>> \in Words /\ Len(<<>>) = 0
      BY MoveAndEnd
    <3> QED
      BY <3>1, <3>2
  <2> HIDE DEF r
  <2>3. AILeft(ai'[p], r) < AILeft(ai[p], toAI[p])
    BY <1>1, <2>1, <2>2, FewerWords
  <2> QED
    BY <1>1, <2>1, <2>3
<1>6. CASE Skip(p)
  <2>1. PICK n \in 0..Len(toAI[p]) :
          toAI' = [toAI EXCEPT ![p] = SubSeq(toAI[p], n + 1, Len(toAI[p]))]
    BY <1>6, Zenon DEF Skip
  <2>2. /\ ai[p].loc = "skip"
        /\ ai' = [ai EXCEPT ![p].loc = Begin(ai[p].sens, 2), ![p].coups = 0]
    BY <1>6, Zenon DEF Skip
  <2> DEFINE r == SubSeq(toAI[p], n + 1, Len(toAI[p]))
  <2>3. r \in Words /\ Len(r) <= Len(toAI[p])
    BY <1>1, FirstAndRest, RestLength
  <2>4. toAI' = [toAI EXCEPT ![p] = r]
    BY <2>1
  <2> HIDE DEF r
  <2>5. ai'[p].loc \in {"think", "read"}
    BY <1>1, <2>2, Begins DEF AIs
  <2>6. /\ ThoughtLeft(ai[p]) = 2 /\ ThoughtLeft(ai'[p]) \in 0..1
        /\ AliveLeft(ai[p]) = 1 /\ AliveLeft(ai'[p]) = 1
    BY <2>2, <2>5 DEF ThoughtLeft, AliveLeft
  <2>7. AILeft(ai'[p], r) < AILeft(ai[p], toAI[p])
    BY <1>1, <2>3, <2>6, AILeftFacts DEF AILeft
  <2> QED
    BY <1>1, <2>2, <2>4, <2>7
<1>7. CASE LoseClient(p, link[p] = "down") \/ Die(p)
  <2>1. /\ ai[p].loc \notin {"off", "dead"}
        /\ toAI' = [toAI EXCEPT ![p] = <<>>]
        /\ \E l \in {"off", "dead"} : ai' = [ai EXCEPT ![p].loc = l]
    BY <1>7 DEF LoseClient, Die, Alive
  <2>2. ai'[p].loc \in {"off", "dead"}
    BY <1>1, <2>1 DEF AIs
  <2>3. /\ AliveLeft(ai[p]) = 1 /\ AliveLeft(ai'[p]) = 0 /\ ThoughtLeft(ai'[p]) = 0
    BY <2>1, <2>2 DEF ThoughtLeft, AliveLeft
  <2>4. <<>> \in Words /\ Len(<<>>) = 0
    BY MoveAndEnd
  <2>5. AILeft(ai'[p], <<>>) < AILeft(ai[p], toAI[p])
    BY <1>1, <2>3, <2>4, AILeftFacts DEF AILeft
  <2> QED
    BY <1>1, <2>1, <2>5
<1> QED
  BY <1>2, <1>3, <1>4, <1>5, <1>6, <1>7 DEF AINext, AIDies, AIStep

(* What a client tells its AI in one step is one structure at most.        *)
LEMMA NewsLength ==
  ASSUME NEW c, NEW d, NEW enemyCoup \in {DEPLACER, DEPOSER}
  PROVE  Len(News(c, d, enemyCoup)) \in 0..8
<1>1. enemyCoup \in {0, 1, Data}
  BY DEF DEPLACER, DEPOSER
<1>2. Len(<<IF d.sens = "SUD" THEN 1 ELSE 0>>) = 1
  BY ReadSensWord, MoveAndEnd
<1>3. Len(TCoupIa(0, enemyCoup)) = 8 /\ Len(TCoupIa(1, Data)) = 8 /\ Len(<<>>) = 0
  BY <1>1, CoupWords, MoveAndEnd
<1> QED
  BY <1>2, <1>3 DEF News

(* A step of a client gives its AI at most one structure to read.          *)
LEMMA ClientTellsLittle ==
  ASSUME IATypes, NEW p \in Players, ClientIANext(p)
  PROVE  /\ AILeft(ai'[p], toAI'[p]) <= AILeft(ai[p], toAI[p]) + 24
         /\ \A q \in Players \ {p} : toAI'[q] = toAI[q] /\ ai'[q] = ai[q]
<1>1. /\ ai[p] \in AIs /\ toAI[p] \in Words
      /\ ai \in [Players -> AIs] /\ toAI \in [Players -> Words]
  BY DEF IATypes, IATypeOK, Words
<1>2. AILeft(ai[p], toAI[p]) \in Nat
  BY <1>1, AILeftFacts
<1>3. CASE ReceiveAndTell(p)
  <2>1. lastCoup[Other(p)] \in {DEPLACER, DEPOSER}
    BY DEF IATypes, Players, Other
  <2>2. PICK w \in Words : Tell(p, w) /\ Len(w) \in 0..8 /\ UNCHANGED ai
    BY <1>3, <2>1, NewsAreWords, NewsLength DEF ReceiveAndTell
  <2> DEFINE r == toAI[p] \o w
  <2>3. r \in Words /\ Len(r) = Len(toAI[p]) + Len(w)
    BY <1>1, Joined
  <2>4. toAI'[p] \in {r, toAI[p]} /\ \A q \in Players \ {p} : toAI'[q] = toAI[q]
    BY <1>1, <2>2 DEF Tell
  <2> HIDE DEF r
  <2>5. /\ Len(toAI[p]) \in Nat /\ Len(r) \in Nat
        /\ ThoughtLeft(ai[p]) \in 0..2 /\ AliveLeft(ai[p]) \in 0..1
    BY <1>1, <2>3, AILeftFacts
  <2>6. AILeft(ai[p], r) <= AILeft(ai[p], toAI[p]) + 24
    <3>1. Len(r) = Len(toAI[p]) + Len(w) /\ Len(w) \in 0..8
      BY <2>2, <2>3
    <3>2. PICK n \in Nat : n = Len(toAI[p])
      BY <2>5
    <3>3. PICK m \in 0..8 : m = Len(w)
      BY <3>1
    <3>4. PICK t \in 0..2, v \in 0..1 : t = ThoughtLeft(ai[p]) /\ v = AliveLeft(ai[p])
      BY <2>5
    <3>5. AILeft(ai[p], r) = 3 * (n + m) + t + v /\ AILeft(ai[p], toAI[p]) = 3 * n + t + v
      BY <3>1, <3>2, <3>3, <3>4 DEF AILeft
    <3>6. 3 * (n + m) + t + v <= 3 * n + t + v + 24
      BY ONLY n \in Nat, m \in 0..8, t \in 0..2, v \in 0..1
    <3> QED
      BY ONLY <3>5, <3>6
  <2> QED
    BY <1>2, <2>2, <2>4, <2>6
<1>4. CASE ~ReceiveAndTell(p)
  <2>1. UNCHANGED <<ai, toAI>>
    BY <1>4 DEF ClientIANext, ClientIAStep, AskAI, LoseServerIA, iaVars
  <2> QED
    BY <1>2, <2>1
<1> QED
  BY <1>3, <1>4

(* A step of the match of module Match pays for what it tells an AI.       *)
LEMMA MatchStepPays ==
  ASSUME IATypes, IATypes', IAServerStep \/ \E p \in Players : ClientIANext(p),
         StepsLeft \in Nat, StepsLeft' \in 0..(StepsLeft - 1)
  PROVE  AllStepsLeft' \in 0..(AllStepsLeft - 1)
<1> DEFINE a == AILeft(ai[1], toAI[1])
           b == AILeft(ai[2], toAI[2])
           a1 == AILeft(ai'[1], toAI'[1])
           b1 == AILeft(ai'[2], toAI'[2])
<1>1. a \in Nat /\ b \in Nat /\ a1 \in Nat /\ b1 \in Nat
  <2>1. \A q \in Players : toAI[q] \in Words /\ toAI'[q] \in Words
    BY DEF IATypes, IATypeOK, Words
  <2> QED
    BY <2>1, AILeftFacts DEF Players
<1>2. \/ a1 <= a + 24 /\ b1 = b
      \/ a1 = a /\ b1 <= b + 24
  <2>1. CASE IAServerStep
    BY <1>1, <2>1 DEF IAServerStep, iaVars
  <2>2. CASE \E p \in Players : ClientIANext(p)
    BY <2>2, ClientTellsLittle DEF Players
  <2> QED
    BY <2>1, <2>2
<1>3. AllStepsLeft = 25 * StepsLeft + a + b /\ AllStepsLeft' = 25 * StepsLeft' + a1 + b1
  BY AllStepsLeftIs
<1> HIDE DEF a, b, a1, b1
<1>4. PICK k \in Nat : k = StepsLeft
  OBVIOUS
<1>5. PICK k1 \in 0..(k - 1) : k1 = StepsLeft'
  BY <1>4
<1>6. 25 * k1 + a1 + b1 \in 0..(25 * k + a + b - 1)
  BY ONLY <1>1, <1>2, k \in Nat, k1 \in 0..(k - 1)
<1>7. AllStepsLeft = 25 * k + a + b /\ AllStepsLeft' = 25 * k1 + a1 + b1
  BY <1>3, <1>4, <1>5
<1> QED
  BY ONLY <1>1, <1>6, <1>7, k \in Nat, k1 \in 0..(k - 1)

(* A step of an AI takes nothing from the others.                          *)
LEMMA AIStepPays ==
  ASSUME IATypes, IATypes', NEW p \in Players, AINext(p) \/ AIDies(p),
         StepsLeft \in Nat, StepsLeft' = StepsLeft
  PROVE  AllStepsLeft' \in 0..(AllStepsLeft - 1)
<1> DEFINE a == AILeft(ai[1], toAI[1])
           b == AILeft(ai[2], toAI[2])
           a1 == AILeft(ai'[1], toAI'[1])
           b1 == AILeft(ai'[2], toAI'[2])
<1>1. a \in Nat /\ b \in Nat /\ a1 \in Nat /\ b1 \in Nat
  <2>1. \A q \in Players : toAI[q] \in Words /\ toAI'[q] \in Words
    BY DEF IATypes, IATypeOK, Words
  <2> QED
    BY <2>1, AILeftFacts DEF Players
<1>2. (a1 < a /\ b1 = b) \/ (a1 = a /\ b1 < b)
  BY AIStepLess DEF Players
<1>3. AllStepsLeft = 25 * StepsLeft + a + b /\ AllStepsLeft' = 25 * StepsLeft' + a1 + b1
  BY AllStepsLeftIs
<1> HIDE DEF a, b, a1, b1
<1>4. PICK k \in Nat : k = StepsLeft
  OBVIOUS
<1>5. 25 * k + a1 + b1 \in 0..(25 * k + a + b - 1)
  BY ONLY <1>1, <1>2, k \in Nat
<1>6. AllStepsLeft = 25 * k + a + b /\ AllStepsLeft' = 25 * k + a1 + b1
  BY <1>3, <1>4
<1> QED
  BY ONLY <1>1, <1>5, <1>6, k \in Nat

(* What is left of a match is a number.                                    *)
LEMMA StepsLeftNat == MatchInv => StepsLeft \in Nat
<1> SUFFICES ASSUME MatchInv PROVE StepsLeft \in Nat
  OBVIOUS
<1>1. CallsLeft \in Nat
  BY CallsLeftFacts DEF MatchInv, CallsFacts
<1>2. \A q \in Players : toClient[q] \in Seq(ToClients)
  BY DEF MatchInv, ServerInv, TypesOK, NetTypeOK, ToClients
<1> DEFINE a == Left(toClient[1], client[1], link[1])
           b == Left(toClient[2], client[2], link[2])
<1>3. a \in Nat /\ b \in Nat
  BY <1>2, LeftFacts DEF Players
<1>4. StepsLeft = 3 * CallsLeft + a + b
  BY StepsLeftIs
<1> HIDE DEF a, b
<1> QED
  BY <1>1, <1>3, <1>4

(* The steps of an AI are none of the match.                               *)
LEMMA AIStepLeavesMatch ==
  ASSUME UNCHANGED vars
  PROVE  StepsLeft' = StepsLeft
<1>1. UNCHANGED <<spc, serving, game, referee, toClient, client, link>>
  BY DEF vars, serverVars, netVars
<1>2. CallsLeft' = CallsLeft
  BY <1>1 DEF CallsLeft, MovesJudged
<1> QED
  BY <1>1, <1>2, StepsLeftIs

(* Each step of the server, a client or an AI, whoever dies or drops and   *)
(* whatever an AI takes its words for, uses up one of a number of steps    *)
(* that depends on NB_COUP_MAX alone: the five processes never go round in *)
(* circles.                                                                *)
THEOREM AllStepsOfAMatchRunOut == IAMatchSpec => AllStepsRunOut
<1>1. MatchInv => TypeOK
  BY DEF MatchInv, ServerInv, TypesOK, TypeOK, ClientsActive, Active, ClientTypeOK
<1>2. /\ MatchInv /\ TypeOK /\ MatchInv' /\ TypeOK' /\ IATypes /\ IATypes'
      /\ [IAMatchNext]_allVars
      => [AllStepsLeft' \in 0..(AllStepsLeft - 1)]_allVars
  <2> SUFFICES ASSUME MatchInv, TypeOK, MatchInv', TypeOK', IATypes, IATypes',
                      IAMatchNext, ~UNCHANGED allVars
               PROVE  AllStepsLeft' \in 0..(AllStepsLeft - 1)
    OBVIOUS
  <2>1. StepsLeft \in Nat
    BY StepsLeftNat
  <2>2. CASE IAServerStep
    <3>1. StepsLeft' \in 0..(StepsLeft - 1)
      BY <2>2, ServerStepLeft DEF MatchInv, IAServerStep
    <3> QED
      BY <2>1, <2>2, <3>1, MatchStepPays
  <2>3. ASSUME NEW p \in Players, ClientIANext(p)
        PROVE  AllStepsLeft' \in 0..(AllStepsLeft - 1)
    <3>1. StepsLeft' \in 0..(StepsLeft - 1)
      BY <2>3, ClientStepMaps, ClientStepLeft
    <3> QED
      BY <2>1, <2>3, <3>1, MatchStepPays
  <2>4. ASSUME NEW p \in Players, AINext(p) \/ AIDies(p)
        PROVE  AllStepsLeft' \in 0..(AllStepsLeft - 1)
    <3>1. StepsLeft' = StepsLeft
      BY <2>4, AIStepLeavesMatch DEF AINext, AIDies
    <3> QED
      BY <2>1, <2>4, <3>1, AIStepPays
  <2>5. ~AllTerminated
    BY DEF AllTerminated, Terminated, allVars
  <2> QED
    BY <2>2, <2>3, <2>4, <2>5 DEF IAMatchNext
<1> QED
  BY <1>1, <1>2, MatchInvariance, AIsKeepTheMatch, AITypesInvariance, PTL
  DEF IAMatchSpec, AllStepsRunOut
=============================================================================
