# Yokai No-Mori: a verified model of the match

This directory holds TLA+ models of the program in `src/`: a game server, written in C, that
referees two games of Yokai No-Mori between two players; the C client that each player runs; and,
behind each client, an AI in Java and Prolog. The models are checked with TLC on small instances,
and the properties that matter most are proved with TLAPS for every value of the constants.

## 1. The system

| component | source | state it keeps | operations |
|---|---|---|---|
| protocol | `TCP/protocolYokai.h` | none | four untagged structures of different sizes |
| network | `TCP/fonctionsTCP.c`, `recv`/`send` | two byte streams per connection | connect, accept, send, receive, close |
| game server | `Serveur/serveur.c`, `Serveur/libServeur.c` | games begun, points, move counter, orientation, the move in hand | accept two clients, read both requests, answer, receive and judge a move, send the verdict twice and the move once, end a game, end the match, handle a failed call |
| referee library | `Serveur/validation.h` and `yokai-fPIC.o` | whether a game is open, its number, its moves, who faces which way, the board | `initialiserPartie`, `validationCoup` |
| client | `Client/client.c`, `Client/libClient.c` | orientation, number of the game, games won | connect, request a match, send a move, read a verdict, read the opponent's verdict and move, talk to the AI, end |
| AI link | `Client/libClient.c` (end), `Client/protocoleIa.h`, `IA/jSicstus.java`, `IA/Coup.java` | a stream of 32-bit words per direction, each side's place in its loop | orientation, move down, move up, verdicts |
| AI move bridge | `IA/Prolog.java` | the AI's board and the two lists of captured pieces | `init`, `generateMove`, `forceEnnemyStrike`: a query, then its answer becomes the board |
| Prolog rules and move choice | `IA/ia.pl` | none (the board is an argument) | moves, captures, drops, scoring, choice |
| launcher and build | `joueur.sh`, `Makefile` | none | start the two processes of a player |

How they interact. The server is one thread; it blocks in `accept`, `recv` and `send`. A client
has one socket to the server and one to its AI and also blocks on one call at a time. A match is a
chain of such calls over six processes: AI, client, server, client, AI and the referee linked into
the server. Nothing is shared but the streams, and no structure on them carries a tag or a length,
so a reader is in step with a writer only because both compute from the same history what comes
next. That history is kept three times: `game`, `player1Sud` and the loop branch in the server;
`sens`, `nbPartie` and the loop branch in each client; and the referee's own static variables.

What is hard here:

* *Ordering.* After a move the server sends one verdict to each client, and the move itself only
  if the verdict is "continue". At the change of game the order of the players is reversed. Each
  client decides by itself, from the verdicts, which of three kinds of call comes next.
* *Interleaving.* A client may be up to four structures behind the server and in the previous game
  while the server and the other client are in the next.
* *Failure.* A client may crash at any point, in particular between the two sends of one verdict;
  it leaves legitimately as soon as it has read the last verdict; the server ends the match on the
  first failed call and blames the player concerned, or dies of SIGPIPE.
* *Timeouts.* The server waits `TIME_MAX` seconds for a move; a client waits for ever.
* *Counters.* A draw rule of the server reads a counter that counts something else.
* *Copies of the board.* The referee and each AI keep one, and change it by rules of their own; the
  AI changes its own before the referee has judged the move, and leaves it as it was, in silence,
  when Prolog finds a move of the opponent impossible.

`PROJECT.json` lists each hazard at its line with the properties that watch it.

What makes each component correct:

* server: a match has at most two games; its points are the verdicts it has sent; the announced
  result follows from the points, or from who is blamed; it ends, whatever the clients do;
* server and referee: they always agree on who plays which side;
* client and server: no structure is misread; the server never waits for somebody who waits; a move
  is of the current game and side; the points agree; whoever finished is not blamed; nobody hangs;
* AI link: the words are read as they were written; a move sent to the server was chosen in the
  game being played, on a board with all its moves; no move is lost on the way;
* Prolog rules: the AI's board is the referee's board; the move it picks is legal; no piece is lost or
  doubled; there is a king to attack whenever a move is chosen.

## 2. The modules

    module                extends or instantiates
    Reseau                ProtocolYokai
    Referee               ProtocolYokai
    Client                Reseau
    Serveur               Reseau, Referee, TwoGames (as the abstract specification)
    Match                 Serveur, Client
    MatchClaims           Match
    ServeurOuvert         Serveur
    LienIA                ProtocolYokai
    MatchIA               Match, LienIA
    MatchIAClaims         MatchIA
    ServeurProofs         Serveur
    ServeurOuvertProofs   ServeurOuvert, ServeurProofs
    MatchProofs           Match, ServeurProofs
    MatchIAProofs         MatchIA, MatchProofs
    LienIAProofs          MatchIAProofs
    Plateau               ProtocolYokai
    Arbitre               Plateau, Referee
    ChoixCoup             Plateau
    PontProlog            ChoixCoup
    Partie                PontProlog, Arbitre
    PartieClaims          Partie
    PartieProofs          Partie
    PiecesProofs          PartieProofs
    VueProofs             PartieProofs

`ProtocolYokai` translates the enumerations and the structures. Names, piece types and squares are
left out, because neither the server's control nor the client's reads them: they only pass through
to the referee. A field `kind` says which C structure the sender wrote. It is not on the wire and no
action of the server reads it; the client's `Handle` uses it only to recognise that a structure is
being read as another one, in which case the client is `"garbled"` for good.

`Reseau` has one FIFO per direction, `link[p]` for the client's end and `serverUp` for the server's.

`Referee` is external: the repository holds the header and an object file. It models the part of
its state that outlives a call and the set of verdicts a call may return; whether a move obeys the
rules of the game is a free choice, so what is shown holds whatever the moves are. Two facts were
read from the object code: the player who starts faces SUD in the first game it opens and NORD in
the next, and a move after the sixtieth of a game draws it.

`Serveur` is the whole server. Its program points (`spc`) are the blocking or failing calls:

| `spc` | call | action |
|---|---|---|
| `accept` | both `accept` | `Accept` |
| `recvPartie` | `recv` of player `serving`'s `TPartieReq` | `RecvPartie`, `RecvError` |
| `sendAnswers` | the two sends of `sendAnswers` | `SendFirstAnswer`, `SendSecondAnswer`, `RefuseMatch`, `SendError`, `KilledBySigpipe` |
| `recvMove` | `recv` of a `TCoupReq`, with the referee call and `prepareStrikeAnswer` | `RecvMove`, `RecvError` |
| `sendToMover`, `sendToOther`, `sendMove` | the sends of `sendStrikeAnswer` | same names, `SendError`, `KilledBySigpipe` |
| `endOfGame` | the end of a game in the main loop | `NextGame`, `LastGame` |
| `exit` | `exit` | none |

The four near-copies of one turn in `main` (two branches, two players each) are one cycle:
`serving` is the player the copy is about, `Joueur` the number that copy passes to the referee and
`FirstPlayer` the condition that chooses the branch.

`Client` is everything a client does on the server's socket, with its two loops and two branches
reduced to one cycle in the same way; here the AI is only a delay. `Match` composes the server with two
clients, crashes included. `ServeurOuvert` composes the server with clients that follow nothing but
the format of the structures: they ask for either side, send a wrong request, move out of turn or
in advance, with the opponent's pieces, leave at any time. `TwoGames` is the abstract
match that the server implements: at most two games, then one result, in favour of the player with
more points; or an earlier one against a player who is blamed, and only somebody who is `missing` can be;
or none, if the match is refused or the server does not survive an absence. Who is missing
changes freely there: that players leave, fall asleep and wake up is no
promise of the server, what it makes of it is. The refinement mapping is at the end of `Serveur`: `Phase`
from `spc`, `Missing` from the state of the links and from the call that waits, and
`result.forfeit` as the player who is blamed.

`LienIA` is an AI and its connection to its client. The client writes whole `TCoupIa` structures of
eight words; `Coup.readFromNetwork` reads word after word, one for the end of a game, eight for a
displacement, five for anything else. The stream `toAI[p]` is therefore one of words: 0 and 1 where
a word says whether the game is over and what the move is, `Data` elsewhere, and a `Data` word read
where one of those is expected may be taken for any of their values. In the other direction both
sides handle a complete move, so `fromAI[p]` is a stream of moves, of which the model keeps the
position they were chosen on: the number of the game and of the moves on the board.

| `ai[p].loc` | call of `jSicstus.main` | action |
|---|---|---|
| `readSens` | `readBoolean` of the orientation | `ReadSens`, `LoseClient` |
| `think` | `generateMove` and the sending of the move | `Think` |
| `read` | `readFromNetwork` and `forceEnnemyStrike` | `ReadCoup`, `ReadEnd`, `LoseClient` |
| `skip` | `skip(available())` between the games | `Skip` |
| `off`, `dead` | has shut down; has died (`Die`) | none |

`MatchIA` puts an AI behind each client. A step of a client of `Match` becomes that step and what
the client says to its AI or hears from it before its next call on the server's socket:
`ReceiveAndTell`, `AskAI`, `LoseServerIA`. A player in `Own` has this repository's AI; those in
`Mortal` may lose it in mid-game; those in `Droppers` are another team's players, who may put
captured pieces back on the board, which the repository's AI never sends.

`Plateau` is the first half of `ia.pl`: the initial board, `try_move`, `get_moves`, `force_move`,
`put` and what they do to the board and to the lists of captured pieces. A board is a function from
squares to pieces and a list of captured pieces a count per type. Prolog's `north` is the player on
lines 1 to 3, whom the protocol calls `SUD`; nothing is mirrored on the way. Where a predicate has
several solutions (a move with and without promotion, a captured piece with and without its own),
the callers use the first: promotion, and its loss. The twelve clauses of `try_move` become one
table, `Directions`, turned round for the south.

`ChoixCoup` is the second half, `generate_move` and what scores a move. `best_move` keeps the first of
the moves that score most, in the order of the board's list, which is lost here: `best_moves` is the
set of them, and the AI may choose any. What holds for all of them holds for the one that is chosen.

`PontProlog` is `Prolog.java`: `ia[s]` is the position that the AI of side `s` keeps between two
queries. `forceEnnemyStrike` leaves it alone when the query has no solution; `ignored[s]` remembers
that. `generateMove` writes the AI's own move on it. If the opponent has no king left the query fails and
the move that is sent has none of its fields written (`Unwritten`).

`Arbitre` is the other set of rules, the referee's: its board, its reserves and the tests behind
`validationCoup`, read from the object code the server is linked with. It shares with `Plateau`
the squares and the pieces only. It differs from `ia.pl` on purpose: it looks at the king, it
lets a piece be dropped wherever its column has no own kodama, and it keeps no captured king.

`Partie` plays the two games on these boards. `Own` are the sides that this AI plays. Another team's
program may move any of its pieces as it can go, and drop any piece it holds on any empty square, what
the rules about the king and the columns forbid included. One move after the other:

| `etape` | what happens | code |
|---|---|---|
| `choisir` | `AIPlays`: the AI chooses, plays on its own board and sends; `OtherPlays` | `jSicstus.java:112`, `Prolog.java:267` |
| `juger` | `Judge`: `validationCoup`, its verdict, its board | `serveur.c:117` |
| `informer` | `Inform`: the move reaches the opponent, whose AI plays it on its board | `jSicstus.java:137`, `Prolog.java:104` |
| `finie` | `NextGame`: all boards are set up again, the other side opens | `jSicstus.java:182`, `serveur.c:133` |

How a move travels is the subject of `MatchIA`, which shows that it arrives once, in order and on
the right board; here it simply arrives.

## 3. The runs

| run | what it checks | states |
|---|---|---|
| `match` | `Match` with `NB_COUP_MAX = 2`: eight invariants below, `StepsRunOut`, and `MatchEnds`, `ClientsEnd` under fairness | 9 843 |
| `server_open` | `ServeurOuvert`, `NB_COUP_MAX = 2`, `MaxAhead = 2`: `BlamedLoses`, `SameSides`, `AnswerCarriesVerdict`, the refinement of `TwoGames`, `CallsRunOut` and `MatchTerminates` | 666 881 |
| `ai_links` | `MatchIA`, `NB_COUP_MAX = 2`, two AIs, of which one may die: four invariants below, `AllStepsRunOut` | 1 714 722 |
| `ai_mortal` | `MatchIA` with one AI, which may die: `MatchEnds`, `ClientsEndOrStarve`, `AIEnds` under fairness | 112 556 |
| `board` | `Partie`, an AI in the north (`NORD`) against anything, `NB_COUP_MAX = 5`, two columns: the eight properties below | 161 193 |
| `claim_timeout`, `claim_counter`, `claim_north` | three sentences of the server's comments that the code contradicts | violations |
| `claim_skip`, `claim_drop`, `claim_buffer` | three sentences about the AI link that the code contradicts | violations |
| `claim_put` | a comment of `ia.pl` that the code contradicts | violation |

`match` shows that the server and the repository's own clients stay in step:

* `NeverGarbled`: no client reads one structure as another;
* `MoveAdmissible`: the move the server reads is of the current game and of the side that the
  referee expects;
* `WaitsForTheMover`: if the server waits for a player, that player, once it has read its stream,
  is one who is about to move: there is no deadlock at the change of games;
* `OneAtWork`: the two AIs never work for the same turn;
* `OneWinnerPerGame`, `SameScore`: the clients, which compute their wins from different verdicts,
  never both claim a game, and at the end count what the server counts;
* `FinishedNotBlamed`: nobody who has played to the end is blamed for having left.

It also checks for deadlock: the only state without a step is the one where every process has left.

`match` also shows that the match ends and that no client is left waiting in its `recv`, which
has no timeout. `server_open` shows what the server owes to nobody's good will.
Among it, `ImplementsTwoGames`: no result before both games are over unless a player is blamed, nobody
blamed but who has left or lets the server wait in vain, no blamed player who wins, no match
that has begun and is abandoned with both players there. That a player who has read the last
verdict is not blamed for leaving then is `FinishedNotBlamed`, of `match`: among arbitrary clients it is a
player who has left like any other.

That a match ends has two halves. One is that whoever may take a step takes it, which is the
fairness below. The other is that there is not always one more step to take: no loop of `main`, of a
client or of an AI goes round without getting anywhere. That half is an action property of each
composition, and is proved. `CallsRunOut` says that every step of the server uses up one of the
`CallsLeft`, of which there are `2 * GameCalls + 5` at first, whatever the clients send;
`StepsRunOut` and `AllStepsRunOut` say the same of every step of the server and its clients, and
of these and their AIs. A structure or a word that waits to be read counts as the steps that it
may still cause.

`ai_links` shows that the AIs stay in step with their clients. It speaks of the players who are
`WellTold`, whose opponent displaces: the opponent is not of a team that drops, and its AI has not
died, after which its client sends whatever its buffer holds. Whether the player's own AI lives
does not matter:

* `WordsInStep`: each read of the AI begins where a structure begins;
* `MoveIsFresh`: the move that a client takes from its AI was chosen in the game the client is
  playing, on a board that holds exactly the moves the referee has judged in it;
* `OneMoveAtATime`: no AI is ahead of its client;
* `OnlyFirstMoveLost`: a client and its AI wait for each other only in one situation, described next.

The AI ends its first game by reading one word of an eight-word structure and drops the other seven
with `skip(available())` (`jSicstus.java:174`). If the opponent's first move of the second game
has arrived by then it is dropped too: the AI waits for a move that the client has already sent,
the client for an answer, and the player loses the second game on the server's timeout.
`claim_skip` shows it; `OnlyFirstMoveLost` shows that nothing else is ever lost, and
`ClientsEndOrStarve` that every other client ends. The pair that has lost the move hangs for good,
after the match too, because the client is not reading the server's socket.

`board` is about the boards:

* `BoardsAgree`: as long as an AI has ignored no move its board and its lists of captured pieces are the
  referee's, each time a move is to be chosen, and as soon as its own move is accepted;
* `IgnoresOnlyDrops`: an AI never ignores a displacement, and of the drops only those on the
  dropper's last line or in a column where it has another piece;
* `RefusedOnlyForCheck`: when the referee refuses a move of an AI that has ignored nothing, the
  move leaves the AI's king in check. `get_moves` looks at nothing but the displacement, so an AI that is
  in check loses the game unless the move that scores most happens to save its king;
* `KingsStand`: a king is only ever taken from a side that has dropped a piece while in check, which the
  referee does not look at. The AI that takes it wins nothing: the game goes on, its next query finds no king to
  measure the distance from, and the move it sends then, with no field written, loses the game;
* `MoveIsWritten`: that move is sent in no other case, by an AI that has ignored drops neither, although it
  plays on a board of its own by then;
* `PiecesConserved`: six kodamas, four onis and four kirins, promoted or not, on the board or captured, on
  each of the boards and whatever was ignored or refused;
* `VerdictAllowed`: each verdict that the rules lead to is one that `Referee` allows to the player
  concerned; so the free choice of verdicts in `Match` leaves nothing out.

After an ignored drop the AI's board lacks a piece for the rest of the game. What it sends then may
be anything that fits its own board; the referee refuses it sooner or later, and the second game
starts from two good boards again.

Each of the violation runs shows one finding (`PROJECT.json` quotes the lines): the `TIMEOUT`
answer is built and never sent; `nbStrike` is not a count of moves; player 1 opens the first
game when it holds the south, not the north; the skip drops a move; the AI reads five of the
eight words of a drop and is out of step from then on (`claim_drop`); a client whose AI has died sends the
server whatever its buffer holds as a move (`claim_buffer`); `put` refuses
a column for any piece, not for a kodama (`claim_put`).

A remark on `IA/tests.pl`: its three tests of `capture` (lines 48 to 67) expect the captured piece to keep
the side it was captured from. `ia.pl:78` gives it the captor's side, which is what `put` looks
for. The tests pass because their list of captured pieces ends in a variable, in which `member`
finds whatever it is asked for.

### Bounds

* `NB_COUP_MAX = 2` (30 in the code) makes a game last at most five moves. Each player then moves
  twice or more, the referee's draw happens, and the server's counter comes within one round of its
  own draw test. `NB_COUP_MAX = 1` would be degenerate: the counter of the second game starts at 1, so
  the server's draw test would fire on that game's last move, which it cannot do for any larger
  value, hence `NbCoupMaxAssumption`. The proofs remove the bound.
* `MaxAhead = 2` (`ServeurOuvert` only): what a client may send before the server reads it. One
  structure is the move in advance and the second the one that survives the change of game. The
  proofs remove this bound too.
* `Own`, `Mortal`, `Droppers`. In `ai_links` one of two AIs may die, at every point of a match, and
  clients crash at any point; of the opponent of the AI that has died nothing is said from then on. In
  `ai_mortal` the AI plays against a delay, as in `Match`: with fairness, two AIs of which one may die are more than
  TLC finishes. An AI touches only the two streams it shares with its client, and what reaches the other
  AI of it is its client's moves, which the delay makes too. Nobody drops in these runs. A player who does is of another team and has no AI of this
  code; of its opponent's AI the invariants could not say anything, because `WordsInStep` is false after a drop,
  which is what `claim_drop` shows.
* `Partie`: `NB_COUP_MAX` and `Terrain`, the columns in which another team's program moves and
  drops. With eleven moves a game and the columns 2 and 5 the run reaches captures on both sides, promotions
  and the capture of a promoted piece, drops that the AI plays on its board, drops that it ignores for the
  column and for the last line and what it sends afterwards, a drop while in check and the king that is
  taken for it, the unwritten move, a move of the AI refused for its king, checkmate by either side, the draw,
  and the second game. The AI itself moves wherever its score takes it. That both sides are AIs is a case of
  the proofs, which remove all these bounds.
* Nothing else is bounded; `nbStrike` is bounded by the referee's draw, which is part of what
  `AnswerCarriesVerdict` shows.

### Fairness

* Server (`WF` on all its steps): it is one thread whose `recv` during a match has a timeout, and
  whose `send` does not block, for a whole match fits in a socket's buffer. `RecvError`,
  enabled when there is nothing to read, *is* that timeout.
* Network (`ServeurOuvert`): what was sent arrives.
* Clients (`Match` only, `WF` per client): each connects, sends its request, and takes the steps it
  can; its AI answers. A crash is never required, but it can preempt any of these steps.
* AIs (`MatchIA`): `WF` on the steps of each; the search of an AI is finite. No fairness says that an AI
  is told anything, that `skip` comes before or after a move, or that an AI dies.
* There is no timeout before the match begins (`serveur.c:92` sets it after the requests are read),
  so the server does wait for ever for a client that never connects or never sends its request.
  `MatchTerminates` therefore starts where the first move is awaited, and `MatchEnds` rests on the
  clients' fairness.

## 4. The proofs

All theorems are about the specifications that TLC runs, for every `NB_COUP_MAX > 1` and
`MaxAhead > 0` (`NbCoupMaxAssumption`, `MaxAheadAssumption`).

`ServeurProofs` holds the lemmas about the server alone. `ServerInv` is its inductive invariant: it
is the type invariant and what ties the server's copies of the match together:

* the referee's open game, its number and its orientation follow from `game.gameNumber`,
  `player1Sud` and the program point, so that `Joueur` and `Facing` agree in both games;
* the referee's count of moves is bounded by `MoveLimit` and the server's `nbStrike` is about half
  of it (plus one in the second game), so `nbStrike` never reaches its test while a game is on:
  this strengthening is what makes `AnswerCarriesVerdict` inductive;
* the points never exceed the games played, and the result, once announced, follows from them or
  from the blame.

`ServerStepInv` has one case per action. It assumes of the environment only that it appends
well-formed structures, which is why it serves both compositions. `RefineServerStep` shows that
each step of the server is a step of `TwoGames`: the beginning, a game, the end, or a change in who is
missing, which is all that a step of a client can be (`RefineClientStep`). `RefineForfeit` needs that the
guards of the error paths, a link that is down or a `recv` with nothing to read, are what `Missing` says.

`ServerStepRuns` shows that each step uses up one of the calls left: the program points count down to the
end of a turn, the referee's `numCoup` to the end of a game and `gameNumber` to the end of the
match. It needs `ServerInv` for the bound on `numCoup`: without it a turn that asks for one more move
might have none left to count.

`ServeurOuvertProofs` derives for arbitrary clients: `OpenTypeCorrect`, `OpenBlamedLoses`,
`OpenSameSides`, `OpenAnswerCarriesVerdict`, `OpenImplementsTwoGames`, `OpenCallsRunOut`.

`MatchProofs` proves all eight invariants of `match`. None of them is inductive, because a client can
be several structures behind: the relation between the server's program point and the client's
depends on what is in the stream. The invariant `MatchInv` therefore speaks about `UpToDate(p)`, the
client as it will be after reading all it was sent. That state does not change when the client
reads, and when the server sends it changes by one application of `Handle`. `Position` gives, for
each program point of the server, where each client will be; `Side` and `Points` what it will
believe; `Lag` bounds how far behind it can be, since a client that has the turn cannot be
waited for while it is still a game behind. Back from `UpToDate` to the client itself:
once garbled a client stays so, a game once counted stays counted, and a finished client reads no
more. `EndInv` keeps what the properties need when the server has left and the clients read the rest.
`StepsOfAMatchRunOut` and `MatchImplementsTwoGames` follow from what is proved of a step of the
server; the first adds that each structure sent is paid for with one of the server's calls.

`MatchIAProofs` shows that a match with AIs is a match: every step of `MatchIA` is a step of `Match`
or leaves its variables alone (`AIsKeepTheMatch`: `IAMatchSpec => Spec`), for any choice of `Own`,
`Mortal` and `Droppers`. What is proved of a match therefore holds with the AIs
behind the clients, dead or out of step included: `AIsHarmNoMatch` carries over `NeverGarbled`,
`SameScore` and `FinishedNotBlamed`; `OnlyTheMoverIsAwaited` `MoveAdmissible` and `WaitsForTheMover`.
`MatchWithAIsImplementsTwoGames` does the same for the abstract match.

`LienIAProofs` proves the invariants of `ai_links`, for every `NB_COUP_MAX`, `Own`, `Mortal` and
`Droppers`: `AITypeCorrect`, `WordsStayInStep`, `AIsChooseOneMove`, `MovesAreFresh`,
`OnlyTheFirstMoveIsLost`. The AI lags behind its
client as the client lags behind the server, so the invariant `LinkInv` adds to `MatchInv`, for each
player, a number `k`: how many moves of its game the client knows of.

* `InTouch` ties the AI to its client. It says, by the call the client is at, what the AI has still to read
  and where that will take it: `Behind` (waiting, with `k` moves on its board), `ToMove` and `ToOpen` (about to
  choose the move after `k` others, or having chosen it), or `Starved` (the skipped move). Each word read or
  sent shifts it from one disjunct to another. Of an AI that has died or gone (`Apart`) it says what
  move it may have left in the stream. It covers the change of games, where what is left of
  a structure and the whole of the next may both be in the stream and `skip` drops the one or both.
* `Counts` ties `k` to the referee: `Count(p, k)`, what the client will know of after reading all
  it was sent, is the number of moves judged (one less for the opponent while its copy is
  still to be sent), and one more if the client's own move has not been read. As with `UpToDate`, it does not
  change when the client reads (`CountTail`), and the server's sends change it by one `NextCount`.
* `NoDrop`: two players who both displace have sent no drop. It takes both, because an AI that is told a drop is
  out of step and may leave in mid-game, which does to its client what a death does.

`LinkInv` says this of the players who are `WellTold` only. That set loses a player when the opponent's AI
dies and never gains one, and a death leaves the rest of the invariant as it was, for the client of the
dead AI too (`DeathKeepsLink`). `AllStepsOfAMatchRunOut` needs none of it: an AI that is out of step still uses up a
word with each read.

`PartieProofs`, `VueProofs` and `PiecesProofs` prove the eight properties of `board`, for every `NB_COUP_MAX`,
`Terrain` and `Own`. The first begins with what a reader of the two sets of rules would want to know of them, on every position:

* `DisplacementsAgree`: each displacement of `ia.pl` is one the referee allows; `DisplacedAlike`,
  `DroppedAlike`: what the two do to a board and to the captured pieces is the same, promotions included;
* `CorrectIsForced`: `force_move` has a solution for every displacement that the referee accepts;
  `WhyPutFails`: why `put` may have none for a drop;
* `TakenKingIsInCheck`, `DeplaceKeepsKings`, `PlaceKeepsKings`, `KingMovesIntoCheck`: what the
  referee's tests protect a king from.

`PartieInv` is then inductive. `BoardsAgree` alone is not: while a move is judged its author's
board is one move ahead of the referee's (`MoverAhead`: there is a position like the referee's from which
`try_move` leads to it), and once it is accepted the opponent's is one move behind (`OtherBehind`).
`KingsInv` adds to `KingsStand` that the side which does not have the move is not in check, and
`RefereeInv` ties the referee's count and orientation to the game that is played.

`PartieInv` says nothing of an AI that has ignored a drop. `VueProofs` does (`AIWritesItsMoves`): its board `Follows`
the referee's: it shows no piece of the opponent that is not there, and always his king. A displacement of
the opponent is played on both boards alike, or the AI does not see the piece that moves, which then is not
the king (`DisplacementFollows`); a drop may be missed, and is not the king's (`DropFollows`); its
own accepted move takes the same from both (`OwnMoveFollows`). `ViewInv` says this of each `etape`, the mover's view one
move ahead and the opponent's one behind, as `PartieInv` does. With `KingsInv` a king is in view until a side in check has
dropped a piece.

`PiecesProofs` counts the pieces (`PiecesStay`). The pieces of a type in a position are the cardinality of
a set of squares and two counts of captured pieces. `OneSquareChanges` says what becomes of the cardinality when
one square gets another occupant; a move is two such changes, a drop one, and a
capture's own is made up for by a count (`AfterConserves`, `AfterPutConserves` for `ia.pl`, `ApresCoupConserves`
for the referee). `PiecesInv` counts them on every position that anybody keeps.

Only model-checked: `MatchEnds`, `ClientsEnd`, `MatchTerminates`, `ClientsEndOrStarve` and `AIEnds`, because
fairness and `ENABLED` are out of the prover's reach (the other half of termination, that the steps
run out, is proved), and the violations, each of which is one behaviour.

## 5. What is not modelled, and why

* Short reads: `recv` may return part of a structure, and the code tests only for `<= 0`. The
  streams here carry whole structures.
* Errors of `socket`, `bind`, `listen` and `connect`: the process ends before the match exists.
* How well the AI plays. That it never drops a piece (`get_moves` lists displacements only), that a
  capture by its king lowers the score, and that a protected piece is not seen to be out of reach
  decide which move it makes; what is shown holds for every move it might make.
* Names, and what is printed.
* SICStus Prolog: vendored and third-party. It is nine tenths of the lines of the repository, which says
  nothing of how much of the program itself is modelled. The launcher and the Makefile keep no state.
* In `ia.pl`: the order of the lists, solutions that nobody asks for, `draw_board` and the predicates it calls.
* In `Partie`: a player of another team who declares that he cannot move (`AUCUN`); the server's side of
  that is in `Referee` and `Match`. A move is not lost here: the one that can be (`claim_skip`) leaves the AI
  waiting for ever, so that nothing more happens on its board.
* The words of a move one by one in the direction from the AI to the client, and short reads of a
  word. What a client sends to its AI in one `send` arrives together.

## 6. Plan

Done, in this order: `ProtocolYokai`, `Reseau`, `Referee`, `Serveur`, `Client`, `Match`,
`TwoGames`, `ServeurOuvert`, `MatchClaims`; the proofs of the server, then of the match; `LienIA`,
`MatchIA`, `MatchIAClaims` and the refinement of `Match`; `Plateau`, `Arbitre`, `ChoixCoup`,
`PontProlog`, `Partie`, `PartieClaims` and the proofs about the boards; the proofs about the AIs and
their clients, first for AIs that live and then for all; the count of the pieces; the steps that run out; what
an AI sees after it has ignored a drop; whom the abstract match may blame.

What would come next:

1. Short reads, on the server's side and on the AI's.
2. A larger `Partie` in which the AI has no displacement left, so that reading the type of its move throws
   (`Prolog.java:320`).
