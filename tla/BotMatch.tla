------------------------------ MODULE BotMatch ------------------------------
(***************************************************************************)
(* A game at one screen: useGameController in the browser, the REST routes *)
(* of a match, MatchService's background bot and RankingService.           *)
(*                                                                         *)
(* The browser keeps the board.  A click puts a stone, posts it as a move  *)
(* and, against the bot, asks the engine for an answer; the answer comes   *)
(* back to a closure that holds the board and the match id of the click,   *)
(* whatever has happened to the screen since.  Each stored move also makes *)
(* the server play a bot move of its own.  The end of a game is posted     *)
(* too, and the server rates it in a read and a later write.               *)
(*                                                                         *)
(* Boards on the server are left out: a stored move is who sent it and its *)
(* number.  ELO arithmetic is a step up or down: what is checked is which  *)
(* rating it starts from.                                                  *)
(***************************************************************************)
EXTENDS Naturals, Integers, Sequences, FiniteSets, Bags

CONSTANTS
    Cells, Connecting,  \* cells, and the sets of them that join the sides
    None,               \* null
    \* bounds of the model
    MaxClicks,
    MaxEvents           \* clicks, games, crashes, failures and results elsewhere, together

ASSUME BotMatchAssumption ==
    /\ IsFiniteSet(Cells) /\ Connecting \subseteq SUBSET Cells
    /\ {MaxClicks, MaxEvents} \subseteq Nat
    /\ None \notin Nat

VARIABLES
    mode,      \* gameMode
    board, turn, gameOver, loading,
    mid,       \* matchId, the state of the hook
    creating,  \* createNewBotMatch calls under way: sent, or the id to come
    calls,     \* callBot closures that wait
    posts,     \* requests of persistMove, persistFinish and persistOnlineResult
    matches, moves,
    bots,      \* the background bots at work
    rating, history,
    game,      \* the games started at this screen
    mixed,     \* games that started while the bot was still asked for another
    doubled,   \* matches two finish requests found ongoing
    unrated,   \* matches whose rating failed, which is only logged
    clicks, crashes, online, failures

screen == <<mode, board, turn, gameOver, loading, mid>>
server == <<matches, moves, bots>>
ranking == <<rating, history>>
ghosts == <<game, mixed, doubled, unrated, clicks, crashes, online, failures>>
vars == <<screen, creating, calls, posts, server, ranking, ghosts>>

MoreEvents == clicks + game + crashes + online + failures < MaxEvents

EmptyBoard == [c \in Cells |-> "."]
StonesOf(b, s) == { c \in Cells : b[c] = s }
CheckWinner(b, s) == StonesOf(b, s) \in Connecting
NewMatch(m, isRanked) ==
    [mode |-> m, ranked |-> isRanked, status |-> "ONGOING", winner |-> None]
DefaultRating == [elo |-> 0, games |-> 0, peak |-> 0]

\* The create page has made match 1 and opened the board.
Init ==
    /\ mode \in {"BOT", "LOCAL_2P"}
    /\ board = EmptyBoard /\ turn = 0 /\ gameOver = FALSE /\ loading = FALSE
    /\ mid = 1 /\ creating = <<>>
    /\ calls = {} /\ posts = EmptyBag
    /\ matches = <<NewMatch(mode, TRUE)>> /\ moves = << <<>> >> /\ bots = {}
    /\ rating = DefaultRating /\ history = <<>>
    /\ game = 1 /\ mixed = {} /\ doubled = {} /\ unrated = {}
    /\ clicks = 0 /\ crashes = 0 /\ online = 0 /\ failures = 0

------------------------------------------------------------------------------
(* The screen: useGameController *)

\* A request that rates remembers what it read, and how many changes of the
\* rating there had been.
Request(kind, m, by, number, waiter) ==
    [kind |-> kind, match |-> m, by |-> by, number |-> number,
     waiter |-> waiter, at |-> "sent", read |-> None, after |-> 0]

\* persistMove sends turn + 1: 2 after a stone of the user, 1 after one of
\* the bot.  persistFinish and finishMatch send the winner.
MovePost(m, nextTurn, by, waiter) == Request("move", m, by, nextTurn + 1, waiter)
FinishPost(m, winner, waiter) == Request("finish", m, winner, 0, waiter)
Post(rs) == posts' = posts (+) SetToBag(rs)

\* Defect: a click while the bot thinks is accepted.
MayClick_Loading(c) == ~gameOver /\ board[c] = "."
MayClick(c) == ~loading /\ ~gameOver /\ board[c] = "."

\* Against the bot: the stone, its post, and either the end or the question.
ClickBot(c) ==
    /\ mode = "BOT" /\ MayClick(c)
    /\ LET human == [board EXCEPT ![c] = "B"]
           won == CheckWinner(human, "B") IN
       /\ board' = human /\ turn' = 1
       /\ Post({MovePost(mid, 1, "USER", None)}
               \cup IF won THEN {FinishPost(mid, "USER", None)} ELSE {})
       /\ gameOver' = won /\ loading' = ~won
       /\ calls' = IF won THEN calls
                   ELSE calls \cup {[id |-> clicks, board |-> human, mid |-> mid,
                                     game |-> game, at |-> "asked"]}
    /\ UNCHANGED <<mode, mid>>

\* Two at one screen: the end is posted to a path the server knows only as
\* PUT, which finishMatch does not use, so nothing comes of it.
ClickLocal(c) ==
    /\ mode = "LOCAL_2P" /\ MayClick(c)
    /\ LET symbol == IF turn = 0 THEN "B" ELSE "R"
           next == [board EXCEPT ![c] = symbol] IN
       /\ board' = next /\ turn' = 1 - turn
       /\ Post({MovePost(mid, 1 - turn, IF turn = 0 THEN "USER" ELSE "BOT", None)})
       /\ gameOver' = CheckWinner(next, symbol)
    /\ UNCHANGED <<mode, loading, mid, calls>>

Click(c) ==
    /\ clicks < MaxClicks /\ MoreEvents /\ clicks' = clicks + 1
    /\ ClickBot(c) \/ ClickLocal(c)
    /\ UNCHANGED <<creating, server, ranking, game, mixed, doubled, unrated, crashes, online, failures>>

\* An engine that answers with an error, with nothing to use, with a cell
\* that is taken, or too late: the board of the click comes back with its
\* stone, and it is the user's turn again.
BotFails(k) ==
    /\ k.at = "asked"
    /\ board' = k.board /\ turn' = 0 /\ loading' = FALSE
    /\ calls' = calls \ {k}
    /\ UNCHANGED <<mode, gameOver, mid, creating, posts, server, ranking, ghosts>>

BotReplies(k) ==
    /\ k.at = "asked"
    /\ \E c \in StonesOf(k.board, ".") :
         LET next == [k.board EXCEPT ![c] = "R"] IN
         /\ board' = next /\ turn' = 0
         /\ calls' = (calls \ {k}) \cup {[k EXCEPT !.at = "moving", !.board = next]}
    /\ Post({MovePost(k.mid, 0, "BOT", k.id)})
    /\ UNCHANGED <<mode, gameOver, loading, mid, creating, server, ranking, ghosts>>

Answered(k) == \A r \in BagToSet(posts) : r.waiter # k.id

\* The move is stored or refused; now the winner is looked for.
BotMoveStored(k) ==
    /\ k.at = "moving" /\ Answered(k)
    /\ IF CheckWinner(k.board, "R")
       THEN /\ gameOver' = TRUE
            /\ Post({FinishPost(k.mid, "BOT", k.id)})
            /\ calls' = (calls \ {k}) \cup {[k EXCEPT !.at = "finishing"]}
            /\ UNCHANGED loading
       ELSE /\ calls' = calls \ {k} /\ loading' = FALSE
            /\ UNCHANGED <<gameOver, posts>>
    /\ UNCHANGED <<mode, board, turn, mid, creating, server, ranking, ghosts>>

BotFinishStored(k) ==
    /\ k.at = "finishing" /\ Answered(k)
    /\ calls' = calls \ {k} /\ loading' = FALSE
    /\ UNCHANGED <<mode, board, turn, gameOver, mid, creating, posts, server,
                   ranking, ghosts>>

\* resetGame: a fresh board at once, a fresh match when the server answers.
ResetGame ==
    /\ MoreEvents /\ game' = game + 1
    /\ mixed' = IF calls = {} THEN mixed ELSE mixed \cup {game + 1}
    /\ board' = EmptyBoard /\ turn' = 0 /\ loading' = FALSE /\ gameOver' = FALSE
    /\ creating' = IF mode = "BOT" THEN Append(creating, None) ELSE creating
    /\ UNCHANGED <<mode, mid, calls, posts, server, ranking, doubled, unrated,
                   clicks, crashes, online, failures>>

\* createMatch: the row, and the answer that brings its id.
CreateMatch ==
    /\ \E i \in DOMAIN creating :
         /\ creating[i] = None
         /\ creating' = [creating EXCEPT ![i] = Len(matches) + 1]
    /\ matches' = Append(matches, NewMatch("BOT", TRUE))
    /\ moves' = Append(moves, <<>>)
    /\ UNCHANGED <<screen, calls, posts, bots, ranking, ghosts>>

\* Answers may overtake one another; a refused creation changes nothing.
MatchCreated ==
    /\ \E i \in DOMAIN creating :
         /\ creating' = [j \in 1..Len(creating) - 1 |->
                           creating[IF j < i THEN j ELSE j + 1]]
         /\ mid' = IF creating[i] = None THEN mid ELSE creating[i]
    /\ UNCHANGED <<mode, board, turn, gameOver, loading, calls, posts, server,
                   ranking, ghosts>>

------------------------------------------------------------------------------
(* The routes of a match, and MatchService *)

Done(r) == posts' = posts (-) SetToBag({r})
Continue(r, q) == posts' = (posts (-) SetToBag({r})) (+) SetToBag({q})
Ongoing(m) == matches[m].status = "ONGOING"

\* Defect: the state of the match is not looked at.
Allowed_Always(r) == TRUE
Allowed(r) == Ongoing(r.match)

\* Both routes read the match first and refuse one that has finished.
CheckMatch(r) ==
    /\ r.at = "sent"
    /\ IF Allowed(r) THEN Continue(r, [r EXCEPT !.at = "checked"]) ELSE Done(r)
    /\ doubled' = IF /\ r.kind = "finish" /\ Allowed(r)
                     /\ \E q \in BagToSet(posts) : q.kind = "finish"
                          /\ q.match = r.match /\ q.at = "checked"
                  THEN doubled \cup {r.match} ELSE doubled
    /\ UNCHANGED <<screen, creating, calls, server, ranking, game, mixed, unrated,
                   clicks, crashes, online, failures>>

MayQueueBot(m) == \A b \in bots : b.match # m

\* addMove, then queueBotMove: a request that finds a task at work is dropped.
AddMove(r) ==
    /\ r.kind = "move" /\ r.at = "checked"
    /\ moves' = [moves EXCEPT ![r.match] =
                   Append(@, [by |-> r.by, number |-> r.number])]
    /\ bots' = IF MayQueueBot(r.match)
               THEN bots \cup {[match |-> r.match, since |-> Len(moves[r.match]),
                                at |-> "start", number |-> 0]}
               ELSE bots
    /\ Done(r)
    /\ UNCHANGED <<screen, creating, calls, matches, ranking, ghosts>>

MaxNumber(m) ==
    LET ns == {0} \cup { moves[m][i].number : i \in DOMAIN moves[m] } IN
    CHOOSE n \in ns : \A k \in ns : k <= n

\* applyBotMove reads the match and its moves, and asks the engine.
BotReads(b) ==
    /\ b.at = "start"
    /\ bots' = (bots \ {b}) \cup
         IF Ongoing(b.match)
         THEN {[b EXCEPT !.at = "asking", !.number = MaxNumber(b.match) + 1]}
         ELSE {}
    /\ UNCHANGED <<screen, creating, calls, posts, matches, moves, ranking, ghosts>>

\* The layout the engine answers, or the first empty cell when it does not
\* answer in time; nothing on a full board.
BotInserts(b) ==
    /\ b.at = "asking" /\ bots' = bots \ {b}
    /\ moves' = [moves EXCEPT ![b.match] =
                   Append(@, [by |-> "SERVER", number |-> b.number])]
    /\ UNCHANGED <<screen, creating, calls, posts, matches, ranking, ghosts>>

BotHasNoMove(b) ==
    /\ b.at = "asking" /\ bots' = bots \ {b}
    /\ UNCHANGED <<screen, creating, calls, posts, matches, moves, ranking, ghosts>>

------------------------------------------------------------------------------
(* finishMatch, and RankingService *)

\* One UPDATE without a condition.
Finished(row, w) == [row EXCEPT !.status = "FINISHED", !.winner = w]

\* Defect: only online matches are rated.
Rated_Online(m) == matches[m].mode = "ONLINE"
\* Matches of two at one screen are not rated, nor are those between friends.
Rated(m) == matches[m].ranked /\ matches[m].mode # "LOCAL_2P"

FinishMatch(r) ==
    /\ r.kind = "finish" /\ r.at = "checked"
    /\ matches' = [matches EXCEPT ![r.match] = Finished(@, r.by)]
    /\ IF Rated(r.match) THEN Continue(r, [r EXCEPT !.at = "rating"]) ELSE Done(r)
    /\ UNCHANGED <<screen, creating, calls, moves, bots, ranking, ghosts>>

\* Defect: the row of the player is never found.
CurrentRating_Default == DefaultRating
CurrentRating == rating

\* applyRatingUpdate reads the row of the player.
ReadRating(r) ==
    /\ r.at = "rating"
    /\ Continue(r, [r EXCEPT !.at = "writing", !.read = CurrentRating,
                              !.after = Len(history)])
    /\ UNCHANGED <<screen, creating, calls, server, ranking, ghosts>>

NewElo(elo, winner) == IF winner = "USER" THEN elo + 1 ELSE elo - 1
Peak(read, elo) == IF elo > read.peak THEN elo ELSE read.peak

RatingAfter(r) ==
    [elo |-> NewElo(r.read.elo, r.by), games |-> r.read.games + 1,
     peak |-> Peak(r.read, NewElo(r.read.elo, r.by))]

\* applyRatingChange: one transaction writes the row and its history.
WriteRating(r) ==
    /\ r.at = "writing"
    /\ rating' = RatingAfter(r)
    /\ history' = Append(history, [match |-> r.match, before |-> r.read.elo,
                                   after |-> RatingAfter(r).elo, seen |-> r.after])
    /\ Done(r)
    /\ UNCHANGED <<screen, creating, calls, server, ghosts>>

\* A query fails.  Of a request the screen hears nothing more; a rating that
\* fails, the match being finished, is logged by applyRankingSafely and no more.
RequestFails(r) ==
    /\ MoreEvents /\ failures' = failures + 1
    /\ Done(r)
    /\ unrated' = IF r.at \in {"rating", "writing"} THEN unrated \cup {r.match} ELSE unrated
    /\ UNCHANGED <<screen, creating, calls, server, ranking, game, mixed, doubled,
                   clicks, crashes, online>>

\* persistOnlineResult of a game the same user ends elsewhere: createMatch,
\* then finishMatch without the check of the route.
OnlineResult ==
    /\ MoreEvents /\ online' = online + 1
    /\ \E isRanked \in BOOLEAN : matches' = Append(matches, NewMatch("ONLINE", isRanked))
    /\ moves' = Append(moves, <<>>)
    /\ \E w \in {"USER", "BOT"} :
         Post({[FinishPost(Len(matches) + 1, w, None) EXCEPT !.at = "checked"]})
    /\ UNCHANGED <<screen, creating, calls, bots, ranking, game, mixed, doubled,
                   unrated, clicks, crashes, failures>>

\* The process dies with its requests and its bot tasks.
Crash ==
    /\ MoreEvents /\ crashes' = crashes + 1
    /\ posts' = EmptyBag
    /\ bots' = {}
    /\ UNCHANGED <<screen, creating, calls, matches, moves, ranking, game, mixed,
                   doubled, unrated, clicks, online, failures>>

Handle(r) ==
    CheckMatch(r) \/ AddMove(r) \/ FinishMatch(r) \/ ReadRating(r) \/ WriteRating(r)

HandleSome == \E r \in BagToSet(posts) : Handle(r)
BotWorks(b) == BotReads(b) \/ BotInserts(b) \/ BotHasNoMove(b)
CallReturns(k) ==
    BotFails(k) \/ BotReplies(k) \/ BotMoveStored(k) \/ BotFinishStored(k)

Next ==
    \/ \E c \in Cells : Click(c)
    \/ \E k \in calls : CallReturns(k)
    \/ ResetGame \/ CreateMatch \/ MatchCreated
    \/ HandleSome
    \/ \E r \in BagToSet(posts) : RequestFails(r)
    \/ \E b \in bots : BotWorks(b)
    \/ OnlineResult \/ Crash

Spec == Init /\ [][Next]_vars

\* Requests are handled or fail, the engine answers or is given up after
\* GAMEY_TIMEOUT_MS, and the service goes on with the tasks it has.
Fairness ==
    /\ WF_vars(HandleSome)
    /\ \A i \in 0..MaxClicks : WF_vars(\E k \in calls : k.id = i /\ CallReturns(k))
    /\ WF_vars(\E b \in bots : BotWorks(b))

FairSpec == Spec /\ Fairness
==============================================================================
