--------------------------- MODULE BotMatchProps ---------------------------
(***************************************************************************)
(* What a game at one screen, its record and its rating promise.           *)
(***************************************************************************)
EXTENDS BotMatch

InFlight == BagToSet(posts)

\* The rating after the first n changes.
EloAfter(n) == IF n = 0 THEN 0 ELSE history[n].after

\* The row is what the last result wrote, and every result starts from the end
\* of an earlier one, the last that was written when it read the row (seen
\* counts them): a race loses the results that were written within it and no
\* others, and the chain goes on behind it.
ChainBreaksOnlyInRaces ==
    /\ rating.elo = EloAfter(Len(history))
    /\ \A i \in DOMAIN history :
         history[i].seen < i /\ history[i].before = EloAfter(history[i].seen)

RatingsOf(m) == Cardinality({ i \in DOMAIN history : history[i].match = m })

\* A match is rated once, in whatever order stale bot answers, new games and
\* results elsewhere end it; only two finish requests that both read it as
\* ongoing before either has ended it can rate it twice.
RatedOnce == \A m \in DOMAIN matches : m \notin doubled => RatingsOf(m) <= 1

Pending(m) == { r \in InFlight : r.match = m /\ r.at # "sent" }

Settled(m) ==
    ~Ongoing(m) /\ Pending(m) = {} /\ \A b \in bots : b.match # m

\* A match that has finished, with no request past its check and no bot at
\* work, stays so: nothing that reaches the server later changes its result
\* or its moves.
SettledIsFinal == [][\A m \in DOMAIN matches : Settled(m) =>
    Settled(m)' /\ matches'[m] = matches[m] /\ moves'[m] = moves[m]]_vars

\* Within a game that did not start while the bot was asked for another one,
\* no stone is ever taken off the board or replaced by an answer that was
\* computed for an older board.
NoStoneVanishes ==
    [][\A c \in Cells : game' = game /\ game \notin mixed /\ board[c] # "."
                        => board'[c] = board[c]]_vars

IsRated(m) == RatingsOf(m) > 0 \/ crashes > 0 \/ m \in unrated

\* In the end every finished match against the bot is rated, unless the service
\* died or the rating failed, which the service logs and does not try again.
FinishedIsRated ==
    <>[](\A m \in DOMAIN matches : matches[m].mode = "BOT" /\ ~Ongoing(m) => IsRated(m))
============================================================================
