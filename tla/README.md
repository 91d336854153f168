# YOVI: a TLA+ verification project

YOVI plays the Game of Y: a Rust engine (`gamey`), three Node services
(`auth`, `users`, `gameservice`) and a React client (`webapp`).  This directory
models the parts of it in which several actors change shared state, checks the
models with TLC on small instances and proves what matters most with TLAPS.
Paths below are relative to the repository root.

## 1. Inventory

### 1.1 Components, their state and their operations

| Component | State | Operations | Talks to |
|---|---|---|---|
| Online session (`gameservice/src/services/OnlineSessionService.ts`) | Redis: `session:online:<id>` (JSON snapshot), `session:online:index` (sorted set), `session:user-active:<user>`; memory: `matchLocks`, `persistedSessions` | createSession, handleMove, handlePieSwap, handleTurnTimeout, markDisconnected, reconnect, expireGrace, abandon, addChatMessage, sweepExpiredSessions, persistOnlineResult | socket server (calls), Redis, MatchService (results), chat filter |
| Winner search (same file, `resolveWinner`, `checkWinner`) | local to one call | breadth-first search of one colour, then the other | online session |
| Matchmaking (`MatchmakingService.ts`) | Redis: `mm:queue:<board>`, `mm:boards`, `mm:player:<user>`, `mm:assignment:<user>` | joinQueue, cancelQueue, cancelQueueIfStale, tryMatch, runMatchmakingTick | socket server, REST controller, Redis; it writes the first snapshot of an online session |
| Rematch (`OnlineSessionService.ts` 440-640) | Redis: `rematch:request:*`, pending keys | request, accept, decline | online session, active sessions |
| Friend match invites (`OnlineSessionService.ts` 641-900, `FriendshipClient.ts`) | Redis: invite, pending keys; invite locks | create, accept, decline, expire | users service, online session |
| Active sessions (both services) | `session:user-active:<user>` | written by every save, read by the disconnect handler | all of the above |
| Auth (`auth/src/services/auth.service.ts`, `AuthVerifyClient.ts` of the services, `webapp/src/shared/api/fetchWithAuth.ts`) | PostgreSQL: credentials, sessions, refresh tokens with a family; a gauge; a cache of verified tokens; `localStorage` | register, login, refresh with rotation and reuse detection, logout, verify | webapp, all services |
| Bot matches (`gameservice` `MatchService.ts`, `GameController.ts`, `webapp` `useGameController.ts`) | PostgreSQL: matches, moves; memory: status of a bot move; React state: board, turn, match id | click, ask the bot, addMove, background bot move with a fallback, finish, new game | engine over HTTP, ranking |
| Ranking (`RankingService.ts`) | PostgreSQL: ratings | read, compute, write | bot matches, online session |
| Engine (`gamey/src/core`) | `GameY`: board map, union-find of groups, status | place, swap, resign, honey cells | bot server, notation |
| YEN notation (`gamey/src/notation`, `webapp/.../yen.ts`) | none | parse, print | engine, services |
| Bots and bot server (`gamey/src/bot`, `bot_server`) | none between requests | choose a move | match service |
| Users, friends, direct messages (`users/src`, `webapp/src/features/{friends,messages,profile}`) | SQLite: `user_profiles`, `friend_requests`, `chat_conversations`, `chat_messages`; React state of the pages | request, accept, delete, unfriend, open a conversation, send, save a profile | webapp |
| Online client (`webapp/src/features/game/hooks`, `realtime/onlineSocketClient.ts`, `app/App.tsx`) | one socket shared by the hooks; React state: snapshot, errors, queue timers | join and leave the queue, join a match, reconnect, play, merge REST and socket answers | services |
| Chat filter, statistics, validation, metrics, UI, deployment, training | see `PROJECT.json` | | |

### 1.2 What is hard

* **Await points.** Node runs one callback at a time, but every `await` on
  Redis, on the chat filter or on PostgreSQL lets other handlers in.
  `withMatchLock` closes that gap for the commands of one match in one process.
  `addChatMessage` does not take it, and the sweep and the `turn:timeout`
  handler look at the session before they do.
* **Two stores and process memory.** A snapshot, its index entry and the
  results of a match are separate writes; `persistedSessions` and the locks die
  with the process.
* **Several readers of time.** A disconnection carries the time it was made,
  the sweep the time it looked, the client its own clock.
* **Checks before writes.** The users and auth services look with one SQL
  statement and write with another; only the constraints of the tables and
  conditional updates stand between two calls that looked at the same time.
* **Closures of a page.** A handler that awaits an answer goes on with the state
  it was made with: the board of the click, the match id, the conversation that
  was open.  Answers of REST and events of a socket arrive in any order, and a
  connection that is lost takes with it what was on its way.
* **Ticks over lists.** A matchmaking tick works for many awaits on a list it
  read at the start; `setInterval` may start the next one before it ends, and
  the code is meant for several instances on one Redis.
* **Graph search.** The winner search shares flags between the cells of one
  group and must reset them for the next.

The full list, with the line each hazard bites at and the property that covers
it, is `hazards` in `PROJECT.json`.

### 1.3 What makes each part correct

* Online session: the snapshot never contradicts itself; an ended match stays
  ended; a forfeit hits only a player who is away; the sweep plays only for a
  timer that has run out; a result is recorded at most once per player and as
  decided; no session waits for ever.
* Winner search: it answers what the rules of the game say.
* Matchmaking: a join is paired with another at most once, or else gets a bot;
  keys name stored matches; nobody waits for ever.
* Offers and index: an offer makes one match; the index leads to the match that
  is played; an invite can be found by both sides and vanishes for both.
* Auth: a dead session stays dead; a browser does not lose its session to its
  own refreshes; the limit of sessions; a session that was ended opens no service
  for longer than an access token lives, caches and late answers included.
* Bot matches and ranking: a finished match is rated, once, and stays as it is;
  only a race loses a change of the rating; the screen loses no stone.
* Users and friends: no duplicates, no request that comes back, messages between
  friends only, pages that show what is stored.
* Online client: who sits at the board counts as connected and sees the stored
  board; who has left the queue is out of it.

## 2. Plan

| Module | Models | Status |
|---|---|---|
| `Board`, `WinnerSearch` | winner search against its reference definition | done |
| `WinnerSearchProofs` | the answer of the search, proved for every board | done |
| `OnlineSession`, `OnlineSessionProps`, `MatchContract` | one live match; implements the contract of a match | done |
| `OnlineSessionProofs` | type correctness, coherence, and what the lock guarantees, proved | done |
| `Matchmaking`, `MatchmakingProps`, `PairingContract` | the queue; implements the contract of pairing | done |
| `MatchmakingProofs` | stored matches and the contract of pairing, proved | done |
| `Auth`, `AuthProps` | sessions, token families, browsers and caches | done |
| `AuthProofs` | types, dead sessions, the access of ended ones, the limit of sessions and the session of a lone tab, proved | done |
| `Lobby`, `LobbyProps` | invites, rematches, the index of active matches, and the hooks of one page | done |
| `LobbyProofs` | offers, the lookups of invites and what the page shows of them, proved | done |
| `BotMatch`, `BotMatchProps` | a game at one screen, its record and its rating | done |
| `BotMatchProofs` | ratings, finality and stones, proved | done |
| `Friends`, `FriendsProps` | requests, conversations, messages, profiles, and the pages of one user | done |
| `FriendsProofs` | what the tables, the profile and the messages page promise, proved | done |
| `OnlineClient`, `OnlineClientProps` | the browser in the online game and its handlers | done |
| `OnlineClientProofs` | queue, board and connection, proved | done |
| `MatchLock` | `withMatchLock` as the promise chain it is, implementing a FIFO mutex | if it pays |

The modules about pages take only one page in detail: that of `Me` in `Lobby` and
`Friends`, one browser in `OnlineClient`.  What the others do reaches it through the
services.  `OnlineSession`, `Matchmaking` and `Lobby` are not composed into one
specification: they meet in the stored snapshot of a session and in
`session:user-active`, and each has the writes of both that it makes.

Every safety property the runs check is proved except `FilledBoardHasOneWinner`, which
needs induction over boards, and `SoleSessionIsFound`.  Worth having next: a proof of the
latter, and `MatchLock`, so that the mutex which `OnlineSession` and `Lobby` take as one
step is shown to be what the promise chain does.

## 3. Modules and how they correspond to the code

### 3.1 `Board` and `WinnerSearch`

`Board` has the coordinates, neighbours and sides of the triangular board as
`OnlineSessionService` computes them, and `JoinsSides`, the meaning of a win
that does not depend on any search: some connected set of stones touches the
three sides.  `WinnerSearch` is `resolveWinner`: the scan for start cells
(`SkipCell`, `StartGroup`), whose loop goes on to the next cell whatever has been
visited, the loop over the queue (`Expand`) and the switch from "B" to "R"
(`NextColour`).  The neighbours of a cell enter the queue in
any order, which covers the order of the source.

### 3.2 `OnlineSession`

One match.  `session` is the stored snapshot, `indexed` its membership in
`session:online:index`, `persisted` its membership in `persistedSessions`.
`creation` is how far `createSession` is: `Init` is the state after the first write
of its `saveState`, the snapshot, `IndexNewSession` is the second, and a crash
between the two leaves a match that nobody can know of, since its id is handed out
only later.  Players, and what they do, come after it.

A command under the lock is a `writer` entry of `LockHolder`.  The action of the
command (`Move`, `PieSwap`, `MarkDisconnected`, `Reconnect`, `Abandon`,
`ClientTurnTimeout`, `SweepExpire`, `SweepTimeout`) reads the snapshot, checks
the guards in the source's order and computes the next snapshot;
`SaveSession` stores it, `SaveIndex` maintains the index,
`PersistOnlineResult` and `RecordResult` write the results.  `LockFree` keeps
two commands apart, as the promise chain does.  Between any two of these steps
anything outside the lock can happen: the clock, the look of the sweep
(`SweepRead`), its removal from the index (`SweepUnindex`), a chat call
(`ChatRead`, `ChatFilterReturns`, then `SaveSession` and `SaveIndex` of the
chatting player) and `Crash`, which keeps Redis and the database and loses the
process.

The board enters as `Cells` and `Connecting`, the sets of cells whose stones
win, so that the proofs hold for any board and any rule of winning; the runs
take both from `Board`, whose agreement with the code is what `WinnerSearch`
checks.

Left out: who has joined which socket room and what is emitted (see
`OnlineClient`); the one-hour expiry of Redis keys; `closeReason`, `opponentType`,
`ranked`; a bot seat of an online session; the `session:user-active` keys (see
`Lobby`); overlapping sweeps.
`createMatch` and `finishMatch` of one player are one step that succeeds or
fails.  The index is a set: its scores are not read.

### 3.3 `Matchmaking`

Every Redis command of a join, a cancel, a poll and a tick is a step.
`EnqueuePlan` and `SavePlan` list the writes of a join and of a match in the
source's order; `removal` is `removeFromRedisQueue`, run by a client's call or
by a tick that gives a bot; `worker` is a tick: it lists (`ScanQueue`,
`ReadPlayer`), then visits its candidates by board and `joinedAt` (`Visit`),
runs the Lua script for each rival (`ClaimPair`), gives up (`GiveUp`,
`AssignBot`) and stores (`SaveMatch`).  `Claimable` is the script's condition:
membership and an entry, looked up by user id.  `made` is an auxiliary
variable: the matches made and the entries their claim consumed.

Left out: the in-memory queue, which `attachSocketServer` never selects; the
expiry of keys; the emission of `matchmaking:matched` (see `OnlineClient`);
`createSession` in the REST poll, which runs only when the snapshot has expired:
`NamedMatchIsStored` says that a match is stored before a poll can be told of it.

### 3.4 `Auth`

`sessions` and `tokens` are the two tables, in the order of their ids.  A call is a
record in `call` with the place it has reached, and each of its queries is a step:
`CountSessions`, `SelectOldest`, `RevokeOldest`, `CreateSession` and `IssueToken` of a
login, `FindToken`, then `RevokeFamily`, `RevokeExpired` or `RotateToken` and
`StoreNext` of a refresh, `RevokeSessionById` of a logout.  `revokeOldestActiveSession`
is two steps because its transaction runs at PostgreSQL's default isolation.  A tab
has at most one refresh on its way (`refreshPromise`) and one form; `storage` is the
`localStorage` the tabs of a browser share; `Answer` and `RefreshFails` are what a tab
does with a result, `Reload` a page that no longer hears it, `Restart` a service that
dies with its calls.  `api` is a request of a service to `/verify` whose answer is on
its way, `cache` what `AuthVerifyClient` keeps of such answers.

The forms can be sent although the browser has a session (`SubmitLogin`,
`SubmitRegister`): the answer then overwrites the stored token.  `late` is a request
that is out with an access token its tab no longer holds, because a refresh has ended
or another form was answered meanwhile: its 401 (`Refused`) starts a refresh with the
token that is stored by then.  Of several late requests the model follows the last.

`lossy`, `overlapped` and `outrun` are auxiliary: browsers that lost an answer (a reload,
a restart of the service, or the page that leaves with a form under way), accounts
with logins that overlapped, and sessions that ended while a call for them was past its
check.  Three properties are stated outside of them, because inside the code does not
keep them: a lost answer or a second tab gets a family revoked, overlapping logins
exceed the limit, and a call past its check still issues a token of a session that has
just been ended.

Left out: passwords, hashing, signatures, names of devices; `/verify` without a
session; the refresh of other clients than the web.

### 3.5 `BotMatch`

The screen is `board`, `turn`, `gameOver`, `loading` and `mid`, the state of
`useGameController`.  A click (`ClickBot`, `ClickLocal`) puts a stone and posts the
move; a `call` is the closure of `callBot` with the board and the match id it was made
with, and `BotFails`, `BotReplies`, `BotMoveStored` and `BotFinishStored` are what it
does after each await.  `posts` is a bag of requests on their way, which may overtake
one another; `CheckMatch` is the read the two routes make before they write, `AddMove`
and `FinishMatch` the writes, `ReadRating` and `WriteRating` the two halves of
`applyRatingUpdate`, which `FinishMatch` goes on to if the match is ranked.
`RequestFails` is a query that fails at any of these: the screen hears no more of the
request, and if it was the rating that failed, `applyRankingSafely` logs it and the
match stays unrated (`unrated`).  `bots` are the tasks of `queueBotMove`.  `ResetGame`,
`CreateMatch` and `MatchCreated` start another game; `OnlineResult` is a match the
same user ends elsewhere; `Crash` loses the requests and tasks of the process.

`doubled` and `mixed` mark two finish requests that both found a match ongoing, and a
game begun while the bot was still asked for the last one: there the code rates twice, or
puts the old board on the screen.  Ratings that overlap need no mark: each entry of
`history` says how many were written when its call read the row (`seen`), and
`ChainBreaksOnlyInRaces` says that an update is lost in such an overlap and nowhere else.

Left out: the boards the server rebuilds from moves, the formula of the rating, the
opponent's rating, the pie swap and the change of size at one screen.

### 3.6 `Friends`

Every SQL statement is a step of a `call`, so that what it read may be out of date when
it writes; `UniqueDirection` and `UniqueConversation` are constraints of the tables,
`AcceptedRows` the condition of the update.  `page` is `FriendsPage`, `chat` is
`MessagesPage` with the conversation it has open, the messages it shows and the room
its socket is in; answers wait in `calls` until the page takes them, `events` are
`chat:message` on their way.  `since` tells which messages were stored before the
socket had joined: those the page may miss if they are not in the answer of its GET.
`profile` is the row of `Me`; `saved` is what was last typed into each field, `stale`
says that a form was saved that had been opened before the last save.

Left out: the search for users, avatars, the list of conversations, the reconnection
of the chat socket, limits of length.

### 3.7 `Lobby`

`redis` has the keys of invites, rematch requests, pointers of users and sessions.  A
call carries in `todo` the commands it still has to write, one per step (`Command`).
`createFriendInvite` is `FriendshipChecked`, the lookups, `CreateFriendInvite` and
`InviteTold`; `acceptFriendInvite` is the one call with a lock (`LockFree`);
`declineFriendInvite` and the rematches have none, and anybody who can know of an
invite may answer it (`KnownTo`), also before the call that makes it has had its answer.
`SaveState` is what every save of a match writes: the snapshot and then each player's
`session:user-active`, set for a live match and deleted for one that is over, whatever
it names.  `CreateSession` and `MatchEnds` run it, and so does a chat message
(`SpeakUp`, `AddChatMessage`, `ChatSaved`), with the match as it was when the message
was read; `GetActiveSessionForUser` deletes a key it has followed to a match that is
over.  `Expire` passes `expiresAt`, `TimeToLive` drops a key after its
time.  `page` is what `useFriendMatchInvites` and `usePendingRematchNotification`
show, `EnableHooks`, `Connected`, `Disconnected` and `DisableHooks` their effects and the
coming and going of the socket, `events` the events on their way to it; what is emitted
while the socket is not in the room of its user is lost.

`mixed`, `raced`, `blurred` and `overtaken` name the overlaps without a lock in which
the code loses an invite, makes two matches of one request, or leaves an index or a
page that is out of date; outside of them the properties hold.  `blurred` has the users
for whom two saves of a match were at work at once, or a save or a lookup of one match
while another was open, which a chat message in the match before can be; `overtaken`
says that an answer and an event about invites passed each other, that an invite was
answered while the call that makes it was still under way, or that an event found the
page on and its socket out of the room.  A call counts as at work
on the offers of a user from the moment it will delete one, that is also from the lookup
that finds an invite whose time is over (`Follow`, `Overdue`, `Gone`): the delete that
follows removes by user the key that another call may meanwhile have given to a newer
invite.

### 3.8 `OnlineClient`

`sock` is the one socket of `onlineSocketClient`, closed with its last user; `leaks`
counts the connects of `joinQueue` that nobody takes back and that therefore keep it
open.  `out` and `inbox` are the two directions, in order; a lost connection (`Drop`)
takes both with it, and the server notices at any later moment (`Disconnect`).  `Go` is
a change of page: the effects that clean up and those that start.  `MatchJoin`,
`MovePlay`, `TurnTimeout`, `QueueJoin` and `QueueCancel` are the handlers of
`attachSocketServer`; `JoinStored` comes later than `QueueJoin` since the statistics are
read first.  `GetSnapshot` and `LoadSnapshot` are the two ends of the REST call.

`slipped`, `late` and `crossed` mark the orders in which a cancel loses against its
join, an old disconnection against a new connection, and an event against a snapshot.

### 3.9 Contracts

`MatchContract`: a match goes on by one version at a time, is decided once, and
the decision is recorded at most once per player.  `OnlineSession` without chat
implements it (`ImplementsContract`).  `PairingContract`: joins wait, leave, are
replaced, and are paired two by two while they wait, once.  `Matchmaking`
implements it (`ImplementsPairing`), also after crashes and with several ticks
at once.

## 4. Runs

| Run | Bounds | What it shows |
|---|---|---|
| `board_search` | sizes 1 to 3, all layouts | the search is right and stops; a filled board has exactly one winner |
| `session` | 3 cells, clock 0..2, one crash, a call may be one tick late, no chat | coherence, agreement of results, index, finality, forfeits, random plays, the contract |
| `session_chat` | 3 cells, one chat call, clock 0..1, one version | what survives the unlocked save: a match is recorded once |
| `session_live` | clock 0..1, strong fairness for the sweep's locked calls | waits end, expired turns are taken, ended matches are recorded and leave the index |
| `queue` | 2 users, 3 joins, two ticks at a time, one crash, clock at 0 | single pairing from lists that are out of date, stored matches |
| `queue_live` | two boards, skill bands two apart, 2 joins, clock 0..2 | everyone is served, both players are led to the match |
| `auth` | one account, limit of one session, 2 calls at a time; 2 tabs in one or two browsers with 3 tokens and clock 0..1, or 2 tokens, one fault and clock 0..2; one tab with 3 tokens, one fault and clock 0..3 | the limit, dead sessions, what an ended one still opens, single flight against rotation and late 401s |
| `bot_match` | 2 cells, three events (clicks, at most two, new games, crashes, failures, results elsewhere), both modes | ratings, finality, stones; finished matches are rated or their rating failed |
| `friends` | 3 users, four plans | tables under overlapping statements, pages under answers in any order |
| `lobby` | 3 users, nine plans, three of them with the hooks | offers, index, lookups, and what the page shows under lost connections and answers in any order |
| `client` | one browser, four plans | queue, board and connection under losses and late notices |
| `chat_revives` | as `session_chat` | a violation, see below |

A *plan* is a budget: how often each kind of thing may still be started in a
behaviour, or in `Auth` how many tabs, ticks, tokens and faults there are (`Budgets`, one
chosen in the initial state).  All orders within a plan are explored; the plans are
chosen so that each pair of operations that touch the same rows, keys or fields meets in
one of them.  The MC modules list them.

`SessionLimit` is one where the code has three: two logins already meet it.  With
`RefreshTTL` 2 and `AccessTTL` 1 an access token runs out before its refresh token and
both run out within the run.  Two cells, of which the second decides, give a game that
the user wins at once, one the bot wins, and one that goes on.  Symmetry is used where
no liveness is checked and no definition tells the permuted values apart.

On a board of three cells any two cells win, so a match has moves, a swap, a
win on the board and every way to end early; `MaxVersion` stops disconnections
from going on for ever and leaves every order of two of them in reach.  The
clock needs to pass one turn timeout and one grace, in both orders.  Two users
and three joins are enough for a pair and a join made while the tick that pairs
them is under way.  In `queue_live` nobody joins after
the clock has started (`JoinUntil`), or a join near its end would wait for a
timeout the model has no time for.  Deadlock is not checked: matches end, users
may do nothing, and the clock stops at its bound.

One run refutes something the repository says, listed under `findings` with the lines
it quotes: in `chat_revives`, `addChatMessage` stores a snapshot it read before the chat
filter answered, and so brings an ended match back to life.

Five more places where the code parts from what its documents say are known and are
outside of what the runs promise: a chat message saved in a match that is over deletes the
user-active keys of its players, which may name their rematch by then
(`OnlineSessionService.ts:239`, `:989`), so that `GET /online/sessions/active` answers 204
to players in a match, whatever `gameservice/README.md:51` says (in `Lobby` that is a
match with its players in `blurred`); after a move of the opponent the sweep plays for a
player whose grace is pending (`OnlineSessionService.ts:1115`); with honey cells a board can
fill up undecided and the session then hangs (`:1248`; the runs with liveness have no
honey cell, and `FilledBoardHasOneWinner` shows that without one this cannot happen); a
player already claimed may be visited again in the same tick and get a bot match as
well (`MatchmakingService.ts:128`); and a claim does not notice that the join it takes is
newer than the list of the tick (`:154`).

## 5. Fairness

`FairSpec` of `OnlineSession`: an operation whose Redis or database call has been
issued goes on (weak fairness of the writers' steps and of `IndexNewSession`), the
maintenance interval keeps firing (`SweepRead`), and a sweep that waits for the lock gets it although
other callers keep coming, because the promise chain serves in order of arrival
(strong fairness of `SweepExpire` and `SweepTimeout`).  No fairness is assumed of
players, of the chat filter or of crashes.  `FairSpec` of `Matchmaking`: started
calls and ticks go on, ticks keep starting, the clock advances to its bound.
`FairSpec` of `BotMatch`: requests are handled, a closure of `callBot` goes on (the
engine's answer or `GAMEY_TIMEOUT_MS`), and so do the tasks of the background bot; nothing is
assumed of clicks, new games or crashes.  The other modules have no liveness property:
what their pages wait for has no deadline in the code.

## 6. Proofs

| Theorem | Module | Statement |
|---|---|---|
| `AnswersAreRight` | `WinnerSearchProofs` | `Spec => []AnswerIsRight` |
| `TypeCorrect` | `OnlineSessionProofs` | `Spec => []TypeOK` |
| `CoherentSnapshots` | same | `Spec => []SnapshotsCoherent` |
| `LockInvariant` | same | `MaxChats = 0 => (Spec => []IInv)` |
| `LiveMatchesAreIndexed` | same | `MaxChats = 0 => (Spec => []LiveIsIndexed)` |
| `ResultsAgree` | same | `MaxChats = 0 => (Spec => []ResultsAgreeWithSession)` |
| `EndedIsFinal` | same | `MaxChats = 0 => (Spec => TerminalIsFinal)` |
| `RecordedOnce` | same | `MaxChats = 0 \/ MaxCrashes = 0 => (Spec => []RecordedAtMostOnce)` |
| `ContractImplemented` | same | `MaxChats = 0 => (Spec => ImplementsContract)` |
| `ForfeitsOnlyTheAbsent` | same | `MaxChats = 0 => (Spec => ForfeitOnlyWhileAway)` |
| `SweepPlaysExpiredTurns` | same | `MaxChats = 0 => (Spec => SweepPlaysOnlyAfterTimer)` |
| `TypeCorrect` | `MatchmakingProofs` | `Spec => [](IInv /\ AllSave)` |
| `NamedMatchesAreStored` | same | `Spec => []NamedMatchIsStored` |
| `QueueImplementsPairing` | same | `Spec => ImplementsPairing` |
| `TypeCorrect` | `AuthProofs` | `Spec => []IInv` |
| `EndedSessionsLoseAccess` | same | `Spec => []EndedSessionLosesAccess` |
| `NothingRevivesASession` | same | `Spec => DeadSessionStaysDead` |
| `LimitOfSessions` | same | `Spec => []SessionLimitHolds` |
| `LoneTabsKeepTheirSessions` | same | `Spec => []LoneTabKeepsItsSession` |
| `Consistent` | `FriendsProofs` | `Spec => []IInv` |
| `RowsAreUnique` | same | `Spec => []NoDuplicateRows` |
| `DeletedRowsStayDeleted` | same | `Spec => DeletedStaysDeleted` |
| `StrangersDoNotWrite` | same | `Spec => []OnlyFriendsWrite` |
| `EditsAreKept` | same | `Spec => []EditsSurvive` |
| `PageHearsAll` | same | `Spec => []JoinedSeesAll` |
| `Consistent` | `BotMatchProofs` | `Spec => []IInv` |
| `RatingsFollow` | same | `Spec => []ChainBreaksOnlyInRaces` |
| `MatchesAreRatedOnce` | same | `Spec => []RatedOnce` |
| `SettledMatchesAreFinal` | same | `Spec => SettledIsFinal` |
| `StonesAreKept` | same | `Spec => NoStoneVanishes` |
| `OnItsWay` | `OnlineClientProofs` | `Spec => []IInv` |
| `BoardsAreSeated` | same | `Spec => []SeenAsConnected` |
| `BoardsAreNew` | same | `Spec => []ShowsTheBoard` |
| `QueuesAreLeft` | same | `Spec => []QueueIsLeft` |
| `OffersMakeOneMatch` | `LobbyProofs` | `Spec => []OneMatchPerOffer` |
| `InvitesAreFound` | same | `Spec => []InviteIsFindable` |
| `NoGhostsAreShown` | same | `Spec => []NoGhostInvite` |

### The winner search

For any set of board sizes (`SizesAssumption`), every layout and every order in which
neighbours enter the queue.  The invariant divides what the search has visited in two
(`Split`): the finished groups, which nothing connects to another stone of the colour
and none of which joins the sides, and the group it is in.  That group is connected,
holds the queue, and of its stones that have left the queue all neighbours are visited
and all sides noted.  Hence when the flags of the three sides are set the group wins
(the flags are sides of its stones), and when the queue is empty it is finished as well
(`Finished`); a winning set of stones cannot lie partly in two parts that nothing
connects (`ApartTheyLose`).  At the end of the scan all stones are visited.
`JoinsSides` defines connected by cuts, not by paths, so that no induction is needed: a
group stays connected when neighbours of one of its cells join it (`GroupGrows`), which
uses that being neighbours is mutual (`NeighborsAreMutual`, from the six offsets).

### Online sessions

These hold for every set of users, every finite board, every family of winning
sets that does not hold the empty one, every timeout and every bound: the
assumptions are `PlayersAssumption`, `BoardAssumption` and `NumbersAssumption` of
`OnlineSession`.

The inductive invariant of `CoherentSnapshots` is `TypeOK /\ SnapshotsCoherent`.
`SnapshotsCoherent` speaks of the stored snapshot and of the one each writer
still holds, and that makes it inductive: a save stores a snapshot that was
coherent when it was computed, whatever has been stored since, so the proof
covers the unlocked chat save as well.  The proof goes snapshot by snapshot (one lemma per
operator `After...`: a coherent snapshot on which the guard of the command held
yields a coherent one) and then step by step.  The delicate conjuncts are
`StonesAlternate`, where the lemmas count the stones of a layout after a move and
after a swap of colours, and `WinnerIsOnBoard`, where a pie swap must not make a
winning group: it only exchanges the colours, and the invariant says that
neither colour had won.

The theorems with the hypothesis `MaxChats = 0` are about the code as it would be if `addChatMessage` kept to the
lock: `MaxChats = 0` leaves that call out, and the run `chat_revives` shows that the
hypothesis is needed.  Their invariant `IInv` adds to the two above what the holder's
phase says of the stored session (`LockInv`): before the save the stored session is
live and one version older than the holder's snapshot (`NextFollows`), after it the
two are the same (`HolderStored`), nothing is recorded before the match is decided
and persisted (`NothingRecordedYet`, `RecordsOnce`), what is recorded is the stored
decision (`RecordsDecision`), and an undecided session is, once created, indexed and not
about to be unindexed (`UndecidedIsIndexed`); a match whose creation has not come to its
second write is as it was made (`UncreatedIsUntouched`).  None of the properties is inductive without
these.  The two theorems about the sweep add `SweepSawPast`, which carries what the
sweep saw without the lock to the moment it has it, and `ForfeitIsDue`.
`RecordedOnce` has a second half with an invariant of its own (`LedgerInv`): without
a crash `persistedSessions` alone keeps a match from being recorded twice, even when
chat calls bring it back to life.

### The queue

For any users, calls in flight, overlapping ticks, boards, tickets, times and number
of crashes (`QueueAssumption`, `TimesAssumption`).  `IInv` has the types and what a
tick may rely on although its lists are out of date (`TicksHold`: what it listed had an
entry, a rival is another user); `AllSave` says that a match being saved is one that was
made and that what is left of its writes follows what is done.  From it and the order of
`SavePlan`, `NamedMatchesAreStored` needs one lemma: a write of a key comes after the
write of the snapshot, and of the index when it is an assignment.

The refinement adds `JoinsApart`: a join number is in one place at a time, about to be
written (`Fresh`), in its user's entry, or claimed (`Paired`).  It is needed because a
claim looks entries up by user: without it a join that was claimed could be written again
by a command still under way.  Every step then maps to one of the contract: the write of
an entry or of a queue member to `Enter` or `Replace`, a removal to `Leave`, the claim
to `Pair`, all others to a stutter (`OneUser`, `ClaimPairs`, `Stutter`).

### Auth

For any tabs, browsers, accounts, limits and lifetimes (`AuthAssumption`).  `IInv` ties
the calls to the tables: a call that has found a token or opened a session names rows
that are there (`CallsFit`), and a browser holds a token that was issued.
`NothingRevivesASession` is an action property whose argument is one step deep: the
calls that may still issue a token for a session are in `Renewing`, so for a dead
session each query revokes, or stores a token of another session.  `LimitOfSessions`
follows the room a login has (`Room`): after it has counted, or while it evicts, there
is place for one session more, even when the session it evicts is ended by others;
`overlapped` holds the accounts of which two logins ran at once, so in the others the
room is not taken by another.  `EndedSessionsLoseAccess` follows the access tokens
themselves (`AInv`): those in a storage, in a late request, on the way from the auth
service or in a cache (`Held`) expire within `AccessTTL` of now, so of a session that
ends they are all out within `AccessTTL` of its end, and since an ended session has no
good refresh token and no call past its check (`Over`, which is where `outrun` is
needed) no later one is ever issued.  The lemmas count active sessions with the library's facts
on cardinality.

### Friends

For any finite set of users, any number of calls and any budgets (`FriendsAssumption`).
`IInv` says of the tables that directions and pairs are unique (`TableOK`, `TalkOK`), of
a call about messages that past its check its users were friends while it ran
(`Talker`), and of a form that it is the profile it was opened with but for the field
edited, unless a stale form was saved (`Former`, `MeOK`).  A check that is out of date
is harmless because the guard that counts is that of the write: the constraint of the
insert, and the condition of the update, which changes a row only if it is there.

The messages page has an invariant of its own (`Heard`): of one visit one request at
most is under way, so what it shows and the room it joins are of the same conversation,
and each message stored since the socket joined is shown, in an event, or still to be
emitted by the call that stored it.

### The session of a browser

`LoneTabsKeepTheirSessions` rests on `SInv`.  The tokens of a session never leave its
browser (`Apart`, `Families`): only then is a token revoked by the browser's own calls,
by a logout, or with its whole session.  And a tab that is alone in its browser, none of
whose answers got lost, is `Tidy`: its refresh presents the token that is stored, a
login brings a token of a session of its own, and the stored token is good until the
tab's own refresh has exchanged it and is about to store the new one.  The reuse
detection therefore never meets a token the tab still has.

### Bot matches

For any board, and any number of clicks, new games, crashes and results of other
matches (`BotMatchAssumption`).  A match that no two finish requests have found ongoing
(`doubled` holds the others) has one such request at most past its check, which has not
rated it yet (`EndsOnce`); what a request has read of the rating is the end of the last
change written by then (`ReadIsCurrent`), however many were written since.  In a
game that did not begin with a question to the bot under way there is one closure at
most, clicks wait for it, and it knows the board that is shown (`BoardIsKnown`): that is
why the stones it puts back are all of them.

### The online client

For any number of pages, connections, moves and matches (`ClientAssumption`, which
also has `None` outside of the records of a snapshot).  The three properties are about a
quiet moment, so none says anything while a message is on its way, and the invariant
says what must still be: with no page that joined, a queue entry is followed by a cancel
behind the last join (`QueueOK`); a connected board is in the room and counted as
present, or its join of the match is on its way (`Seated`); the last board among the
events to the room is the newest one (`Latest`), and with no event on its way what is
shown, or each snapshot still to be got, is the newest one (`Shown`).  The lemmas on
sequences say what stays of these when a request joins the end of the line, when the
first one leaves it, and when a reconnect begins it anew.

### Offers, the index and invites

For any users, budgets and length of a behaviour (`LobbyAssumption`, which also has
`None` outside of the stored states of a session).  Calls run their commands one by one,
so the invariants speak of the commands a call has still to do (`todo`).

* `OffersMakeOneMatch` (`Once`): the command that stores an offer is the first one of
  the call that makes it, and of no other; two calls that have both found an offer are
  noted in `raced`; and a call that takes an offer deletes it before it creates a match,
  so an offer from which a match was made is not stored.
* `InvitesAreFound` (`Findable`): of a user at whose pointers one call at most was at
  work (`mixed` holds the others), a stored invite is pointed at, will be by the call
  that saves it, or is about to be deleted (`Pointed`); a call in its lookup knows the
  pointer it follows (`LooksTrue`), so one that goes on to save has found no other
  invite (`RoomIsFree`).
* `NoGhostsAreShown` (`Backed`, `NoneAnswered`, `Honest`): an invite is gone for the page (`Dead`) when
  Redis does not hold it and its time has not passed, for then nothing but an answer has
  deleted it.  `Backed` says so of the calls: what a call is about to delete has expired,
  or the call has been asked to accept or decline it and will tell (`Answered`); and
  what the server announces as new is stored.  `NoneAnswered` is what that announcement,
  and the answer of the POST, rest on: unless `overtaken` is set, no call that answers an
  invite is at work beside the one that makes it.  `Promised(i, p)` is the debt this leaves:
  if `i` is gone, such a call is still at work, or behind place `p` of the events on
  their way one takes `i` off the page (`Clears`).  `Truthful` then holds every invite the
  page shows, a GET brings (`Holds`) or an event will show to a promise counted from its
  own place.  A step keeps a promise when the call that pays it stays or is replaced by
  its event (`Keeping`); the two steps that consume one, an event or an answer that
  arrives, take the invite off the page.  With nothing on its way no promise can be open.
  Where `overtaken` is set only `ClientTypes` and `Awake` are kept.

The proof is by the command a call does (`Step` lists what each of them may change),
and each part of the invariant has a lemma for each kind of command.  `InviteIsFindable`
first had no inductive invariant: `mixed` did not count a call that looks up and expires an
invite among those at work, and with a larger budget than the run had TLC confirmed it.
`mixed` now counts every call that may delete a pointer.

### What is only model-checked

* `FilledBoardHasOneWinner`: that a filled board has exactly one winner is the theorem
  behind the game, whose proofs are inductions over paths or boards.
* `SoleSessionIsFound`: any save of any match, also of one that is over, may write the
  index, so its invariant has to follow the rest of every script at once; the run `lobby`
  explores them with up to three such calls.
* Liveness (`SearchStops`, the runs `session_live` and `queue_live`, `FinishedIsRated`) and what speaks of
  `ENABLED`, which the prover does not treat.
* The agreement of `Board`'s neighbours and sides with the drawn board, which
  `FilledBoardHasOneWinner` covers on small boards.

## 7. Not modelled

* The Rust engine (`gamey/src/core`), its notation and `yen.ts`: one owner, no
  concurrency, conversions without state.  The rule of winning is checked on the copy
  the online session uses.
* Bots and the bot server: heuristics, floating-point evaluation, neural networks; no
  state between requests.
* The chat filter: text and an external service; its delay is in `OnlineSession`.
* The rating formula: floating-point.
* Statistics, validation and metrics: queries, schemas and counters.
* Of the web user interface: rendering, routing, forms, translations; the pie swap and
  the change of size at one screen; the chat hook (`useChatSession`), which needs the
  order in which React runs renders and effects; the list of conversations.
* Deployment, monitoring, training and load tests.
