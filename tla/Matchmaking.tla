----------------------------- MODULE Matchmaking -----------------------------
(***************************************************************************)
(* The Redis-backed queue of gameservice's MatchmakingService.             *)
(*                                                                         *)
(* Client calls (queue:join, queue:cancel, the disconnect handler and the  *)
(* REST poll) and the ticks of the matchmaking worker are sequences of     *)
(* single Redis commands, and all of them may interleave: the worker's     *)
(* setInterval starts a tick whether or not the last one has ended, and    *)
(* several instances may share one Redis.  Only the claim of a pair, a Lua *)
(* script, is atomic over more than one key.                               *)
(***************************************************************************)
EXTENDS Integers, Sequences, FiniteSets

CONSTANTS
    Users,
    Slots,         \* calls one user may have in flight at a time
    Workers,       \* ticks that may be in progress at a time
    Boards,        \* board sizes
    Rules,         \* normalized match rules
    Tickets,       \* what a user may queue for: board, rules and skill band
    WidenAfter,    \* waiting time after which the skill range grows (20 s)
    BotTimeout,    \* MM_TIMEOUT_SEC
    StaleGrace,    \* graceMs of cancelQueueIfStale
    None,          \* null
    \* bounds of the model
    MaxNow, JoinUntil,   \* the clock stops at MaxNow; no join after JoinUntil
    MaxJoins, MaxCrashes

Calls == Users \X Slots
Bands == 0 .. 4

ASSUME QueueAssumption ==
    /\ Boards \subseteq Nat
    /\ Tickets \subseteq [board : Boards, rules : Rules, band : Bands]
    /\ Calls \cap Workers = {}
    /\ None \notin Nat \cup Calls \cup Workers

ASSUME TimesAssumption ==
    /\ WidenAfter \in Nat /\ BotTimeout \in Nat \ {0} /\ StaleGrace \in Nat
    /\ MaxNow \in Nat /\ JoinUntil \in Nat /\ MaxJoins \in Nat /\ MaxCrashes \in Nat

VARIABLES
    now,         \* Date.now()
    joins,       \* queue entries made so far; also the last queueJoinId
    queue,       \* mm:queue:<board>, the users in the sorted set
    boards,      \* mm:boards
    player,      \* mm:player:<user>, the entry of the user's last join
    stored,      \* ids with a snapshot under session:online:<id>
    index,       \* ids in session:online:index
    active,      \* session:user-active:<user>
    assignment,  \* mm:assignment:<user>
    call,        \* client calls in progress
    removal,     \* removeFromRedisQueue in progress, for calls and workers
    worker,      \* ticks in progress
    made,        \* auxiliary: every match made, with the entries it claimed
    crashes

clients == <<joins, call>>
redisQueue == <<queue, boards, player>>
redisMatch == <<stored, index, active, assignment>>

vars == <<now, clients, redisQueue, redisMatch, removal, worker, made, crashes>>

------------------------------------------------------------------------------

Entry ==
    [user : Users, board : Boards, rules : Rules, band : Bands,
     joinedAt : Nat, joinId : Nat]

Match == [id : Nat, board : Boards, a : Entry, b : Entry \cup {None}]

PlayersOf(m) == {m.a.user} \cup (IF m.b = None THEN {} ELSE {m.b.user})

------------------------------------------------------------------------------
(* Joining *)

NoCall == [op |-> "none"]

Free(c) == call[c] = NoCall /\ removal[c] = None

\* Defect: the board is not added to mm:boards.
EnqueuePlan_NoBoards == <<"hash", "queue">>

\* enqueueInRedis, as the Redis commands it issues.
EnqueuePlan == <<"hash", "queue", "boards">>

\* joinQueue, once the win rate is known: the entry is complete.
Join(c, ticket) ==
    /\ Free(c)
    /\ joins < MaxJoins /\ now <= JoinUntil
    /\ joins' = joins + 1
    /\ call' = [call EXCEPT ![c] =
                  [op |-> "join",
                   entry |-> [user |-> c[1], board |-> ticket.board, rules |-> ticket.rules,
                              band |-> ticket.band, joinedAt |-> now, joinId |-> joins + 1],
                   todo |-> EnqueuePlan]]
    /\ UNCHANGED <<now, redisQueue, redisMatch, removal, worker, made, crashes>>

Enqueue(c) ==
    /\ call[c].op = "join"
    /\ LET e == call[c].entry
           step == Head(call[c].todo)
       IN  /\ player' = IF step = "hash" THEN [player EXCEPT ![e.user] = e] ELSE player
           /\ queue' = IF step = "queue"
                       THEN [queue EXCEPT ![e.board] = @ \cup {e.user}]
                       ELSE queue
           /\ boards' = IF step = "boards" THEN boards \cup {e.board} ELSE boards
    /\ call' = [call EXCEPT ![c] =
                  IF Len(call[c].todo) = 1 THEN NoCall
                  ELSE [call[c] EXCEPT !.todo = Tail(@)]]
    /\ UNCHANGED <<now, joins, redisMatch, removal, worker, made, crashes>>

------------------------------------------------------------------------------
(* Leaving: removeFromRedisQueue, for a client's call or a tick *)

StartRemoval(p, u) ==
    removal' = [removal EXCEPT ![p] = [step |-> "read", user |-> u, board |-> None]]

\* cancelQueue
CancelQueue(c) ==
    /\ Free(c)
    /\ StartRemoval(c, c[1])
    /\ UNCHANGED <<now, clients, redisQueue, redisMatch, worker, made, crashes>>

\* cancelQueueIfStale: reads the entry itself, then cancels, which reads again.
CancelQueueIfStale(c) ==
    /\ player[c[1]] # None
    /\ now >= player[c[1]].joinedAt + StaleGrace
    /\ CancelQueue(c)

ReadForRemoval(p) ==
    /\ removal[p] # None /\ removal[p].step = "read"
    /\ LET e == player[removal[p].user]
       IN  removal' = [removal EXCEPT ![p] =
                         IF e = None THEN None
                         ELSE [@ EXCEPT !.step = "zrem", !.board = e.board]]
    /\ UNCHANGED <<now, clients, redisQueue, redisMatch, worker, made, crashes>>

RemoveMember(p) ==
    /\ removal[p] # None /\ removal[p].step = "zrem"
    /\ queue' = [queue EXCEPT ![removal[p].board] = @ \ {removal[p].user}]
    /\ removal' = [removal EXCEPT ![p].step = "del"]
    /\ UNCHANGED <<now, clients, boards, player, redisMatch, worker, made, crashes>>

DeletePlayer(p) ==
    /\ removal[p] # None /\ removal[p].step = "del"
    /\ player' = [player EXCEPT ![removal[p].user] = None]
    /\ removal' = [removal EXCEPT ![p] = None]
    /\ UNCHANGED <<now, clients, queue, boards, redisMatch, worker, made, crashes>>

RemovalStep(p) == ReadForRemoval(p) \/ RemoveMember(p) \/ DeletePlayer(p)

------------------------------------------------------------------------------
(* Polling: tryMatch *)

PollGet(c) ==
    /\ Free(c)
    /\ assignment[c[1]] # None
    /\ call' = [call EXCEPT ![c] = [op |-> "poll", id |-> assignment[c[1]]]]
    /\ UNCHANGED <<now, joins, redisQueue, redisMatch, removal, worker, made, crashes>>

PollDelete(c) ==
    /\ call[c].op = "poll"
    /\ assignment' = [assignment EXCEPT ![c[1]] = None]
    /\ call' = [call EXCEPT ![c] = NoCall]
    /\ UNCHANGED <<now, joins, redisQueue, stored, index, active, removal, worker, made, crashes>>

------------------------------------------------------------------------------
(* A tick: listing the queues *)

\* One player of one board's list, as the tick has read it.
Candidate == [board : Boards, entry : Entry]

NoTick ==
    [pc |-> "idle", at |-> 0, toScan |-> {}, unread |-> {}, candidates |-> {},
     unvisited |-> {}, self |-> None, rivals |-> {}, match |-> None, todo |-> <<>>]

StartTick(w) ==
    /\ worker[w].pc = "idle"
    /\ worker' = [worker EXCEPT ![w] = [NoTick EXCEPT !.pc = "loop", !.at = now, !.toScan = boards]]
    /\ UNCHANGED <<now, clients, redisQueue, redisMatch, removal, made, crashes>>

\* zRange of the next board's queue.
ScanQueue(w) ==
    /\ worker[w].pc = "loop" /\ worker[w].unread = {}
    /\ \E b \in worker[w].toScan :
        /\ \A other \in worker[w].toScan : b <= other
        /\ worker' = [worker EXCEPT ![w].toScan = @ \ {b}, ![w].unread = {b} \X queue[b]]
    /\ UNCHANGED <<now, clients, redisQueue, redisMatch, removal, made, crashes>>

\* The candidates one listed user contributes: none without an entry.
Listed(b, u) == IF player[u] = None THEN {} ELSE {[board |-> b, entry |-> player[u]]}

\* hGetAll of one listed user.
ReadPlayer(w) ==
    /\ worker[w].pc = "loop"
    /\ \E bu \in worker[w].unread :
        worker' = [worker EXCEPT ![w].unread = @ \ {bu},
                                 ![w].candidates = @ \cup Listed(bu[1], bu[2]),
                                 ![w].unvisited = @ \cup Listed(bu[1], bu[2])]
    /\ UNCHANGED <<now, clients, redisQueue, redisMatch, removal, made, crashes>>

\* Every queue has been listed: the loop over the candidates may go on.
HasListed(w) == worker[w].pc = "loop" /\ worker[w].toScan = {} /\ worker[w].unread = {}

------------------------------------------------------------------------------
(* A tick: visiting the candidates, board by board, by joinedAt *)

Waited(w, e) == worker[w].at - e.joinedAt

Distance(m, n) == IF m >= n THEN m - n ELSE n - m

SkillRange(w, e) == IF Waited(w, e) >= WidenAfter THEN 2 ELSE 1

Rivals(w, c) ==
    { d \in worker[w].candidates :
        /\ d.board = c.board
        /\ d.entry.user # c.entry.user
        /\ Distance(d.entry.band, c.entry.band) <= SkillRange(w, c.entry)
        /\ d.entry.rules = c.entry.rules }

\* Entries of one millisecond come in any order.
ComesFirst(c, S) ==
    \A d \in S :
        \/ c.board < d.board
        \/ c.board = d.board /\ c.entry.joinedAt <= d.entry.joinedAt

Visit(w) ==
    /\ HasListed(w)
    /\ \E c \in worker[w].unvisited :
        /\ ComesFirst(c, worker[w].unvisited)
        /\ worker' = [worker EXCEPT ![w].pc = "claim", ![w].unvisited = @ \ {c},
                                    ![w].self = c, ![w].rivals = Rivals(w, c)]
    /\ UNCHANGED <<now, clients, redisQueue, redisMatch, removal, made, crashes>>

EndTick(w) ==
    /\ HasListed(w) /\ worker[w].unvisited = {}
    /\ worker' = [worker EXCEPT ![w] = NoTick]
    /\ UNCHANGED <<now, clients, redisQueue, redisMatch, removal, made, crashes>>

\* Defect: only the visited player is looked up.
Claimable_SelfOnly(board, u, v) == u \in queue[board] /\ player[u] # None

\* The conditions of ATOMIC_CLAIM_PAIR_LUA: membership and an entry, by user.
Claimable(board, u, v) ==
    /\ {u, v} \subseteq queue[board]
    /\ player[u] # None /\ player[v] # None

\* Defect: the snapshot is stored after everything that names the match.
SavePlan_SessionLast(m) ==
    IF m.b = None THEN <<"index", "activeA", "assignA", "session">>
    ELSE <<"index", "activeA", "activeB", "assignA", "assignB", "session">>

\* Defect: the second player's keys are forgotten.
SavePlan_OnePlayer(m) == <<"session", "index", "activeA", "assignA">>

\* persistInitialMatch and storePendingAssignment, as Redis commands.
SavePlan(m) ==
    IF m.b = None THEN <<"session", "index", "activeA", "assignA">>
    ELSE <<"session", "index", "activeA", "activeB", "assignA", "assignB">>

\* The match is decided; nothing of it is stored yet.
MakeMatch(w, m, claimed) ==
    /\ made' = made \cup {[match |-> m, claimed |-> claimed]}
    /\ worker' = [worker EXCEPT ![w].pc = "save", ![w].rivals = {},
                                ![w].match = m, ![w].todo = SavePlan(m)]

NextId == Cardinality(made) + 1

\* One run of the Lua script: both leave the queue or the next rival is tried.
ClaimPair(w) ==
    /\ worker[w].pc = "claim"
    /\ \E r \in worker[w].rivals :
        /\ ComesFirst(r, worker[w].rivals)
        /\ LET self == worker[w].self
               u == self.entry.user
               v == r.entry.user
           IN  IF Claimable(self.board, u, v)
               THEN /\ queue' = [queue EXCEPT ![self.board] = @ \ {u, v}]
                    /\ player' = [player EXCEPT ![u] = None, ![v] = None]
                    /\ MakeMatch(w, [id |-> NextId, board |-> self.board,
                                     a |-> self.entry, b |-> r.entry],
                                 {player[u], player[v]} \ {None})
               ELSE /\ worker' = [worker EXCEPT ![w].rivals = @ \ {r}]
                    /\ UNCHANGED <<queue, player, made>>
    /\ UNCHANGED <<now, clients, boards, redisMatch, removal, crashes>>

\* The loop goes on; nothing is kept of the candidate just dealt with.
NextCandidate(tick) ==
    [tick EXCEPT !.pc = "loop", !.self = None, !.match = None, !.todo = <<>>]

\* No rival is left: the player is taken out for a bot, or stays for now.
GiveUp(w) ==
    /\ worker[w].pc = "claim" /\ worker[w].rivals = {}
    /\ LET e == worker[w].self.entry
       IN  IF Waited(w, e) >= BotTimeout
           THEN StartRemoval(w, e.user) /\ worker' = [worker EXCEPT ![w].pc = "bot"]
           ELSE worker' = [worker EXCEPT ![w] = NextCandidate(@)] /\ UNCHANGED removal
    /\ UNCHANGED <<now, clients, redisQueue, redisMatch, made, crashes>>

\* The removal is over, whether it found an entry or not.
AssignBot(w) ==
    /\ worker[w].pc = "bot" /\ removal[w] = None
    /\ MakeMatch(w, [id |-> NextId, board |-> worker[w].self.board,
                     a |-> worker[w].self.entry, b |-> None], {})
    /\ UNCHANGED <<now, clients, redisQueue, redisMatch, removal, crashes>>

SaveMatch(w) ==
    /\ worker[w].pc = "save"
    /\ LET m == worker[w].match
           step == Head(worker[w].todo)
       IN  /\ stored' = IF step = "session" THEN stored \cup {m.id} ELSE stored
           /\ index' = IF step = "index" THEN index \cup {m.id} ELSE index
           /\ active' = CASE step = "activeA" -> [active EXCEPT ![m.a.user] = m.id]
                          [] step = "activeB" -> [active EXCEPT ![m.b.user] = m.id]
                          [] OTHER -> active
           /\ assignment' = CASE step = "assignA" -> [assignment EXCEPT ![m.a.user] = m.id]
                              [] step = "assignB" -> [assignment EXCEPT ![m.b.user] = m.id]
                              [] OTHER -> assignment
    /\ worker' = [worker EXCEPT ![w] =
                    IF Len(worker[w].todo) = 1 THEN NextCandidate(worker[w])
                    ELSE [worker[w] EXCEPT !.todo = Tail(@)]]
    /\ UNCHANGED <<now, clients, redisQueue, removal, made, crashes>>

TickStep(w) ==
    \/ ScanQueue(w) \/ ReadPlayer(w) \/ Visit(w) \/ EndTick(w)
    \/ ClaimPair(w) \/ GiveUp(w) \/ AssignBot(w) \/ SaveMatch(w)

------------------------------------------------------------------------------

Tick ==
    /\ now < MaxNow
    /\ now' = now + 1
    /\ UNCHANGED <<clients, redisQueue, redisMatch, removal, worker, made, crashes>>

\* The service dies between two Redis commands and starts again.
Crash ==
    /\ crashes < MaxCrashes
    /\ crashes' = crashes + 1
    /\ call' = [c \in Calls |-> NoCall]
    /\ removal' = [p \in Calls \cup Workers |-> None]
    /\ worker' = [w \in Workers |-> NoTick]
    /\ UNCHANGED <<now, joins, redisQueue, redisMatch, made>>

Init ==
    /\ now = 0 /\ joins = 0 /\ crashes = 0
    /\ queue = [b \in Boards |-> {}]
    /\ boards = {}
    /\ player = [u \in Users |-> None]
    /\ stored = {} /\ index = {}
    /\ active = [u \in Users |-> None]
    /\ assignment = [u \in Users |-> None]
    /\ call = [c \in Calls |-> NoCall]
    /\ removal = [p \in Calls \cup Workers |-> None]
    /\ worker = [w \in Workers |-> NoTick]
    /\ made = {}

ClientCall(c) ==
    \/ \E ticket \in Tickets : Join(c, ticket)
    \/ CancelQueue(c) \/ CancelQueueIfStale(c) \/ PollGet(c)

ClientStep(c) == Enqueue(c) \/ PollDelete(c)

Next ==
    \/ \E c \in Calls : ClientCall(c) \/ ClientStep(c)
    \/ \E p \in Calls \cup Workers : RemovalStep(p)
    \/ \E w \in Workers : StartTick(w) \/ TickStep(w)
    \/ Tick
    \/ Crash

Spec == Init /\ [][Next]_vars

(***************************************************************************)
(* Started calls and ticks go on, setInterval starts tick after tick, and  *)
(* time passes.  Clients owe nothing.                                      *)
(***************************************************************************)
Fairness ==
    /\ \A c \in Calls : WF_vars(ClientStep(c))
    /\ \A p \in Calls \cup Workers : WF_vars(RemovalStep(p))
    /\ \A w \in Workers : WF_vars(StartTick(w)) /\ WF_vars(TickStep(w))
    /\ WF_vars(Tick)

FairSpec == Spec /\ Fairness
==============================================================================
