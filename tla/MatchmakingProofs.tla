------------------------- MODULE MatchmakingProofs -------------------------
(***************************************************************************)
(* What the queue promises for any number of users, boards, calls and      *)
(* overlapping ticks: it implements the contract of the pairs, and a key   *)
(* that leads to a match leads to one that is stored.                      *)
(***************************************************************************)
EXTENDS MatchmakingProps, FiniteSetTheorems, TLAPS

Enqueuing == {<<"hash", "queue", "boards">>, <<"queue", "boards">>, <<"boards">>}

CallType ==
    {NoCall} \cup [op : {"join"}, entry : Entry, todo : Enqueuing]
             \cup [op : {"poll"}, id : Nat]

Removal == [step : {"read", "zrem", "del"}, user : Users, board : Boards \cup {None}]

PairSaves ==
    {<<"session", "index", "activeA", "activeB", "assignA", "assignB">>,
     <<"index", "activeA", "activeB", "assignA", "assignB">>,
     <<"activeA", "activeB", "assignA", "assignB">>,
     <<"activeB", "assignA", "assignB">>, <<"assignA", "assignB">>, <<"assignB">>}
BotSaves ==
    {<<"session", "index", "activeA", "assignA">>, <<"index", "activeA", "assignA">>,
     <<"activeA", "assignA">>, <<"assignA">>}

WorkerType ==
    [pc : {"idle", "loop", "claim", "bot", "save"}, at : Nat,
     toScan : SUBSET Boards, unread : SUBSET (Boards \X Users),
     candidates : SUBSET Candidate, unvisited : SUBSET Candidate,
     self : Candidate \cup {None}, rivals : SUBSET Candidate,
     match : Match \cup {None}, todo : PairSaves \cup BotSaves \cup {<<>>}]

TypeOK ==
    /\ now \in Nat /\ joins \in 0 .. MaxJoins
    /\ queue \in [Boards -> SUBSET Users] /\ boards \subseteq Boards
    /\ player \in [Users -> Entry \cup {None}]
    /\ stored \subseteq Nat /\ index \subseteq Nat
    /\ active \in [Users -> Nat \cup {None}] /\ assignment \in [Users -> Nat \cup {None}]
    /\ call \in [Calls -> CallType]
    /\ removal \in [Calls \cup Workers -> Removal \cup {None}]
    /\ worker \in [Workers -> WorkerType]
    /\ made \subseteq [match : Match, claimed : SUBSET Entry] /\ IsFiniteSet(made)

\* A listed player had an entry, a rival is another user, and a removal knows
\* its board once it has read the entry.
Holds(x) ==
    /\ \A d \in x.candidates \cup x.unvisited \cup x.rivals : d.entry # None
    /\ x.pc \in {"claim", "bot"} => x.self \in Candidate
    /\ x.pc = "claim" => \A r \in x.rivals : r.entry.user # x.self.entry.user
TicksHold == \A w \in Workers : Holds(worker[w])
RemovalsHold == \A p \in Calls \cup Workers :
    (removal[p] # None /\ removal[p].step = "zrem") => removal[p].board \in Boards

IInv == TypeOK /\ TicksHold /\ RemovalsHold

------------------------------------------------------------------------------
(* Ticks and removals *)

\* One tick moves.
LEMMA TickMoves ==
    ASSUME worker \in [Workers -> WorkerType], TicksHold, NEW w \in Workers,
           NEW r \in WorkerType, Holds(r), worker' = [worker EXCEPT ![w] = r]
    PROVE  worker' \in [Workers -> WorkerType] /\ TicksHold'
<1>1. \A x \in Workers : worker'[x] = IF x = w THEN r ELSE worker[x]
  OBVIOUS
<1>2. \A x \in Workers : Holds(worker'[x])
  BY <1>1 DEF TicksHold
<1>. QED
  BY <1>2 DEF TicksHold

\* A tick that has not begun holds nothing.
LEMMA NoTickType == NoTick \in WorkerType /\ Holds(NoTick)
BY DEF NoTick, WorkerType, Holds

\* One removal moves.
LEMMA RemovalMoves ==
    ASSUME removal \in [Calls \cup Workers -> Removal \cup {None}], RemovalsHold,
           NEW p \in Calls \cup Workers, NEW r \in Removal \cup {None},
           (r # None /\ r.step = "zrem") => r.board \in Boards,
           removal' = [removal EXCEPT ![p] = r]
    PROVE  removal' \in [Calls \cup Workers -> Removal \cup {None}] /\ RemovalsHold'
<1>1. \A q \in Calls \cup Workers : removal'[q] = IF q = p THEN r ELSE removal[q]
  OBVIOUS
<1>2. \A q \in Calls \cup Workers :
        (removal'[q] # None /\ removal'[q].step = "zrem") => removal'[q].board \in Boards
  BY <1>1 DEF RemovalsHold
<1>. QED
  BY <1>2 DEF RemovalsHold

\* A removal begins with a user.
LEMMA StartRemovalType ==
    ASSUME IInv, NEW p \in Calls \cup Workers, NEW u \in Users, StartRemoval(p, u)
    PROVE  removal' \in [Calls \cup Workers -> Removal \cup {None}] /\ RemovalsHold'
<1>1. [step |-> "read", user |-> u, board |-> None] \in Removal
  BY DEF Removal
<1>. QED
  BY <1>1, RemovalMoves DEF IInv, TypeOK, StartRemoval

------------------------------------------------------------------------------
(* The types: calls and removals *)

\* A join begins with a whole entry.
LEMMA JoinType ==
    ASSUME IInv, NEW c \in Calls, NEW ticket \in Tickets, Join(c, ticket)
    PROVE  IInv'
<1>. DEFINE e == [user |-> c[1], board |-> ticket.board, rules |-> ticket.rules,
                  band |-> ticket.band, joinedAt |-> now, joinId |-> joins + 1]
<1>1. ticket.board \in Boards /\ ticket.rules \in Rules /\ ticket.band \in Bands
      /\ c[1] \in Users
  BY QueueAssumption DEF Calls
<1>2. joins' = joins + 1 /\ joins' \in 0 .. MaxJoins /\ joins + 1 \in Nat /\ now \in Nat
  BY TimesAssumption DEF Join, IInv, TypeOK
<1>3. e \in Entry
  BY <1>1, <1>2 DEF Entry
<1>4. [op |-> "join", entry |-> e, todo |-> EnqueuePlan] \in CallType
  BY <1>3 DEF CallType, Enqueuing, EnqueuePlan
<1>5. call' \in [Calls -> CallType]
  BY <1>4 DEF Join, IInv, TypeOK
<1>. QED
  BY <1>2, <1>5 DEF Join, IInv, TypeOK, TicksHold, RemovalsHold, redisQueue, redisMatch

\* The commands of a join.
LEMMA EnqueueType ==
    ASSUME IInv, NEW c \in Calls, Enqueue(c)
    PROVE  /\ IInv'
           /\ call[c].entry \in Entry /\ call[c].todo \in Enqueuing
           /\ call'[c] = NoCall \/ (call'[c].op = "join" /\ call'[c].entry = call[c].entry
                                       /\ call'[c].todo # EnqueuePlan)
           /\ \A d \in Calls \ {c} : call'[d] = call[d]
<1>. DEFINE r == IF Len(call[c].todo) = 1 THEN NoCall
                 ELSE [call[c] EXCEPT !.todo = Tail(@)]
<1>1. call[c] \in [op : {"join"}, entry : Entry, todo : Enqueuing]
  BY DEF Enqueue, IInv, TypeOK, CallType, NoCall
<1>2. r = NoCall \/ r \in [op : {"join"}, entry : Entry,
                          todo : {<<"queue", "boards">>, <<"boards">>}]
  <2>1. CASE call[c].todo = <<"hash", "queue", "boards">>
    BY <1>1, <2>1
  <2>2. CASE call[c].todo = <<"queue", "boards">>
    BY <1>1, <2>2
  <2>3. CASE call[c].todo = <<"boards">>
    BY <1>1, <2>3
  <2>. QED
    BY <1>1, <2>1, <2>2, <2>3 DEF Enqueuing
<1>3. r \in CallType
  BY <1>2 DEF CallType, Enqueuing
<1>4. call' = [call EXCEPT ![c] = r]
  BY DEF Enqueue
<1>5. call' \in [Calls -> CallType] /\ call'[c] = r /\ \A d \in Calls \ {c} : call'[d] = call[d]
  BY <1>3, <1>4 DEF IInv, TypeOK
<1>6. call[c].entry \in Entry /\ call[c].entry.user \in Users /\ call[c].entry.board \in Boards
  BY <1>1 DEF Entry
<1>7. player' \in [Users -> Entry \cup {None}] /\ queue' \in [Boards -> SUBSET Users]
      /\ boards' \subseteq Boards
  BY <1>6 DEF Enqueue, IInv, TypeOK
<1>8. IInv'
  BY <1>5, <1>7 DEF Enqueue, IInv, TypeOK, TicksHold, RemovalsHold, redisMatch
<1>9. r = NoCall \/ (r.op = "join" /\ r.entry = call[c].entry /\ r.todo # EnqueuePlan)
  <2>1. <<"queue", "boards">> # EnqueuePlan /\ <<"boards">> # EnqueuePlan
    BY DEF EnqueuePlan
  <2>. QED
    BY <1>1, <1>2, <2>1
<1>. QED
  BY <1>1, <1>5, <1>6, <1>8, <1>9

\* A call that takes its user out of the queue.
LEMMA CancelType ==
    ASSUME IInv, NEW c \in Calls, CancelQueue(c) \/ CancelQueueIfStale(c)
    PROVE  IInv'
<1>1. CancelQueue(c) /\ c[1] \in Users
  BY DEF CancelQueueIfStale, Calls
<1>2. removal' \in [Calls \cup Workers -> Removal \cup {None}] /\ RemovalsHold'
  BY <1>1, StartRemovalType DEF CancelQueue
<1>. QED
  BY <1>1, <1>2 DEF CancelQueue, IInv, TypeOK, TicksHold, clients, redisQueue, redisMatch

\* The commands of a removal.
LEMMA RemovalStepType ==
    ASSUME IInv, NEW p \in Calls \cup Workers, RemovalStep(p)
    PROVE  IInv' /\ removal[p] \in Removal
<1>1. removal[p] \in Removal
  BY DEF RemovalStep, ReadForRemoval, RemoveMember, DeletePlayer, IInv, TypeOK
<1>2. CASE ReadForRemoval(p)
  <2>. DEFINE e == player[removal[p].user]
              r == IF e = None THEN None
                   ELSE [removal[p] EXCEPT !.step = "zrem", !.board = e.board]
  <2>1. removal' = [removal EXCEPT ![p] = r]
    BY <1>2 DEF ReadForRemoval
  <2>2. e # None => e.board \in Boards
    BY <1>1 DEF IInv, TypeOK, Removal, Entry
  <2>3. r \in Removal \cup {None} /\ ((r # None /\ r.step = "zrem") => r.board \in Boards)
    BY <1>1, <2>2 DEF Removal
  <2>4. removal' \in [Calls \cup Workers -> Removal \cup {None}] /\ RemovalsHold'
    BY <2>1, <2>3, RemovalMoves DEF IInv, TypeOK
  <2>. QED
    BY <1>1, <1>2, <2>4 DEF ReadForRemoval, IInv, TypeOK, TicksHold, clients, redisQueue,
                            redisMatch
<1>3. CASE RemoveMember(p)
  <2>1. [removal[p] EXCEPT !.step = "del"] \in Removal
        /\ [removal[p] EXCEPT !.step = "del"].step # "zrem"
    BY <1>1 DEF Removal
  <2>2. removal' = [removal EXCEPT ![p] = [removal[p] EXCEPT !.step = "del"]]
    BY <1>3 DEF RemoveMember
  <2>3. removal' \in [Calls \cup Workers -> Removal \cup {None}] /\ RemovalsHold'
    BY <2>1, <2>2, RemovalMoves DEF IInv, TypeOK
  <2>4. queue' \in [Boards -> SUBSET Users]
    BY <1>3 DEF RemoveMember, IInv, TypeOK
  <2>. QED
    BY <1>1, <1>3, <2>3, <2>4 DEF RemoveMember, IInv, TypeOK, TicksHold, clients, redisMatch
<1>4. CASE DeletePlayer(p)
  <2>1. removal' \in [Calls \cup Workers -> Removal \cup {None}] /\ RemovalsHold'
    BY <1>4, RemovalMoves DEF DeletePlayer, IInv, TypeOK
  <2>2. player' \in [Users -> Entry \cup {None}]
    BY <1>4 DEF DeletePlayer, IInv, TypeOK
  <2>. QED
    BY <1>1, <1>4, <2>1, <2>2 DEF DeletePlayer, IInv, TypeOK, TicksHold, clients, redisMatch
<1>. QED
  BY <1>1, <1>2, <1>3, <1>4 DEF RemovalStep

\* A poll reads its user's assignment, and forgets it.
LEMMA PollType ==
    ASSUME IInv, NEW c \in Calls, PollGet(c) \/ PollDelete(c)
    PROVE  IInv'
<1>1. c[1] \in Users
  BY DEF Calls
<1>2. NoCall \in CallType
      /\ (assignment[c[1]] # None => [op |-> "poll", id |-> assignment[c[1]]] \in CallType)
  BY <1>1 DEF CallType, IInv, TypeOK
<1>3. call' \in [Calls -> CallType]
  BY <1>2 DEF PollGet, PollDelete, IInv, TypeOK
<1>4. assignment' \in [Users -> Nat \cup {None}]
  BY DEF PollGet, PollDelete, IInv, TypeOK, redisMatch
<1>. QED
  BY <1>3, <1>4 DEF PollGet, PollDelete, IInv, TypeOK, TicksHold, RemovalsHold, redisQueue,
                    redisMatch

------------------------------------------------------------------------------
(* The types: ticks *)

\* Ticks that only read what is in Redis.
Untouched == UNCHANGED <<now, clients, redisQueue, redisMatch, removal, made>>

\* Only tick w has moved, and it is not saving a match.
Reads(w) == /\ worker'[w].pc # "save"
            /\ \A x \in Workers \ {w} : worker'[x] = worker[x]

\* Such a step keeps the types when the tick does.
LEMMA ReadingType ==
    ASSUME IInv, NEW w \in Workers, NEW r \in WorkerType, Holds(r), r.pc # "save",
           worker' = [worker EXCEPT ![w] = r], Untouched
    PROVE  IInv' /\ Reads(w)
<1>1. worker' \in [Workers -> WorkerType] /\ TicksHold'
  BY TickMoves DEF IInv, TypeOK
<1>2. Reads(w)
  BY DEF IInv, TypeOK, Reads
<1>. QED
  BY <1>1, <1>2 DEF IInv, TypeOK, RemovalsHold, Untouched, clients, redisQueue, redisMatch

\* What a tick has of the players it has listed.
LEMMA TickHas ==
    ASSUME IInv, NEW w \in Workers
    PROVE  worker[w] \in WorkerType /\ Holds(worker[w])
BY DEF IInv, TypeOK, TicksHold

\* A tick begins, or ends.
LEMMA StartEndType ==
    ASSUME IInv, NEW w \in Workers, StartTick(w) \/ EndTick(w)
    PROVE  IInv' /\ Reads(w)
<1>1. CASE StartTick(w)
  <2>. DEFINE r == [NoTick EXCEPT !.pc = "loop", !.at = now, !.toScan = boards]
  <2>1. worker' = [worker EXCEPT ![w] = r] /\ Untouched
    BY <1>1 DEF StartTick, Untouched
  <2>2. r \in WorkerType /\ Holds(r) /\ r.pc # "save"
    BY DEF NoTick, WorkerType, Holds, IInv, TypeOK
  <2>. QED
    BY <2>1, <2>2, ReadingType
<1>2. CASE EndTick(w)
  BY <1>2, NoTickType, ReadingType DEF EndTick, Untouched, NoTick
<1>. QED
  BY <1>1, <1>2

\* A queue is listed.
LEMMA ScanType ==
    ASSUME IInv, NEW w \in Workers, ScanQueue(w)
    PROVE  IInv' /\ Reads(w)
<1>1. PICK b \in worker[w].toScan :
        worker' = [worker EXCEPT ![w].toScan = @ \ {b}, ![w].unread = {b} \X queue[b]]
  BY DEF ScanQueue
<1>. DEFINE tick == worker[w]
            toScan == tick.toScan \ {b}
            unread == {b} \X queue[b]
            r == [tick EXCEPT !.toScan = toScan, !.unread = unread]
<1>2. worker' = [worker EXCEPT ![w] = r]
  BY <1>1 DEF IInv, TypeOK
<1>3. tick \in WorkerType /\ Holds(tick) /\ tick.pc = "loop"
  BY TickHas DEF ScanQueue
<1>4. toScan \in SUBSET Boards /\ unread \in SUBSET (Boards \X Users)
  <2>1. b \in Boards /\ queue[b] \in SUBSET Users
    BY TickHas DEF WorkerType, IInv, TypeOK
  <2>. QED
    BY <1>3, <2>1 DEF WorkerType
<1>5. r \in WorkerType /\ Holds(r) /\ r.pc # "save"
  <2>. HIDE DEF tick, toScan, unread
  <2>1. r \in WorkerType
    BY <1>3, <1>4 DEF WorkerType
  <2>2. /\ r.pc = tick.pc /\ r.self = tick.self /\ r.rivals = tick.rivals
        /\ r.candidates = tick.candidates /\ r.unvisited = tick.unvisited
    BY <1>3 DEF WorkerType
  <2>. HIDE DEF r
  <2>. QED
    BY <1>3, <2>1, <2>2 DEF Holds
<1>. QED
  BY <1>2, <1>5, ReadingType DEF ScanQueue, Untouched

\* The entry of a listed player is read.
LEMMA ReadPlayerType ==
    ASSUME IInv, NEW w \in Workers, ReadPlayer(w)
    PROVE  IInv' /\ Reads(w)
<1>1. PICK bu \in worker[w].unread :
        worker' = [worker EXCEPT ![w].unread = @ \ {bu},
                                 ![w].candidates = @ \cup Listed(bu[1], bu[2]),
                                 ![w].unvisited = @ \cup Listed(bu[1], bu[2])]
  BY DEF ReadPlayer
<1>. DEFINE tick == worker[w]
            unread == tick.unread \ {bu}
            heard == Listed(bu[1], bu[2])
            r == [tick EXCEPT !.unread = unread, !.candidates = @ \cup heard,
                              !.unvisited = @ \cup heard]
<1>2. worker' = [worker EXCEPT ![w] = r]
  BY <1>1 DEF IInv, TypeOK
<1>3. tick \in WorkerType /\ Holds(tick) /\ tick.pc = "loop"
  BY TickHas DEF ReadPlayer
<1>4. unread \in SUBSET (Boards \X Users) /\ bu[1] \in Boards /\ bu[2] \in Users
  BY <1>3 DEF WorkerType
<1>5. heard \in SUBSET Candidate /\ \A d \in heard : d.entry # None
  BY <1>4 DEF Listed, Candidate, IInv, TypeOK
<1>6. r \in WorkerType /\ Holds(r) /\ r.pc # "save"
  <2>. HIDE DEF tick, unread, heard
  <2>1. r \in WorkerType
    BY <1>3, <1>4, <1>5 DEF WorkerType
  <2>2. /\ r.pc = "loop" /\ r.rivals = tick.rivals
        /\ r.candidates = tick.candidates \cup heard
        /\ r.unvisited = tick.unvisited \cup heard
    BY <1>3 DEF WorkerType
  <2>. HIDE DEF r
  <2>. QED
    BY <1>3, <1>5, <2>1, <2>2 DEF Holds
<1>. QED
  BY <1>2, <1>6, ReadingType DEF ReadPlayer, Untouched

\* A candidate is visited: its rivals are other users.
LEMMA VisitType ==
    ASSUME IInv, NEW w \in Workers, Visit(w)
    PROVE  IInv' /\ Reads(w)
<1>1. PICK c \in worker[w].unvisited :
        worker' = [worker EXCEPT ![w].pc = "claim", ![w].unvisited = @ \ {c},
                                 ![w].self = c, ![w].rivals = Rivals(w, c)]
  BY DEF Visit
<1>. DEFINE tick == worker[w]
            rivals == Rivals(w, c)
            r == [tick EXCEPT !.pc = "claim", !.unvisited = @ \ {c},
                              !.self = c, !.rivals = rivals]
<1>2. worker' = [worker EXCEPT ![w] = r]
  BY <1>1 DEF IInv, TypeOK
<1>3. rivals \subseteq tick.candidates /\ \A d \in rivals : d.entry.user # c.entry.user
  BY DEF Rivals
<1>4. tick \in WorkerType /\ Holds(tick) /\ c \in tick.unvisited
  BY TickHas
<1>5. r \in WorkerType /\ Holds(r) /\ r.pc # "save"
  <2>. HIDE DEF tick, rivals
  <2>1. c \in Candidate /\ rivals \in SUBSET Candidate
    BY <1>3, <1>4 DEF WorkerType
  <2>2. r \in WorkerType
    BY <1>4, <2>1 DEF WorkerType
  <2>3. /\ r.pc = "claim" /\ r.self = c /\ r.rivals = rivals
        /\ r.candidates = tick.candidates /\ r.unvisited \subseteq tick.unvisited
    BY <1>4 DEF WorkerType
  <2>. HIDE DEF r
  <2>. QED
    BY <1>3, <1>4, <2>1, <2>2, <2>3 DEF Holds
<1>. QED
  BY <1>2, <1>5, ReadingType DEF Visit, Untouched

\* A match has its number and its players.
LEMMA MakeMatchType ==
    ASSUME IInv, NEW w \in Workers, NEW m \in Match, NEW S \in SUBSET Entry,
           MakeMatch(w, m, S), worker[w].pc \in {"claim", "bot"}
    PROVE  /\ worker' \in [Workers -> WorkerType] /\ TicksHold'
           /\ made' \subseteq [match : Match, claimed : SUBSET Entry] /\ IsFiniteSet(made')
           /\ made' = made \cup {[match |-> m, claimed |-> S]}
           /\ worker'[w].pc = "save" /\ worker'[w].match = m /\ worker'[w].todo = SavePlan(m)
           /\ \A x \in Workers \ {w} : worker'[x] = worker[x]
<1>. DEFINE r == [worker[w] EXCEPT !.pc = "save", !.rivals = {}, !.match = m,
                                   !.todo = SavePlan(m)]
<1>1. worker' = [worker EXCEPT ![w] = r]
  BY DEF MakeMatch, IInv, TypeOK
<1>2. SavePlan(m) \in PairSaves \cup BotSaves
  BY DEF SavePlan, PairSaves, BotSaves
<1>3. r \in WorkerType /\ r.pc = "save" /\ r.match = m /\ r.todo = SavePlan(m) /\ r.rivals = {}
      /\ r.candidates = worker[w].candidates /\ r.unvisited = worker[w].unvisited
  BY <1>2, TickHas DEF WorkerType
<1>4. Holds(r)
  BY <1>3, TickHas DEF Holds
<1>5. worker' \in [Workers -> WorkerType] /\ TicksHold'
  BY <1>1, <1>3, <1>4, TickMoves DEF IInv, TypeOK
<1>6. made' = made \cup {[match |-> m, claimed |-> S]}
  BY DEF MakeMatch
<1>7. IsFiniteSet(made')
  BY <1>6, FS_AddElement DEF IInv, TypeOK
<1>8. made' \subseteq [match : Match, claimed : SUBSET Entry]
  BY <1>6 DEF IInv, TypeOK
<1>9. worker'[w] = r /\ \A x \in Workers \ {w} : worker'[x] = worker[x]
  BY <1>1 DEF IInv, TypeOK
<1>. QED
  BY <1>3, <1>5, <1>6, <1>7, <1>8, <1>9

\* The next id is a number.
LEMMA NextIdType == ASSUME IInv PROVE NextId \in Nat
BY FS_CardinalityType DEF IInv, TypeOK, NextId

\* Match m, of the players whose entries are in S, has just been decided.
Decides(w, m, S) ==
    /\ made' = made \cup {[match |-> m, claimed |-> S]}
    /\ worker'[w].pc = "save" /\ worker'[w].match = m /\ worker'[w].todo = SavePlan(m)
    /\ \A x \in Workers \ {w} : worker'[x] = worker[x]

\* The claim has taken users u and v, who both waited on board b.
Takes(w, b, u, v) ==
    /\ b \in Boards /\ u \in Users /\ v \in Users /\ u # v /\ Claimable(b, u, v)
    /\ queue' = [queue EXCEPT ![b] = @ \ {u, v}]
    /\ player' = [player EXCEPT ![u] = None, ![v] = None]
    /\ \E m \in Match : m.b # None /\ Decides(w, m, {player[u], player[v]} \ {None})

\* A run of the claim script: it takes two users, or only a rival is dropped.
LEMMA ClaimPairType ==
    ASSUME IInv, NEW w \in Workers, ClaimPair(w)
    PROVE  /\ IInv'
           /\ \/ \E b, u, v : Takes(w, b, u, v)
              \/ UNCHANGED <<queue, player, made>> /\ Reads(w)
<1>. DEFINE self == worker[w].self
            u == self.entry.user
<1>1. worker[w].pc = "claim" /\ worker[w] \in WorkerType /\ Holds(worker[w])
  BY TickHas DEF ClaimPair
<1>2. PICK r \in worker[w].rivals :
        IF Claimable(self.board, u, r.entry.user)
        THEN /\ queue' = [queue EXCEPT ![self.board] = @ \ {u, r.entry.user}]
             /\ player' = [player EXCEPT ![u] = None, ![r.entry.user] = None]
             /\ MakeMatch(w, [id |-> NextId, board |-> self.board,
                              a |-> self.entry, b |-> r.entry],
                          {player[u], player[r.entry.user]} \ {None})
        ELSE /\ worker' = [worker EXCEPT ![w].rivals = @ \ {r}]
             /\ UNCHANGED <<queue, player, made>>
  BY DEF ClaimPair
<1>3. /\ self \in Candidate /\ r \in Candidate /\ r.entry # None /\ r.entry.user # u
  BY <1>1 DEF Holds, WorkerType
<1>4. /\ self.board \in Boards /\ self.entry \in Entry /\ r.entry \in Entry
      /\ u \in Users /\ r.entry.user \in Users
  BY <1>3 DEF Candidate, Entry
<1>. HIDE DEF self, u
<1>5. CASE Claimable(self.board, u, r.entry.user)
  <2>. DEFINE m == [id |-> NextId, board |-> self.board, a |-> self.entry, b |-> r.entry]
              S == {player[u], player[r.entry.user]} \ {None}
  <2>1. m \in Match /\ m.b # None
    BY <1>3, <1>4, NextIdType DEF Match
  <2>2. S \in SUBSET Entry
    BY <1>4 DEF IInv, TypeOK
  <2>. HIDE DEF m, S
  <2>3. MakeMatch(w, m, S)
        /\ queue' = [queue EXCEPT ![self.board] = @ \ {u, r.entry.user}]
        /\ player' = [player EXCEPT ![u] = None, ![r.entry.user] = None]
    BY <1>2, <1>5 DEF m, S
  <2>4. /\ worker' \in [Workers -> WorkerType] /\ TicksHold'
        /\ made' \subseteq [match : Match, claimed : SUBSET Entry] /\ IsFiniteSet(made')
        /\ Decides(w, m, S)
    BY <1>1, <2>1, <2>2, <2>3, MakeMatchType DEF Decides
  <2>5. queue' \in [Boards -> SUBSET Users] /\ player' \in [Users -> Entry \cup {None}]
    BY <1>4, <2>3 DEF IInv, TypeOK
  <2>6. IInv'
    BY <2>4, <2>5 DEF ClaimPair, IInv, TypeOK, RemovalsHold, clients, redisMatch
  <2>7. Takes(w, self.board, u, r.entry.user)
    BY <1>3, <1>4, <1>5, <2>1, <2>3, <2>4 DEF Takes, S, u
  <2>. QED
    BY <2>6, <2>7
<1>6. CASE ~Claimable(self.board, u, r.entry.user)
  <2>. DEFINE x == [worker[w] EXCEPT !.rivals = @ \ {r}]
  <2>1. worker' = [worker EXCEPT ![w] = x] /\ UNCHANGED <<queue, player, made>>
    BY <1>2, <1>6 DEF IInv, TypeOK
  <2>2. x \in WorkerType /\ x.pc = "claim" /\ Holds(x)
    BY <1>1 DEF WorkerType, Holds
  <2>3. IInv' /\ Reads(w)
    <3>1. Untouched
      BY <2>1 DEF ClaimPair, Untouched, redisQueue
    <3>. QED
      BY <2>1, <2>2, <3>1, ReadingType
  <2>. QED
    BY <2>1, <2>3
<1>. QED
  BY <1>5, <1>6

\* No rival is left.
LEMMA GiveUpType ==
    ASSUME IInv, NEW w \in Workers, GiveUp(w)
    PROVE  IInv' /\ Reads(w)
<1>1. /\ worker[w] \in WorkerType /\ Holds(worker[w]) /\ worker[w].pc = "claim"
      /\ worker[w].self \in Candidate
  BY TickHas DEF GiveUp, Holds
<1>2. PICK r \in {[worker[w] EXCEPT !.pc = "bot"], NextCandidate(worker[w])} :
        worker' = [worker EXCEPT ![w] = r]
  BY DEF GiveUp, IInv, TypeOK
<1>3. r \in WorkerType /\ Holds(r) /\ r.pc # "save"
  <2>1. CASE r = [worker[w] EXCEPT !.pc = "bot"]
    <3>1. r \in WorkerType
      BY <1>1, <2>1, SMTT(30) DEF WorkerType
    <3>. QED
      BY <1>1, <2>1, <3>1, SMTT(30) DEF WorkerType, Holds
  <2>2. CASE r = NextCandidate(worker[w])
    <3>. DEFINE t == worker[w]
    <3>1. r = [pc |-> "loop", at |-> t.at, toScan |-> t.toScan, unread |-> t.unread,
               candidates |-> t.candidates, unvisited |-> t.unvisited, self |-> None,
               rivals |-> t.rivals, match |-> None, todo |-> <<>>]
      BY <1>1, <2>2 DEF WorkerType, NextCandidate
    <3>2. /\ t.at \in Nat /\ t.toScan \in SUBSET Boards /\ t.unread \in SUBSET (Boards \X Users)
          /\ t.candidates \in SUBSET Candidate /\ t.unvisited \in SUBSET Candidate
          /\ t.rivals \in SUBSET Candidate
      BY <1>1 DEF WorkerType
    <3>3. Holds(t) /\ t.pc = "claim"
      BY <1>1
    <3>. HIDE DEF t
    <3>4. r \in WorkerType
      BY <3>1, <3>2 DEF WorkerType
    <3>. QED
      BY <3>1, <3>3, <3>4 DEF Holds
  <2>. QED
    BY <1>2, <2>1, <2>2
<1>4. worker' \in [Workers -> WorkerType] /\ TicksHold'
  BY <1>2, <1>3, TickMoves DEF IInv, TypeOK
<1>5. worker'[w] = r /\ \A x \in Workers \ {w} : worker'[x] = worker[x]
  BY <1>2 DEF IInv, TypeOK
<1>6. removal' \in [Calls \cup Workers -> Removal \cup {None}] /\ RemovalsHold'
  <2>1. worker[w].self.entry.user \in Users
    BY <1>1 DEF Candidate, Entry
  <2>2. StartRemoval(w, worker[w].self.entry.user) \/ UNCHANGED removal
    BY DEF GiveUp
  <2>3. CASE StartRemoval(w, worker[w].self.entry.user)
    BY <2>1, <2>3, StartRemovalType
  <2>4. CASE UNCHANGED removal
    BY <2>4 DEF IInv, TypeOK, RemovalsHold
  <2>. QED
    BY <2>2, <2>3, <2>4
<1>. QED
  BY <1>3, <1>4, <1>5, <1>6 DEF Reads, GiveUp, IInv, TypeOK, clients, redisQueue, redisMatch

\* A bot is found.
LEMMA AssignBotType ==
    ASSUME IInv, NEW w \in Workers, AssignBot(w)
    PROVE  IInv' /\ \E m \in Match : m.b = None /\ Decides(w, m, {})
<1>. DEFINE m == [id |-> NextId, board |-> worker[w].self.board,
                  a |-> worker[w].self.entry, b |-> None]
<1>1. worker[w].pc = "bot" /\ worker[w].self \in Candidate /\ MakeMatch(w, m, {})
  BY TickHas DEF AssignBot, Holds
<1>2. m \in Match /\ m.b = None
  BY <1>1, NextIdType DEF Match, Candidate
<1>. HIDE DEF m
<1>3. /\ worker' \in [Workers -> WorkerType] /\ TicksHold'
      /\ made' \subseteq [match : Match, claimed : SUBSET Entry] /\ IsFiniteSet(made')
      /\ Decides(w, m, {})
  BY <1>1, <1>2, MakeMatchType DEF Decides
<1>4. IInv'
  BY <1>3 DEF AssignBot, IInv, TypeOK, RemovalsHold, clients, redisQueue, redisMatch
<1>. QED
  BY <1>2, <1>3, <1>4

------------------------------------------------------------------------------
(* Saving a match *)

\* A match that is being saved was made, and what is left to write follows the
\* writes that are done.
Saves(w) == worker[w].pc = "save" =>
    /\ worker[w].match \in Match
    /\ \E h \in made : h.match = worker[w].match
    /\ worker[w].todo \in IF worker[w].match.b = None THEN BotSaves ELSE PairSaves
    /\ Head(worker[w].todo) # "session" => worker[w].match.id \in stored
    /\ Head(worker[w].todo) \notin {"session", "index"} => worker[w].match.id \in index
AllSave == \A w \in Workers : Saves(w)

\* The order of the writes.
LEMMA PairPlan ==
    ASSUME NEW s \in PairSaves
    PROVE  /\ Head(s) \in {"session", "index", "activeA", "activeB", "assignA", "assignB"}
           /\ Len(s) # 1 => /\ Tail(s) \in PairSaves /\ Head(Tail(s)) # "session"
                            /\ Head(s) = "session" => Head(Tail(s)) = "index"
<1>1. CASE s = <<"session", "index", "activeA", "activeB", "assignA", "assignB">>
  BY <1>1 DEF PairSaves
<1>2. CASE s = <<"index", "activeA", "activeB", "assignA", "assignB">>
  BY <1>2 DEF PairSaves
<1>3. CASE s = <<"activeA", "activeB", "assignA", "assignB">>
  BY <1>3 DEF PairSaves
<1>4. CASE s = <<"activeB", "assignA", "assignB">>
  BY <1>4 DEF PairSaves
<1>5. CASE s = <<"assignA", "assignB">>
  BY <1>5 DEF PairSaves
<1>6. CASE s = <<"assignB">>
  BY <1>6 DEF PairSaves
<1>. QED
  BY <1>1, <1>2, <1>3, <1>4, <1>5, <1>6 DEF PairSaves

\* The order of the writes for a match with a bot.
LEMMA BotPlan ==
    ASSUME NEW s \in BotSaves
    PROVE  /\ Head(s) \in {"session", "index", "activeA", "assignA"}
           /\ Len(s) # 1 => /\ Tail(s) \in BotSaves /\ Head(Tail(s)) # "session"
                            /\ Head(s) = "session" => Head(Tail(s)) = "index"
<1>1. CASE s = <<"session", "index", "activeA", "assignA">>
  BY <1>1 DEF BotSaves
<1>2. CASE s = <<"index", "activeA", "assignA">>
  BY <1>2 DEF BotSaves
<1>3. CASE s = <<"activeA", "assignA">>
  BY <1>3 DEF BotSaves
<1>4. CASE s = <<"assignA">>
  BY <1>4 DEF BotSaves
<1>. QED
  BY <1>1, <1>2, <1>3, <1>4 DEF BotSaves

\* What is written stays written, and a tick that does not move saves on.
LEMMA SavesOn ==
    ASSUME NEW w, Saves(w), worker'[w] = worker[w], made \subseteq made',
           stored \subseteq stored', index \subseteq index'
    PROVE  Saves(w)'
BY DEF Saves

\* A match that has just been decided is saved from the start.
LEMMA DecidedSaves ==
    ASSUME NEW w \in Workers, NEW m \in Match, NEW S, Decides(w, m, S)
    PROVE  Saves(w)'
<1>1. SavePlan(m) \in (IF m.b = None THEN BotSaves ELSE PairSaves)
      /\ Head(SavePlan(m)) = "session"
  BY DEF SavePlan, BotSaves, PairSaves
<1>2. \E h \in made' : h.match = m
  <2>1. [match |-> m, claimed |-> S] \in made'
    BY DEF Decides
  <2>. QED
    BY <2>1
<1>3. worker'[w].match = m /\ worker'[w].todo = SavePlan(m)
  BY DEF Decides
<1>. QED
  BY <1>1, <1>2, <1>3 DEF Saves

\* One write of a match.
LEMMA SaveMatchType ==
    ASSUME IInv, AllSave, NEW w \in Workers, SaveMatch(w)
    PROVE  IInv' /\ AllSave'
<1>. DEFINE m == worker[w].match
            s == worker[w].todo
            r == IF Len(worker[w].todo) = 1 THEN NextCandidate(worker[w])
                 ELSE [worker[w] EXCEPT !.todo = Tail(@)]
<1>1. /\ worker[w].pc = "save" /\ worker[w] \in WorkerType /\ Holds(worker[w])
      /\ m \in Match /\ \E h \in made : h.match = m
      /\ s \in (IF m.b = None THEN BotSaves ELSE PairSaves)
      /\ Head(s) # "session" => m.id \in stored
      /\ Head(s) \notin {"session", "index"} => m.id \in index
  BY TickHas DEF SaveMatch, AllSave, Saves
<1>2. /\ m.id \in Nat /\ m.a.user \in Users
      /\ m.b # None => m.b.user \in Users
  BY <1>1 DEF Match, Entry
<1>3. worker' = [worker EXCEPT ![w] = r]
  BY DEF SaveMatch
<1>4. /\ stored' = (IF Head(s) = "session" THEN stored \cup {m.id} ELSE stored)
      /\ index' = (IF Head(s) = "index" THEN index \cup {m.id} ELSE index)
      /\ UNCHANGED made
  BY DEF SaveMatch
<1>. HIDE DEF m
<1>5. /\ Head(s) \in {"session", "index", "activeA", "activeB", "assignA", "assignB"}
      /\ Head(s) \in {"activeB", "assignB"} => m.b # None
      /\ Len(s) # 1 => /\ Tail(s) \in (IF m.b = None THEN BotSaves ELSE PairSaves)
                       /\ Head(Tail(s)) # "session"
                       /\ Head(s) = "session" => Head(Tail(s)) = "index"
  BY <1>1, PairPlan, BotPlan
<1>6. r \in WorkerType /\ Holds(r)
  <2>1. CASE Len(s) = 1
    BY <1>1, <2>1 DEF NextCandidate, WorkerType, Holds
  <2>2. CASE Len(s) # 1
    <3>1. Tail(s) \in PairSaves \cup BotSaves
      BY <1>5, <2>2
    <3>2. r = [worker[w] EXCEPT !.todo = Tail(s)]
      BY <1>1, <2>2
    <3>. HIDE DEF s, r
    <3>. QED
      BY <1>1, <3>1, <3>2 DEF WorkerType, Holds
  <2>. QED
    BY <2>1, <2>2
<1>7. worker' \in [Workers -> WorkerType] /\ TicksHold'
  BY <1>3, <1>6, TickMoves DEF IInv, TypeOK
<1>13. \/ UNCHANGED active
       \/ Head(s) = "activeA" /\ active' = [active EXCEPT ![m.a.user] = m.id]
       \/ Head(s) = "activeB" /\ active' = [active EXCEPT ![m.b.user] = m.id]
  BY DEF SaveMatch, m
<1>14. \/ UNCHANGED assignment
       \/ Head(s) = "assignA" /\ assignment' = [assignment EXCEPT ![m.a.user] = m.id]
       \/ Head(s) = "assignB" /\ assignment' = [assignment EXCEPT ![m.b.user] = m.id]
  BY DEF SaveMatch, m
<1>. HIDE DEF s
<1>8. active' \in [Users -> Nat \cup {None}] /\ assignment' \in [Users -> Nat \cup {None}]
  <2>1. active' \in [Users -> Nat \cup {None}]
    BY <1>2, <1>5, <1>13 DEF IInv, TypeOK
  <2>2. assignment' \in [Users -> Nat \cup {None}]
    BY <1>2, <1>5, <1>14 DEF IInv, TypeOK
  <2>. QED
    BY <2>1, <2>2
<1>15. stored' \subseteq Nat /\ index' \subseteq Nat
  BY <1>2, <1>4 DEF IInv, TypeOK
<1>16. UNCHANGED <<now, joins, call, queue, boards, player, removal, made>>
  BY DEF SaveMatch, clients, redisQueue
<1>9. IInv'
  BY <1>7, <1>8, <1>15, <1>16 DEF IInv, TypeOK, RemovalsHold
<1>10. worker'[w] = r /\ \A x \in Workers \ {w} : worker'[x] = worker[x]
  BY <1>3 DEF IInv, TypeOK
<1>11. Saves(w)'
  <2>1. CASE Len(s) = 1
    <3>1. r.pc = "loop"
      BY <1>1, <2>1 DEF NextCandidate, WorkerType, s
    <3>. QED
      BY <1>10, <3>1 DEF Saves
  <2>2. CASE Len(s) # 1
    <3>1. r.todo = Tail(s) /\ r.match = m
      BY <1>1, <2>2 DEF WorkerType, m, s
    <3>2. Head(Tail(s)) # "session" => m.id \in stored'
      BY <1>1, <1>4
    <3>3. Head(Tail(s)) \notin {"session", "index"} => m.id \in index'
      BY <1>1, <1>4, <1>5, <2>2
    <3>. HIDE DEF s, r
    <3>. QED
      BY <1>1, <1>4, <1>5, <1>10, <2>2, <3>1, <3>2, <3>3 DEF Saves
  <2>. QED
    BY <2>1, <2>2
<1>12. AllSave'
  BY <1>4, <1>10, <1>11, SavesOn DEF AllSave
<1>. QED
  BY <1>9, <1>12

------------------------------------------------------------------------------
(* The types are invariant *)

\* Time passes, or the service dies and starts again.
LEMMA TickCrashType ==
    ASSUME IInv, Tick \/ Crash \/ UNCHANGED vars
    PROVE  /\ IInv' /\ UNCHANGED <<redisQueue, redisMatch, made, joins>>
           /\ UNCHANGED <<call, worker>> \/ (/\ \A c \in Calls : call'[c] = NoCall
                                           /\ \A w \in Workers : worker'[w] = NoTick)
<1>1. CASE UNCHANGED vars
  BY <1>1 DEF vars, clients, redisQueue, redisMatch, IInv, TypeOK, TicksHold, RemovalsHold
<1>2. CASE Tick
  BY <1>2 DEF Tick, clients, redisQueue, redisMatch, IInv, TypeOK, TicksHold, RemovalsHold
<1>3. CASE Crash
  <2>1. NoCall \in CallType
    BY DEF CallType
  <2>2. /\ call' \in [Calls -> CallType] /\ worker' \in [Workers -> WorkerType]
        /\ removal' \in [Calls \cup Workers -> Removal \cup {None}]
    BY <1>3, <2>1, NoTickType DEF Crash
  <2>3. /\ \A c \in Calls : call'[c] = NoCall
        /\ \A w \in Workers : worker'[w] = NoTick
        /\ \A p \in Calls \cup Workers : removal'[p] = None
    BY <1>3 DEF Crash
  <2>4. TicksHold' /\ RemovalsHold'
    BY <2>3, NoTickType DEF TicksHold, RemovalsHold
  <2>. QED
    BY <1>3, <2>2, <2>3, <2>4 DEF Crash, IInv, TypeOK, redisQueue, redisMatch
<1>. QED
  BY <1>1, <1>2, <1>3

\* A client's call or the steps of it.
LEMMA ClientType ==
    ASSUME IInv, NEW c \in Calls, ClientCall(c) \/ ClientStep(c)
    PROVE  IInv'
BY JoinType, CancelType, PollType, EnqueueType DEF ClientCall, ClientStep

\* What a step does to the matches that are being saved.
LEMMA StepType == ASSUME IInv, AllSave, [Next]_vars PROVE IInv' /\ AllSave'
<1>1. ASSUME NEW c \in Calls, ClientCall(c) \/ ClientStep(c) PROVE IInv' /\ AllSave'
  <2>1. UNCHANGED <<worker, stored, index, made>>
    BY <1>1 DEF ClientCall, ClientStep, Join, CancelQueue, CancelQueueIfStale, PollGet,
                PollDelete, Enqueue, redisMatch
  <2>. QED
    BY <1>1, <2>1, ClientType, SavesOn DEF AllSave
<1>2. ASSUME NEW p \in Calls \cup Workers, RemovalStep(p) PROVE IInv' /\ AllSave'
  <2>1. UNCHANGED <<worker, stored, index, made>>
    BY <1>2 DEF RemovalStep, ReadForRemoval, RemoveMember, DeletePlayer, redisMatch
  <2>. QED
    BY <1>2, <2>1, RemovalStepType, SavesOn DEF AllSave
<1>3. CASE Tick \/ Crash \/ UNCHANGED vars
  <2>1. UNCHANGED <<stored, index, made>>
    BY <1>3, TickCrashType DEF redisMatch
  <2>2. UNCHANGED worker \/ \A w \in Workers : worker'[w] = NoTick
    BY <1>3, TickCrashType
  <2>3. CASE UNCHANGED worker
    BY <1>3, <2>1, <2>3, TickCrashType, SavesOn DEF AllSave
  <2>4. CASE \A w \in Workers : worker'[w] = NoTick
    BY <1>3, <2>4, TickCrashType DEF AllSave, Saves, NoTick
  <2>. QED
    BY <2>2, <2>3, <2>4
<1>4. ASSUME NEW w \in Workers, StartTick(w) \/ ScanQueue(w) \/ ReadPlayer(w) \/ Visit(w)
                                  \/ EndTick(w) \/ GiveUp(w)
      PROVE  IInv' /\ AllSave'
  <2>1. UNCHANGED <<stored, index, made>>
    BY <1>4 DEF StartTick, ScanQueue, ReadPlayer, Visit, EndTick, GiveUp, redisMatch
  <2>2. IInv'
    BY <1>4, StartEndType, ScanType, ReadPlayerType, VisitType, GiveUpType
  <2>3. Reads(w)
    BY <1>4, StartEndType, ScanType, ReadPlayerType, VisitType, GiveUpType
  <2>4. Saves(w)'
    BY <2>3 DEF Saves, Reads
  <2>. QED
    BY <2>1, <2>2, <2>3, <2>4, SavesOn DEF AllSave, Reads
<1>5. ASSUME NEW w \in Workers, ClaimPair(w) \/ AssignBot(w)
      PROVE  IInv' /\ AllSave'
  <2>1. UNCHANGED <<stored, index>>
    BY <1>5 DEF ClaimPair, AssignBot, redisMatch
  <2>2. IInv' /\ made \subseteq made'
    BY <1>5, ClaimPairType, AssignBotType DEF Takes, Decides
  <2>3. \A x \in Workers \ {w} : worker'[x] = worker[x]
    BY <1>5, ClaimPairType, AssignBotType DEF Takes, Decides, Reads
  <2>4. Saves(w)'
    <3>1. CASE worker'[w].pc # "save"
      BY <3>1 DEF Saves
    <3>2. CASE \E m \in Match : \E S : Decides(w, m, S)
      BY <3>2, DecidedSaves
    <3>. QED
      BY <1>5, <3>1, <3>2, ClaimPairType, AssignBotType DEF Takes, Reads
  <2>. QED
    BY <2>1, <2>2, <2>3, <2>4, SavesOn DEF AllSave
<1>6. ASSUME NEW w \in Workers, SaveMatch(w) PROVE IInv' /\ AllSave'
  BY <1>6, SaveMatchType
<1>. QED
  BY <1>1, <1>2, <1>3, <1>4, <1>5, <1>6 DEF Next, TickStep

\* At first nobody waits and no tick has begun.
LEMMA InitType == Init => IInv /\ AllSave
<1>. SUFFICES ASSUME Init PROVE IInv /\ AllSave
  OBVIOUS
<1>1. NoCall \in CallType /\ IsFiniteSet({})
  BY FS_EmptySet DEF CallType
<1>2. TypeOK
  BY <1>1, NoTickType, TimesAssumption DEF Init, TypeOK
<1>3. TicksHold /\ RemovalsHold
  BY NoTickType DEF Init, TicksHold, RemovalsHold
<1>4. AllSave
  BY DEF Init, AllSave, Saves, NoTick
<1>. QED
  BY <1>2, <1>3, <1>4 DEF IInv

\* Overlapping ticks, calls and removals keep to what they have read: a tick
\* claims two different users, and what is left of a save follows what is done.
THEOREM TypeCorrect == Spec => [](IInv /\ AllSave)
<1>1. (IInv /\ AllSave) /\ [Next]_vars => (IInv /\ AllSave)'
  BY StepType
<1>. QED
  BY <1>1, InitType, PTL DEF Spec

------------------------------------------------------------------------------
(* The keys of a match *)

\* Match id is one of the user's.
Played(id, u) == \E h \in made : h.match.id = id /\ u \in PlayersOf(h.match)

\* Where the keys stay, or are forgotten, and nothing stored is lost, they
\* lead where they led.
LEMMA KeysStay ==
    ASSUME NamedMatchIsStored, stored \subseteq stored', index \subseteq index',
           made \subseteq made',
           \A u \in Users : active'[u] \in {active[u], None}
                          /\ assignment'[u] \in {assignment[u], None}
    PROVE  NamedMatchIsStored'
BY DEF NamedMatchIsStored

\* A key is written when the snapshot, and for an assignment the index, is.
LEMMA KeysWritten ==
    ASSUME IInv, AllSave, NamedMatchIsStored, NEW w \in Workers, SaveMatch(w)
    PROVE  NamedMatchIsStored'
<1>. DEFINE m == worker[w].match
            s == worker[w].todo
<1>1. /\ m \in Match /\ \E h \in made : h.match = m
      /\ s \in (IF m.b = None THEN BotSaves ELSE PairSaves)
      /\ Head(s) # "session" => m.id \in stored
      /\ Head(s) \notin {"session", "index"} => m.id \in index
  BY DEF SaveMatch, AllSave, Saves
<1>2. Head(s) \in {"activeB", "assignB"} => m.b # None
  BY <1>1, BotPlan
<1>3. /\ Played(m.id, m.a.user)
      /\ m.b # None => Played(m.id, m.b.user)
  BY <1>1 DEF Played, PlayersOf
<1>4. stored \subseteq stored' /\ index \subseteq index' /\ UNCHANGED made
  BY DEF SaveMatch
<1>5. \/ UNCHANGED active
      \/ Head(s) = "activeA" /\ active' = [active EXCEPT ![m.a.user] = m.id]
      \/ Head(s) = "activeB" /\ active' = [active EXCEPT ![m.b.user] = m.id]
  BY DEF SaveMatch
<1>6. \/ UNCHANGED assignment
      \/ Head(s) = "assignA" /\ assignment' = [assignment EXCEPT ![m.a.user] = m.id]
      \/ Head(s) = "assignB" /\ assignment' = [assignment EXCEPT ![m.b.user] = m.id]
  BY DEF SaveMatch
<1>. HIDE DEF m, s
<1>7. ASSUME NEW u \in Users, active'[u] # None
      PROVE  active'[u] \in stored' /\ Played(active'[u], u)
  <2>1. CASE active'[u] = active[u]
    BY <1>4, <1>7, <2>1 DEF NamedMatchIsStored, Played
  <2>2. CASE active'[u] # active[u]
    <3>1. active'[u] = m.id /\ Head(s) \in {"activeA", "activeB"}
          /\ Played(m.id, u)
      BY <1>2, <1>3, <1>5, <2>2 DEF IInv, TypeOK
    <3>. QED
      BY <1>1, <1>4, <3>1
  <2>. QED
    BY <2>1, <2>2
<1>8. ASSUME NEW u \in Users, assignment'[u] # None
      PROVE  assignment'[u] \in stored' \cap index' /\ Played(assignment'[u], u)
  <2>1. CASE assignment'[u] = assignment[u]
    BY <1>4, <1>8, <2>1 DEF NamedMatchIsStored, Played
  <2>2. CASE assignment'[u] # assignment[u]
    <3>1. assignment'[u] = m.id /\ Head(s) \in {"assignA", "assignB"}
          /\ Played(m.id, u)
      BY <1>2, <1>3, <1>6, <2>2 DEF IInv, TypeOK
    <3>. QED
      BY <1>1, <1>4, <3>1
  <2>. QED
    BY <2>1, <2>2
<1>. QED
  BY <1>4, <1>7, <1>8 DEF NamedMatchIsStored, Played

\* Every other step leaves the keys, or forgets one.
LEMMA StepNamed ==
    ASSUME IInv, AllSave, NamedMatchIsStored, [Next]_vars
    PROVE  NamedMatchIsStored'
<1>1. ASSUME NEW c \in Calls, ClientCall(c) \/ ClientStep(c) PROVE NamedMatchIsStored'
  <2>1. CASE PollDelete(c)
    <3>1. c[1] \in Users /\ UNCHANGED <<stored, index, active, made>>
          /\ assignment' = [assignment EXCEPT ![c[1]] = None]
      BY <2>1 DEF PollDelete, Calls
    <3>2. \A u \in Users : assignment'[u] \in {assignment[u], None}
      BY <3>1 DEF IInv, TypeOK
    <3>. QED
      BY <3>1, <3>2, KeysStay
  <2>2. CASE ~PollDelete(c)
    <3>1. UNCHANGED <<redisMatch, made>>
      BY <1>1, <2>2 DEF ClientCall, ClientStep, Join, CancelQueue, CancelQueueIfStale,
                        PollGet, Enqueue
    <3>. QED
      BY <3>1, KeysStay DEF redisMatch
  <2>. QED
    BY <2>1, <2>2
<1>2. ASSUME NEW p \in Calls \cup Workers, RemovalStep(p) PROVE NamedMatchIsStored'
  <2>1. UNCHANGED <<redisMatch, made>>
    BY <1>2 DEF RemovalStep, ReadForRemoval, RemoveMember, DeletePlayer
  <2>. QED
    BY <2>1, KeysStay DEF redisMatch
<1>3. CASE Tick \/ Crash \/ UNCHANGED vars
  BY <1>3, TickCrashType, KeysStay DEF redisMatch
<1>4. ASSUME NEW w \in Workers, StartTick(w) \/ TickStep(w), ~SaveMatch(w)
      PROVE  NamedMatchIsStored'
  <2>1. UNCHANGED redisMatch
    BY <1>4 DEF TickStep, StartTick, ScanQueue, ReadPlayer, Visit, EndTick, ClaimPair,
                GiveUp, AssignBot
  <2>2. made \subseteq made'
    BY <1>4 DEF TickStep, StartTick, ScanQueue, ReadPlayer, Visit, EndTick, ClaimPair,
                GiveUp, AssignBot, MakeMatch
  <2>. QED
    BY <2>1, <2>2, KeysStay DEF redisMatch
<1>5. ASSUME NEW w \in Workers, SaveMatch(w) PROVE NamedMatchIsStored'
  BY <1>5, KeysWritten
<1>. QED
  BY <1>1, <1>2, <1>3, <1>4, <1>5 DEF Next

\* Wherever a crash or another tick falls between the writes of a match, a key
\* that leads a user to a match leads to one of the user's that is stored
\* (persistInitialMatch, storePendingAssignment).
THEOREM NamedMatchesAreStored == Spec => []NamedMatchIsStored
<1>1. Init => NamedMatchIsStored
  BY DEF Init, NamedMatchIsStored
<1>2. (IInv /\ AllSave) /\ NamedMatchIsStored /\ [Next]_vars => NamedMatchIsStored'
  BY StepNamed
<1>. QED
  BY <1>1, <1>2, TypeCorrect, PTL DEF Spec

-----------------------------------------------------------------------------
(***************************************************************************)
(* The queue implements the contract of the pairs.  A join has one place   *)
(* at a time: it is about to be written, or it is the entry of its user,   *)
(* or it has been claimed; so a claim takes it at most once.               *)
(***************************************************************************)

Pairs == { Claimed(h) : h \in HumanMatches }
Paired == UNION Pairs
Waiting == { player[u].joinId : u \in { v \in Users : IsWaiting(v) } }

\* The entry of this call has not been written yet.
Fresh(c) == call[c].op = "join" /\ call[c].todo = EnqueuePlan

EntriesApart ==
    /\ \A u \in Users : player[u] # None =>
         player[u].user = u /\ player[u].joinId \in (1 .. joins) \ Paired
    /\ \A u, v \in Users : (player[u] # None /\ player[v] # None /\ u # v)
         => player[u].joinId # player[v].joinId

FreshApart ==
    /\ \A c \in Calls : call[c].op = "join" => call[c].entry.user = c[1]
    /\ \A c \in Calls : Fresh(c) =>
         /\ call[c].entry.joinId \in (1 .. joins) \ Paired
         /\ \A u \in Users : player[u] # None => player[u].joinId # call[c].entry.joinId
    /\ \A c, d \in Calls : (Fresh(c) /\ Fresh(d) /\ c # d)
         => call[c].entry.joinId # call[d].entry.joinId

JoinsApart == EntriesApart /\ FreshApart /\ Paired \subseteq 1 .. joins

------------------------------------------------------------------------------
(* Joins keep apart *)

\* Calls that are about to write an entry only go on or end.
CallsGoOn ==
    \A c \in Calls :
        /\ call'[c].op = "join" => call[c].op = "join" /\ call'[c].entry = call[c].entry
        /\ call'[c].op = "join" /\ call'[c].todo = EnqueuePlan => call[c].todo = EnqueuePlan

\* Entries that are only deleted, and calls that only go on, keep apart.
LEMMA ApartStays ==
    ASSUME JoinsApart, CallsGoOn, Pairs' = Pairs, UNCHANGED joins,
           \A u \in Users : player'[u] \in {player[u], None}
    PROVE  JoinsApart'
<1>1. Paired' = Paired
  BY DEF Paired
<1>2. EntriesApart'
  BY <1>1 DEF JoinsApart, EntriesApart
<1>3. \A c \in Calls : Fresh(c)' => Fresh(c) /\ call'[c].entry = call[c].entry
  BY DEF CallsGoOn, Fresh
<1>4. FreshApart'
  BY <1>1, <1>3 DEF JoinsApart, FreshApart, CallsGoOn
<1>. QED
  BY <1>1, <1>2, <1>4 DEF JoinsApart

\* A new join has a number of its own.
LEMMA JoinApart ==
    ASSUME IInv, JoinsApart, NEW c \in Calls, NEW ticket \in Tickets, Join(c, ticket)
    PROVE  JoinsApart'
<1>1. joins \in Nat /\ joins' = joins + 1 /\ UNCHANGED <<player, made>> /\ call[c] = NoCall
  BY TimesAssumption DEF Join, Free, redisQueue, IInv, TypeOK
<1>2. Paired' = Paired
  BY <1>1 DEF Paired, Pairs, HumanMatches, Claimed
<1>3. /\ call'[c].op = "join" /\ call'[c].entry.user = c[1]
      /\ call'[c].entry.joinId = joins + 1
      /\ \A d \in Calls \ {c} : call'[d] = call[d]
  BY DEF Join, IInv, TypeOK
<1>4. EntriesApart'
  BY <1>1, <1>2 DEF JoinsApart, EntriesApart
<1>5. \A d \in Calls : Fresh(d)' => d = c \/ (Fresh(d) /\ call'[d] = call[d])
  BY <1>3 DEF Fresh
<1>6. \A u \in Users : player[u] # None => player[u].joinId \in 1 .. joins
  BY DEF JoinsApart, EntriesApart
<1>7. \A d \in Calls : Fresh(d) => call[d].entry.joinId \in 1 .. joins
  BY DEF JoinsApart, FreshApart
<1>8. joins + 1 \notin 1 .. joins /\ joins + 1 \in 1 .. joins' /\ 1 .. joins \subseteq 1 .. joins'
      /\ joins + 1 \notin Paired
  BY <1>1 DEF JoinsApart
<1>9. FreshApart'
  <2>1. \A d \in Calls : call'[d].op = "join" => call'[d].entry.user = d[1]
    BY <1>3 DEF JoinsApart, FreshApart
  <2>2. ASSUME NEW d \in Calls, Fresh(d)'
        PROVE  /\ call'[d].entry.joinId \in (1 .. joins') \ Paired'
               /\ \A u \in Users : player'[u] # None
                    => player'[u].joinId # call'[d].entry.joinId
    <3>1. CASE d = c
      BY <1>1, <1>2, <1>3, <1>6, <1>8, <3>1
    <3>2. CASE d # c
      BY <1>1, <1>2, <1>5, <1>8, <2>2, <3>2 DEF JoinsApart, FreshApart
    <3>. QED
      BY <3>1, <3>2
  <2>3. ASSUME NEW d \in Calls, NEW e \in Calls, Fresh(d)', Fresh(e)', d # e
        PROVE  call'[d].entry.joinId # call'[e].entry.joinId
    <3>1. CASE d # c /\ e # c
      BY <1>5, <2>3, <3>1 DEF JoinsApart, FreshApart
    <3>2. CASE d = c \/ e = c
      BY <1>3, <1>5, <1>7, <1>8, <2>3, <3>2
    <3>. QED
      BY <3>1, <3>2
  <2>. QED
    BY <2>1, <2>2, <2>3 DEF FreshApart
<1>. QED
  BY <1>2, <1>4, <1>8, <1>9 DEF JoinsApart

\* The entry of a call takes its place, once.
LEMMA EnqueueApart ==
    ASSUME IInv, JoinsApart, NEW c \in Calls, Enqueue(c)
    PROVE  JoinsApart'
<1>. DEFINE e == call[c].entry
<1>1. UNCHANGED <<joins, made>> /\ call[c].op = "join"
  BY DEF Enqueue
<1>2. Paired' = Paired /\ Pairs' = Pairs
  BY <1>1 DEF Paired, Pairs, HumanMatches, Claimed
<1>3. /\ call'[c] = NoCall \/ (call'[c].op = "join" /\ call'[c].entry = e
                               /\ call'[c].todo # EnqueuePlan)
      /\ \A d \in Calls \ {c} : call'[d] = call[d]
      /\ e.user = c[1] /\ e.user \in Users
  <2>1. e.user = c[1] /\ c[1] \in Users
    BY <1>1 DEF JoinsApart, FreshApart, Calls
  <2>. QED
    BY <2>1, EnqueueType
<1>4. CallsGoOn
  BY <1>1, <1>3 DEF CallsGoOn, NoCall
<1>5. CASE Head(call[c].todo) # "hash"
  <2>1. UNCHANGED player
    BY <1>5 DEF Enqueue
  <2>. QED
    BY <1>1, <1>2, <1>4, <2>1, ApartStays
<1>6. CASE Head(call[c].todo) = "hash"
  <2>1. player' = [player EXCEPT ![e.user] = e]
    BY <1>6 DEF Enqueue
  <2>2. Fresh(c)
    <3>1. call[c].todo \in Enqueuing
      BY EnqueueType
    <3>2. Head(<<"queue", "boards">>) # "hash" /\ Head(<<"boards">>) # "hash"
      OBVIOUS
    <3>. QED
      BY <1>1, <1>6, <3>1, <3>2 DEF Fresh, Enqueuing, EnqueuePlan
  <2>3. /\ \A u \in Users : player'[u] = IF u = e.user THEN e ELSE player[u]
        /\ e.joinId \in (1 .. joins) \ Paired
        /\ \A u \in Users : player[u] # None => player[u].joinId # e.joinId
    BY <2>1, <2>2 DEF IInv, TypeOK, JoinsApart, FreshApart
  <2>4. EntriesApart'
    BY <1>1, <1>2, <2>3 DEF JoinsApart, EntriesApart
  <2>5. \A d \in Calls : Fresh(d)' => d # c /\ Fresh(d) /\ call'[d] = call[d]
    BY <1>3 DEF Fresh, NoCall
  <2>6. \A d \in Calls : Fresh(d)' => call[d].entry.joinId # e.joinId
    BY <2>2, <2>5 DEF JoinsApart, FreshApart
  <2>7. FreshApart'
    BY <1>1, <1>2, <1>4, <2>3, <2>5, <2>6 DEF JoinsApart, FreshApart, CallsGoOn
  <2>. QED
    BY <1>1, <1>2, <2>4, <2>7 DEF JoinsApart
<1>. QED
  BY <1>5, <1>6

\* What a decided match adds to the pairs.
LEMMA PairsGrow ==
    ASSUME NEW w, NEW m, NEW S, Decides(w, m, S)
    PROVE  Pairs' = IF m.b = None THEN Pairs ELSE Pairs \cup {{ e.joinId : e \in S }}
<1>. DEFINE h == [match |-> m, claimed |-> S]
<1>1. made' = made \cup {h}
  BY DEF Decides
<1>2. HumanMatches' = IF m.b = None THEN HumanMatches ELSE HumanMatches \cup {h}
  BY <1>1 DEF HumanMatches
<1>3. Claimed(h) = { e.joinId : e \in S } /\ \A x : Claimed(x)' = Claimed(x)
  BY DEF Claimed
<1>. HIDE DEF h
<1>. QED
  BY <1>2, <1>3 DEF Pairs

\* A step that makes no match.
LEMMA PairsSame == ASSUME UNCHANGED made PROVE Pairs' = Pairs
BY DEF Pairs, HumanMatches, Claimed

\* The claim takes two joins: they are no longer entries, nor are they fresh.
LEMMA ClaimApart ==
    ASSUME IInv, JoinsApart, NEW w, NEW b, NEW u, NEW v, Takes(w, b, u, v),
           joins' = joins, call' = call
    PROVE  /\ JoinsApart' /\ player[u] # None /\ player[v] # None
           /\ Pairs' = Pairs \cup {{player[u].joinId, player[v].joinId}}
<1>1. /\ u \in Users /\ v \in Users /\ u # v /\ player[u] # None /\ player[v] # None
      /\ player' = [player EXCEPT ![u] = None, ![v] = None]
  BY DEF Takes, Claimable
<1>2. PICK m : m.b # None /\ Decides(w, m, {player[u], player[v]} \ {None})
  BY DEF Takes
<1>. DEFINE S == {player[u], player[v]} \ {None}
<1>3. { e.joinId : e \in S } = {player[u].joinId, player[v].joinId}
  BY <1>1
<1>. HIDE DEF S
<1>4. Pairs' = Pairs \cup {{player[u].joinId, player[v].joinId}}
  BY <1>2, <1>3, PairsGrow DEF S
<1>5. Paired' = Paired \cup {player[u].joinId, player[v].joinId}
  BY <1>4 DEF Paired
<1>6. \A x \in Users : player'[x] = IF x \in {u, v} THEN None ELSE player[x]
  BY <1>1 DEF IInv, TypeOK
<1>11. \A x \in Users : player'[x] # None =>
         /\ player[x] # None /\ player'[x] = player[x]
         /\ player[x].joinId \notin {player[u].joinId, player[v].joinId}
  <2>. TAKE x \in Users
  <2>. HAVE player'[x] # None
  <2>1. x # u /\ x # v /\ player'[x] = player[x] /\ player[x] # None
    BY <1>6
  <2>. QED
    BY <1>1, <2>1 DEF JoinsApart, EntriesApart
<1>7. EntriesApart'
  BY <1>5, <1>11 DEF JoinsApart, EntriesApart
<1>8. \A c \in Calls : Fresh(c)' => /\ Fresh(c)
                                   /\ call[c].entry.joinId
                                        \notin {player[u].joinId, player[v].joinId}
  BY <1>1 DEF Fresh, JoinsApart, FreshApart
<1>9. FreshApart'
  <2>1. ASSUME NEW c \in Calls, Fresh(c)'
        PROVE  /\ call'[c].entry.joinId \in (1 .. joins') \ Paired'
               /\ \A x \in Users : player'[x] # None
                    => player'[x].joinId # call'[c].entry.joinId
    <3>1. Fresh(c) /\ call'[c] = call[c] /\ joins' = joins
      BY <1>8, <2>1
    <3>. QED
      BY <1>5, <1>8, <1>11, <2>1, <3>1 DEF JoinsApart, FreshApart
  <2>2. ASSUME NEW c \in Calls, NEW d \in Calls, Fresh(c)', Fresh(d)', c # d
        PROVE  call'[c].entry.joinId # call'[d].entry.joinId
    <3>1. Fresh(c) /\ Fresh(d) /\ call'[c] = call[c] /\ call'[d] = call[d]
      BY <1>8, <2>2
    <3>. QED
      BY <2>2, <3>1 DEF JoinsApart, FreshApart
  <2>3. \A c \in Calls : call'[c].op = "join" => call'[c].entry.user = c[1]
    BY DEF JoinsApart, FreshApart
  <2>. QED
    BY <2>1, <2>2, <2>3 DEF FreshApart
<1>10. Paired' \subseteq 1 .. joins'
  <2>1. player[u].joinId \in 1 .. joins /\ player[v].joinId \in 1 .. joins
    BY <1>1 DEF JoinsApart, EntriesApart
  <2>. QED
    BY <1>5, <2>1 DEF JoinsApart
<1>. QED
  BY <1>1, <1>4, <1>7, <1>9, <1>10 DEF JoinsApart

------------------------------------------------------------------------------
(* Steps of the contract *)

\* The contract's next step, or none.
PairingStep == [Contract!PairingNext]_(Contract!pairingVars)

\* The contract does not move.
LEMMA Stutter == ASSUME Waiting' = Waiting, Pairs' = Pairs PROVE PairingStep
BY DEF PairingStep, Contract!pairingVars, Waiting, Pairs

\* Where nothing is queued or paired, nothing happens.
LEMMA QueueSame == ASSUME UNCHANGED <<queue, player>> PROVE Waiting' = Waiting
BY DEF Waiting, IsWaiting

\* A join waits for one user only.
LEMMA WaitingOnce ==
    ASSUME JoinsApart, NEW u \in Users, IsWaiting(u)
    PROVE  \A v \in Users : IsWaiting(v) /\ player[v].joinId = player[u].joinId => v = u
BY DEF JoinsApart, EntriesApart, IsWaiting

\* One user's place in the queue changes.
LEMMA OneUser ==
    ASSUME IInv, JoinsApart, JoinsApart', NEW u \in Users, Pairs' = Pairs, UNCHANGED joins,
           \A v \in Users \ {u} : ((IsWaiting(v))' <=> IsWaiting(v)) /\ player'[v] = player[v]
    PROVE  PairingStep
<1>0. PICK j, k : j = player[u].joinId /\ k = player'[u].joinId
  OBVIOUS
<1>. DEFINE others == { player[v].joinId : v \in { x \in Users \ {u} : IsWaiting(x) } }
<1>1. joins \in Nat /\ 1 .. joins \subseteq 1 .. MaxJoins
  BY TimesAssumption DEF IInv, TypeOK
<1>2. Paired' = Paired
  BY DEF Paired
<1>3. Waiting = IF IsWaiting(u) THEN others \cup {j} ELSE others
  BY <1>0 DEF Waiting
<1>4. Waiting' = IF (IsWaiting(u))' THEN others \cup {k} ELSE others
  BY <1>0 DEF Waiting
<1>5. IsWaiting(u) => j \in (1 .. MaxJoins) \ Paired /\ j \notin others
  BY <1>0, <1>1, WaitingOnce DEF JoinsApart, EntriesApart, IsWaiting
<1>6. (IsWaiting(u))' => k \in (1 .. MaxJoins) \ Paired
  BY <1>0, <1>1, <1>2 DEF JoinsApart, EntriesApart, IsWaiting
<1>. HIDE DEF others
<1>7. CASE ~IsWaiting(u) /\ ~(IsWaiting(u))'
  BY <1>3, <1>4, <1>7, Stutter
<1>8. CASE ~IsWaiting(u) /\ (IsWaiting(u))'
  <2>1. Waiting' = Waiting \cup {k} /\ k \in (1 .. MaxJoins) \ Paired
    BY <1>3, <1>4, <1>6, <1>8
  <2>2. Contract!Enter(k)
    BY <2>1 DEF Contract!Enter, Contract!Unpaired, Waiting, Paired, Pairs
  <2>. QED
    BY <2>1, <2>2 DEF PairingStep, Contract!PairingNext
<1>9. CASE IsWaiting(u) /\ ~(IsWaiting(u))'
  <2>1. Waiting' = Waiting \ {j} /\ j \in Waiting /\ j \in 1 .. MaxJoins
    BY <1>3, <1>4, <1>5, <1>9
  <2>2. Contract!Leave(j)
    BY <2>1 DEF Contract!Leave, Waiting, Pairs
  <2>. QED
    BY <2>1, <2>2 DEF PairingStep, Contract!PairingNext
<1>10. CASE IsWaiting(u) /\ (IsWaiting(u))'
  <2>1. Waiting' = (Waiting \ {j}) \cup {k} /\ j \in Waiting /\ j \in 1 .. MaxJoins
        /\ k \in (1 .. MaxJoins) \ Paired
    BY <1>3, <1>4, <1>5, <1>6, <1>10
  <2>2. Contract!Replace(j, k)
    BY <2>1 DEF Contract!Replace, Contract!Unpaired, Waiting, Paired, Pairs
  <2>. QED
    BY <2>1, <2>2 DEF PairingStep, Contract!PairingNext
<1>. QED
  BY <1>7, <1>8, <1>9, <1>10

\* The claim pairs two joins that wait.
LEMMA ClaimPairs ==
    ASSUME IInv, JoinsApart, NEW w, NEW b, NEW u, NEW v, Takes(w, b, u, v),
           joins' = joins, call' = call
    PROVE  PairingStep
<1>0. PICK j, k : j = player[u].joinId /\ k = player[v].joinId
  OBVIOUS
<1>1. /\ u \in Users /\ v \in Users /\ u # v /\ b \in Boards
      /\ player[u] # None /\ player[v] # None /\ u \in queue[b] /\ v \in queue[b]
      /\ player' = [player EXCEPT ![u] = None, ![v] = None]
      /\ queue' = [queue EXCEPT ![b] = @ \ {u, v}]
  BY DEF Takes, Claimable
<1>2. Pairs' = Pairs \cup {{j, k}}
  BY <1>0, ClaimApart
<1>3. IsWaiting(u) /\ IsWaiting(v)
  BY <1>1 DEF IsWaiting
<1>4. \A x \in Users : player'[x] = IF x \in {u, v} THEN None ELSE player[x]
  BY <1>1 DEF IInv, TypeOK
<1>5. \A d \in Boards : queue'[d] = IF d = b THEN queue[d] \ {u, v} ELSE queue[d]
  BY <1>1 DEF IInv, TypeOK
<1>6. \A x \in Users : (IsWaiting(x))' <=> (IsWaiting(x) /\ x \notin {u, v})
  BY <1>4, <1>5 DEF IsWaiting
<1>7. j \in Waiting /\ k \in Waiting /\ j # k
  BY <1>0, <1>1, <1>3, WaitingOnce DEF Waiting
<1>8. Waiting' = Waiting \ {j, k}
  <2>1. \A x \in Users : IsWaiting(x) /\ x \notin {u, v} => player[x].joinId \notin {j, k}
    BY <1>0, <1>1, <1>3, WaitingOnce
  <2>2. \A n : n \in Waiting' <=>
          \E x \in Users : IsWaiting(x) /\ x \notin {u, v} /\ n = player[x].joinId
    BY <1>4, <1>6 DEF Waiting
  <2>3. \A n : n \in Waiting <=> \E x \in Users : IsWaiting(x) /\ n = player[x].joinId
    BY DEF Waiting
  <2>4. \A n : n \in Waiting' <=> n \in Waiting \ {j, k}
    BY <1>0, <2>1, <2>2, <2>3
  <2>. QED
    BY <2>4
<1>9. {j, k} \subseteq 1 .. MaxJoins
  <2>1. joins \in Nat /\ 1 .. joins \subseteq 1 .. MaxJoins
    BY TimesAssumption DEF IInv, TypeOK
  <2>. QED
    BY <1>0, <1>1, <2>1 DEF JoinsApart, EntriesApart
<1>10. Contract!Pair(j, k)
  BY <1>2, <1>7, <1>8 DEF Contract!Pair, Waiting, Pairs
<1>. QED
  BY <1>9, <1>10 DEF PairingStep, Contract!PairingNext
------------------------------------------------------------------------------
(* The refinement *)

\* Steps that neither queue nor pair anybody.
LEMMA NothingQueued ==
    ASSUME JoinsApart, CallsGoOn, UNCHANGED <<queue, player, made, joins>>
    PROVE  JoinsApart' /\ PairingStep
<1>1. Pairs' = Pairs /\ Waiting' = Waiting
  BY PairsSame, QueueSame
<1>2. JoinsApart'
  BY <1>1, ApartStays
<1>. QED
  BY <1>1, <1>2, Stutter

\* A client's call, or the steps of it.
LEMMA ClientPairing ==
    ASSUME IInv, JoinsApart, NEW c \in Calls, ClientCall(c) \/ ClientStep(c)
    PROVE  JoinsApart' /\ PairingStep
<1>1. ASSUME NEW ticket \in Tickets, Join(c, ticket) PROVE JoinsApart' /\ PairingStep
  <2>1. Pairs' = Pairs /\ Waiting' = Waiting
    BY <1>1, PairsSame, QueueSame DEF Join, redisQueue
  <2>. QED
    BY <1>1, <2>1, JoinApart, Stutter
<1>2. CASE Enqueue(c)
  <2>1. PICK e : e = call[c].entry
    OBVIOUS
  <2>2. e.user \in Users /\ e.board \in Boards
    BY <1>2, <2>1, EnqueueType DEF Entry
  <2>3. /\ player' = [player EXCEPT ![e.user] = e] \/ player' = player
        /\ queue' = [queue EXCEPT ![e.board] = @ \cup {e.user}] \/ queue' = queue
        /\ UNCHANGED <<made, joins>>
    BY <1>2, <2>1 DEF Enqueue
  <2>4. \A v \in Users \ {e.user} :
          player'[v] = player[v] /\ \A b \in Boards : v \in queue'[b] <=> v \in queue[b]
    BY <2>2, <2>3 DEF IInv, TypeOK
  <2>5. \A v \in Users \ {e.user} : ((IsWaiting(v))' <=> IsWaiting(v)) /\ player'[v] = player[v]
    BY <2>4 DEF IsWaiting
  <2>6. JoinsApart' /\ Pairs' = Pairs
    BY <1>2, <2>3, EnqueueApart, PairsSame
  <2>. QED
    BY <2>2, <2>3, <2>5, <2>6, OneUser
<1>3. CASE CancelQueue(c) \/ CancelQueueIfStale(c)
  <2>1. CallsGoOn /\ UNCHANGED <<queue, player, made, joins>>
    BY <1>3 DEF CancelQueueIfStale, CancelQueue, CallsGoOn, clients, redisQueue
  <2>. QED
    BY <2>1, NothingQueued
<1>4. CASE PollGet(c) \/ PollDelete(c)
  <2>1. call'[c].op # "join" /\ \A d \in Calls \ {c} : call'[d] = call[d]
    BY <1>4 DEF PollGet, PollDelete, NoCall, IInv, TypeOK
  <2>2. CallsGoOn /\ UNCHANGED <<queue, player, made, joins>>
    BY <1>4, <2>1 DEF PollGet, PollDelete, CallsGoOn, redisQueue
  <2>. QED
    BY <2>2, NothingQueued
<1>. QED
  BY <1>1, <1>2, <1>3, <1>4 DEF ClientCall, ClientStep

\* A removal concerns one user.
LEMMA RemovalPairing ==
    ASSUME IInv, JoinsApart, NEW p \in Calls \cup Workers, RemovalStep(p)
    PROVE  JoinsApart' /\ PairingStep
<1>1. CallsGoOn /\ UNCHANGED <<made, joins>>
  BY DEF RemovalStep, ReadForRemoval, RemoveMember, DeletePlayer, CallsGoOn, clients
<1>2. CASE ReadForRemoval(p)
  BY <1>1, <1>2, NothingQueued DEF ReadForRemoval, redisQueue
<1>3. CASE RemoveMember(p) \/ DeletePlayer(p)
  <2>1. PICK u, b : u = removal[p].user /\ b = removal[p].board
    OBVIOUS
  <2>2. u \in Users
    BY <2>1, RemovalStepType DEF Removal
  <2>3. \/ queue' = [queue EXCEPT ![b] = @ \ {u}] /\ player' = player
        \/ player' = [player EXCEPT ![u] = None] /\ queue' = queue
    BY <1>3, <2>1 DEF RemoveMember, DeletePlayer
  <2>4. /\ \A v \in Users : player'[v] \in {player[v], None}
        /\ \A v \in Users \ {u} : player'[v] = player[v]
                                  /\ \A d \in Boards : v \in queue'[d] <=> v \in queue[d]
    BY <2>2, <2>3 DEF IInv, TypeOK
  <2>5. JoinsApart' /\ Pairs' = Pairs
    BY <1>1, <2>4, PairsSame, ApartStays
  <2>6. \A v \in Users \ {u} : ((IsWaiting(v))' <=> IsWaiting(v)) /\ player'[v] = player[v]
    BY <2>4 DEF IsWaiting
  <2>. QED
    BY <1>1, <2>2, <2>5, <2>6, OneUser
<1>. QED
  BY <1>2, <1>3 DEF RemovalStep

\* A tick pairs two joins, or no one.
LEMMA TickPairing ==
    ASSUME IInv, JoinsApart, NEW w \in Workers, StartTick(w) \/ TickStep(w)
    PROVE  JoinsApart' /\ PairingStep
<1>1. UNCHANGED <<call, joins>>
  BY DEF TickStep, StartTick, ScanQueue, ReadPlayer, Visit, EndTick, ClaimPair, GiveUp,
         AssignBot, SaveMatch, clients
<1>2. CallsGoOn
  BY <1>1 DEF CallsGoOn
<1>3. CASE ClaimPair(w)
  <2>1. ASSUME NEW b, NEW u, NEW v, Takes(w, b, u, v) PROVE JoinsApart' /\ PairingStep
    BY <1>1, <2>1, ClaimApart, ClaimPairs
  <2>2. CASE UNCHANGED <<queue, player, made>>
    BY <1>1, <1>2, <2>2, NothingQueued
  <2>. QED
    BY <1>3, <2>1, <2>2, ClaimPairType
<1>4. CASE AssignBot(w)
  <2>1. Pairs' = Pairs
    BY <1>4, AssignBotType, PairsGrow
  <2>2. UNCHANGED <<queue, player>>
    BY <1>4 DEF AssignBot, redisQueue
  <2>3. JoinsApart'
    BY <1>1, <1>2, <2>1, <2>2, ApartStays
  <2>. QED
    BY <2>1, <2>2, <2>3, QueueSame, Stutter
<1>5. CASE ~ClaimPair(w) /\ ~AssignBot(w)
  <2>1. UNCHANGED <<queue, player, made>>
    BY <1>5 DEF TickStep, StartTick, ScanQueue, ReadPlayer, Visit, EndTick, GiveUp,
                SaveMatch, redisQueue
  <2>. QED
    BY <1>1, <1>2, <2>1, NothingQueued
<1>. QED
  BY <1>3, <1>4, <1>5

\* Every step is one of the contract, or none.
LEMMA StepPairing ==
    ASSUME IInv, JoinsApart, [Next]_vars
    PROVE  JoinsApart' /\ PairingStep
<1>1. CASE Tick \/ Crash \/ UNCHANGED vars
  <2>1. UNCHANGED <<queue, player, made, joins>>
        /\ (call' = call \/ \A c \in Calls : call'[c] = NoCall)
    BY <1>1, TickCrashType DEF redisQueue
  <2>2. CallsGoOn
    BY <2>1 DEF CallsGoOn, NoCall
  <2>. QED
    BY <2>1, <2>2, NothingQueued
<1>. QED
  BY <1>1, ClientPairing, RemovalPairing, TickPairing DEF Next

\* At first nobody waits and nobody is paired.
LEMMA InitPairing == Init => JoinsApart /\ Contract!PairingInit
<1>. SUFFICES ASSUME Init PROVE JoinsApart /\ Contract!PairingInit
  OBVIOUS
<1>1. /\ \A u \in Users : player[u] = None
      /\ \A c \in Calls : call[c] = NoCall
      /\ made = {} /\ joins = 0
  BY DEF Init
<1>2. Pairs = {} /\ Paired = {}
  BY <1>1 DEF Pairs, Paired, HumanMatches
<1>3. Waiting = {}
  BY <1>1 DEF Waiting, IsWaiting
<1>4. JoinsApart
  BY <1>1, <1>2 DEF JoinsApart, EntriesApart, FreshApart, Fresh, NoCall
<1>. QED
  BY <1>2, <1>3, <1>4 DEF Contract!PairingInit, Pairs, Waiting

\* The queue implements the contract: whatever calls, overlapping ticks and
\* crashes come between the commands, the Lua claim pairs two joins that wait
\* at that moment, and no join is ever paired twice.
THEOREM QueueImplementsPairing == Spec => ImplementsPairing
<1>1. IInv /\ JoinsApart /\ [Next]_vars => JoinsApart' /\ PairingStep
  BY StepPairing
<1>2. Spec => []JoinsApart
  BY <1>1, InitPairing, TypeCorrect, PTL DEF Spec
<1>. QED
  BY <1>1, <1>2, InitPairing, TypeCorrect, PTL
     DEF Spec, ImplementsPairing, Contract!PairingSpec, PairingStep
=============================================================================
