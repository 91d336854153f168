---------------------------- MODULE OnlineSession ----------------------------
(***************************************************************************)
(* One live match as gameservice's OnlineSessionService runs it.           *)
(*                                                                         *)
(* The session snapshot lives in Redis.  Every command on it but one runs  *)
(* inside withMatchLock, a promise chain per match: it reads the snapshot, *)
(* computes the next one, stores it, maintains the index the sweeper reads *)
(* and, when the match has ended, records the result of both players.      *)
(* Those are separate awaits, so here they are separate steps of a         *)
(* "writer".  The exception is addChatMessage: it takes no lock, and waits *)
(* for the chat filter between its read and its write.                     *)
(*                                                                         *)
(* Arguments of a call are chosen when it gets the lock: the promise chain *)
(* holds nothing that the order of arrival does not already determine.     *)
(***************************************************************************)
EXTENDS Naturals, Sequences, FiniteSets

CONSTANTS
    Users,              \* authenticated users, players or not
    PlayerB, PlayerR,   \* the two players, in the order of their seats
    Cells,              \* cells of the board
    HoneyCells,         \* cells blocked by the honey rule
    Connecting,         \* the sets of cells whose stones join the three sides
    PieEnabled,         \* rules.pieRule.enabled
    TurnTimeout, ReconnectGrace,
    MessageLimit,       \* messages kept in a session (100 in the code)
    LockHolder,         \* the writer that owns the match lock
    None,               \* null
    \* bounds of the model
    MaxNow,             \* the clock stops here
    MaxVersion,         \* connection changes are not started beyond it
    MaxChats, MaxCrashes,
    CallDelay           \* a queued call may carry a "now" this much older

Players == {PlayerB, PlayerR}
Writers == Players \cup {LockHolder}
Symbols == {"B", "R"}
SweepKinds == {"unindex", "expire", "timeout"}

ASSUME PlayersAssumption ==
    /\ Players \subseteq Users
    /\ PlayerB # PlayerR
    /\ LockHolder \notin Users
    /\ None \notin Users \cup Nat \cup Symbols \cup SweepKinds

ASSUME BoardAssumption ==
    /\ IsFiniteSet(Cells)
    /\ HoneyCells \subseteq Cells
    /\ Connecting \subseteq SUBSET Cells
    /\ {} \notin Connecting
    /\ PieEnabled \in BOOLEAN

ASSUME NumbersAssumption ==
    /\ TurnTimeout \in Nat \ {0}
    /\ ReconnectGrace \in Nat \ {0}
    /\ MessageLimit \in Nat \ {0}
    /\ MaxNow \in Nat /\ MaxVersion \in Nat
    /\ MaxChats \in Nat /\ MaxCrashes \in Nat /\ CallDelay \in Nat

VARIABLES
    creation,    \* createSession: the snapshot stored, its save done, or cut short
    now,         \* Date.now()
    session,     \* the snapshot stored under session:online:<matchId>
    indexed,     \* the match is in the sorted set session:online:index
    writer,      \* what each writer is in the middle of
    recording,   \* players whose result persistOnlineResult still writes
    persisted,   \* the match is in persistedSessions (process memory)
    results,     \* the outcomes written for each player
    sweepCall,   \* the call the maintenance sweep has decided to make
    chatsSent, crashes

ledger == <<recording, persisted, results>>
bounds == <<chatsSent, crashes>>

vars == <<creation, now, session, indexed, writer, ledger, sweepCall, bounds>>

------------------------------------------------------------------------------
(* Session snapshots *)

LiveStatus == {"active", "waiting_reconnect"}
TerminalStatus == {"finished", "abandoned", "expired"}

Session ==
    [layout : [Cells -> {"B", "R", "."}],
     turn : {0, 1},
     version : Nat,
     timerEndsAt : Nat,
     status : LiveStatus \cup TerminalStatus,
     connection : [Players -> {"CONNECTED", "DISCONNECTED"}],
     reconnectDeadline : [Players -> Nat \cup {None}],
     winner : Symbols \cup {None},
     messages : Seq(Players)]

IsTerminal(s) == s.status \in TerminalStatus

SymbolOf(u) == IF u = PlayerB THEN "B" ELSE "R"
Opponent(u) == IF u = PlayerB THEN PlayerR ELSE PlayerB
CurrentPlayer(s) == IF s.turn = 0 THEN PlayerB ELSE PlayerR

CellsOf(layout, sym) == { c \in Cells : layout[c] = sym }
Wins(layout, sym) == CellsOf(layout, sym) \in Connecting

ResolveWinner(layout) ==
    IF Wins(layout, "B") THEN "B" ELSE IF Wins(layout, "R") THEN "R" ELSE None

NewSession ==
    [layout |-> [c \in Cells |-> "."], turn |-> 0, version |-> 0,
     timerEndsAt |-> TurnTimeout, status |-> "active",
     connection |-> [p \in Players |-> "CONNECTED"],
     reconnectDeadline |-> [p \in Players |-> None],
     winner |-> None, messages |-> <<>>]

IsMoveValid(s, c) == c \notin HoneyCells /\ s.layout[c] = "."

IsPieSwapLegal(s) ==
    /\ PieEnabled
    /\ s.turn = 1
    /\ Cardinality(CellsOf(s.layout, "B") \cup CellsOf(s.layout, "R")) = 1

\* Defect: the seats are counted instead of alternated.
NextTurn_Counts(s, winner) == s.turn + 1

NextTurn(s, winner) == IF winner = None THEN 1 - s.turn ELSE s.turn

AfterMove(s, c) ==
    LET layout == [s.layout EXCEPT ![c] = SymbolOf(CurrentPlayer(s))]
        winner == ResolveWinner(layout)
    IN  [s EXCEPT
            !.layout = layout,
            !.turn = NextTurn(s, winner),
            !.version = s.version + 1,
            !.timerEndsAt = IF winner = None THEN now + TurnTimeout ELSE s.timerEndsAt,
            !.winner = winner,
            !.status = IF winner = None THEN "active" ELSE "finished"]

Swapped(stone) == CASE stone = "B" -> "R" [] stone = "R" -> "B" [] OTHER -> stone

AfterPieSwap(s) ==
    [s EXCEPT !.layout = [c \in Cells |-> Swapped(s.layout[c])],
              !.turn = 0,
              !.version = s.version + 1,
              !.timerEndsAt = now + TurnTimeout]

AfterDisconnect(s, u, at) ==
    [s EXCEPT !.connection[u] = "DISCONNECTED",
              !.reconnectDeadline[u] = at + ReconnectGrace,
              !.status = "waiting_reconnect",
              !.version = s.version + 1]

\* Defect: the deadline of a player who came back stays.
AfterReconnect_DeadlineStays(s, u) ==
    [s EXCEPT !.connection[u] = "CONNECTED", !.status = "active", !.version = s.version + 1]

AfterReconnect(s, u) ==
    [s EXCEPT !.connection[u] = "CONNECTED",
              !.reconnectDeadline[u] = None,
              !.status = "active",
              !.version = s.version + 1]

AfterExpiry(s, u) ==
    [s EXCEPT !.connection[u] = "DISCONNECTED",
              !.winner = SymbolOf(Opponent(u)),
              !.status = "expired",
              !.version = s.version + 1]

\* Defect: the version stays.
AfterAbandon_SameVersion(s, u) ==
    [s EXCEPT !.winner = SymbolOf(Opponent(u)), !.status = "abandoned"]

AfterAbandon(s, u) ==
    [s EXCEPT !.winner = SymbolOf(Opponent(u)),
              !.status = "abandoned",
              !.version = s.version + 1]

AfterChat(s, u) ==
    LET longer == Append(s.messages, u)
    IN  [s EXCEPT !.messages =
            IF Len(longer) > MessageLimit THEN Tail(longer) ELSE longer]

\* A reconnect deadline that has passed at time t.
DeadlinePassed(s, u, t) ==
    s.reconnectDeadline[u] # None /\ s.reconnectDeadline[u] <= t

------------------------------------------------------------------------------
(* Writers: the lock holder and the unlocked chat calls *)

Kinds == {"move", "swap", "disconnect", "reconnect", "expire", "abandon",
          "turnTimeout", "sweepTimeout", "chat"}

Idle == [kind |-> None, user |-> None, pc |-> "idle", next |-> None]

Operation ==
    [kind : Kinds, user : Players, pc : {"filter", "set", "index", "persist", "record"},
     next : Session]

LockFree == writer[LockHolder].pc = "idle"

\* The command that got the lock has read the snapshot, passed its guards and
\* computed the next snapshot; nothing is stored yet.
Proceed(kind, u, next) ==
    /\ writer' = [writer EXCEPT ![LockHolder] =
                    [kind |-> kind, user |-> u, pc |-> "set", next |-> next]]
    /\ UNCHANGED <<creation, now, session, indexed, ledger, bounds>>

Command(kind, u, next) ==
    /\ LockFree
    /\ Proceed(kind, u, next)
    /\ UNCHANGED sweepCall

\* The times a call that is executed now may have been made at.
CallTimes == { t \in 0 .. now : now <= t + CallDelay }

------------------------------------------------------------------------------
(* Commands under the match lock *)

\* handleMove: terminal, version, turn and cell are checked in this order.
Move(u, c, expectedVersion) ==
    /\ ~IsTerminal(session)
    /\ expectedVersion = session.version
    /\ CurrentPlayer(session) = u
    /\ IsMoveValid(session, c)
    /\ Command("move", u, AfterMove(session, c))

\* handlePieSwap
PieSwap(u, expectedVersion) ==
    /\ ~IsTerminal(session)
    /\ expectedVersion = session.version
    /\ CurrentPlayer(session) = u
    /\ IsPieSwapLegal(session)
    /\ Command("swap", u, AfterPieSwap(session))

\* Defect: a participant may act on an ended session.
MayActOn_EvenIfTerminal(s, u) == u \in Players

\* The shared guards of markDisconnected, reconnect and abandon.
MayActOn(s, u) == u \in Players /\ ~IsTerminal(s)

\* markDisconnected: the deadline counts from the time the call was made.
MarkDisconnected(u, at) ==
    /\ session.version < MaxVersion
    /\ MayActOn(session, u)
    /\ Command("disconnect", u, AfterDisconnect(session, u, at))

\* reconnect: refused for ever once the caller's own deadline has passed.
Reconnect(u, at) ==
    /\ session.version < MaxVersion
    /\ MayActOn(session, u)
    /\ ~DeadlinePassed(session, u, at)
    /\ Command("reconnect", u, AfterReconnect(session, u))

\* abandon
Abandon(u) ==
    /\ MayActOn(session, u)
    /\ Command("abandon", u, AfterAbandon(session, u))

\* Defect: only the swap is drawn from.
TimeoutOutcomes_SwapOnly(s) == IF IsPieSwapLegal(s) THEN {AfterPieSwap(s)} ELSE {}

\* The actions pickRandomLegalTimeoutAction draws from, as their outcomes.
TimeoutOutcomes(s) ==
    { AfterMove(s, c) : c \in { d \in Cells : IsMoveValid(s, d) } }
        \cup (IF IsPieSwapLegal(s) THEN {AfterPieSwap(s)} ELSE {})

\* Defect: the version seen before the lock is not compared.
TurnTimeoutApplies_AnyVersion(u, expectedVersion) ==
    /\ session.winner = None
    /\ CurrentPlayer(session) = u

\* handleTurnTimeout: it does not look at the timer, only at the version.
TurnTimeoutApplies(u, expectedVersion) ==
    /\ session.winner = None
    /\ session.version = expectedVersion
    /\ CurrentPlayer(session) = u

\* The socket event turn:timeout; its unlocked check repeats these guards.
ClientTurnTimeout(u, expectedVersion) ==
    /\ TurnTimeoutApplies(u, expectedVersion)
    /\ \E next \in TimeoutOutcomes(session) : Command("turnTimeout", u, next)

------------------------------------------------------------------------------
(* The maintenance sweep: an unlocked look at the session, then a call *)

NoSweepCall == [kind |-> None, user |-> None, version |-> 0, at |-> 0]

SweepCall ==
    [kind : {"unindex"}, user : {None}, version : Nat, at : Nat] \cup
    [kind : {"expire", "timeout"}, user : Players, version : Nat, at : Nat]

SweepDecides(kind, u, version, at) ==
    /\ sweepCall' = [kind |-> kind, user |-> u, version |-> version, at |-> at]
    /\ UNCHANGED <<creation, now, session, indexed, writer, ledger, bounds>>

\* Defect: the first seat is taken for the expired one.
FirstExpired_FirstSeat(s) == PlayerB

\* players.find: the first seat whose deadline has passed.
FirstExpired(s) == IF DeadlinePassed(s, PlayerB, now) THEN PlayerB ELSE PlayerR

SweepRead ==
    /\ sweepCall = NoSweepCall
    /\ indexed
    /\ \/ /\ IsTerminal(session)
          /\ SweepDecides("unindex", None, 0, 0)
       \/ /\ session.status = "waiting_reconnect"
          /\ \E p \in Players : DeadlinePassed(session, p, now)
          /\ SweepDecides("expire", FirstExpired(session), 0, now)
       \/ /\ session.status = "active"
          /\ session.timerEndsAt <= now
          /\ SweepDecides("timeout", CurrentPlayer(session), session.version, 0)

\* removeFromRedisSessionIndex, on what the sweep saw.
SweepUnindex ==
    /\ sweepCall.kind = "unindex"
    /\ indexed' = FALSE
    /\ sweepCall' = NoSweepCall
    /\ UNCHANGED <<creation, now, session, writer, ledger, bounds>>

\* Defect: the forfeit trusts what the sweep saw before it had the lock.
ForfeitDue_Trusting(s, u, at) == ~IsTerminal(s)

\* expireGrace looks again under the lock, with the time of the sweep.
ForfeitDue(s, u, at) == ~IsTerminal(s) /\ DeadlinePassed(s, u, at)

SweepExpire ==
    /\ sweepCall.kind = "expire"
    /\ LockFree
    /\ sweepCall' = NoSweepCall
    /\ LET u == sweepCall.user
       IN  IF ForfeitDue(session, u, sweepCall.at)
           THEN Proceed("expire", u, AfterExpiry(session, u))
           ELSE UNCHANGED <<creation, now, session, indexed, writer, ledger, bounds>>

SweepTimeout ==
    /\ sweepCall.kind = "timeout"
    /\ LockFree
    /\ sweepCall' = NoSweepCall
    /\ IF TurnTimeoutApplies(sweepCall.user, sweepCall.version) /\ TimeoutOutcomes(session) # {}
       THEN \E next \in TimeoutOutcomes(session) :
              Proceed("sweepTimeout", sweepCall.user, next)
       ELSE UNCHANGED <<creation, now, session, indexed, writer, ledger, bounds>>

------------------------------------------------------------------------------
(* Chat: addChatMessage never takes the lock *)

ChatRead(u) ==
    /\ chatsSent < MaxChats
    /\ u \in Players
    /\ writer[u].pc = "idle"
    /\ writer' = [writer EXCEPT ![u] =
                    [kind |-> "chat", user |-> u, pc |-> "filter", next |-> AfterChat(session, u)]]
    /\ chatsSent' = chatsSent + 1
    /\ UNCHANGED <<creation, now, session, indexed, ledger, sweepCall, crashes>>

\* The filter accepts the message, or throws and the call ends.
ChatFilterReturns(u) ==
    /\ writer[u].pc = "filter"
    /\ \/ writer' = [writer EXCEPT ![u].pc = "set"]
       \/ writer' = [writer EXCEPT ![u] = Idle]
    /\ UNCHANGED <<creation, now, session, indexed, ledger, sweepCall, bounds>>

------------------------------------------------------------------------------
(* saveState and what follows it, for any writer *)

SaveSession(w) ==
    /\ writer[w].pc = "set"
    /\ session' = writer[w].next
    /\ writer' = [writer EXCEPT ![w].pc = "index"]
    /\ UNCHANGED <<creation, now, indexed, ledger, sweepCall, bounds>>

\* Defect: only active sessions are indexed, waiting ones fall out.
StaysIndexed_ActiveOnly(s) == s.status = "active"

\* updateRedisSessionIndex: zAdd for a live session, zRem for an ended one.
StaysIndexed(s) == ~IsTerminal(s)

\* Defect: forfeits and abandoned matches are not persisted.
ResultDue_FinishedOnly(w, s) == w = LockHolder /\ s.status = "finished"

\* The commands that set a winner go on to persistOnlineResult.
ResultDue(w, s) == w = LockHolder /\ s.winner # None

SaveIndex(w) ==
    /\ writer[w].pc = "index"
    /\ indexed' = StaysIndexed(writer[w].next)
    /\ writer' = [writer EXCEPT ![w] =
                    IF ResultDue(w, writer[w].next)
                    THEN [writer[w] EXCEPT !.pc = "persist"]
                    ELSE Idle]
    /\ UNCHANGED <<creation, now, session, ledger, sweepCall, bounds>>

\* Defect: persistedSessions is not consulted.
AlreadyPersisted_Never == FALSE

AlreadyPersisted == persisted

\* persistOnlineResult marks the match before it writes anything.
PersistOnlineResult ==
    /\ writer[LockHolder].pc = "persist"
    /\ IF AlreadyPersisted
       THEN /\ writer' = [writer EXCEPT ![LockHolder] = Idle]
            /\ UNCHANGED <<persisted, recording>>
       ELSE /\ writer' = [writer EXCEPT ![LockHolder].pc = "record"]
            /\ persisted' = TRUE
            /\ recording' = Players
    /\ UNCHANGED <<creation, now, session, indexed, results, sweepCall, bounds>>

Outcome(u, winner) == IF SymbolOf(u) = winner THEN "won" ELSE "lost"

\* createMatch and finishMatch of one player: written, or failed and logged.
RecordResult(u) ==
    /\ u \in recording
    /\ \/ results' = [results EXCEPT
                        ![u] = Append(@, Outcome(u, writer[LockHolder].next.winner))]
       \/ UNCHANGED results
    /\ recording' = recording \ {u}
    /\ writer' = IF recording = {u} THEN [writer EXCEPT ![LockHolder] = Idle] ELSE writer
    /\ UNCHANGED <<creation, now, session, indexed, persisted, sweepCall, bounds>>

------------------------------------------------------------------------------
(* Time and crashes *)

Tick ==
    /\ now < MaxNow
    /\ now' = now + 1
    /\ UNCHANGED <<creation, session, indexed, writer, ledger, sweepCall, bounds>>

\* The process dies between two awaits and starts again; Redis stays.
Crash ==
    /\ crashes < MaxCrashes
    /\ crashes' = crashes + 1
    /\ creation' = IF creation = "storing" THEN "lost" ELSE creation
    /\ writer' = [w \in Writers |-> Idle]
    /\ recording' = {}
    /\ persisted' = FALSE
    /\ sweepCall' = NoSweepCall
    /\ UNCHANGED <<now, session, indexed, results, chatsSent>>

------------------------------------------------------------------------------
(* Creation *)

\* createSession's saveState has stored the snapshot, which is its first write.
Init ==
    /\ creation = "storing"
    /\ now = 0
    /\ session = NewSession
    /\ indexed = FALSE
    /\ writer = [w \in Writers |-> Idle]
    /\ recording = {}
    /\ persisted = FALSE
    /\ results = [p \in Players |-> <<>>]
    /\ sweepCall = NoSweepCall
    /\ chatsSent = 0
    /\ crashes = 0

\* Its second write puts the match in the index.  Only what follows, the keys
\* user-active and the answer of createSession, tells anybody its id.
IndexNewSession ==
    /\ creation = "storing"
    /\ creation' = "done"
    /\ indexed' = StaysIndexed(session)
    /\ UNCHANGED <<now, session, writer, ledger, sweepCall, bounds>>

UserCall(u) ==
    /\ creation = "done"
    /\ \/ \E c \in Cells, v \in 0 .. session.version : Move(u, c, v)
       \/ \E v \in 0 .. session.version : PieSwap(u, v) \/ ClientTurnTimeout(u, v)
       \/ \E at \in CallTimes : MarkDisconnected(u, at) \/ Reconnect(u, at)
       \/ Abandon(u)
       \/ ChatRead(u)

WriterStep(w) == SaveSession(w) \/ SaveIndex(w)

Next ==
    \/ IndexNewSession
    \/ \E u \in Users : UserCall(u)
    \/ \E u \in Players : ChatFilterReturns(u) \/ RecordResult(u)
    \/ \E w \in Writers : WriterStep(w)
    \/ PersistOnlineResult
    \/ SweepRead \/ SweepUnindex \/ SweepExpire \/ SweepTimeout
    \/ Tick
    \/ Crash

Spec == Init /\ [][Next]_vars

(***************************************************************************)
(* A started save or database write finishes, the sweep timer keeps        *)
(* firing, and the promise chain serves waiting calls in order, so a sweep *)
(* that waits for the lock gets it although clients keep taking it: strong *)
(* fairness.  Clients, the clock and the chat filter owe nothing.          *)
(***************************************************************************)
Fairness ==
    /\ WF_vars(IndexNewSession)
    /\ \A w \in Writers : WF_vars(WriterStep(w))
    /\ WF_vars(PersistOnlineResult)
    /\ \A u \in Players : WF_vars(RecordResult(u))
    /\ WF_vars(SweepRead)
    /\ WF_vars(SweepUnindex)
    /\ SF_vars(SweepExpire)
    /\ SF_vars(SweepTimeout)

FairSpec == Spec /\ Fairness
==============================================================================
