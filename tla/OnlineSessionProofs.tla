------------------------ MODULE OnlineSessionProofs ------------------------
(***************************************************************************)
(* Every snapshot a match service stores is well formed and coherent, for  *)
(* every board, every set of users, every bound, every interleaving of the *)
(* commands with the sweep and the chat, and every crash.                  *)
(*                                                                         *)
(* Types first: each function from a snapshot to the next one stays inside *)
(* Session; the invariant is then a matter of which steps touch writers.   *)
(***************************************************************************)
EXTENDS OnlineSessionProps, FiniteSetTheorems, TLAPS

------------------------------------------------------------------------------
(* Snapshots *)

\* The first snapshot of a match, as createSession stores it, is well formed.
LEMMA NewSessionType == NewSession \in Session
<1>1. TurnTimeout \in Nat
  BY NumbersAssumption
<1>2. [c \in Cells |-> "."] \in [Cells -> {"B", "R", "."}]
  OBVIOUS
<1>3. <<>> \in Seq(Players)
  OBVIOUS
<1>. QED
  BY <1>1, <1>2, <1>3 DEF NewSession, Session, LiveStatus, TerminalStatus

\* Symbols and seats of the players.
LEMMA SeatFacts ==
    /\ PlayerB \in Players /\ PlayerR \in Players
    /\ \A u : SymbolOf(u) \in Symbols /\ Opponent(u) \in Players
    /\ \A s : CurrentPlayer(s) \in Players
    /\ \A u : u \in Players => u \in Users
BY PlayersAssumption DEF Players, Symbols, SymbolOf, Opponent, CurrentPlayer

\* A symbol is never the mark for "no winner".
LEMMA NoneIsNoSymbol ==
    /\ None \notin Symbols /\ None \notin Players /\ None \notin Nat
    /\ None \notin {"unindex", "expire", "timeout"}
BY PlayersAssumption, SeatFacts DEF SweepKinds

\* resolveWinner answers a symbol or null.
LEMMA ResolveWinnerType ==
    ASSUME NEW layout PROVE ResolveWinner(layout) \in Symbols \cup {None}
BY DEF ResolveWinner, Symbols

\* Placing a stone keeps the snapshot well formed.
LEMMA AfterMoveType ==
    ASSUME NEW s \in Session, NEW c \in Cells, now \in Nat
    PROVE  AfterMove(s, c) \in Session
<1>. DEFINE layout == [s.layout EXCEPT ![c] = SymbolOf(CurrentPlayer(s))]
            winner == ResolveWinner(layout)
<1>1. layout \in [Cells -> {"B", "R", "."}]
  BY SeatFacts DEF Session, Symbols
<1>2. winner \in Symbols \cup {None}
  BY ResolveWinnerType
<1>3. NextTurn(s, winner) \in {0, 1}
  BY DEF NextTurn, Session
<1>4. (IF winner = None THEN now + TurnTimeout ELSE s.timerEndsAt) \in Nat
  BY NumbersAssumption DEF Session
<1>5. (IF winner = None THEN "active" ELSE "finished") \in LiveStatus \cup TerminalStatus
  BY DEF LiveStatus, TerminalStatus
<1>6. s.version + 1 \in Nat
  BY DEF Session
<1>. HIDE DEF layout, winner
<1>7. [s EXCEPT !.layout = layout,
                !.turn = NextTurn(s, winner),
                !.version = s.version + 1,
                !.timerEndsAt = IF winner = None THEN now + TurnTimeout ELSE s.timerEndsAt,
                !.winner = winner,
                !.status = IF winner = None THEN "active" ELSE "finished"] \in Session
  BY <1>1, <1>2, <1>3, <1>4, <1>5, <1>6 DEF Session
<1>. QED
  BY <1>7 DEF AfterMove, layout, winner

\* Swapping the colours keeps the snapshot well formed.
LEMMA AfterPieSwapType ==
    ASSUME NEW s \in Session, now \in Nat PROVE AfterPieSwap(s) \in Session
<1>1. [c \in Cells |-> Swapped(s.layout[c])] \in [Cells -> {"B", "R", "."}]
  BY DEF Session, Swapped
<1>2. s.version + 1 \in Nat /\ now + TurnTimeout \in Nat
  BY NumbersAssumption DEF Session
<1>. QED
  BY <1>1, <1>2 DEF AfterPieSwap, Session

\* A disconnection keeps the snapshot well formed.
LEMMA AfterDisconnectType ==
    ASSUME NEW s \in Session, NEW u \in Players, NEW at \in Nat
    PROVE  AfterDisconnect(s, u, at) \in Session
<1>1. at + ReconnectGrace \in Nat /\ s.version + 1 \in Nat
  BY NumbersAssumption DEF Session
<1>. QED
  BY <1>1 DEF AfterDisconnect, Session, LiveStatus, TerminalStatus

\* A reconnection keeps the snapshot well formed.
LEMMA AfterReconnectType ==
    ASSUME NEW s \in Session, NEW u \in Players PROVE AfterReconnect(s, u) \in Session
<1>1. s.version + 1 \in Nat
  BY DEF Session
<1>. QED
  BY <1>1 DEF AfterReconnect, Session, LiveStatus, TerminalStatus

\* A forfeit keeps the snapshot well formed.
LEMMA AfterExpiryType ==
    ASSUME NEW s \in Session, NEW u PROVE AfterExpiry(s, u) \in Session
<1>1. s.version + 1 \in Nat /\ SymbolOf(Opponent(u)) \in Symbols
  BY SeatFacts DEF Session
<1>2. [s.connection EXCEPT ![u] = "DISCONNECTED"] \in [Players -> {"CONNECTED", "DISCONNECTED"}]
  BY DEF Session
<1>. QED
  BY <1>1, <1>2 DEF AfterExpiry, Session, LiveStatus, TerminalStatus

\* Abandoning keeps the snapshot well formed.
LEMMA AfterAbandonType ==
    ASSUME NEW s \in Session, NEW u PROVE AfterAbandon(s, u) \in Session
<1>1. s.version + 1 \in Nat /\ SymbolOf(Opponent(u)) \in Symbols
  BY SeatFacts DEF Session
<1>. QED
  BY <1>1 DEF AfterAbandon, Session, LiveStatus, TerminalStatus

\* A chat message keeps the snapshot well formed.
LEMMA AfterChatType ==
    ASSUME NEW s \in Session, NEW u \in Players PROVE AfterChat(s, u) \in Session
<1>. DEFINE longer == Append(s.messages, u)
<1>1. longer \in Seq(Players) /\ longer # <<>>
  BY DEF Session
<1>2. Tail(longer) \in Seq(Players)
  BY <1>1
<1>. QED
  BY <1>1, <1>2 DEF AfterChat, Session

\* Every action the timeout may draw yields a well-formed snapshot.
LEMMA TimeoutOutcomesType ==
    ASSUME NEW s \in Session, now \in Nat PROVE TimeoutOutcomes(s) \subseteq Session
BY AfterMoveType, AfterPieSwapType DEF TimeoutOutcomes

------------------------------------------------------------------------------
(* Writers *)

\* A writer that is not idle is in the middle of an operation.
LEMMA BusyWriter ==
    ASSUME NEW w \in Writers, TypeOK, writer[w].pc # "idle"
    PROVE  /\ writer[w] \in Operation
           /\ writer[w].next \in Session
           /\ writer[w].user \in Players
BY DEF TypeOK, Idle, Operation

\* The lock holder and both players are writers.
LEMMA WriterFacts == LockHolder \in Writers /\ Players \subseteq Writers /\ LockHolder \notin Players
BY PlayersAssumption, SeatFacts DEF Writers

\* Starting a command keeps the writers well formed.
LEMMA ProceedType ==
    ASSUME TypeOK, NEW kind \in Kinds, NEW u \in Players, NEW next \in Session,
           Proceed(kind, u, next)
    PROVE  /\ writer' \in [Writers -> Operation \cup {Idle}]
           /\ UNCHANGED <<creation, now, session, indexed, recording, persisted, results, chatsSent, crashes>>
<1>1. [kind |-> kind, user |-> u, pc |-> "set", next |-> next] \in Operation
  BY DEF Operation
<1>. QED
  BY <1>1, WriterFacts DEF Proceed, TypeOK, ledger, bounds

\* A command of a player keeps the type invariant.
LEMMA CommandType ==
    ASSUME TypeOK, NEW kind \in Kinds, NEW u \in Players, NEW next \in Session,
           Command(kind, u, next)
    PROVE  TypeOK'
BY ProceedType DEF Command, TypeOK

\* Moving a busy writer on to another step keeps it an operation.
LEMMA AdvanceType ==
    ASSUME NEW op \in Operation, NEW pc \in {"filter", "set", "index", "persist", "record"}
    PROVE  [op EXCEPT !.pc = pc] \in Operation
BY DEF Operation

\* What the sweep decides on is a well-formed call.
LEMMA SweepDecidesType ==
    ASSUME TypeOK, NEW kind, NEW u,
           \/ kind = "unindex" /\ u = None
           \/ kind \in {"expire", "timeout"} /\ u \in Players,
           NEW version \in Nat, NEW at \in Nat, SweepDecides(kind, u, version, at)
    PROVE  TypeOK'
<1>1. sweepCall' \in SweepCall
  BY DEF SweepDecides, SweepCall
<1>. QED
  BY <1>1 DEF SweepDecides, TypeOK, ledger, bounds

------------------------------------------------------------------------------
(* The type invariant *)

\* The initial state is well formed.
LEMMA TypeInit == Init => TypeOK
<1>. SUFFICES ASSUME Init PROVE TypeOK
  OBVIOUS
<1>1. session \in Session
  BY NewSessionType DEF Init
<1>2. writer \in [Writers -> Operation \cup {Idle}]
  BY DEF Init
<1>3. results \in [Players -> Seq({"won", "lost"})]
  BY DEF Init
<1>. QED
  BY <1>1, <1>2, <1>3 DEF Init, TypeOK

\* A call of an authenticated user keeps the type invariant.
LEMMA UserCallType ==
    ASSUME TypeOK, NEW u \in Users, UserCall(u) PROVE TypeOK'
<1>. USE DEF Kinds
<1>0. session \in Session /\ now \in Nat
  BY DEF TypeOK
<1>1. CASE \E c \in Cells, v \in 0 .. session.version : Move(u, c, v)
  <2>1. PICK c \in Cells, v \in 0 .. session.version : Move(u, c, v)
    BY <1>1
  <2>2. u \in Players
    BY <2>1, SeatFacts DEF Move
  <2>. QED
    BY <2>1, <2>2, <1>0, AfterMoveType, CommandType DEF Move
<1>2. CASE \E v \in 0 .. session.version : PieSwap(u, v)
  <2>1. u \in Players /\ Command("swap", u, AfterPieSwap(session))
    BY <1>2, SeatFacts DEF PieSwap
  <2>. QED
    BY <2>1, <1>0, AfterPieSwapType, CommandType
<1>3. CASE \E v \in 0 .. session.version : ClientTurnTimeout(u, v)
  <2>1. PICK next \in TimeoutOutcomes(session) : Command("turnTimeout", u, next)
    BY <1>3 DEF ClientTurnTimeout
  <2>2. u \in Players /\ next \in Session
    BY <1>3, <1>0, SeatFacts, TimeoutOutcomesType DEF ClientTurnTimeout, TurnTimeoutApplies
  <2>. QED
    BY <2>1, <2>2, CommandType
<1>4. CASE \E at \in CallTimes : MarkDisconnected(u, at)
  <2>1. PICK at \in CallTimes : MarkDisconnected(u, at)
    BY <1>4
  <2>2. at \in Nat /\ u \in Players
    BY <2>1, <1>0 DEF CallTimes, MarkDisconnected, MayActOn
  <2>. QED
    BY <2>1, <2>2, <1>0, AfterDisconnectType, CommandType DEF MarkDisconnected
<1>5. CASE \E at \in CallTimes : Reconnect(u, at)
  <2>1. u \in Players /\ Command("reconnect", u, AfterReconnect(session, u))
    BY <1>5 DEF Reconnect, MayActOn
  <2>. QED
    BY <2>1, <1>0, AfterReconnectType, CommandType
<1>6. CASE Abandon(u)
  <2>1. u \in Players /\ Command("abandon", u, AfterAbandon(session, u))
    BY <1>6 DEF Abandon, MayActOn
  <2>. QED
    BY <2>1, <1>0, AfterAbandonType, CommandType
<1>7. CASE ChatRead(u)
  <2>1. u \in Players /\ u \in Writers
    BY <1>7, WriterFacts DEF ChatRead
  <2>2. [kind |-> "chat", user |-> u, pc |-> "filter", next |-> AfterChat(session, u)] \in Operation
    BY <2>1, <1>0, AfterChatType DEF Operation
  <2>. QED
    BY <1>7, <2>1, <2>2 DEF ChatRead, TypeOK, ledger
<1>. QED
  BY <1>1, <1>2, <1>3, <1>4, <1>5, <1>6, <1>7 DEF UserCall

\* The filter's answer, a save, and the recording of results.
LEMMA WriterStepType ==
    ASSUME TypeOK, NEW w \in Writers, WriterStep(w) PROVE TypeOK'
<1>. USE DEF ledger, bounds
<1>1. CASE SaveSession(w)
  <2>1. writer[w] \in Operation /\ writer[w].next \in Session
    BY <1>1, BusyWriter DEF SaveSession
  <2>2. [writer[w] EXCEPT !.pc = "index"] \in Operation
    BY <2>1, AdvanceType
  <2>3. writer' = [writer EXCEPT ![w] = [writer[w] EXCEPT !.pc = "index"]]
    BY <1>1 DEF SaveSession, TypeOK
  <2>. QED
    BY <1>1, <2>1, <2>2, <2>3 DEF SaveSession, TypeOK
<1>2. CASE SaveIndex(w)
  <2>1. writer[w] \in Operation
    BY <1>2, BusyWriter DEF SaveIndex
  <2>2. [writer[w] EXCEPT !.pc = "persist"] \in Operation
    BY <2>1, AdvanceType
  <2>3. indexed' \in BOOLEAN
    BY <1>2 DEF SaveIndex, StaysIndexed, IsTerminal
  <2>. QED
    BY <1>2, <2>2, <2>3 DEF SaveIndex, TypeOK
<1>. QED
  BY <1>1, <1>2 DEF WriterStep

\* The filter's answer keeps the type invariant.
LEMMA ChatFilterReturnsType ==
    ASSUME TypeOK, NEW u \in Players, ChatFilterReturns(u) PROVE TypeOK'
<1>1. u \in Writers /\ writer[u] \in Operation
  BY WriterFacts, BusyWriter DEF ChatFilterReturns
<1>2. [writer[u] EXCEPT !.pc = "set"] \in Operation
  BY <1>1, AdvanceType
<1>. QED
  BY <1>1, <1>2 DEF ChatFilterReturns, TypeOK, ledger, bounds

\* Marking the match and starting to write keeps the type invariant.
LEMMA PersistOnlineResultType == TypeOK /\ PersistOnlineResult => TypeOK'
<1>. SUFFICES ASSUME TypeOK, PersistOnlineResult PROVE TypeOK'
  OBVIOUS
<1>1. writer[LockHolder] \in Operation
  BY WriterFacts, BusyWriter DEF PersistOnlineResult
<1>2. [writer[LockHolder] EXCEPT !.pc = "record"] \in Operation
  BY <1>1, AdvanceType
<1>. QED
  BY <1>2, WriterFacts DEF PersistOnlineResult, TypeOK, bounds

\* Writing one player's result keeps the type invariant.
LEMMA RecordResultType ==
    ASSUME TypeOK, NEW u \in Players, RecordResult(u) PROVE TypeOK'
<1>1. results' \in [Players -> Seq({"won", "lost"})]
  <2>1. \A winner : Append(results[u], Outcome(u, winner)) \in Seq({"won", "lost"})
    BY DEF TypeOK, Outcome
  <2>. QED
    BY <2>1 DEF RecordResult, TypeOK
<1>2. writer' \in [Writers -> Operation \cup {Idle}]
  BY DEF RecordResult, TypeOK
<1>. QED
  BY <1>1, <1>2 DEF RecordResult, TypeOK, bounds

\* The sweep's look at a session and the call it makes.
LEMMA SweepType ==
    ASSUME TypeOK, SweepRead \/ SweepUnindex \/ SweepExpire \/ SweepTimeout PROVE TypeOK'
<1>. USE DEF ledger, bounds
<1>0. session \in Session /\ now \in Nat /\ session.version \in Nat
  BY DEF TypeOK, Session
<1>1. CASE SweepRead
  <2>1. FirstExpired(session) \in Players /\ CurrentPlayer(session) \in Players
    BY SeatFacts DEF FirstExpired
  <2>. QED
    BY <1>1, <1>0, <2>1, SweepDecidesType DEF SweepRead
<1>2. CASE SweepUnindex
  BY <1>2 DEF SweepUnindex, TypeOK
<1>3. CASE SweepExpire
  <2>1. CASE Proceed("expire", sweepCall.user, AfterExpiry(session, sweepCall.user))
    <3>1. sweepCall.user \in Players /\ sweepCall' = NoSweepCall
      BY <1>3, NoneIsNoSymbol DEF SweepExpire, TypeOK, SweepCall, NoSweepCall
    <3>. QED
      BY <2>1, <3>1, <1>0, AfterExpiryType, ProceedType DEF Kinds, TypeOK
  <2>2. CASE UNCHANGED <<creation, now, session, indexed, writer, ledger, bounds>>
    BY <1>3, <2>2 DEF SweepExpire, TypeOK
  <2>. QED
    BY <1>3, <2>1, <2>2 DEF SweepExpire
<1>4. CASE SweepTimeout
  <2>1. CASE \E next \in TimeoutOutcomes(session) : Proceed("sweepTimeout", sweepCall.user, next)
    <3>1. PICK next \in TimeoutOutcomes(session) : Proceed("sweepTimeout", sweepCall.user, next)
      BY <2>1
    <3>2. next \in Session
      BY <1>0, TimeoutOutcomesType
    <3>3. sweepCall.user \in Players /\ sweepCall' = NoSweepCall
      BY <1>4, NoneIsNoSymbol DEF SweepTimeout, TypeOK, SweepCall, NoSweepCall
    <3>. QED
      BY <3>1, <3>2, <3>3, ProceedType DEF Kinds, TypeOK
  <2>2. CASE UNCHANGED <<creation, now, session, indexed, writer, ledger, bounds>>
    BY <1>4, <2>2 DEF SweepTimeout, TypeOK
  <2>. QED
    BY <1>4, <2>1, <2>2 DEF SweepTimeout
<1>. QED
  BY <1>1, <1>2, <1>3, <1>4

\* The end of createSession, the clock and a crash keep the type invariant.
LEMMA EnvironmentType ==
    ASSUME TypeOK, IndexNewSession \/ Tick \/ Crash PROVE TypeOK'
<1>1. CASE Tick
  BY <1>1 DEF Tick, TypeOK, ledger, bounds
<1>2. CASE Crash
  <2>1. writer' \in [Writers -> Operation \cup {Idle}]
    BY <1>2 DEF Crash
  <2>2. crashes' \in Nat
    BY <1>2 DEF Crash, TypeOK
  <2>. QED
    BY <1>2, <2>1, <2>2 DEF Crash, TypeOK
<1>3. CASE IndexNewSession
  BY <1>3 DEF IndexNewSession, StaysIndexed, IsTerminal, TypeOK, ledger, bounds
<1>. QED
  BY <1>1, <1>2, <1>3

\* One step keeps the type invariant: the cases of Next.
LEMMA TypeNext == TypeOK /\ [Next]_vars => TypeOK'
<1>. SUFFICES ASSUME TypeOK, [Next]_vars PROVE TypeOK'
  OBVIOUS
<1>1. CASE \E u \in Users : UserCall(u)
  BY <1>1, UserCallType
<1>2. CASE \E u \in Players : ChatFilterReturns(u)
  BY <1>2, ChatFilterReturnsType
<1>3. CASE \E u \in Players : RecordResult(u)
  BY <1>3, RecordResultType
<1>4. CASE \E w \in Writers : WriterStep(w)
  BY <1>4, WriterStepType
<1>5. CASE PersistOnlineResult
  BY <1>5, PersistOnlineResultType
<1>6. CASE SweepRead \/ SweepUnindex \/ SweepExpire \/ SweepTimeout
  BY <1>6, SweepType
<1>7. CASE IndexNewSession \/ Tick \/ Crash
  BY <1>7, EnvironmentType
<1>8. CASE UNCHANGED vars
  BY <1>8 DEF vars, ledger, bounds, TypeOK
<1>. QED
  BY <1>1, <1>2, <1>3, <1>4, <1>5, <1>6, <1>7, <1>8 DEF Next

(***************************************************************************)
(* Every state of the service is well formed: whatever the board, whoever  *)
(* calls and however often it crashes, no command stores anything but a    *)
(* session snapshot and no writer is left between two steps.               *)
(***************************************************************************)
THEOREM TypeCorrect == Spec => []TypeOK
BY TypeInit, TypeNext, PTL DEF Spec

-----------------------------------------------------------------------------
(***************************************************************************)
(* Coherence of every snapshot, for every board, every bound, every        *)
(* interleaving of the commands with the sweep and with chat saves that    *)
(* write back old snapshots, and every crash.                              *)
(*                                                                         *)
(* TypeOK /\ SnapshotsCoherent is inductive: a command computes its next   *)
(* snapshot from the stored one, chat does the same without the lock, and  *)
(* a save stores what a writer holds.  The work is in the first section,   *)
(* one lemma for each function from a snapshot to the next one.            *)
(***************************************************************************)

------------------------------------------------------------------------------
(* Stones *)

\* The cells of a colour are finitely many, so they can be counted.
LEMMA CellsOfFinite ==
    ASSUME NEW layout, NEW sym
    PROVE  IsFiniteSet(CellsOf(layout, sym)) /\ Cardinality(CellsOf(layout, sym)) \in Nat
<1>1. CellsOf(layout, sym) \in SUBSET Cells
  BY DEF CellsOf
<1>2. IsFiniteSet(CellsOf(layout, sym))
  BY <1>1, BoardAssumption, FS_Subset
<1>. QED
  BY <1>2, FS_CardinalityType

\* A stone on an empty cell adds one to its colour and nothing to the other.
LEMMA PlacedStoneCounts ==
    ASSUME NEW layout \in [Cells -> {"B", "R", "."}], NEW c \in Cells, layout[c] = ".",
           NEW own \in Symbols, NEW other \in Symbols, own # other,
           NEW placed, placed = [layout EXCEPT ![c] = own]
    PROVE  /\ Cardinality(CellsOf(placed, own)) = Cardinality(CellsOf(layout, own)) + 1
           /\ Cardinality(CellsOf(placed, other)) = Cardinality(CellsOf(layout, other))
<1>1. CellsOf(placed, own) = CellsOf(layout, own) \cup {c}
  BY DEF CellsOf, Symbols
<1>2. CellsOf(placed, other) = CellsOf(layout, other)
  BY DEF CellsOf, Symbols
<1>3. c \notin CellsOf(layout, own)
  BY DEF CellsOf, Symbols
<1>. QED
  BY <1>1, <1>2, <1>3, CellsOfFinite, FS_AddElement

\* After a swap each colour has the cells of the other.
LEMMA SwappedCells ==
    ASSUME NEW layout \in [Cells -> {"B", "R", "."}]
    PROVE  LET swapped == [c \in Cells |-> Swapped(layout[c])]
           IN  /\ CellsOf(swapped, "B") = CellsOf(layout, "R")
               /\ CellsOf(swapped, "R") = CellsOf(layout, "B")
BY DEF CellsOf, Swapped

\* A single stone belongs to one of the colours.
LEMMA SingleStone ==
    ASSUME NEW layout,
           Cardinality(CellsOf(layout, "B") \cup CellsOf(layout, "R")) = 1
    PROVE  \/ Cardinality(CellsOf(layout, "B")) = 1 /\ Cardinality(CellsOf(layout, "R")) = 0
           \/ Cardinality(CellsOf(layout, "B")) = 0 /\ Cardinality(CellsOf(layout, "R")) = 1
<1>. DEFINE b == CellsOf(layout, "B")
            r == CellsOf(layout, "R")
<1>1. b \cap r = {}
  BY DEF CellsOf
<1>2. IsFiniteSet(b \cup r)
  <2>1. b \cup r \in SUBSET Cells
    BY DEF CellsOf
  <2>. QED
    BY <2>1, BoardAssumption, FS_Subset
<1>. HIDE DEF b, r
<1>3. PICK x : b \cup r = {x}
  BY <1>2, FS_Singleton DEF b, r
<1>4. \/ b = {x} /\ r = {}
      \/ b = {} /\ r = {x}
  BY <1>1, <1>3
<1>. QED
  BY <1>4, FS_Singleton, FS_EmptySet DEF b, r

------------------------------------------------------------------------------
(* Snapshots *)

\* The first snapshot is coherent.
LEMMA NewSessionCoherent == Coherent(NewSession)
<1>. DEFINE s == NewSession
<1>1. \A sym \in Symbols : CellsOf(s.layout, sym) = {}
  BY DEF NewSession, CellsOf, Symbols
<1>2. \A sym \in Symbols : ~Wins(s.layout, sym)
  BY <1>1, BoardAssumption DEF Wins
<1>3. StonesAlternate(s)
  <2>1. StoneCount(s, "B") = 0 /\ StoneCount(s, "R") = 0 /\ s.turn = 0
    BY <1>1, FS_EmptySet DEF StoneCount, Symbols, NewSession
  <2>. QED
    BY <2>1 DEF StonesAlternate
<1>4. OverIffWinner(s)
  BY DEF OverIffWinner, IsTerminal, TerminalStatus, NewSession
<1>5. WinnerIsOnBoard(s)
  BY <1>2 DEF WinnerIsOnBoard, NewSession
<1>6. DeadlineIffDisconnected(s) /\ WaitHasDeadline(s)
  BY DEF DeadlineIffDisconnected, WaitHasDeadline, NewSession
<1>. QED
  BY <1>3, <1>4, <1>5, <1>6 DEF Coherent

\* A legal move keeps a live snapshot coherent, also when it wins.
LEMMA AfterMoveCoherent ==
    ASSUME NEW s \in Session, Coherent(s), s.winner = None, NEW c \in Cells, IsMoveValid(s, c)
    PROVE  Coherent(AfterMove(s, c))
<1>. DEFINE layout == [s.layout EXCEPT ![c] = SymbolOf(CurrentPlayer(s))]
            winner == ResolveWinner(layout)
            t == AfterMove(s, c)
<1>1. /\ t.layout = layout /\ t.winner = winner /\ t.turn = NextTurn(s, winner)
      /\ t.status = IF winner = None THEN "active" ELSE "finished"
      /\ t.connection = s.connection /\ t.reconnectDeadline = s.reconnectDeadline
  BY DEF AfterMove, Session
<1>2. \/ winner = None /\ \A sym \in Symbols : ~Wins(layout, sym)
      \/ winner \in Symbols /\ winner # None /\ Wins(layout, winner)
  BY NoneIsNoSymbol DEF ResolveWinner, Symbols
<1>. HIDE DEF winner, t
<1>3. OverIffWinner(t)
  BY <1>1 DEF OverIffWinner, IsTerminal, TerminalStatus
<1>4. WinnerIsOnBoard(t)
  BY <1>1, <1>2 DEF WinnerIsOnBoard, IsTerminal, TerminalStatus
<1>5. DeadlineIffDisconnected(t)
  BY <1>1 DEF Coherent, DeadlineIffDisconnected
<1>6. WaitHasDeadline(t)
  BY <1>1 DEF WaitHasDeadline
<1>7. StonesAlternate(t)
  <2>. SUFFICES ASSUME winner = None PROVE StonesAlternate(t)
    BY <1>1 DEF StonesAlternate
  <2>1. s.layout \in [Cells -> {"B", "R", "."}] /\ s.layout[c] = "." /\ s.turn \in {0, 1}
    BY DEF Session, IsMoveValid
  <2>2. t.turn = 1 - s.turn
    BY <1>1 DEF NextTurn
  <2>3. StoneCount(s, "B") \in Nat /\ StoneCount(s, "R") \in Nat
    BY CellsOfFinite DEF StoneCount
  <2>4. CASE s.turn = 0
    <3>1. t.layout = [s.layout EXCEPT ![c] = "B"]
      BY <1>1, <2>4 DEF SymbolOf, CurrentPlayer
    <3>2. StoneCount(t, "B") = StoneCount(s, "B") + 1 /\ StoneCount(t, "R") = StoneCount(s, "R")
      BY <2>1, <3>1, PlacedStoneCounts DEF StoneCount, Symbols
    <3>. QED
      BY <2>2, <2>3, <2>4, <3>2 DEF Coherent, StonesAlternate
  <2>5. CASE s.turn = 1
    <3>1. t.layout = [s.layout EXCEPT ![c] = "R"]
      BY <1>1, <2>5, PlayersAssumption DEF SymbolOf, CurrentPlayer
    <3>2. StoneCount(t, "R") = StoneCount(s, "R") + 1 /\ StoneCount(t, "B") = StoneCount(s, "B")
      BY <2>1, <3>1, PlacedStoneCounts DEF StoneCount, Symbols
    <3>. QED
      BY <2>2, <2>3, <2>5, <3>2 DEF Coherent, StonesAlternate
  <2>. QED
    BY <2>1, <2>4, <2>5
<1>. QED
  BY <1>3, <1>4, <1>5, <1>6, <1>7 DEF Coherent, t

\* A legal swap keeps a live snapshot coherent.
LEMMA AfterPieSwapCoherent ==
    ASSUME NEW s \in Session, Coherent(s), s.winner = None, IsPieSwapLegal(s)
    PROVE  Coherent(AfterPieSwap(s))
<1>. DEFINE t == AfterPieSwap(s)
<1>1. /\ t.layout = [c \in Cells |-> Swapped(s.layout[c])] /\ t.turn = 0
      /\ t.status = s.status /\ t.winner = s.winner
      /\ t.connection = s.connection /\ t.reconnectDeadline = s.reconnectDeadline
  BY DEF AfterPieSwap, Session
<1>2. s.layout \in [Cells -> {"B", "R", "."}]
  BY DEF Session
<1>3. CellsOf(t.layout, "B") = CellsOf(s.layout, "R") /\ CellsOf(t.layout, "R") = CellsOf(s.layout, "B")
  BY <1>1, <1>2, SwappedCells
<1>. HIDE DEF t
<1>4. OverIffWinner(t)
  BY <1>1 DEF Coherent, OverIffWinner, IsTerminal
<1>5. WinnerIsOnBoard(t)
  <2>1. ~IsTerminal(s) /\ ~IsTerminal(t) /\ t.status # "finished"
    BY <1>1 DEF Coherent, OverIffWinner, IsTerminal, TerminalStatus
  <2>2. \A sym \in Symbols : ~Wins(s.layout, sym)
    BY <2>1 DEF Coherent, WinnerIsOnBoard
  <2>3. \A sym \in Symbols : ~Wins(t.layout, sym)
    BY <1>3, <2>2 DEF Wins, Symbols
  <2>. QED
    BY <2>1, <2>3 DEF WinnerIsOnBoard
<1>6. DeadlineIffDisconnected(t) /\ WaitHasDeadline(t)
  BY <1>1 DEF Coherent, DeadlineIffDisconnected, WaitHasDeadline
<1>7. StonesAlternate(t)
  <2>1. /\ s.turn = 1 /\ PieEnabled
        /\ \/ StoneCount(s, "B") = 1 /\ StoneCount(s, "R") = 0
           \/ StoneCount(s, "B") = 0 /\ StoneCount(s, "R") = 1
    BY SingleStone DEF IsPieSwapLegal, StoneCount
  <2>2. StoneCount(s, "B") = 1 /\ StoneCount(s, "R") = 0
    BY <2>1 DEF Coherent, StonesAlternate
  <2>3. StoneCount(t, "B") = 0 /\ StoneCount(t, "R") = 1
    BY <1>3, <2>2 DEF StoneCount
  <2>. QED
    BY <1>1, <2>1, <2>3 DEF StonesAlternate
<1>. QED
  BY <1>4, <1>5, <1>6, <1>7 DEF Coherent, t

\* A live snapshot is neither finished nor won, and its board is undecided.
LEMMA LiveFacts ==
    ASSUME NEW s, Coherent(s), ~IsTerminal(s)
    PROVE  /\ s.winner = None /\ s.status # "finished"
           /\ \A sym \in Symbols : ~Wins(s.layout, sym)
BY DEF Coherent, OverIffWinner, WinnerIsOnBoard, IsTerminal, TerminalStatus

\* A disconnection keeps a live snapshot coherent.
LEMMA AfterDisconnectCoherent ==
    ASSUME NEW s \in Session, Coherent(s), ~IsTerminal(s), NEW u \in Players, NEW at \in Nat
    PROVE  Coherent(AfterDisconnect(s, u, at))
<1>. DEFINE t == AfterDisconnect(s, u, at)
<1>1. /\ t.layout = s.layout /\ t.turn = s.turn /\ t.winner = s.winner
      /\ t.status = "waiting_reconnect"
      /\ t.connection = [s.connection EXCEPT ![u] = "DISCONNECTED"]
      /\ t.reconnectDeadline = [s.reconnectDeadline EXCEPT ![u] = at + ReconnectGrace]
  BY DEF AfterDisconnect, Session
<1>2. at + ReconnectGrace \in Nat /\ at + ReconnectGrace # None
  BY NumbersAssumption, NoneIsNoSymbol
<1>. HIDE DEF t
<1>3. OverIffWinner(t) /\ WinnerIsOnBoard(t)
  BY <1>1, LiveFacts DEF OverIffWinner, WinnerIsOnBoard, IsTerminal, TerminalStatus
<1>4. DeadlineIffDisconnected(t)
  BY <1>1, <1>2 DEF Coherent, DeadlineIffDisconnected, Session
<1>5. WaitHasDeadline(t)
  BY <1>1, <1>2 DEF WaitHasDeadline, Session
<1>6. StonesAlternate(t)
  BY <1>1 DEF Coherent, StonesAlternate, StoneCount
<1>. QED
  BY <1>3, <1>4, <1>5, <1>6 DEF Coherent, t

\* A reconnection keeps a live snapshot coherent.
LEMMA AfterReconnectCoherent ==
    ASSUME NEW s \in Session, Coherent(s), ~IsTerminal(s), NEW u \in Players
    PROVE  Coherent(AfterReconnect(s, u))
<1>. DEFINE t == AfterReconnect(s, u)
<1>1. /\ t.layout = s.layout /\ t.turn = s.turn /\ t.winner = s.winner
      /\ t.status = "active"
      /\ t.connection = [s.connection EXCEPT ![u] = "CONNECTED"]
      /\ t.reconnectDeadline = [s.reconnectDeadline EXCEPT ![u] = None]
  BY DEF AfterReconnect, Session
<1>. HIDE DEF t
<1>2. OverIffWinner(t) /\ WinnerIsOnBoard(t)
  BY <1>1, LiveFacts DEF OverIffWinner, WinnerIsOnBoard, IsTerminal, TerminalStatus
<1>3. DeadlineIffDisconnected(t)
  BY <1>1 DEF Coherent, DeadlineIffDisconnected, Session
<1>4. WaitHasDeadline(t)
  BY <1>1 DEF WaitHasDeadline
<1>5. StonesAlternate(t)
  BY <1>1 DEF Coherent, StonesAlternate, StoneCount
<1>. QED
  BY <1>2, <1>3, <1>4, <1>5 DEF Coherent, t

\* A forfeit of a player who is away keeps a live snapshot coherent.
LEMMA AfterExpiryCoherent ==
    ASSUME NEW s \in Session, Coherent(s), NEW u \in Players, s.reconnectDeadline[u] # None
    PROVE  Coherent(AfterExpiry(s, u))
<1>. DEFINE t == AfterExpiry(s, u)
<1>1. /\ t.layout = s.layout /\ t.turn = s.turn /\ t.winner = SymbolOf(Opponent(u))
      /\ t.status = "expired"
      /\ t.connection = [s.connection EXCEPT ![u] = "DISCONNECTED"]
      /\ t.reconnectDeadline = s.reconnectDeadline
  BY DEF AfterExpiry, Session
<1>2. SymbolOf(Opponent(u)) # None
  BY SeatFacts, NoneIsNoSymbol
<1>. HIDE DEF t
<1>3. OverIffWinner(t) /\ WinnerIsOnBoard(t) /\ WaitHasDeadline(t) /\ StonesAlternate(t)
  BY <1>1, <1>2 DEF OverIffWinner, WinnerIsOnBoard, WaitHasDeadline, StonesAlternate,
                    IsTerminal, TerminalStatus
<1>4. DeadlineIffDisconnected(t)
  BY <1>1 DEF Coherent, DeadlineIffDisconnected, Session
<1>. QED
  BY <1>3, <1>4 DEF Coherent, t

\* Abandoning keeps a snapshot coherent.
LEMMA AfterAbandonCoherent ==
    ASSUME NEW s \in Session, Coherent(s), NEW u \in Players
    PROVE  Coherent(AfterAbandon(s, u))
<1>. DEFINE t == AfterAbandon(s, u)
<1>1. /\ t.layout = s.layout /\ t.turn = s.turn /\ t.winner = SymbolOf(Opponent(u))
      /\ t.status = "abandoned"
      /\ t.connection = s.connection /\ t.reconnectDeadline = s.reconnectDeadline
  BY DEF AfterAbandon, Session
<1>2. SymbolOf(Opponent(u)) # None
  BY SeatFacts, NoneIsNoSymbol
<1>. HIDE DEF t
<1>3. OverIffWinner(t) /\ WinnerIsOnBoard(t) /\ WaitHasDeadline(t) /\ StonesAlternate(t)
  BY <1>1, <1>2 DEF OverIffWinner, WinnerIsOnBoard, WaitHasDeadline, StonesAlternate,
                    IsTerminal, TerminalStatus
<1>4. DeadlineIffDisconnected(t)
  BY <1>1 DEF Coherent, DeadlineIffDisconnected
<1>. QED
  BY <1>3, <1>4 DEF Coherent, t

\* A chat message leaves everything coherence speaks of alone.
LEMMA AfterChatCoherent ==
    ASSUME NEW s \in Session, Coherent(s), NEW u \in Players
    PROVE  Coherent(AfterChat(s, u))
<1>. DEFINE t == AfterChat(s, u)
<1>1. /\ t.layout = s.layout /\ t.turn = s.turn /\ t.winner = s.winner /\ t.status = s.status
      /\ t.connection = s.connection /\ t.reconnectDeadline = s.reconnectDeadline
  BY DEF AfterChat, Session
<1>. HIDE DEF t
<1>2. OverIffWinner(t) /\ WinnerIsOnBoard(t)
  BY <1>1 DEF Coherent, OverIffWinner, WinnerIsOnBoard, IsTerminal
<1>3. DeadlineIffDisconnected(t) /\ WaitHasDeadline(t) /\ StonesAlternate(t)
  BY <1>1 DEF Coherent, DeadlineIffDisconnected, WaitHasDeadline, StonesAlternate, StoneCount
<1>. QED
  BY <1>2, <1>3 DEF Coherent, t

\* Whatever a timeout draws keeps a live snapshot coherent.
LEMMA TimeoutOutcomesCoherent ==
    ASSUME NEW s \in Session, Coherent(s), s.winner = None, NEW t \in TimeoutOutcomes(s)
    PROVE  Coherent(t)
<1>1. CASE \E c \in Cells : IsMoveValid(s, c) /\ t = AfterMove(s, c)
  BY <1>1, AfterMoveCoherent
<1>2. CASE IsPieSwapLegal(s) /\ t = AfterPieSwap(s)
  BY <1>2, AfterPieSwapCoherent
<1>. QED
  BY <1>1, <1>2 DEF TimeoutOutcomes

------------------------------------------------------------------------------
(* Steps *)

\* A command that starts holds a coherent snapshot.
LEMMA ProceedCoherent ==
    ASSUME TypeOK, SnapshotsCoherent, NEW kind, NEW u, NEW next, Coherent(next),
           Proceed(kind, u, next)
    PROVE  SnapshotsCoherent'
<1>1. session' = session
  BY DEF Proceed
<1>2. \A w \in Writers : w # LockHolder => writer'[w] = writer[w]
  BY WriterFacts DEF Proceed, TypeOK
<1>3. writer'[LockHolder].next = next
  BY WriterFacts DEF Proceed, TypeOK
<1>4. ASSUME NEW w \in Writers, writer'[w].pc # "idle" PROVE Coherent(writer'[w].next)
  <2>1. CASE w = LockHolder
    BY <2>1, <1>3
  <2>2. CASE w # LockHolder
    BY <2>2, <1>2, <1>4 DEF SnapshotsCoherent
  <2>. QED
    BY <2>1, <2>2
<1>5. Coherent(session')
  BY <1>1 DEF SnapshotsCoherent
<1>. QED
  BY <1>4, <1>5 DEF SnapshotsCoherent

\* A step that neither stores a snapshot nor gives a writer a new one.
NothingNew ==
    /\ session' = session
    /\ \A w \in Writers :
        \/ writer'[w].pc = "idle"
        \/ writer[w].pc # "idle" /\ writer'[w].next = writer[w].next

\* Such a step keeps every snapshot coherent.
LEMMA NothingNewCoherent == SnapshotsCoherent /\ NothingNew => SnapshotsCoherent'
<1>. SUFFICES ASSUME SnapshotsCoherent, NothingNew PROVE SnapshotsCoherent'
  OBVIOUS
<1>1. ASSUME NEW w \in Writers, writer'[w].pc # "idle" PROVE Coherent(writer'[w].next)
  BY <1>1 DEF SnapshotsCoherent, NothingNew
<1>2. Coherent(session')
  BY DEF SnapshotsCoherent, NothingNew
<1>. QED
  BY <1>1, <1>2 DEF SnapshotsCoherent

\* A call of an authenticated user keeps every snapshot coherent.
LEMMA UserCallCoherent ==
    ASSUME TypeOK, SnapshotsCoherent, NEW u \in Users, UserCall(u)
    PROVE  SnapshotsCoherent'
<1>0. session \in Session /\ now \in Nat /\ Coherent(session)
  BY DEF TypeOK, SnapshotsCoherent
<1>1. CASE \E c \in Cells, v \in 0 .. session.version : Move(u, c, v)
  <2>1. PICK c \in Cells, v \in 0 .. session.version : Move(u, c, v)
    BY <1>1
  <2>2. Coherent(AfterMove(session, c))
    BY <1>0, <2>1, LiveFacts, AfterMoveCoherent DEF Move
  <2>. QED
    BY <2>1, <2>2, ProceedCoherent DEF Move, Command
<1>2. CASE \E v \in 0 .. session.version : PieSwap(u, v)
  <2>1. Coherent(AfterPieSwap(session))
    BY <1>0, <1>2, LiveFacts, AfterPieSwapCoherent DEF PieSwap
  <2>. QED
    BY <1>2, <2>1, ProceedCoherent DEF PieSwap, Command
<1>3. CASE \E v \in 0 .. session.version : ClientTurnTimeout(u, v)
  <2>1. PICK next \in TimeoutOutcomes(session) : Command("turnTimeout", u, next)
    BY <1>3 DEF ClientTurnTimeout
  <2>2. Coherent(next)
    BY <1>0, <1>3, TimeoutOutcomesCoherent DEF ClientTurnTimeout, TurnTimeoutApplies
  <2>. QED
    BY <2>1, <2>2, ProceedCoherent DEF Command
<1>4. CASE \E at \in CallTimes : MarkDisconnected(u, at)
  <2>1. PICK at \in CallTimes : MarkDisconnected(u, at)
    BY <1>4
  <2>2. at \in Nat /\ u \in Players /\ ~IsTerminal(session)
    BY <2>1, <1>0 DEF CallTimes, MarkDisconnected, MayActOn
  <2>3. Coherent(AfterDisconnect(session, u, at))
    BY <1>0, <2>2, AfterDisconnectCoherent
  <2>. QED
    BY <2>1, <2>3, ProceedCoherent DEF MarkDisconnected, Command
<1>5. CASE \E at \in CallTimes : Reconnect(u, at)
  <2>1. u \in Players /\ ~IsTerminal(session) /\ Command("reconnect", u, AfterReconnect(session, u))
    BY <1>5 DEF Reconnect, MayActOn
  <2>2. Coherent(AfterReconnect(session, u))
    BY <1>0, <2>1, AfterReconnectCoherent
  <2>. QED
    BY <2>1, <2>2, ProceedCoherent DEF Command
<1>6. CASE Abandon(u)
  <2>1. Coherent(AfterAbandon(session, u))
    BY <1>0, <1>6, AfterAbandonCoherent DEF Abandon, MayActOn
  <2>. QED
    BY <1>6, <2>1, ProceedCoherent DEF Abandon, Command
<1>7. CASE ChatRead(u)
  <2>1. session' = session /\ u \in Players
    BY <1>7 DEF ChatRead
  <2>2. Coherent(AfterChat(session, u))
    BY <1>0, <2>1, AfterChatCoherent
  <2>3. writer'[u].next = AfterChat(session, u) /\ \A w \in Writers : w # u => writer'[w] = writer[w]
    BY <1>7, <2>1, WriterFacts DEF ChatRead, TypeOK
  <2>4. ASSUME NEW w \in Writers, writer'[w].pc # "idle" PROVE Coherent(writer'[w].next)
    <3>1. CASE w = u
      BY <3>1, <2>2, <2>3
    <3>2. CASE w # u
      BY <3>2, <2>3, <2>4 DEF SnapshotsCoherent
    <3>. QED
      BY <3>1, <3>2
  <2>5. Coherent(session')
    BY <1>0, <2>1
  <2>. QED
    BY <2>4, <2>5 DEF SnapshotsCoherent
<1>. QED
  BY <1>1, <1>2, <1>3, <1>4, <1>5, <1>6, <1>7 DEF UserCall

\* A save stores the coherent snapshot its writer holds.
LEMMA WriterStepCoherent ==
    ASSUME TypeOK, SnapshotsCoherent, NEW w \in Writers, WriterStep(w)
    PROVE  SnapshotsCoherent'
<1>1. CASE SaveSession(w)
  <2>1. writer[w] \in Operation /\ Coherent(writer[w].next) /\ session' = writer[w].next
    BY <1>1, BusyWriter DEF SaveSession, SnapshotsCoherent
  <2>2. writer'[w] = [writer[w] EXCEPT !.pc = "index"] /\ \A x \in Writers : x # w => writer'[x] = writer[x]
    BY <1>1 DEF SaveSession, TypeOK
  <2>3. writer'[w].next = writer[w].next
    BY <2>1, <2>2 DEF Operation
  <2>4. ASSUME NEW x \in Writers, writer'[x].pc # "idle" PROVE Coherent(writer'[x].next)
    <3>1. CASE x = w
      BY <3>1, <2>1, <2>3
    <3>2. CASE x # w
      BY <3>2, <2>2, <2>4 DEF SnapshotsCoherent
    <3>. QED
      BY <3>1, <3>2
  <2>5. Coherent(session')
    BY <2>1
  <2>. QED
    BY <2>4, <2>5 DEF SnapshotsCoherent
<1>2. CASE SaveIndex(w)
  <2>1. writer[w] \in Operation /\ writer[w].pc # "idle"
    BY <1>2, BusyWriter DEF SaveIndex
  <2>2. \A x \in Writers : x # w => writer'[x] = writer[x]
    BY <1>2 DEF SaveIndex, TypeOK
  <2>3. writer'[w] = [writer[w] EXCEPT !.pc = "persist"] \/ writer'[w] = Idle
    BY <1>2 DEF SaveIndex, TypeOK
  <2>4. writer'[w].next = writer[w].next \/ writer'[w].pc = "idle"
    BY <2>1, <2>3 DEF Operation, Idle
  <2>5. \A x \in Writers : \/ writer'[x].pc = "idle"
                           \/ writer[x].pc # "idle" /\ writer'[x].next = writer[x].next
    BY <2>1, <2>2, <2>4
  <2>6. session' = session
    BY <1>2 DEF SaveIndex
  <2>7. NothingNew
    BY <2>5, <2>6 DEF NothingNew
  <2>. QED
    BY <2>7, NothingNewCoherent
<1>. QED
  BY <1>1, <1>2 DEF WriterStep

\* The filter's answer and the recording of results make no snapshot.
LEMMA OtherWriterStepsCoherent ==
    ASSUME TypeOK, SnapshotsCoherent,
           \/ \E u \in Players : ChatFilterReturns(u) \/ RecordResult(u)
           \/ PersistOnlineResult
    PROVE  SnapshotsCoherent'
<1>1. CASE \E u \in Players : ChatFilterReturns(u)
  <2>1. PICK u \in Players : ChatFilterReturns(u)
    BY <1>1
  <2>2. writer[u] \in Operation /\ u \in Writers /\ writer[u].pc # "idle"
    BY <2>1, WriterFacts, BusyWriter DEF ChatFilterReturns
  <2>3. /\ writer'[u] = [writer[u] EXCEPT !.pc = "set"] \/ writer'[u] = Idle
        /\ \A x \in Writers : x # u => writer'[x] = writer[x]
    BY <2>1, <2>2 DEF ChatFilterReturns, TypeOK
  <2>4. writer'[u].next = writer[u].next \/ writer'[u].pc = "idle"
    BY <2>2, <2>3 DEF Operation, Idle
  <2>5. session' = session
    BY <2>1 DEF ChatFilterReturns
  <2>6. NothingNew
    BY <2>2, <2>3, <2>4, <2>5 DEF NothingNew
  <2>. QED
    BY <2>6, NothingNewCoherent
<1>2. CASE \E u \in Players : RecordResult(u)
  <2>1. \A x \in Writers : writer'[x] = writer[x] \/ writer'[x] = Idle
    BY <1>2 DEF RecordResult, TypeOK
  <2>2. session' = session
    BY <1>2 DEF RecordResult
  <2>3. NothingNew
    BY <2>1, <2>2 DEF NothingNew, Idle
  <2>. QED
    BY <2>3, NothingNewCoherent
<1>3. CASE PersistOnlineResult
  <2>1. writer[LockHolder] \in Operation /\ writer[LockHolder].pc # "idle"
    BY <1>3, WriterFacts, BusyWriter DEF PersistOnlineResult
  <2>2. /\ writer'[LockHolder] = [writer[LockHolder] EXCEPT !.pc = "record"] \/ writer'[LockHolder] = Idle
        /\ \A x \in Writers : x # LockHolder => writer'[x] = writer[x]
    BY <1>3, WriterFacts DEF PersistOnlineResult, TypeOK
  <2>3. writer'[LockHolder].next = writer[LockHolder].next \/ writer'[LockHolder].pc = "idle"
    BY <2>1, <2>2 DEF Operation, Idle
  <2>4. session' = session
    BY <1>3 DEF PersistOnlineResult
  <2>5. NothingNew
    BY <2>1, <2>2, <2>3, <2>4 DEF NothingNew
  <2>. QED
    BY <2>5, NothingNewCoherent
<1>. QED
  BY <1>1, <1>2, <1>3

\* The sweep starts a forfeit or a random action on the session it then reads.
LEMMA SweepCoherent ==
    ASSUME TypeOK, SnapshotsCoherent, SweepRead \/ SweepUnindex \/ SweepExpire \/ SweepTimeout
    PROVE  SnapshotsCoherent'
<1>0. session \in Session /\ Coherent(session)
  BY DEF TypeOK, SnapshotsCoherent
<1>1. CASE UNCHANGED <<session, writer>>
  BY <1>1 DEF SnapshotsCoherent
<1>2. CASE SweepExpire /\ ~UNCHANGED <<session, writer>>
  <2>1. /\ Proceed("expire", sweepCall.user, AfterExpiry(session, sweepCall.user))
        /\ ForfeitDue(session, sweepCall.user, sweepCall.at)
    BY <1>2 DEF SweepExpire
  <2>2. sweepCall.user \in Players
    BY <1>2, NoneIsNoSymbol DEF SweepExpire, TypeOK, SweepCall, NoSweepCall
  <2>3. Coherent(AfterExpiry(session, sweepCall.user))
    BY <1>0, <2>1, <2>2, AfterExpiryCoherent DEF ForfeitDue, DeadlinePassed
  <2>. QED
    BY <2>1, <2>3, ProceedCoherent
<1>3. CASE SweepTimeout /\ ~UNCHANGED <<session, writer>>
  <2>1. session.winner = None
    BY <1>3 DEF SweepTimeout, TurnTimeoutApplies
  <2>2. PICK next \in TimeoutOutcomes(session) : Proceed("sweepTimeout", sweepCall.user, next)
    BY <1>3 DEF SweepTimeout
  <2>3. Coherent(next)
    BY <1>0, <2>1, TimeoutOutcomesCoherent
  <2>. QED
    BY <2>2, <2>3, ProceedCoherent
<1>. QED
  BY <1>1, <1>2, <1>3 DEF SweepRead, SweepDecides, SweepUnindex

\* One step keeps every snapshot coherent: the cases of Next.
LEMMA CoherentNext == TypeOK /\ SnapshotsCoherent /\ [Next]_vars => SnapshotsCoherent'
<1>. SUFFICES ASSUME TypeOK, SnapshotsCoherent, [Next]_vars PROVE SnapshotsCoherent'
  OBVIOUS
<1>1. CASE \E u \in Users : UserCall(u)
  BY <1>1, UserCallCoherent
<1>2. CASE \E w \in Writers : WriterStep(w)
  BY <1>2, WriterStepCoherent
<1>3. CASE (\E u \in Players : ChatFilterReturns(u) \/ RecordResult(u)) \/ PersistOnlineResult
  BY <1>3, OtherWriterStepsCoherent
<1>4. CASE SweepRead \/ SweepUnindex \/ SweepExpire \/ SweepTimeout
  BY <1>4, SweepCoherent
<1>5. CASE IndexNewSession \/ Tick \/ UNCHANGED vars
  BY <1>5 DEF IndexNewSession, Tick, vars, SnapshotsCoherent
<1>6. CASE Crash
  <2>1. session' = session /\ \A w \in Writers : writer'[w].pc = "idle"
    BY <1>6 DEF Crash, Idle
  <2>2. NothingNew
    BY <2>1 DEF NothingNew
  <2>. QED
    BY <2>2, NothingNewCoherent
<1>. QED
  BY <1>1, <1>2, <1>3, <1>4, <1>5, <1>6 DEF Next

(***************************************************************************)
(* The stored snapshot and every snapshot about to be stored are coherent  *)
(* in every reachable state: withMatchLock orders the commands, and the    *)
(* chat save that ignores it writes a snapshot that was coherent when read.*)
(***************************************************************************)
THEOREM CoherentSnapshots == Spec => []SnapshotsCoherent
<1>1. Init => SnapshotsCoherent
  <2>. SUFFICES ASSUME Init PROVE SnapshotsCoherent
    OBVIOUS
  <2>1. Coherent(session)
    BY NewSessionCoherent DEF Init
  <2>2. \A w \in Writers : writer[w].pc = "idle"
    BY DEF Init, Idle
  <2>. QED
    BY <2>1, <2>2 DEF SnapshotsCoherent
<1>. QED
  BY <1>1, TypeCorrect, CoherentNext, PTL DEF Spec
------------------------------------------------------------------------------
(***************************************************************************)
(* What the match lock buys when no chat call writes past it (MaxChats =   *)
(* 0): an ended match stays ended, it is recorded at most once per player  *)
(* and as it was decided, a match that goes on is in the sweep's index,    *)
(* the sweep forfeits and plays for nobody it should leave alone, and the  *)
(* service implements MatchContract.                                       *)
(*                                                                         *)
(* The invariant ties the phase of the lock holder to what is stored: a    *)
(* command about to store a snapshot read the stored one, which is live    *)
(* and one version older; from then on the stored snapshot is the          *)
(* holder's, and nothing has been recorded before the match is persisted.  *)
(***************************************************************************)

Lock == writer[LockHolder]

\* No chat call is in progress.
ChatsIdle == \A u \in Players : writer[u].pc = "idle"

\* The snapshot about to be stored follows the stored one, which is live.
NextFollows == Lock.pc = "set" => session.winner = None /\ Lock.next.version = session.version + 1

\* After its save, the holder's snapshot is the stored one until it is done.
HolderStored == Lock.pc \in {"index", "persist", "record"} => session = Lock.next

\* Results are written of decided matches only.
PersistsDecided == Lock.pc \in {"persist", "record"} => session.winner # None

\* Nothing is recorded before the match is decided, stored and persisted.
NothingRecordedYet ==
    session.winner = None \/ Lock.pc \in {"index", "persist"} =>
        \A p \in Players : results[p] = <<>>

\* Only the holder in its last phase records, and each player once.
RecordsOnce ==
    /\ recording # {} => Lock.pc = "record"
    /\ \A p \in recording : results[p] = <<>>

\* A player's record, if there is one, is the stored decision.
RecordsDecision ==
    \A p \in Players : results[p] = <<>> \/ results[p] = <<Outcome(p, session.winner)>>

\* Once created, undecided means indexed, and the sweep unindexes decided
\* matches only.
UndecidedIsIndexed ==
    /\ creation = "done" /\ session.winner = None => indexed
    /\ sweepCall.kind = "unindex" => session.winner # None

\* Nothing happens to a match that nobody has been told of.
UncreatedIsUntouched == creation # "done" =>
    ~indexed /\ sweepCall = NoSweepCall /\ recording = {} /\ Untouched

LockInv ==
    /\ ChatsIdle /\ NextFollows /\ HolderStored /\ PersistsDecided
    /\ NothingRecordedYet /\ RecordsOnce /\ RecordsDecision /\ UndecidedIsIndexed

\* The whole inductive invariant.
IInv == TypeOK /\ SnapshotsCoherent /\ UncreatedIsUntouched /\ LockInv

------------------------------------------------------------------------------
(* A command that gets the lock *)

\* The stored snapshot is coherent, so it is over exactly when it has a winner.
LEMMA OverFacts ==
    SnapshotsCoherent => (IsTerminal(session) <=> session.winner # None)
BY DEF SnapshotsCoherent, Coherent, OverIffWinner

\* A command that starts on a live session with the next version.
LEMMA ProceedLocks ==
    ASSUME IInv, LockFree, session.winner = None,
           NEW kind, NEW u, NEW next, next.version = session.version + 1,
           Proceed(kind, u, next), sweepCall' = sweepCall \/ sweepCall' = NoSweepCall
    PROVE  LockInv'
<1>1. Lock' = [kind |-> kind, user |-> u, pc |-> "set", next |-> next]
  BY WriterFacts DEF Proceed, IInv, TypeOK, Lock
<1>2. Lock'.pc = "set" /\ Lock'.next = next
  BY <1>1
<1>3. UNCHANGED <<creation, session, indexed, recording, persisted, results>>
  BY DEF Proceed, ledger
<1>4. ChatsIdle'
  BY WriterFacts DEF IInv, LockInv, ChatsIdle, Proceed, TypeOK
<1>5. NextFollows' /\ HolderStored' /\ PersistsDecided'
  BY <1>2, <1>3 DEF NextFollows, HolderStored, PersistsDecided
<1>6. recording = {} /\ \A p \in Players : results[p] = <<>>
  BY DEF IInv, LockInv, RecordsOnce, NothingRecordedYet, LockFree, Lock
<1>7. NothingRecordedYet' /\ RecordsOnce' /\ RecordsDecision'
  BY <1>3, <1>6 DEF NothingRecordedYet, RecordsOnce, RecordsDecision
<1>8. UndecidedIsIndexed'
  BY <1>3, NoneIsNoSymbol DEF UndecidedIsIndexed, IInv, LockInv, NoSweepCall
<1>. QED
  BY <1>4, <1>5, <1>7, <1>8 DEF LockInv

\* Every function from a snapshot to the next one raises the version by one.
LEMMA VersionsRise ==
    ASSUME NEW s \in Session
    PROVE  /\ \A c \in Cells : AfterMove(s, c).version = s.version + 1
           /\ AfterPieSwap(s).version = s.version + 1
           /\ \A u, at : AfterDisconnect(s, u, at).version = s.version + 1
           /\ \A u : /\ AfterReconnect(s, u).version = s.version + 1
                     /\ AfterExpiry(s, u).version = s.version + 1
                     /\ AfterAbandon(s, u).version = s.version + 1
           /\ \A t \in TimeoutOutcomes(s) : t.version = s.version + 1
<1>1. \A c \in Cells : AfterMove(s, c).version = s.version + 1
  BY DEF Session, AfterMove
<1>2. AfterPieSwap(s).version = s.version + 1
  BY DEF Session, AfterPieSwap
<1>3. \A u, at : AfterDisconnect(s, u, at).version = s.version + 1
  BY DEF Session, AfterDisconnect
<1>4. \A u : /\ AfterReconnect(s, u).version = s.version + 1
             /\ AfterExpiry(s, u).version = s.version + 1
             /\ AfterAbandon(s, u).version = s.version + 1
  BY DEF Session, AfterReconnect, AfterExpiry, AfterAbandon
<1>5. \A t \in TimeoutOutcomes(s) : t.version = s.version + 1
  BY <1>1, <1>2 DEF TimeoutOutcomes
<1>. QED
  BY <1>1, <1>2, <1>3, <1>4, <1>5

\* A call of a user, when there is no chat.
LEMMA UserCallLocks ==
    ASSUME MaxChats = 0, IInv, NEW u \in Users, UserCall(u)
    PROVE  LockInv'
<1>0. session \in Session /\ (IsTerminal(session) <=> session.winner # None)
  BY OverFacts DEF IInv, TypeOK
<1>1. CASE \E c \in Cells, v \in 0 .. session.version : Move(u, c, v)
  <2>. PICK c \in Cells, v \in 0 .. session.version : Move(u, c, v)
    BY <1>1
  <2>. QED
    BY <1>0, VersionsRise, ProceedLocks DEF Move, Command
<1>2. CASE \E v \in 0 .. session.version : PieSwap(u, v)
  BY <1>0, <1>2, VersionsRise, ProceedLocks DEF PieSwap, Command
<1>3. CASE \E v \in 0 .. session.version : ClientTurnTimeout(u, v)
  <2>. PICK next \in TimeoutOutcomes(session) : Command("turnTimeout", u, next)
    BY <1>3 DEF ClientTurnTimeout
  <2>. QED
    BY <1>0, <1>3, VersionsRise, ProceedLocks DEF ClientTurnTimeout, TurnTimeoutApplies, Command
<1>4. CASE \E at \in CallTimes : MarkDisconnected(u, at)
  <2>. PICK at \in CallTimes : MarkDisconnected(u, at)
    BY <1>4
  <2>. QED
    BY <1>0, VersionsRise, ProceedLocks DEF MarkDisconnected, MayActOn, Command
<1>5. CASE \E at \in CallTimes : Reconnect(u, at)
  BY <1>0, <1>5, VersionsRise, ProceedLocks DEF Reconnect, MayActOn, Command
<1>6. CASE Abandon(u)
  BY <1>0, <1>6, VersionsRise, ProceedLocks DEF Abandon, MayActOn, Command
<1>7. CASE ChatRead(u)
  BY <1>7 DEF ChatRead, IInv, TypeOK
<1>. QED
  BY <1>1, <1>2, <1>3, <1>4, <1>5, <1>6, <1>7 DEF UserCall

------------------------------------------------------------------------------
(* The sweep *)

\* The sweep's own decision, and the commands it then makes.
LEMMA SweepLocks ==
    ASSUME IInv, SweepRead \/ SweepUnindex \/ SweepExpire \/ SweepTimeout
    PROVE  LockInv'
<1>0. session \in Session /\ (IsTerminal(session) <=> session.winner # None)
  BY OverFacts DEF IInv, TypeOK
<1>1. ASSUME UNCHANGED <<session, writer, recording, results>>, UndecidedIsIndexed'
      PROVE  LockInv'
  BY <1>1 DEF IInv, LockInv, Lock, ChatsIdle, NextFollows, HolderStored, PersistsDecided,
              NothingRecordedYet, RecordsOnce, RecordsDecision
<1>2. CASE SweepRead
  <2>1. UNCHANGED <<creation, session, writer, indexed, recording, results>>
    BY <1>2 DEF SweepRead, SweepDecides, ledger
  <2>2. IsTerminal(session) \/ sweepCall'.kind # "unindex"
    <3>1. CASE IsTerminal(session)
      BY <3>1
    <3>2. CASE \E p \in Players : SweepDecides("expire", FirstExpired(session), 0, now)
      BY <3>2 DEF SweepDecides
    <3>3. CASE SweepDecides("timeout", CurrentPlayer(session), session.version, 0)
      BY <3>3 DEF SweepDecides
    <3>. QED
      BY <1>2, <3>1, <3>2, <3>3 DEF SweepRead
  <2>3. UndecidedIsIndexed'
    BY <1>0, <2>1, <2>2 DEF UndecidedIsIndexed, IInv, LockInv
  <2>. QED
    BY <1>1, <2>1, <2>3
<1>3. CASE SweepUnindex
  <2>1. UNCHANGED <<session, writer, recording, results>>
    BY <1>3 DEF SweepUnindex, ledger
  <2>2. session.winner # None /\ sweepCall' = NoSweepCall
    BY <1>3 DEF SweepUnindex, IInv, LockInv, UndecidedIsIndexed
  <2>3. UndecidedIsIndexed'
    BY <2>1, <2>2 DEF UndecidedIsIndexed
  <2>. QED
    BY <1>1, <2>1, <2>3
<1>4. CASE (SweepExpire \/ SweepTimeout) /\ UNCHANGED <<session, writer>>
  <2>1. UNCHANGED <<creation, indexed, recording, results>> /\ sweepCall' = NoSweepCall
    BY <1>4 DEF SweepExpire, SweepTimeout, Proceed, ledger
  <2>2. UndecidedIsIndexed'
    BY <1>4, <2>1, NoneIsNoSymbol DEF UndecidedIsIndexed, IInv, LockInv, NoSweepCall
  <2>. QED
    BY <1>1, <1>4, <2>1, <2>2
<1>5. CASE SweepExpire /\ ~UNCHANGED <<session, writer>>
  <2>1. /\ Proceed("expire", sweepCall.user, AfterExpiry(session, sweepCall.user))
        /\ ForfeitDue(session, sweepCall.user, sweepCall.at)
        /\ LockFree /\ sweepCall' = NoSweepCall
    BY <1>5 DEF SweepExpire
  <2>. QED
    BY <1>0, <2>1, VersionsRise, ProceedLocks DEF ForfeitDue
<1>6. CASE SweepTimeout /\ ~UNCHANGED <<session, writer>>
  <2>1. session.winner = None /\ LockFree /\ sweepCall' = NoSweepCall
    BY <1>6 DEF SweepTimeout, TurnTimeoutApplies
  <2>2. PICK next \in TimeoutOutcomes(session) : Proceed("sweepTimeout", sweepCall.user, next)
    BY <1>6 DEF SweepTimeout
  <2>. QED
    BY <1>0, <2>1, <2>2, VersionsRise, ProceedLocks
<1>. QED
  BY <1>2, <1>3, <1>4, <1>5, <1>6

------------------------------------------------------------------------------
(* The holder's own steps *)

\* Only the lock holder saves when no chat call is in progress.
LEMMA SaverIsHolder ==
    ASSUME IInv, NEW w \in Writers, writer[w].pc # "idle"
    PROVE  w = LockHolder
BY DEF IInv, LockInv, ChatsIdle, Writers

\* The save of the snapshot.
LEMMA SaveSessionLocks ==
    ASSUME IInv, SaveSession(LockHolder)
    PROVE  LockInv'
<1>1. Lock \in Operation /\ Lock.pc = "set" /\ session' = Lock.next
  BY WriterFacts, BusyWriter DEF SaveSession, IInv, Lock
<1>2. Lock' = [Lock EXCEPT !.pc = "index"] /\ \A w \in Players : writer'[w] = writer[w]
  BY WriterFacts DEF SaveSession, Lock, IInv, TypeOK
<1>3. Lock'.pc = "index" /\ Lock'.next = Lock.next
  BY <1>1, <1>2 DEF Operation
<1>4. UNCHANGED <<creation, indexed, recording, results, sweepCall>>
  BY DEF SaveSession, ledger
<1>5. session.winner = None /\ recording = {} /\ \A p \in Players : results[p] = <<>>
  BY <1>1 DEF IInv, LockInv, NextFollows, RecordsOnce, NothingRecordedYet
<1>6. indexed /\ sweepCall.kind # "unindex"
  BY <1>1, <1>5, WriterFacts
     DEF IInv, LockInv, UndecidedIsIndexed, UncreatedIsUntouched, Untouched, Lock
<1>7. ChatsIdle'
  BY <1>2 DEF IInv, LockInv, ChatsIdle
<1>8. NextFollows' /\ HolderStored' /\ PersistsDecided'
  BY <1>1, <1>3 DEF NextFollows, HolderStored, PersistsDecided
<1>9. NothingRecordedYet' /\ RecordsOnce' /\ RecordsDecision'
  BY <1>4, <1>5 DEF NothingRecordedYet, RecordsOnce, RecordsDecision
<1>10. UndecidedIsIndexed'
  BY <1>4, <1>6 DEF UndecidedIsIndexed
<1>. QED
  BY <1>7, <1>8, <1>9, <1>10 DEF LockInv

\* The index update, and the way on to the results.
LEMMA SaveIndexLocks ==
    ASSUME IInv, SaveIndex(LockHolder)
    PROVE  LockInv'
<1>1. Lock \in Operation /\ Lock.pc = "index" /\ session = Lock.next
  BY WriterFacts, BusyWriter DEF SaveIndex, IInv, LockInv, HolderStored, Lock
<1>2. UNCHANGED <<session, recording, results, sweepCall>> /\ indexed' = ~IsTerminal(session)
  BY <1>1 DEF SaveIndex, StaysIndexed, ledger, Lock
<1>3. /\ Lock' = IF session.winner # None THEN [Lock EXCEPT !.pc = "persist"] ELSE Idle
      /\ \A w \in Players : writer'[w] = writer[w]
  BY <1>1, WriterFacts DEF SaveIndex, ResultDue, Lock, IInv, TypeOK
<1>4. /\ Lock'.pc \in {"persist", "idle"}
      /\ Lock'.pc = "persist" => Lock'.next = Lock.next /\ session.winner # None
  BY <1>1, <1>3 DEF Operation, Idle
<1>5. recording = {} /\ \A p \in Players : results[p] = <<>>
  BY <1>1 DEF IInv, LockInv, RecordsOnce, NothingRecordedYet
<1>6. ChatsIdle'
  BY <1>3 DEF IInv, LockInv, ChatsIdle
<1>7. NextFollows' /\ HolderStored' /\ PersistsDecided'
  BY <1>1, <1>2, <1>4 DEF NextFollows, HolderStored, PersistsDecided
<1>8. NothingRecordedYet' /\ RecordsOnce' /\ RecordsDecision'
  BY <1>2, <1>5 DEF NothingRecordedYet, RecordsOnce, RecordsDecision
<1>9. UndecidedIsIndexed'
  BY <1>2, OverFacts DEF UndecidedIsIndexed, IInv, LockInv
<1>. QED
  BY <1>6, <1>7, <1>8, <1>9 DEF LockInv

\* The match is marked as persisted.
LEMMA PersistLocks ==
    ASSUME IInv, PersistOnlineResult
    PROVE  LockInv'
<1>1. Lock \in Operation /\ Lock.pc = "persist" /\ session = Lock.next /\ session.winner # None
  BY WriterFacts, BusyWriter DEF PersistOnlineResult, IInv, LockInv, HolderStored,
                                 PersistsDecided, Lock
<1>2. UNCHANGED <<creation, session, indexed, results, sweepCall>>
  BY DEF PersistOnlineResult
<1>3. /\ Lock' = [Lock EXCEPT !.pc = "record"] \/ (Lock' = Idle /\ recording' = recording)
      /\ \A w \in Players : writer'[w] = writer[w]
  BY WriterFacts DEF PersistOnlineResult, Lock, IInv, TypeOK
<1>4. \/ Lock'.pc = "record" /\ Lock'.next = Lock.next
      \/ Lock'.pc = "idle" /\ recording' = recording
  BY <1>1, <1>3 DEF Operation, Idle
<1>5. recording = {} /\ \A p \in Players : results[p] = <<>>
  BY <1>1 DEF IInv, LockInv, RecordsOnce, NothingRecordedYet
<1>6. recording' \subseteq Players
  BY <1>5 DEF PersistOnlineResult
<1>7. ChatsIdle'
  BY <1>3 DEF IInv, LockInv, ChatsIdle
<1>8. NextFollows' /\ HolderStored' /\ PersistsDecided'
  BY <1>1, <1>2, <1>4 DEF NextFollows, HolderStored, PersistsDecided
<1>9. NothingRecordedYet' /\ RecordsOnce' /\ RecordsDecision'
  BY <1>2, <1>4, <1>5, <1>6 DEF NothingRecordedYet, RecordsOnce, RecordsDecision
<1>10. UndecidedIsIndexed'
  BY <1>2 DEF UndecidedIsIndexed, IInv, LockInv
<1>. QED
  BY <1>7, <1>8, <1>9, <1>10 DEF LockInv

\* What one player's record is, before and after it is written.
LEMMA RecordWrites ==
    ASSUME IInv, NEW u \in Players, RecordResult(u)
    PROVE  /\ Lock.pc = "record" /\ session = Lock.next /\ session.winner # None
           /\ results[u] = <<>> /\ session' = session
           /\ results'[u] \in {<<>>, <<Outcome(u, session.winner)>>}
           /\ \A p \in Players : p # u => results'[p] = results[p]
           /\ \/ results' = [results EXCEPT ![u] = <<Outcome(u, session.winner)>>]
              \/ results' = results
<1>1. Lock.pc = "record" /\ results[u] = <<>>
  BY DEF RecordResult, IInv, LockInv, RecordsOnce
<1>2. session = Lock.next /\ session.winner # None /\ session' = session
  BY <1>1 DEF RecordResult, IInv, LockInv, HolderStored, PersistsDecided
<1>3. \/ results' = [results EXCEPT ![u] = Append(results[u], Outcome(u, session.winner))]
      \/ results' = results
  BY <1>2 DEF RecordResult, Lock
<1>4. Append(<<>>, Outcome(u, session.winner)) = <<Outcome(u, session.winner)>>
  OBVIOUS
<1>5. \/ results' = [results EXCEPT ![u] = <<Outcome(u, session.winner)>>]
      \/ results' = results
  BY <1>1, <1>3, <1>4
<1>. QED
  BY <1>1, <1>2, <1>5 DEF IInv, TypeOK

\* The record of one player.
LEMMA RecordLocks ==
    ASSUME IInv, NEW u \in Players, RecordResult(u)
    PROVE  LockInv'
<1>1. /\ Lock.pc = "record" /\ session = Lock.next /\ session.winner # None
      /\ results[u] = <<>> /\ session' = session
      /\ results'[u] \in {<<>>, <<Outcome(u, session.winner)>>}
      /\ \A p \in Players : p # u => results'[p] = results[p]
  BY RecordWrites
<1>2. UNCHANGED <<creation, indexed, sweepCall>> /\ recording' = recording \ {u} /\ recording \subseteq Players
  BY DEF RecordResult, IInv, TypeOK
<1>3. /\ Lock' = Lock \/ (Lock' = Idle /\ recording' = {})
      /\ \A w \in Players : writer'[w] = writer[w] \/ writer'[w] = Idle
  BY WriterFacts DEF RecordResult, Lock, IInv, TypeOK
<1>4. \/ Lock'.pc = "record" /\ Lock'.next = Lock.next
      \/ Lock'.pc = "idle" /\ recording' = {}
  BY <1>1, <1>3 DEF Idle
<1>5. ChatsIdle'
  BY <1>3 DEF IInv, LockInv, ChatsIdle, Idle
<1>6. NextFollows' /\ HolderStored' /\ PersistsDecided' /\ NothingRecordedYet'
  BY <1>1, <1>4 DEF NextFollows, HolderStored, PersistsDecided, NothingRecordedYet
<1>7. RecordsOnce' /\ RecordsDecision'
  BY <1>1, <1>2, <1>4 DEF RecordsOnce, RecordsDecision, IInv, LockInv
<1>8. UndecidedIsIndexed'
  BY <1>1, <1>2 DEF UndecidedIsIndexed, IInv, LockInv
<1>. QED
  BY <1>5, <1>6, <1>7, <1>8 DEF LockInv

\* A crash: the holder is gone, Redis and the database stay.
LEMMA CrashLocks ==
    ASSUME IInv, Crash
    PROVE  LockInv'
<1>1. /\ UNCHANGED <<session, indexed, results>> /\ recording' = {} /\ sweepCall' = NoSweepCall
      /\ creation' = "done" => creation = "done"
  BY DEF Crash
<1>2. Lock'.pc = "idle" /\ ChatsIdle'
  BY WriterFacts DEF Crash, Idle, Lock, ChatsIdle
<1>3. NextFollows' /\ HolderStored' /\ PersistsDecided'
  BY <1>2 DEF NextFollows, HolderStored, PersistsDecided
<1>4. NothingRecordedYet' /\ RecordsOnce' /\ RecordsDecision'
  BY <1>1, <1>2 DEF NothingRecordedYet, RecordsOnce, RecordsDecision, IInv, LockInv
<1>5. UndecidedIsIndexed'
  BY <1>1, NoneIsNoSymbol DEF UndecidedIsIndexed, IInv, LockInv, NoSweepCall
<1>. QED
  BY <1>2, <1>3, <1>4, <1>5 DEF LockInv

------------------------------------------------------------------------------
(* The invariant *)

\* One step keeps the invariant: the cases of Next.
LEMMA LockNext == MaxChats = 0 /\ IInv /\ [Next]_vars => LockInv'
<1>. SUFFICES ASSUME MaxChats = 0, IInv, [Next]_vars PROVE LockInv'
  OBVIOUS
<1>1. CASE \E u \in Users : UserCall(u)
  BY <1>1, UserCallLocks
<1>2. CASE \E u \in Players : ChatFilterReturns(u)
  BY <1>2 DEF ChatFilterReturns, IInv, LockInv, ChatsIdle
<1>3. CASE \E u \in Players : RecordResult(u)
  BY <1>3, RecordLocks
<1>4. CASE \E w \in Writers : WriterStep(w)
  <2>. PICK w \in Writers : WriterStep(w)
    BY <1>4
  <2>1. w = LockHolder
    BY SaverIsHolder DEF WriterStep, SaveSession, SaveIndex
  <2>. QED
    BY <2>1, SaveSessionLocks, SaveIndexLocks DEF WriterStep
<1>5. CASE PersistOnlineResult
  BY <1>5, PersistLocks
<1>6. CASE SweepRead \/ SweepUnindex \/ SweepExpire \/ SweepTimeout
  BY <1>6, SweepLocks
<1>7. CASE Tick \/ UNCHANGED vars
  <2>1. UNCHANGED <<creation, session, writer, indexed, recording, results, sweepCall>>
    BY <1>7 DEF Tick, vars, ledger
  <2>. QED
    BY <2>1 DEF IInv, LockInv, Lock, ChatsIdle, NextFollows, HolderStored, PersistsDecided,
                NothingRecordedYet, RecordsOnce, RecordsDecision, UndecidedIsIndexed
<1>8. CASE Crash
  BY <1>8, CrashLocks
<1>9. CASE IndexNewSession
  <2>1. UNCHANGED <<session, writer, recording, results, sweepCall>> /\ indexed' = ~IsTerminal(session)
    BY <1>9 DEF IndexNewSession, StaysIndexed, ledger
  <2>2. UndecidedIsIndexed'
    BY <2>1, OverFacts DEF UndecidedIsIndexed, IInv, LockInv
  <2>. QED
    BY <2>1, <2>2 DEF IInv, LockInv, Lock, ChatsIdle, NextFollows, HolderStored, PersistsDecided,
                      NothingRecordedYet, RecordsOnce, RecordsDecision
<1>. QED
  BY <1>1, <1>2, <1>3, <1>4, <1>5, <1>6, <1>7, <1>8, <1>9 DEF Next

\* Before it is in the index a match is out of everybody's reach: the steps
\* there are then are the index write, the clock and a crash.
LEMMA UncreatedNext == TypeOK /\ UncreatedIsUntouched /\ [Next]_vars => UncreatedIsUntouched'
<1>. SUFFICES ASSUME TypeOK, UncreatedIsUntouched, [Next]_vars, creation' # "done"
              PROVE  (~indexed /\ sweepCall = NoSweepCall /\ recording = {} /\ Untouched)'
  BY DEF UncreatedIsUntouched
<1>1. creation # "done"
  BY DEF Next, IndexNewSession, UserCall, ChatFilterReturns, RecordResult, WriterStep, SaveSession,
         SaveIndex, PersistOnlineResult, SweepRead, SweepDecides, SweepUnindex, SweepExpire,
         SweepTimeout, Proceed, Tick, Crash, vars, Command, Move, PieSwap, ClientTurnTimeout,
         MarkDisconnected, Reconnect, Abandon, ChatRead
<1>2. ~indexed /\ sweepCall = NoSweepCall /\ recording = {} /\ Untouched
  BY <1>1 DEF UncreatedIsUntouched
<1>3. ~IndexNewSession /\ \A u \in Users : ~UserCall(u)
  BY <1>1 DEF IndexNewSession, UserCall
<1>4. \A w \in Writers : ~WriterStep(w)
  BY <1>2 DEF Untouched, WriterStep, SaveSession, SaveIndex
<1>5. ~PersistOnlineResult /\ \A u \in Players : ~ChatFilterReturns(u)
  BY <1>2, WriterFacts DEF Untouched, PersistOnlineResult, ChatFilterReturns
<1>6. ~SweepRead /\ ~SweepUnindex /\ ~SweepExpire /\ ~SweepTimeout
  BY <1>2, NoneIsNoSymbol DEF SweepRead, SweepUnindex, SweepExpire, SweepTimeout, NoSweepCall
<1>7. \A u \in Players : ~RecordResult(u)
  BY <1>2 DEF RecordResult
<1>8. CASE Tick \/ UNCHANGED vars
  BY <1>2, <1>8 DEF Tick, vars, ledger, Untouched
<1>9. CASE Crash
  BY <1>2, <1>9 DEF Crash, Untouched, Idle
<1>. QED
  BY <1>3, <1>4, <1>5, <1>6, <1>7, <1>8, <1>9 DEF Next

\* The initial state.
LEMMA LockInit == Init => LockInv
<1>. SUFFICES ASSUME Init PROVE LockInv
  OBVIOUS
<1>1. Lock.pc = "idle" /\ ChatsIdle
  BY WriterFacts DEF Init, Lock, ChatsIdle, Idle
<1>2. UndecidedIsIndexed
  BY NoneIsNoSymbol DEF Init, UndecidedIsIndexed, NoSweepCall
<1>. QED
  BY <1>1, <1>2 DEF Init, LockInv, NextFollows, HolderStored, PersistsDecided,
                    NothingRecordedYet, RecordsOnce, RecordsDecision

(***************************************************************************)
(* Without unlocked chat saves the invariant of the lock holds in every    *)
(* reachable state, for any users, board and times and any crashes.        *)
(***************************************************************************)
THEOREM LockInvariant == MaxChats = 0 => (Spec => []IInv)
<1>. SUFFICES ASSUME MaxChats = 0 PROVE Spec => []IInv
  OBVIOUS
<1>1. IInv /\ [Next]_vars => LockInv'
  BY LockNext DEF IInv
<1>2. Init => UncreatedIsUntouched
  BY DEF Init, Idle, UncreatedIsUntouched, Untouched
<1>. QED
  BY <1>1, <1>2, UncreatedNext, LockInit, TypeCorrect, CoherentSnapshots, PTL DEF Spec, IInv

(***************************************************************************)
(* A match that goes on is in the index the sweep reads, however the index *)
(* update, the sweep's own removals and crashes interleave; the only one   *)
(* that is not was cut short in createSession, and nobody ever touches it. *)
(***************************************************************************)
THEOREM LiveMatchesAreIndexed == MaxChats = 0 => (Spec => []LiveIsIndexed)
<1>1. IInv => LiveIsIndexed
  BY OverFacts
     DEF IInv, TypeOK, LockInv, UndecidedIsIndexed, UncreatedIsUntouched, LiveIsIndexed
<1>. QED
  BY <1>1, LockInvariant, PTL

(***************************************************************************)
(* Whatever is recorded for a player is what the stored, ended session     *)
(* says of that player.                                                    *)
(***************************************************************************)
THEOREM ResultsAgree == MaxChats = 0 => (Spec => []ResultsAgreeWithSession)
<1>1. IInv => ResultsAgreeWithSession
  <2>. SUFFICES ASSUME IInv, NEW p \in Players, NEW i \in DOMAIN results[p]
                PROVE  IsTerminal(session) /\ results[p][i] = Outcome(p, session.winner)
    BY DEF ResultsAgreeWithSession
  <2>1. results[p] # <<>>
    OBVIOUS
  <2>2. results[p] = <<Outcome(p, session.winner)>> /\ session.winner # None
    BY <2>1 DEF IInv, LockInv, RecordsDecision, NothingRecordedYet
  <2>. QED
    BY <2>2, OverFacts DEF IInv
<1>. QED
  BY <1>1, LockInvariant, PTL

\* Only the holder's save changes the stored session, and only of a live match.
LEMMA SessionChanges ==
    ASSUME MaxChats = 0, IInv, [Next]_vars, session' # session
    PROVE  SaveSession(LockHolder)
<1>1. CASE \E w \in Writers : SaveSession(w)
  BY <1>1, SaverIsHolder DEF SaveSession
<1>2. CASE \E u \in Users : UserCall(u)
  BY <1>2 DEF UserCall, Move, PieSwap, ClientTurnTimeout, MarkDisconnected, Reconnect, Abandon,
              ChatRead, Command, Proceed
<1>3. CASE \E u \in Players : ChatFilterReturns(u) \/ RecordResult(u)
  BY <1>3 DEF ChatFilterReturns, RecordResult
<1>4. CASE PersistOnlineResult \/ IndexNewSession \/ Tick \/ Crash \/ \E w \in Writers : SaveIndex(w)
  BY <1>4 DEF PersistOnlineResult, IndexNewSession, Tick, Crash, SaveIndex
<1>5. CASE SweepRead \/ SweepUnindex \/ SweepExpire \/ SweepTimeout
  BY <1>5 DEF SweepRead, SweepDecides, SweepUnindex, SweepExpire, SweepTimeout, Proceed
<1>6. CASE UNCHANGED vars
  BY <1>6 DEF vars
<1>. QED
  BY <1>1, <1>2, <1>3, <1>4, <1>5, <1>6 DEF Next, WriterStep

(***************************************************************************)
(* An ended match stays ended, with the same winner: every command looks   *)
(* at the session under the lock, and what it stores follows what it saw.  *)
(***************************************************************************)
THEOREM EndedIsFinal == MaxChats = 0 => (Spec => TerminalIsFinal)
<1>. SUFFICES ASSUME MaxChats = 0 PROVE Spec => TerminalIsFinal
  OBVIOUS
<1>1. IInv /\ [Next]_vars =>
        [IsTerminal(session) => IsTerminal(session') /\ session'.winner = session.winner]_vars
  <2>. SUFFICES ASSUME IInv, [Next]_vars, IsTerminal(session)
                PROVE  session' = session
    OBVIOUS
  <2>1. ~SaveSession(LockHolder)
    BY OverFacts DEF IInv, LockInv, NextFollows, SaveSession, Lock
  <2>. QED
    BY <2>1, SessionChanges
<1>. QED
  BY <1>1, LockInvariant, PTL DEF Spec, TerminalIsFinal

------------------------------------------------------------------------------
(* Recording once: a double record takes an unlocked chat save and a crash *)

\* Nothing is recorded of a match this process has not marked as persisted.
LedgerInv ==
    /\ ~persisted => recording = {} /\ \A p \in Players : results[p] = <<>>
    /\ \A p \in recording : results[p] = <<>>
    /\ RecordedAtMostOnce

\* Without a crash the mark stays, and the holder records each player once.
LEMMA LedgerNext ==
    ASSUME MaxCrashes = 0, TypeOK, LedgerInv, [Next]_vars
    PROVE  LedgerInv'
<1>1. CASE UNCHANGED ledger
  BY <1>1 DEF ledger, LedgerInv, RecordedAtMostOnce
<1>2. CASE PersistOnlineResult
  <2>1. persisted' /\ results' = results
    BY <1>2 DEF PersistOnlineResult, AlreadyPersisted
  <2>2. recording' \subseteq Players /\ (\A p \in recording' : results[p] = <<>>)
    BY <1>2 DEF PersistOnlineResult, AlreadyPersisted, LedgerInv, TypeOK
  <2>. QED
    BY <2>1, <2>2 DEF LedgerInv, RecordedAtMostOnce
<1>3. CASE \E u \in Players : RecordResult(u)
  <2>. PICK u \in Players : RecordResult(u)
    BY <1>3
  <2>1. persisted' = persisted /\ u \in recording /\ recording' = recording \ {u}
    BY DEF RecordResult
  <2>2. results[u] = <<>> /\ persisted
    BY <2>1 DEF LedgerInv
  <2>. DEFINE outcome == Outcome(u, writer[LockHolder].next.winner)
  <2>3. results' = [results EXCEPT ![u] = Append(<<>>, outcome)] \/ results' = results
    BY <2>2 DEF RecordResult
  <2>. HIDE DEF outcome
  <2>4. Append(<<>>, outcome) = <<outcome>> /\ \A x : Len(<<>>) <= 1 /\ Len(<<x>>) <= 1
    OBVIOUS
  <2>5. results'[u] = <<outcome>> \/ results'[u] = <<>>
    BY <2>2, <2>3, <2>4 DEF TypeOK
  <2>6. \A p \in Players : p # u => results'[p] = results[p]
    BY <2>3 DEF TypeOK
  <2>7. Len(results'[u]) <= 1
    BY <2>4, <2>5
  <2>. QED
    BY <2>1, <2>2, <2>6, <2>7 DEF LedgerInv, RecordedAtMostOnce, TypeOK
<1>4. CASE Crash
  BY <1>4 DEF Crash, TypeOK
<1>5. CASE \E u \in Users : UserCall(u)
  BY <1>1, <1>5 DEF UserCall, Move, PieSwap, ClientTurnTimeout, MarkDisconnected, Reconnect,
                    Abandon, ChatRead, Command, Proceed
<1>6. CASE SweepRead \/ SweepUnindex \/ SweepExpire \/ SweepTimeout
  BY <1>1, <1>6 DEF SweepRead, SweepDecides, SweepUnindex, SweepExpire, SweepTimeout, Proceed
<1>7. CASE \/ (\E u \in Players : ChatFilterReturns(u)) \/ (\E w \in Writers : WriterStep(w))
           \/ IndexNewSession \/ Tick \/ UNCHANGED vars
  BY <1>1, <1>7 DEF ChatFilterReturns, WriterStep, SaveSession, SaveIndex, IndexNewSession, Tick, vars
<1>. QED
  BY <1>2, <1>3, <1>4, <1>5, <1>6, <1>7 DEF Next

(***************************************************************************)
(* persistOnlineResult records a match at most once per player if nothing  *)
(* writes past the lock, whatever crashes, and also if chat calls do but   *)
(* the process does not crash: only both together could record it twice.   *)
(***************************************************************************)
THEOREM RecordedOnce == MaxChats = 0 \/ MaxCrashes = 0 => (Spec => []RecordedAtMostOnce)
<1>1. MaxChats = 0 => (Spec => []RecordedAtMostOnce)
  <2>1. \A x : Len(<<>>) <= 1 /\ Len(<<x>>) <= 1
    OBVIOUS
  <2>2. IInv => RecordedAtMostOnce
    <3>. SUFFICES ASSUME IInv, NEW p \in Players PROVE Len(results[p]) <= 1
      BY DEF RecordedAtMostOnce
    <3>1. results[p] = <<>> \/ results[p] = <<Outcome(p, session.winner)>>
      BY DEF IInv, LockInv, RecordsDecision
    <3>. QED
      BY <2>1, <3>1
  <2>. QED
    BY <2>2, LockInvariant, PTL
<1>2. ASSUME MaxCrashes = 0 PROVE Spec => []RecordedAtMostOnce
  <2>1. Init => LedgerInv
    BY DEF Init, LedgerInv, RecordedAtMostOnce
  <2>2. LedgerInv /\ TypeOK /\ [Next]_vars => LedgerInv'
    BY <1>2, LedgerNext
  <2>3. LedgerInv => RecordedAtMostOnce
    BY DEF LedgerInv
  <2>. QED
    BY <2>1, <2>2, <2>3, TypeCorrect, PTL DEF Spec
<1>. QED
  BY <1>1, <1>2

------------------------------------------------------------------------------
(* The contract *)

\* What is recorded under, as the contract sees it.
LEMMA SymbolOfOutcome ==
    ASSUME NEW p \in Players, NEW winner \in Symbols
    PROVE  SymbolRecorded(p, Outcome(p, winner)) = winner
BY PlayersAssumption DEF SymbolRecorded, Outcome, SymbolOf, Opponent, Players, Symbols

\* One record, as the contract sees it.
LEMMA RecordedSequence ==
    ASSUME NEW p \in Players, NEW winner \in Symbols, NEW r, r = <<Outcome(p, winner)>>
    PROVE  [i \in DOMAIN r |-> SymbolRecorded(p, r[i])] = <<winner>>
<1>1. DOMAIN r = 1 .. 1 /\ r[1] = Outcome(p, winner)
  OBVIOUS
<1>2. \A i \in DOMAIN r : SymbolRecorded(p, r[i]) = winner
  BY <1>1, SymbolOfOutcome
<1>3. <<winner>> = [i \in 1 .. 1 |-> winner]
  OBVIOUS
<1>. QED
  BY <1>1, <1>2, <1>3

\* Every step is a step of the contract, or none of its business.
LEMMA ContractStep ==
    ASSUME MaxChats = 0, IInv, [Next]_vars
    PROVE  [Contract!ContractNext]_(Contract!contractVars)
<1>1. CASE session' # session
  <2>1. SaveSession(LockHolder)
    BY <1>1, SessionChanges
  <2>2. session.winner = None /\ session'.version = session.version + 1 /\ results' = results
    BY <2>1 DEF IInv, LockInv, NextFollows, SaveSession, ledger, Lock
  <2>3. session'.winner \in Symbols \cup {None}
    BY <2>1, WriterFacts, BusyWriter DEF IInv, SaveSession, Session
  <2>4. CASE session'.winner = None
    BY <2>2, <2>4 DEF Contract!ContractNext, Contract!Advance
  <2>5. CASE session'.winner \in Symbols
    BY <2>2, <2>5 DEF Contract!ContractNext, Contract!Decide
  <2>. QED
    BY <2>3, <2>4, <2>5
<1>2. CASE session' = session /\ results' = results
  BY <1>2 DEF Contract!contractVars
<1>3. CASE session' = session /\ results' # results
  <2>1. PICK u \in Players : RecordResult(u)
    BY <1>3 DEF Next, UserCall, Move, PieSwap, ClientTurnTimeout, MarkDisconnected, Reconnect,
                Abandon, ChatRead, Command, Proceed, ledger, vars, ChatFilterReturns, WriterStep,
                SaveSession, SaveIndex, PersistOnlineResult, SweepRead, SweepDecides,
                SweepUnindex, SweepExpire, SweepTimeout, IndexNewSession, Tick, Crash
  <2>2. /\ session.winner # None /\ results[u] = <<>>
        /\ results' = [results EXCEPT ![u] = <<Outcome(u, session.winner)>>]
    BY <1>3, <2>1, RecordWrites
  <2>3. session.winner \in Symbols
    BY <2>2 DEF IInv, TypeOK, Session
  <2>. DEFINE recorded == [p \in Players |-> [i \in DOMAIN results[p] |-> SymbolRecorded(p, results[p][i])]]
  <2>4. recorded[u] = <<>>
    BY <2>2
  <2>5. recorded'[u] = <<session.winner>>
    BY <2>2, <2>3, RecordedSequence DEF IInv, TypeOK
  <2>6. \A p \in Players : p # u => recorded'[p] = recorded[p]
    BY <2>2
  <2>7. recorded' = [recorded EXCEPT ![u] = <<session.winner>>]
    BY <2>5, <2>6
  <2>. QED
    BY <1>3, <2>2, <2>4, <2>7 DEF Contract!ContractNext, Contract!Record
<1>. QED
  BY <1>1, <1>2, <1>3

(***************************************************************************)
(* The locked service implements the contract of a match: it advances one  *)
(* version at a time, is decided once, and the decision is recorded at     *)
(* most once per player, for any board, users, times and crashes.          *)
(***************************************************************************)
THEOREM ContractImplemented == MaxChats = 0 => (Spec => ImplementsContract)
<1>. SUFFICES ASSUME MaxChats = 0 PROVE Spec => ImplementsContract
  OBVIOUS
<1>1. Init => Contract!ContractInit
  BY DEF Init, NewSession, Contract!ContractInit
<1>2. IInv /\ [Next]_vars => [Contract!ContractNext]_(Contract!contractVars)
  BY ContractStep
<1>. QED
  BY <1>1, <1>2, LockInvariant, PTL DEF Spec, ImplementsContract, Contract!ContractSpec

------------------------------------------------------------------------------
(* What the sweep may do to players who are away *)

\* What the sweep saw before it asked for the lock was already past, and a
\* session that still has the version it saw still has the timer it saw.
SweepSawPast ==
    /\ sweepCall.kind = "expire" => sweepCall.at <= now
    /\ sweepCall.kind = "timeout" =>
          /\ sweepCall.version <= session.version
          /\ sweepCall.version = session.version => session.timerEndsAt <= now

\* Somebody is away beyond the deadline, and the winner is the opponent.
Forfeits(winner) ==
    \E p \in Players : /\ session.connection[p] = "DISCONNECTED"
                       /\ DeadlinePassed(session, p, now)
                       /\ winner = SymbolOf(Opponent(p))

\* A forfeit about to be stored has its reason in the stored session.
ForfeitIsDue == Lock.pc = "set" /\ Lock.next.status = "expired" => Forfeits(Lock.next.winner)

\* The clock only goes forward.
LEMMA ClockAdvances == ASSUME TypeOK, [Next]_vars PROVE now' \in Nat /\ now <= now'
<1>1. now' = now \/ now' = now + 1
  BY DEF Next, UserCall, Move, PieSwap, ClientTurnTimeout, MarkDisconnected, Reconnect,
         Abandon, ChatRead, Command, Proceed, vars, ChatFilterReturns, RecordResult, WriterStep,
         SaveSession, SaveIndex, PersistOnlineResult, SweepRead, SweepDecides,
         SweepUnindex, SweepExpire, SweepTimeout, IndexNewSession, Tick, Crash
<1>. QED
  BY <1>1 DEF TypeOK

\* The sweep decides only when it looks; otherwise its call stays or is gone.
LEMMA SweepDecidesByReading ==
    ASSUME [Next]_vars
    PROVE  sweepCall' = sweepCall \/ sweepCall' = NoSweepCall \/ SweepRead
BY DEF Next, UserCall, Move, PieSwap, ClientTurnTimeout, MarkDisconnected, Reconnect,
       Abandon, ChatRead, Command, vars, ChatFilterReturns, RecordResult, WriterStep,
       SaveSession, SaveIndex, PersistOnlineResult, SweepUnindex, SweepExpire, SweepTimeout,
       IndexNewSession, Tick, Crash

\* A step keeps what is known of the sweep's call.
LEMMA SweepSawPastNext ==
    ASSUME MaxChats = 0, IInv, SweepSawPast, [Next]_vars
    PROVE  SweepSawPast'
<1>0. /\ now \in Nat /\ now' \in Nat /\ now <= now'
      /\ session \in Session /\ sweepCall \in SweepCall \cup {NoSweepCall}
  BY ClockAdvances DEF IInv, TypeOK
<1>1. CASE sweepCall' = NoSweepCall
  BY <1>1, NoneIsNoSymbol DEF SweepSawPast, NoSweepCall
<1>2. CASE SweepRead
  <2>1. now' = now /\ session' = session
    BY <1>2 DEF SweepRead, SweepDecides
  <2>2. CASE SweepDecides("unindex", None, 0, 0)
    BY <2>2 DEF SweepDecides, SweepSawPast
  <2>3. CASE SweepDecides("expire", FirstExpired(session), 0, now)
    BY <1>0, <2>1, <2>3 DEF SweepDecides, SweepSawPast
  <2>4. CASE session.timerEndsAt <= now /\ SweepDecides("timeout", CurrentPlayer(session), session.version, 0)
    BY <1>0, <2>1, <2>4 DEF SweepDecides, SweepSawPast, Session
  <2>. QED
    BY <1>2, <2>2, <2>3, <2>4 DEF SweepRead
<1>3. CASE sweepCall' = sweepCall /\ session' = session
  <2>1. sweepCall.kind = "expire" => sweepCall.at \in Nat /\ sweepCall.at <= now'
    BY <1>0, NoneIsNoSymbol DEF SweepSawPast, SweepCall, NoSweepCall
  <2>2. session.timerEndsAt \in Nat
    BY <1>0 DEF Session
  <2>. QED
    BY <1>0, <1>3, <2>1, <2>2 DEF SweepSawPast
<1>4. CASE sweepCall' = sweepCall /\ session' # session
  <2>1. session'.version = session.version + 1 /\ now' = now
    BY <1>4, SessionChanges DEF IInv, LockInv, NextFollows, SaveSession, Lock
  <2>2. session.version \in Nat /\ (sweepCall.kind = "timeout" => sweepCall.version \in Nat)
    BY <1>0, NoneIsNoSymbol DEF Session, SweepCall, NoSweepCall
  <2>. QED
    BY <1>4, <2>1, <2>2 DEF SweepSawPast
<1>. QED
  BY <1>1, <1>2, <1>3, <1>4, SweepDecidesByReading

\* The holder's snapshot is set by one of the commands, or stays.
LEMMA HolderChanges ==
    ASSUME MaxChats = 0, IInv, [Next]_vars, Lock'.pc = "set", Lock' # Lock
    PROVE  /\ LockFree /\ session' = session /\ now' = now
           /\ \/ Lock'.next.status # "expired" /\ Lock'.kind # "sweepTimeout"
              \/ SweepExpire /\ Lock'.kind = "expire"
              \/ SweepTimeout /\ Lock'.next.status # "expired"
<1>0. session \in Session /\ now \in Nat /\ writer \in [Writers -> Operation \cup {Idle}]
  BY DEF IInv, TypeOK
<1>1. ASSUME NEW kind, NEW u, NEW next, Proceed(kind, u, next)
      PROVE  Lock'.next = next /\ Lock'.kind = kind /\ session' = session /\ now' = now
  BY <1>1, <1>0, WriterFacts DEF Proceed, Lock
<1>2. \A s \in Session : \A t \in TimeoutOutcomes(s) : s.status # "expired" => t.status # "expired"
  <2>. SUFFICES ASSUME NEW s \in Session, NEW t \in TimeoutOutcomes(s), s.status # "expired"
                PROVE  t.status # "expired"
    OBVIOUS
  <2>1. \A c \in Cells : AfterMove(s, c).status # "expired"
    BY DEF AfterMove, Session
  <2>2. AfterPieSwap(s).status # "expired"
    BY DEF AfterPieSwap, Session
  <2>. QED
    BY <2>1, <2>2 DEF TimeoutOutcomes
<1>3. ASSUME NEW u \in Users, UserCall(u)
      PROVE  LockFree /\ session' = session /\ now' = now /\ Lock'.next.status # "expired" /\ Lock'.kind # "sweepTimeout"
  <2>0. ~IsTerminal(session) => session.status # "expired"
    BY DEF IsTerminal, TerminalStatus
  <2>1. CASE \E c \in Cells, v \in 0 .. session.version : Move(u, c, v)
    <3>. PICK c \in Cells, v \in 0 .. session.version : Move(u, c, v)
      BY <2>1
    <3>1. AfterMove(session, c).status # "expired"
      BY <1>0 DEF AfterMove, Session
    <3>. QED
      BY <1>1, <3>1 DEF Move, Command
  <2>2. CASE \E v \in 0 .. session.version : PieSwap(u, v)
    <3>1. AfterPieSwap(session).status = session.status
      BY <1>0 DEF AfterPieSwap, Session
    <3>. QED
      BY <1>1, <2>0, <2>2, <3>1 DEF PieSwap, Command
  <2>3. CASE \E v \in 0 .. session.version : ClientTurnTimeout(u, v)
    <3>. PICK next \in TimeoutOutcomes(session) : Command("turnTimeout", u, next)
      BY <2>3 DEF ClientTurnTimeout
    <3>1. session.winner = None
      BY <2>3 DEF ClientTurnTimeout, TurnTimeoutApplies
    <3>2. session.status # "expired"
      BY <2>0, <3>1, OverFacts DEF IInv
    <3>. QED
      BY <1>0, <1>1, <1>2, <3>2 DEF Command
  <2>4. CASE \E at \in CallTimes : MarkDisconnected(u, at)
    <3>. PICK at \in CallTimes : MarkDisconnected(u, at)
      BY <2>4
    <3>1. AfterDisconnect(session, u, at).status # "expired"
      BY <1>0 DEF AfterDisconnect, Session
    <3>. QED
      BY <1>1, <3>1 DEF MarkDisconnected, Command
  <2>5. CASE \E at \in CallTimes : Reconnect(u, at)
    <3>1. AfterReconnect(session, u).status # "expired"
      BY <1>0 DEF AfterReconnect, Session
    <3>. QED
      BY <1>1, <2>5, <3>1 DEF Reconnect, Command
  <2>6. CASE Abandon(u)
    <3>1. AfterAbandon(session, u).status # "expired"
      BY <1>0 DEF AfterAbandon, Session
    <3>. QED
      BY <1>1, <2>6, <3>1 DEF Abandon, Command
  <2>7. CASE ChatRead(u)
    BY <2>7 DEF ChatRead, IInv, TypeOK
  <2>. QED
    BY <1>3, <2>1, <2>2, <2>3, <2>4, <2>5, <2>6, <2>7 DEF UserCall
<1>4. CASE SweepExpire
  <2>1. Proceed("expire", sweepCall.user, AfterExpiry(session, sweepCall.user))
    BY <1>4 DEF SweepExpire, Lock
  <2>. QED
    BY <1>1, <1>4, <2>1 DEF SweepExpire
<1>5. CASE SweepTimeout
  <2>1. /\ session.winner = None /\ LockFree
        /\ \E next \in TimeoutOutcomes(session) : Proceed("sweepTimeout", sweepCall.user, next)
    BY <1>5 DEF SweepTimeout, TurnTimeoutApplies, Lock
  <2>2. session.status # "expired"
    BY <2>1, OverFacts DEF IInv, IsTerminal, TerminalStatus
  <2>. QED
    BY <1>0, <1>1, <1>2, <1>5, <2>1, <2>2
<1>6. CASE SweepRead \/ SweepUnindex \/ IndexNewSession \/ Tick \/ UNCHANGED vars
  BY <1>6 DEF SweepRead, SweepDecides, SweepUnindex, IndexNewSession, Tick, vars, Lock
<1>7. CASE \E u \in Players : ChatFilterReturns(u)
  BY <1>7 DEF ChatFilterReturns, IInv, LockInv, ChatsIdle
<1>8. CASE (\E w \in Writers : WriterStep(w)) \/ PersistOnlineResult
  <2>1. CASE \E w \in Writers : SaveSession(w)
    <3>1. SaveSession(LockHolder)
      BY <2>1, SaverIsHolder DEF SaveSession
    <3>2. Lock'.pc = "index"
      BY <1>0, <3>1, WriterFacts, BusyWriter DEF SaveSession, Lock, IInv, Operation
    <3>. QED
      BY <3>2
  <2>2. CASE \E w \in Writers : SaveIndex(w)
    <3>1. SaveIndex(LockHolder)
      BY <2>2, SaverIsHolder DEF SaveIndex
    <3>2. Lock' = [Lock EXCEPT !.pc = "persist"] \/ Lock' = Idle
      BY <1>0, <3>1, WriterFacts DEF SaveIndex, Lock
    <3>3. Lock'.pc # "set"
      BY <3>1, <3>2, WriterFacts, BusyWriter DEF SaveIndex, Lock, IInv, Operation, Idle
    <3>. QED
      BY <3>3
  <2>3. CASE PersistOnlineResult
    <3>1. Lock' = [Lock EXCEPT !.pc = "record"] \/ Lock' = Idle
      BY <1>0, <2>3, WriterFacts DEF PersistOnlineResult, Lock
    <3>2. Lock'.pc # "set"
      BY <2>3, <3>1, WriterFacts, BusyWriter DEF PersistOnlineResult, Lock, IInv, Operation, Idle
    <3>. QED
      BY <3>2
  <2>. QED
    BY <1>8, <2>1, <2>2, <2>3 DEF WriterStep
<1>9. CASE Crash \/ \E u \in Players : RecordResult(u)
  <2>1. Lock' = Idle \/ Lock' = Lock
    BY <1>0, <1>9, WriterFacts DEF Crash, RecordResult, Lock
  <2>. QED
    BY <2>1 DEF Idle
<1>. QED
  BY <1>3, <1>4, <1>5, <1>6, <1>7, <1>8, <1>9 DEF Next

\* A step keeps the reason of a forfeit that is about to be stored.
LEMMA ForfeitIsDueNext ==
    ASSUME MaxChats = 0, IInv, SweepSawPast, ForfeitIsDue, [Next]_vars
    PROVE  ForfeitIsDue'
<1>. SUFFICES ASSUME Lock'.pc = "set", Lock'.next.status = "expired"
              PROVE  Forfeits(Lock.next.winner)'
  BY DEF ForfeitIsDue
<1>0. now \in Nat /\ now' \in Nat /\ now <= now' /\ session \in Session /\ Coherent(session)
  BY ClockAdvances DEF IInv, TypeOK, SnapshotsCoherent
<1>1. CASE Lock' = Lock
  <2>1. session' = session
    <3>1. ASSUME SaveSession(LockHolder) PROVE FALSE
      BY <1>1, <3>1, WriterFacts, BusyWriter DEF SaveSession, Lock, IInv, TypeOK, Operation
    <3>. QED
      BY <3>1, SessionChanges
  <2>2. PICK p \in Players : /\ session.connection[p] = "DISCONNECTED"
                             /\ DeadlinePassed(session, p, now)
                             /\ Lock.next.winner = SymbolOf(Opponent(p))
    BY <1>1 DEF ForfeitIsDue, Forfeits
  <2>3. DeadlinePassed(session, p, now')
    BY <1>0, <2>2 DEF DeadlinePassed, Session
  <2>. QED
    BY <1>1, <2>1, <2>2, <2>3 DEF Forfeits
<1>2. CASE Lock' # Lock
  <2>1. SweepExpire /\ session' = session /\ now' = now /\ LockFree
    BY <1>2, HolderChanges
  <2>. DEFINE u == sweepCall.user
  <2>2. Proceed("expire", u, AfterExpiry(session, u)) /\ ForfeitDue(session, u, sweepCall.at)
    BY <1>2, <2>1 DEF SweepExpire, Lock
  <2>3. u \in Players /\ sweepCall.at \in Nat /\ sweepCall.at <= now
    BY <2>1, NoneIsNoSymbol DEF SweepExpire, IInv, TypeOK, SweepCall, NoSweepCall, SweepSawPast
  <2>. HIDE DEF u
  <2>4. Lock'.next = AfterExpiry(session, u)
    BY <2>2, WriterFacts DEF Proceed, Lock, IInv, TypeOK
  <2>5. Lock'.next.winner = SymbolOf(Opponent(u))
    BY <1>0, <2>4 DEF AfterExpiry, Session
  <2>6. DeadlinePassed(session, u, now)
    BY <1>0, <2>2, <2>3 DEF ForfeitDue, DeadlinePassed, Session
  <2>7. session.connection[u] = "DISCONNECTED"
    BY <1>0, <2>3, <2>6 DEF DeadlinePassed, Coherent, DeadlineIffDisconnected
  <2>. QED
    BY <2>1, <2>3, <2>5, <2>6, <2>7 DEF Forfeits
<1>. QED
  BY <1>1, <1>2

\* Both facts hold from the start.
LEMMA SweepInit == Init => SweepSawPast /\ ForfeitIsDue
BY WriterFacts, NoneIsNoSymbol DEF Init, NoSweepCall, SweepSawPast, ForfeitIsDue, Lock, Idle

\* A free lock is taken by a command that then stores its snapshot.
LEMMA FreeLockIsTaken ==
    ASSUME MaxChats = 0, IInv, [Next]_vars, LockFree, ~LockFree'
    PROVE  Lock'.pc = "set"
<1>0. writer \in [Writers -> Operation \cup {Idle}] /\ Lock = writer[LockHolder] /\ Lock.pc = "idle"
  BY DEF IInv, TypeOK, LockFree, Lock
<1>1. ASSUME NEW kind, NEW u, NEW next, Proceed(kind, u, next) PROVE Lock'.pc = "set"
  BY <1>1, <1>0, WriterFacts DEF Proceed, Lock
<1>2. CASE \E u \in Users : UserCall(u)
  <2>. PICK u \in Users : UserCall(u)
    BY <1>2
  <2>1. ~ChatRead(u)
    BY DEF ChatRead, IInv, TypeOK
  <2>. QED
    BY <1>1, <2>1 DEF UserCall, Move, PieSwap, ClientTurnTimeout, MarkDisconnected, Reconnect,
                      Abandon, Command
<1>3. CASE SweepExpire \/ SweepTimeout
  BY <1>1, <1>3 DEF SweepExpire, SweepTimeout, LockFree
<1>4. CASE (\E w \in Writers : WriterStep(w)) \/ PersistOnlineResult
  BY <1>0, <1>4, SaverIsHolder DEF WriterStep, SaveSession, SaveIndex, PersistOnlineResult
<1>5. CASE \E u \in Players : ChatFilterReturns(u)
  BY <1>5 DEF ChatFilterReturns, IInv, LockInv, ChatsIdle
<1>6. CASE Crash \/ (\E u \in Players : RecordResult(u))
  BY <1>0, <1>6, WriterFacts DEF Crash, RecordResult, Idle, LockFree
<1>7. CASE SweepRead \/ SweepUnindex \/ IndexNewSession \/ Tick \/ UNCHANGED vars
  BY <1>7 DEF SweepRead, SweepDecides, SweepUnindex, IndexNewSession, Tick, vars, LockFree
<1>. QED
  BY <1>2, <1>3, <1>4, <1>5, <1>6, <1>7 DEF Next

(***************************************************************************)
(* A session forfeits only for a player who is away beyond the deadline    *)
(* when the forfeit is stored: expireGrace looks again under the lock.     *)
(***************************************************************************)
THEOREM ForfeitsOnlyTheAbsent == MaxChats = 0 => (Spec => ForfeitOnlyWhileAway)
<1>. SUFFICES ASSUME MaxChats = 0 PROVE Spec => ForfeitOnlyWhileAway
  OBVIOUS
<1>1. IInv /\ SweepSawPast /\ ForfeitIsDue /\ [Next]_vars => SweepSawPast' /\ ForfeitIsDue'
  BY SweepSawPastNext, ForfeitIsDueNext
<1>2. IInv /\ ForfeitIsDue /\ [Next]_vars =>
        [ (session.status # "expired" /\ session'.status = "expired") =>
          \E p \in Players : /\ session.connection[p] = "DISCONNECTED"
                             /\ DeadlinePassed(session, p, now)
                             /\ session'.winner = SymbolOf(Opponent(p)) ]_vars
  <2>. SUFFICES ASSUME IInv, ForfeitIsDue, [Next]_vars,
                       session.status # "expired", session'.status = "expired"
                PROVE  Forfeits(session'.winner)
    BY DEF Forfeits
  <2>1. SaveSession(LockHolder)
    BY SessionChanges
  <2>. QED
    BY <2>1 DEF SaveSession, ForfeitIsDue, Lock
<1>. QED
  BY <1>1, <1>2, SweepInit, LockInvariant, PTL DEF Spec, ForfeitOnlyWhileAway

(***************************************************************************)
(* The sweep plays for a player only when the timer of the turn it takes   *)
(* has run out: handleTurnTimeout compares the version under the lock.     *)
(***************************************************************************)
THEOREM SweepPlaysExpiredTurns == MaxChats = 0 => (Spec => SweepPlaysOnlyAfterTimer)
<1>. SUFFICES ASSUME MaxChats = 0 PROVE Spec => SweepPlaysOnlyAfterTimer
  OBVIOUS
<1>1. IInv /\ SweepSawPast /\ [Next]_vars => SweepSawPast'
  BY SweepSawPastNext
<1>2. IInv /\ SweepSawPast /\ [Next]_vars =>
        [Begins("sweepTimeout") => session.timerEndsAt <= now]_vars
  <2>. SUFFICES ASSUME IInv, SweepSawPast, [Next]_vars, Begins("sweepTimeout")
                PROVE  session.timerEndsAt <= now
    OBVIOUS
  <2>1. Lock'.kind = "sweepTimeout" /\ Lock' # Lock
    BY DEF Begins, LockFree, Lock
  <2>2. Lock'.pc = "set"
    BY FreeLockIsTaken DEF Begins
  <2>3. SweepTimeout
    BY <2>1, <2>2, HolderChanges
  <2>. QED
    BY <2>1, <2>3 DEF SweepTimeout, TurnTimeoutApplies, SweepSawPast, Lock
<1>. QED
  BY <1>1, <1>2, SweepInit, LockInvariant, PTL DEF Spec, SweepPlaysOnlyAfterTimer
=============================================================================
