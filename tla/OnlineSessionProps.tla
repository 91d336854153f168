------------------------- MODULE OnlineSessionProps -------------------------
(***************************************************************************)
(* What a match run by OnlineSession promises: the type invariant, the     *)
(* coherence of every snapshot, the recording of results, what the sweep   *)
(* may do to players who are away, and that it always does something.      *)
(***************************************************************************)
EXTENDS OnlineSession

------------------------------------------------------------------------------
(* Invariants *)

TypeOK ==
    /\ creation \in {"storing", "done", "lost"}
    /\ now \in Nat
    /\ session \in Session
    /\ indexed \in BOOLEAN
    /\ writer \in [Writers -> Operation \cup {Idle}]
    /\ recording \in SUBSET Players
    /\ persisted \in BOOLEAN
    /\ results \in [Players -> Seq({"won", "lost"})]
    /\ sweepCall \in SweepCall \cup {NoSweepCall}
    /\ chatsSent \in Nat /\ crashes \in Nat

\* A snapshot says the match is over exactly when it names a winner.
OverIffWinner(s) == IsTerminal(s) <=> s.winner # None

\* A match is finished on the board exactly when its winner's stones join the
\* sides; a match that goes on has no joined colour.
WinnerIsOnBoard(s) ==
    /\ s.status = "finished" => Wins(s.layout, s.winner)
    /\ ~IsTerminal(s) => \A sym \in Symbols : ~Wins(s.layout, sym)

\* A disconnected player has a deadline, a connected one has none.
DeadlineIffDisconnected(s) ==
    \A p \in Players : s.connection[p] = "DISCONNECTED" <=> s.reconnectDeadline[p] # None

\* Somebody is being waited for: the sweep never skips the turn timer of a
\* session without a deadline that will end the wait.
WaitHasDeadline(s) ==
    s.status = "waiting_reconnect" => \E p \in Players : s.reconnectDeadline[p] # None

StoneCount(s, sym) == Cardinality(CellsOf(s.layout, sym))

\* The seats alternate.  Without a pie swap "B" leads by the stone it has just
\* played; after one the colours have changed hands and "R" leads instead.
StonesAlternate(s) ==
    s.winner = None =>
        \/ StoneCount(s, "B") = StoneCount(s, "R") + s.turn
        \/ PieEnabled /\ StoneCount(s, "R") + s.turn = StoneCount(s, "B") + 1

Coherent(s) ==
    /\ OverIffWinner(s)
    /\ WinnerIsOnBoard(s)
    /\ DeadlineIffDisconnected(s)
    /\ WaitHasDeadline(s)
    /\ StonesAlternate(s)

(***************************************************************************)
(* The stored snapshot and every snapshot a writer is about to store are   *)
(* coherent: no interleaving of players, sweep, chat, crashes and clock    *)
(* can make the status, the winner, the board, the connections and the     *)
(* deadlines of a session tell different stories.                          *)
(***************************************************************************)
SnapshotsCoherent ==
    /\ Coherent(session)
    /\ \A w \in Writers : writer[w].pc # "idle" => Coherent(writer[w].next)

(***************************************************************************)
(* persistOnlineResult records a match at most once per player: not twice  *)
(* when a chat save brings a finished match back and it ends again.        *)
(***************************************************************************)
RecordedAtMostOnce == \A p \in Players : Len(results[p]) <= 1

(***************************************************************************)
(* What was recorded for a player is what the stored session says of it,   *)
(* and the two players are never recorded with the same outcome.           *)
(***************************************************************************)
ResultsAgreeWithSession ==
    \A p \in Players : \A i \in DOMAIN results[p] :
        IsTerminal(session) /\ results[p][i] = Outcome(p, session.winner)

(***************************************************************************)
(* A match anybody can know of, which goes on, is in the index the sweep   *)
(* reads, so its timers are looked at; only a save of an ended session     *)
(* takes it out.  A match that is not there and goes on is one whose       *)
(* creation is under way or was cut short between its two writes, and      *)
(* nobody is in it: no command, chat or sweep ever touched it, and Redis   *)
(* lets it go when its time is over.                                       *)
(***************************************************************************)
Untouched ==
    /\ session = NewSession /\ \A p \in Players : results[p] = <<>>
    /\ \A w \in Writers : writer[w].pc = "idle"

LiveIsIndexed ==
    ~IsTerminal(session) /\ ~indexed => creation \in {"storing", "lost"} /\ Untouched

------------------------------------------------------------------------------
(* Action properties *)

\* A command takes the lock in this step.
Begins(kind) == LockFree /\ ~LockFree' /\ writer'[LockHolder].kind = kind

(***************************************************************************)
(* An ended match stays ended with the same winner: "abandon marks session *)
(* as terminal and idempotent", "rejects reconnect for terminal session".  *)
(***************************************************************************)
TerminalIsFinal ==
    [][IsTerminal(session) =>
         IsTerminal(session') /\ session'.winner = session.winner]_vars

(***************************************************************************)
(* A session forfeits on grace only for a player whose deadline has really *)
(* passed and who is still away when the forfeit is stored, whatever it    *)
(* did between the look of the sweep and the lock; the opponent wins.      *)
(***************************************************************************)
ForfeitOnlyWhileAway ==
    [][ (session.status # "expired" /\ session'.status = "expired") =>
          \E p \in Players : /\ session.connection[p] = "DISCONNECTED"
                             /\ DeadlinePassed(session, p, now)
                             /\ session'.winner = SymbolOf(Opponent(p)) ]_vars

(***************************************************************************)
(* The sweep plays for a player only when the turn timer of the session it *)
(* plays on has run out, although it looked before it had the lock.        *)
(***************************************************************************)
SweepPlaysOnlyAfterTimer ==
    [][Begins("sweepTimeout") => session.timerEndsAt <= now]_vars

------------------------------------------------------------------------------
(* Liveness *)

(***************************************************************************)
(* "sweeps reconnect grace deadlines without requiring a client event": a  *)
(* wait whose deadline has passed ends, by a forfeit or by a player's own  *)
(* command, or the player goes away once more and gets a new deadline.     *)
(***************************************************************************)
WaitEnds ==
    \A p \in Players :
        (session.status = "waiting_reconnect" /\ DeadlinePassed(session, p, now))
            ~> (session.status # "waiting_reconnect" \/ ~DeadlinePassed(session, p, now))

(***************************************************************************)
(* "sweeps expired turn timers without requiring a client event": a turn   *)
(* whose timer has run out is taken, by the sweep if by nobody else.       *)
(***************************************************************************)
ExpiredTurnIsTaken ==
    \A v \in 0 .. MaxVersion + Cardinality(Cells) + 2 :
        (session.status = "active" /\ session.version = v /\ session.timerEndsAt <= now)
            ~> (session.version # v)

(***************************************************************************)
(* An ended match leaves the index, and without a crash the recording of   *)
(* its result is attempted for both players.                               *)
(***************************************************************************)
EndedMatchIsCleared ==
    IsTerminal(session) ~> (~indexed /\ (crashes = 0 => persisted /\ recording = {}))

------------------------------------------------------------------------------
(* The contract this service implements *)

SymbolRecorded(p, outcome) == IF outcome = "won" THEN SymbolOf(p) ELSE SymbolOf(Opponent(p))

Contract == INSTANCE MatchContract WITH
    Undecided <- None,
    version <- session.version,
    winner <- session.winner,
    recorded <- [p \in Players |->
                    [i \in DOMAIN results[p] |-> SymbolRecorded(p, results[p][i])]]

(***************************************************************************)
(* The locked service implements the contract: every store of a snapshot   *)
(* is one accepted command, and every result written is the decision.      *)
(***************************************************************************)
ImplementsContract == Contract!ContractSpec
==============================================================================
