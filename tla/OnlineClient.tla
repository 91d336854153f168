---------------------------- MODULE OnlineClient ----------------------------
(***************************************************************************)
(* One browser in the online game: the socket that its hooks share, the    *)
(* page of the queue, the page of the match, and the handlers of the       *)
(* socket server that answer it.                                           *)
(*                                                                         *)
(* Of a session only the version, the number of moves, whose turn it is    *)
(* (player 0 when the number is even) and the connection of this user are  *)
(* kept; every handler is one step, as it holds the lock of the match.     *)
(* The server may notice late that a socket is gone.                       *)
(***************************************************************************)
EXTENDS Naturals, Sequences, FiniteSets

CONSTANTS
    None,
    Budgets   \* what may still happen in a behaviour: a record of numbers; made
              \* and seat tell of a match that is there from the beginning

Kinds == {"go", "drop", "play", "opponent", "grace", "fallback", "made", "seat"}

ASSUME ClientAssumption ==
    /\ None \notin Nat /\ None \notin [v : Nat, moves : Nat, over : BOOLEAN]
    /\ \A b \in Budgets : b \in [Kinds -> Nat]

VARIABLES
    screen,   \* "lobby", "queue", "game", or "bot" for a match against the bot
    leaks,    \* connects of joinQueue, which nobody takes back
    sock,     \* the socket of the browser: its number, and whether it is up
    out,      \* what it has emitted, and the server has not handled
    inbox,    \* what the server has emitted to it
    closing,  \* sockets that are gone and the server still counts
    gets,     \* snapshots that were asked for
    view,     \* what the hooks keep
    queue,    \* the user in the queue of the server: in it, or joining
    match,    \* the session on the server
    left,
    slipped,  \* a cancel was lost with its socket, or overtook its join; or a
              \* pairing of an earlier stay in the queue overtook a new join
    late,     \* the end of an old socket was noticed after the new one joined
    crossed   \* a snapshot and a session:state have passed each other

browser == <<screen, leaks, view, gets>>
wire == <<sock, out, inbox, closing>>
server == <<queue, match>>
ghosts == <<slipped, late, crossed>>
vars == <<browser, wire, server, left, ghosts>>

Blank == [visit |-> 0, state |-> None, error |-> None, joined |-> FALSE,
          onConnect |-> FALSE, timer |-> FALSE]
NoMatch == [live |-> FALSE, over |-> FALSE, v |-> 0, moves |-> 0,
            away |-> FALSE, lapsed |-> FALSE, room |-> 0, seat |-> 0]
Snapshot == [v |-> match.v, moves |-> match.moves, over |-> match.over]

\* In the lobby; a match made by an invite may be waiting.
Init ==
    /\ left \in Budgets
    /\ screen = "lobby" /\ leaks = 0 /\ view = Blank /\ gets = {}
    /\ sock = [n |-> 1, up |-> TRUE] /\ out = <<>> /\ inbox = <<>> /\ closing = {}
    /\ queue = [in |-> FALSE, joining |-> FALSE]
    /\ match = [NoMatch EXCEPT !.live = left.made > 0, !.seat = left.seat]
    /\ slipped = FALSE /\ late = FALSE /\ crossed = FALSE

Spend(kind) == left[kind] > 0 /\ left' = [left EXCEPT ![kind] = @ - 1]
Cmd(kind, version) == [kind |-> kind, v |-> version]
Event(kind, state) == [kind |-> kind, state |-> state]
Tell(es) == inbox' = IF sock.up THEN inbox \o es ELSE inbox

------------------------------------------------------------------------------
(* onlineSocketClient: one socket for all hooks, closed with its last user.  *)
(* Off the board the two hooks of App use it, on the board one hook does;    *)
(* what joinQueue has connected is never given back.                         *)

OnBoard(s) == s \in {"game", "bot"}
\* Going to or from the board, the hooks of the one side let go before those
\* of the other take hold.
Reopens(to) == OnBoard(screen) # OnBoard(to) /\ leaks = 0
Gone(k) == IF sock.up THEN closing \cup {k} ELSE closing

\* Defect: the match is joined on the first connection only.
Rejoins_Once == view.state = None
Rejoins == TRUE
\* handleConnect of useOnlineSession.
HandleConnect(s) == IF s = "game" /\ Rejoins THEN <<Cmd("match:join", 0)>> ELSE <<>>

\* A page is left for another; goodbye is what the one that is left emits.
Go(to, goodbye) ==
    /\ screen' = to
    /\ IF Reopens(to)
       THEN /\ sock' = [n |-> sock.n + 1, up |-> FALSE]
            /\ closing' = Gone(sock.n) /\ out' = <<>> /\ inbox' = <<>>
       ELSE /\ UNCHANGED <<sock, closing, inbox>>
            /\ out' = out \o goodbye \o
                 IF to = "game" /\ sock.up THEN <<Cmd("match:join", 0)>> ELSE <<>>
    /\ view' = [Blank EXCEPT !.visit = view.visit + 1]
    \* loadSnapshot of the effect.
    /\ gets' = IF to = "game"
               THEN gets \cup {[visit |-> view.visit + 1, got |-> None]}
               ELSE gets

\* emitJoin: the timer of the fallback begins.
EmitJoin(w) == [w EXCEPT !.joined = TRUE, !.onConnect = FALSE, !.timer = TRUE]

Connect ==
    /\ ~sock.up /\ sock' = [sock EXCEPT !.up = TRUE]
    /\ out' = out \o HandleConnect(screen)
              \o IF view.onConnect THEN <<Cmd("queue:join", 0)>> ELSE <<>>
    /\ view' = IF view.onConnect THEN EmitJoin(view) ELSE view
    /\ UNCHANGED <<screen, leaks, gets, inbox, closing, server, left, ghosts>>

\* The connection is lost, with everything on its way; what is emitted from
\* now on waits for the next one.
Drop ==
    /\ sock.up /\ Spend("drop")
    /\ sock' = [n |-> sock.n + 1, up |-> FALSE]
    /\ closing' = closing \cup {sock.n} /\ out' = <<>> /\ inbox' = <<>>
    /\ slipped' = (slipped \/ \E i \in DOMAIN out : out[i].kind = "queue:cancel")
    /\ UNCHANGED <<browser, server, late, crossed>>

------------------------------------------------------------------------------
(* OnlineMatchmakingPage and useOnlineMatchmaking *)

OpenQueue ==
    /\ screen = "lobby" /\ ~match.live /\ Spend("go")
    /\ screen' = "queue" /\ leaks' = leaks + 1
    /\ LET w == [Blank EXCEPT !.visit = view.visit + 1] IN
       IF sock.up
       THEN view' = EmitJoin(w) /\ out' = Append(out, Cmd("queue:join", 0))
       ELSE view' = [w EXCEPT !.onConnect = TRUE] /\ UNCHANGED out
    /\ UNCHANGED <<gets, sock, inbox, closing, server, ghosts>>

\* The cancel button emits in any case, and its page once more if it has joined
\* by then, which cancelQueue has taken back.
CancelQueue ==
    /\ screen = "queue" /\ Spend("go")
    /\ Go("lobby", <<Cmd("queue:cancel", 0)>>)
    /\ UNCHANGED <<leaks, server, ghosts>>

\* Another page is chosen.
LeaveQueue ==
    /\ screen = "queue" /\ Spend("go")
    /\ Go("lobby", IF view.joined THEN <<Cmd("queue:cancel", 0)>> ELSE <<>>)
    /\ UNCHANGED <<leaks, server, ghosts>>

\* Defect: the queue is left to the timeout of the server.
FallbackEmits_Nothing == <<>>
FallbackEmits == <<Cmd("queue:cancel", 0)>>

\* Thirty seconds without an opponent: the match is played against the bot.
BotFallback ==
    /\ screen = "queue" /\ view.timer /\ Spend("fallback")
    /\ Go("bot", FallbackEmits)
    /\ UNCHANGED <<leaks, server, ghosts>>

------------------------------------------------------------------------------
(* useOnlineSession behind GameUI *)

\* App: the prompt for an active session asks for the reconnection and opens
\* the board when it is granted.
HandleReconnect ==
    /\ screen = "lobby" /\ match.live /\ ~match.over /\ ~match.lapsed /\ Spend("go")
    /\ match' = [match EXCEPT !.away = FALSE, !.v = @ + 1]
    /\ Go("game", <<>>)
    /\ UNCHANGED <<leaks, queue, ghosts>>

LeaveBoard ==
    /\ OnBoard(screen) /\ Spend("go")
    /\ Go("lobby", <<>>)
    /\ UNCHANGED <<leaks, server, ghosts>>

\* playMove and emitTurnTimeout: the version is the one that is shown.
Play(kind) ==
    /\ screen = "game" /\ view.state # None /\ ~view.state.over
    /\ Spend("play")
    /\ out' = Append(out, Cmd(kind, view.state.v))
    /\ UNCHANGED <<browser, sock, inbox, closing, server, ghosts>>

GetSnapshot(g) ==
    /\ g.got = None
    /\ gets' = (gets \ {g}) \cup {[g EXCEPT !.got = Snapshot]}
    /\ UNCHANGED <<screen, leaks, view, wire, server, left, ghosts>>

\* loadSnapshot: what the server had is shown, whatever came meanwhile.
LoadSnapshot(g) ==
    /\ g.got # None /\ gets' = gets \ {g}
    /\ view' = IF g.visit # view.visit THEN view
               ELSE [view EXCEPT !.state = g.got, !.error = None]
    /\ UNCHANGED <<screen, leaks, wire, server, left, ghosts>>

\* What the page does with an event; off its page nobody listens.
SessionState(e) ==
    /\ e.kind = "session:state" /\ inbox' = Tail(inbox)
    /\ IF screen = "game"
       THEN /\ view' = [view EXCEPT !.state = e.state, !.error = None]
            /\ crossed' = (\E g \in gets : g.visit = view.visit /\ g.got # None)
       ELSE UNCHANGED <<view, crossed>>
    /\ UNCHANGED <<screen, leaks, gets, sock, out, closing, server, left, slipped, late>>

\* A conflict asks for the snapshot again.
SessionError(e) ==
    /\ e.kind \in {"VERSION_CONFLICT", "refused"} /\ inbox' = Tail(inbox)
    /\ IF screen = "game"
       THEN /\ view' = [view EXCEPT !.error = e.kind]
            /\ gets' = IF e.kind = "refused" THEN gets ELSE gets \cup
                 {[visit |-> view.visit, got |-> None]}
       ELSE UNCHANGED <<view, gets>>
    /\ UNCHANGED <<screen, leaks, sock, out, closing, server, left, ghosts>>

\* matchmaking:matched opens the board, if the page is still that of the queue.
Matched(e) ==
    /\ e.kind = "matchmaking:matched"
    /\ IF screen = "queue"
       THEN /\ screen' = "game" /\ inbox' = Tail(inbox)
            /\ out' = IF sock.up THEN Append(out, Cmd("match:join", 0)) ELSE out
            /\ view' = [Blank EXCEPT !.visit = view.visit + 1]
            /\ gets' = gets \cup {[visit |-> view.visit + 1, got |-> None]}
            /\ slipped' = (slipped \/ queue.joining \/ queue.in
                            \/ \E i \in DOMAIN out : out[i].kind = "queue:join")
       ELSE inbox' = Tail(inbox) /\ UNCHANGED <<screen, out, view, gets, slipped>>
    /\ UNCHANGED <<leaks, sock, closing, server, left, late, crossed>>

EventArrives ==
    /\ inbox # <<>>
    /\ LET e == Head(inbox) IN SessionState(e) \/ SessionError(e) \/ Matched(e)

------------------------------------------------------------------------------
(* The socket server *)

Serves(kind) == sock.up /\ out # <<>> /\ Head(out).kind = kind /\ out' = Tail(out)
InRoom == sock.up /\ match.room = sock.n
ToRoom(state) == IF InRoom THEN <<Event("session:state", state)>> ELSE <<>>
\* Once by the service to the user, once by safeAsync to the socket.
Refuse(kind) == Tell(<<Event(kind, None), Event(kind, None)>>)

QueueJoin ==
    /\ Serves("queue:join") /\ queue' = [queue EXCEPT !.joining = TRUE]
    /\ UNCHANGED <<browser, sock, inbox, closing, match, left, ghosts>>

\* The statistics were read, and the entry is stored.
JoinStored ==
    /\ queue.joining /\ queue' = [in |-> TRUE, joining |-> FALSE]
    /\ UNCHANGED <<browser, wire, match, left, ghosts>>

QueueCancel ==
    /\ Serves("queue:cancel") /\ queue' = [queue EXCEPT !.in = FALSE]
    /\ slipped' = (slipped \/ queue.joining)
    /\ UNCHANGED <<browser, sock, inbox, closing, match, left, late, crossed>>

\* The worker pairs the user with another.
Pair ==
    /\ queue.in /\ ~match.live /\ queue' = [queue EXCEPT !.in = FALSE]
    /\ match' = [match EXCEPT !.live = TRUE]
    /\ Tell(<<Event("matchmaking:matched", None)>>)
    /\ UNCHANGED <<browser, sock, out, closing, left, ghosts>>

\* Defect: the room is joined and nothing said.
JoinAnswer_None(state) == <<>>
JoinAnswer(state) == <<Event("session:state", state)>>

MatchJoin ==
    /\ Serves("match:join")
    /\ IF match.over \/ match.lapsed
       THEN Refuse("refused") /\ UNCHANGED <<match, late>>
       ELSE /\ match' = [match EXCEPT !.away = FALSE, !.v = @ + 1, !.room = sock.n]
            /\ Tell(JoinAnswer([Snapshot EXCEPT !.v = @ + 1])) /\ late' = FALSE
    /\ UNCHANGED <<browser, sock, closing, queue, left, slipped, crossed>>

MyTurn == match.moves % 2 = match.seat
Moved == [match EXCEPT !.moves = @ + 1, !.v = @ + 1]
AfterMove == [Snapshot EXCEPT !.moves = @ + 1, !.v = @ + 1]

MovePlay ==
    /\ Serves("move:play")
    /\ IF match.over THEN Refuse("refused") /\ UNCHANGED match
       ELSE IF Head(out).v # match.v
       THEN /\ Tell(<<Event("VERSION_CONFLICT", None)>> \o ToRoom(Snapshot)
                    \o <<Event("VERSION_CONFLICT", None)>>)
            /\ UNCHANGED match
       ELSE IF ~MyTurn THEN Refuse("refused") /\ UNCHANGED match
       ELSE match' = Moved /\ Tell(ToRoom(AfterMove))
    /\ UNCHANGED <<browser, sock, closing, queue, left, ghosts>>

\* A timeout that does not fit is ignored.
TurnTimeout ==
    /\ Serves("turn:timeout")
    /\ IF ~match.over /\ Head(out).v = match.v /\ MyTurn
       THEN match' = Moved /\ Tell(ToRoom(AfterMove))
       ELSE UNCHANGED <<match, inbox>>
    /\ UNCHANGED <<browser, sock, closing, queue, left, ghosts>>

\* disconnect: cancelQueueIfStale, then markDisconnected, by the match the
\* socket has joined or by the index.  Nobody is told.
Disconnect(k) ==
    /\ closing' = closing \ {k}
    /\ \E in \in {queue.in, FALSE} : queue' = [queue EXCEPT !.in = in]
    /\ IF match.live /\ ~match.over
       THEN /\ match' = [match EXCEPT !.away = TRUE, !.v = @ + 1,
                                      !.room = IF @ = k THEN 0 ELSE @]
            /\ late' = (late \/ (match.room # 0 /\ match.room # k))
       ELSE UNCHANGED <<match, late>>
    /\ UNCHANGED <<browser, sock, out, inbox, left, slipped, crossed>>

\* The opponent moves, comes or goes, or ends the match.
OpponentMoves ==
    /\ match.live /\ ~match.over /\ ~MyTurn /\ Spend("opponent")
    /\ \E over \in BOOLEAN :
         /\ match' = [Moved EXCEPT !.over = over]
         /\ Tell(ToRoom([AfterMove EXCEPT !.over = over]))
    /\ UNCHANGED <<browser, sock, out, closing, queue, ghosts>>

OpponentConnection ==
    /\ match.live /\ ~match.over /\ Spend("opponent")
    /\ match' = [match EXCEPT !.v = @ + 1]
    /\ UNCHANGED <<browser, wire, queue, ghosts>>

\* The deadline passes, and the sweep closes the match.
GraceRunsOut ==
    /\ match.live /\ ~match.over /\ match.away /\ ~match.lapsed /\ Spend("grace")
    /\ match' = [match EXCEPT !.lapsed = TRUE]
    /\ UNCHANGED <<browser, wire, queue, ghosts>>

ExpireGrace ==
    /\ match.lapsed /\ ~match.over
    /\ match' = [match EXCEPT !.over = TRUE, !.v = @ + 1]
    /\ Tell(ToRoom([Snapshot EXCEPT !.over = TRUE, !.v = @ + 1]))
    /\ UNCHANGED <<browser, sock, out, closing, queue, left, ghosts>>

Server ==
    \/ QueueJoin \/ JoinStored \/ QueueCancel \/ Pair
    \/ MatchJoin \/ MovePlay \/ TurnTimeout
    \/ OpponentMoves \/ OpponentConnection \/ GraceRunsOut \/ ExpireGrace
    \/ \E k \in closing : Disconnect(k)

Browser ==
    \/ Connect \/ Drop \/ OpenQueue \/ CancelQueue \/ LeaveQueue \/ BotFallback
    \/ HandleReconnect \/ LeaveBoard \/ EventArrives
    \/ \E kind \in {"move:play", "turn:timeout"} : Play(kind)
    \/ \E g \in gets : GetSnapshot(g) \/ LoadSnapshot(g)

Next == Browser \/ Server
Spec == Init /\ [][Next]_vars
=============================================================================
