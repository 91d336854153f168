-------------------------- MODULE OnlineClientProps --------------------------
(***************************************************************************)
(* What a player can rely on once everything on its way has arrived.       *)
(***************************************************************************)
EXTENDS OnlineClient

Settled ==
    /\ sock.up /\ out = <<>> /\ inbox = <<>> /\ gets = {} /\ closing = {}
    /\ ~queue.joining

\* Whoever sits at the board of a running match with a connection counts as
\* connected, whatever connections were lost before, so that no grace period
\* can end the match: unless the server noticed the end of an old connection
\* only after the new one had joined.
SeenAsConnected ==
    /\ Settled /\ screen = "game" /\ match.live /\ ~match.over
    /\ ~match.lapsed /\ ~late
    => ~match.away /\ match.room = sock.n

\* The board that is shown has every move the server has stored, also those
\* made while the connection was down: unless a snapshot and a newer event
\* passed each other, since loadSnapshot does not compare versions.
ShowsTheBoard ==
    Settled /\ screen = "game" /\ match.room = sock.n /\ ~crossed =>
        /\ view.state # None /\ view.state.moves = match.moves
        /\ view.state.over = match.over

\* Nobody who has left the page of the queue, for another page, for the bot or
\* for the match, is still in the queue: unless the cancel was lost with its
\* connection or handled before the join it cancels was stored, or a pairing
\* that crossed a cancel was taken for the answer to the next join.
QueueIsLeft ==
    Settled /\ screen # "queue" /\ ~slipped => ~queue.in
=============================================================================
