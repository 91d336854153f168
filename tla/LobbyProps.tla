----------------------------- MODULE LobbyProps -----------------------------
(***************************************************************************)
(* What an offer and the index of matches promise.                         *)
(***************************************************************************)
EXTENDS Lobby

Quiet == calls = {} /\ events = <<>> /\ {page.pending, page.outgoing} \cap expired = {}

\* No offer makes two matches, however often and by however many calls it is
\* accepted: an invite never, thanks to the lock, a rematch request unless two
\* accepts had both read it before either deleted it.
OneMatchPerOffer ==
    \A a, b \in DOMAIN matches :
        a # b /\ matches[a].from = matches[b].from => matches[a].from \in raced

LiveMatches(u) ==
    { m \in DOMAIN matches : u \in matches[m].players /\ redis[<<"session", m>>] = "live" }

\* The index leads a player back to the match that is being played, once all
\* calls are done: also when a lookup had found the index of a match that is
\* only being made, or a chat message was saved late.  It does unless two calls
\* that save a match of that player were at work at once, or one of them, or a
\* lookup, while another match of that player was open: all of them write the
\* one key of the user.
SoleSessionIsFound ==
    calls = {} => \A u \in Users \ blurred : \A m \in LiveMatches(u) : redis[<<"active", u>>] = m

\* An invite that can still be answered can be found by both who have to do
\* with it, unless two calls worked on offers of one of them at once.
InviteIsFindable ==
    calls = {} =>
        \A i \in DOMAIN offers \ expired :
            /\ offers[i].kind = "invite" /\ redis[<<"invite", i>>] # None
            /\ Parties(i) \cap mixed = {}
            => redis[<<"pending", To(i)>>] = i /\ redis[<<"outgoing", From(i)>>] = i

\* When everything has arrived the page shows no invite that is gone, unless
\* it changed while an answer was on its way that writes the same fields, an
\* event missed the page, or an invite was answered before the call that makes
\* it had its answer.
NoGhostInvite ==
    (Quiet /\ ~overtaken) =>
        \A i \in {page.pending, page.outgoing} \ {None} : redis[<<"invite", i>>] # None
=============================================================================
