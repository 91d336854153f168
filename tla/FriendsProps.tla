---------------------------- MODULE FriendsProps ----------------------------
(***************************************************************************)
(* What the users service and its pages promise, whatever calls overlap.   *)
(***************************************************************************)
EXTENDS Friends

\* Two users who ask for the same thing at once, or the same user twice,
\* leave one request in each direction and one conversation, although every
\* insert follows a check that is out of date.
NoDuplicateRows ==
    /\ \A r, q \in rows : <<r.from, r.to>> = <<q.from, q.to>> => r = q
    /\ \A i, j \in DOMAIN convs : convs[i] = convs[j] => i = j

\* A request that was withdrawn, rejected or ended never comes back, not even
\* through an accept that had read it before: a row that was there and is
\* not now is not there later.
DeletedStaysDeleted ==
    [][\A r \in rows' : r.id > lastId \/ \E q \in rows : q.id = r.id]_vars

\* A message is stored only if its two users were friends while it was sent:
\* no old conversation outlives the friendship.
OnlyFriendsWrite == \A i \in DOMAIN msgs : msgs[i].friends

Sending == \E c \in calls : c.op = "send" /\ c.at = "emit"

\* Once the socket of the page is in the room, and nothing is on its way, the
\* page shows every message that was stored since it joined.
JoinedSeesAll ==
    (chat.room # None /\ ~Sending /\ events = {}) =>
        \A i \in DOMAIN msgs :
            msgs[i].conv = chat.conv /\ i > chat.since => i \in chat.shown

\* Unless a form was saved that had been opened before the last save, every
\* field of the profile is what was last typed into it: neither the save of
\* another field nor a page that creates the profile takes it back.
EditsSurvive == (saved # None /\ ~stale) => profile = saved
=============================================================================
