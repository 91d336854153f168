------------------------------- MODULE Lobby -------------------------------
(***************************************************************************)
(* How two players come to a match without the queue: friend invites and   *)
(* rematches, the index of the match a user is in, and the hooks of one    *)
(* page, that of Me, which show the offers.                                *)
(*                                                                         *)
(* The offers are keys in Redis.  Every command is a step of its own: what *)
(* a call writes waits in its todo, and only acceptFriendInvite holds a    *)
(* lock.  The keys of an expired offer go one after the other.             *)
(***************************************************************************)
EXTENDS Naturals, Sequences, FiniteSets

CONSTANTS
    Users, Me, None,
    Budgets   \* what may still be started in a behaviour: a record of numbers

Kinds == {"ask", "answer", "rematch", "match", "hooks", "expire"}

ASSUME LobbyAssumption ==
    /\ Me \in Users /\ None \notin Users \cup Nat /\ None \notin {"pending", "live", "over"}
    /\ \A b \in Budgets : b \in [Kinds -> Nat]

VARIABLES
    redis,     \* the store, by key
    offers,    \* every invite and rematch request there has been
    matches,   \* players and origin of every match
    calls, started,
    expired,   \* offers whose expiresAt has passed
    page,      \* what the hooks of Me show
    events,    \* events on their way to that page, in order
    left,
    mixed,     \* users whose offers two calls worked at once
    raced,     \* rematch requests that were accepted twice at once
    blurred,   \* users whose index two calls wrote at once, or a call for one
               \* match while another of theirs was open
    overtaken  \* an answer and an event about invites passed each other, an
               \* invite was answered while it was still being made, or an
               \* event did not reach the page

made == <<offers, matches>>
ghosts == <<mixed, raced, blurred>>
server == <<redis, made, expired, ghosts>>
client == <<page, events, overtaken>>
vars == <<server, client, calls, started, left>>

NewMatch(us, from) == [players |-> us, from |-> from]
Off == [on |-> FALSE, joined |-> FALSE, pending |-> None, outgoing |-> None, rematch |-> None, ready |-> None]

MaxId == 4
Keys == ({"invite", "session", "rematch"} \X (1..MaxId))
        \cup ({"pending", "outgoing", "rematchPending", "active"} \X Users)

\* Match 1 is over: Me and another have just played.
Init ==
    /\ left \in Budgets
    /\ \E u \in Users \ {Me} : matches = <<NewMatch({Me, u}, 0)>>
    /\ redis = [k \in Keys |-> IF k = <<"session", 1>> THEN "over" ELSE None]
    /\ offers = <<>> /\ expired = {} /\ calls = {} /\ started = 0
    /\ page = Off /\ events = <<>>
    /\ mixed = {} /\ raced = {} /\ blurred = {} /\ overtaken = FALSE

------------------------------------------------------------------------------
(* Calls and their commands *)

From(i) == offers[i].from
To(i) == offers[i].to
Parties(i) == {From(i), To(i)}
Other(c) == IF c.by = From(c.id) THEN To(c.id) ELSE From(c.id)

Call(op, u, id) == [n |-> started + 1, op |-> op, by |-> u, id |-> id,
                    at |-> "begin", got |-> None, todo |-> <<>>]
Spend(kind) == left[kind] > 0 /\ left' = [left EXCEPT ![kind] = @ - 1]
Begin(C) == calls' = calls \cup C /\ started' = started + Cardinality(C)
Become(c, d) == calls' = (calls \ {c}) \cup {d} /\ UNCHANGED <<started, left>>
Goto(c, at) == Become(c, [c EXCEPT !.at = at])
Do(c, writes, at) == Become(c, [c EXCEPT !.at = at, !.todo = writes])
Finish(c) == calls' = calls \ {c} /\ UNCHANGED <<started, left>>
\* An answer waits for the page of Me; nobody looks at the others.
Reply(c, answer) == IF c.by = Me THEN Goto(c, answer) ELSE Finish(c)
At(c, op, at) == c.op = op /\ c.at = at /\ c.todo = <<>>

Set(k, v) == [key |-> k, value |-> v]
Del(k) == Set(k, None)

\* One SET or DEL of a call.
Command(c) ==
    /\ c.todo # <<>>
    /\ redis' = [redis EXCEPT ![Head(c.todo).key] = Head(c.todo).value]
    /\ Become(c, [c EXCEPT !.todo = Tail(@)])
    /\ UNCHANGED <<made, expired, ghosts, client>>

\* io.to(user:...).emit; while the socket of the page is not in the room of its
\* user an event is gone.
Emit(us, kind, id) ==
    /\ events' = IF Me \in us /\ page.joined
                 THEN Append(events, [kind |-> kind, id |-> id]) ELSE events
    /\ overtaken' = (overtaken \/ (Me \in us /\ page.on /\ ~page.joined))

\* How far a call is that looks a pointer up: it follows it, and deletes what
\* has expired.
Follow == [pending |-> "follow pending", outgoing |-> "follow outgoing"]
Overdue == [pending |-> "expire pending", outgoing |-> "expire outgoing", accept |-> "expire accept"]
Gone == [pending |-> "expired pending", outgoing |-> "expired outgoing", accept |-> "expired accept"]
Deleting(c) == \E side \in {"pending", "outgoing"} : c.at \in {Overdue[side], Gone[side]}

\* Calls that write offers of one user, at work at once.
Touched(c) ==
    (IF c.op = "look" THEN {Me} ELSE Parties(c.id))
    \cup (IF Deleting(c) THEN Parties(c.got) ELSE {})
Writes(c) == c.op \in {"create", "accept", "decline", "look"}
MixedWith(C, us) ==
    LET D == { d \in C : Writes(d) /\ Touched(d) \cap us # {} } IN
    IF D = {} THEN {} ELSE us \cup UNION { Touched(d) : d \in D }

------------------------------------------------------------------------------
(* Friend invites in Redis *)

\* The pointers are written after what they point at.
SaveFriendInvite(i) ==
    <<Set(<<"invite", i>>, "pending"), Set(<<"pending", To(i)>>, i),
      Set(<<"outgoing", From(i)>>, i)>>

\* deleteFriendInvite reads the invite again: of one that is gone by then
\* only its own key is deleted, otherwise both pointers as well, whatever they
\* point at.
DeleteFriendInvite(i) ==
    <<Del(<<"invite", i>>)>> \o
    IF redis[<<"invite", i>>] = None THEN <<>>
    ELSE <<Del(<<"pending", To(i)>>), Del(<<"outgoing", From(i)>>)>>

PointedUser(side, i) == IF side = "pending" THEN To(i) ELSE From(i)

\* getPendingFriendInviteForUser and getOutgoingFriendInviteForUser: the
\* pointer, then the invite.  A pointer that leads nowhere is cleared, an
\* invite that has expired is deleted and both are told.
FindPointer(c, side, u, none) ==
    /\ c.todo = <<>> /\ c.at = side
    /\ LET i == redis[<<side, u>>] IN
       Become(c, IF i = None THEN [c EXCEPT !.at = none]
                 ELSE [c EXCEPT !.at = Follow[side], !.got = i])
    /\ UNCHANGED <<server, client>>

FollowPointer(c, side, u, found, none) ==
    /\ c.todo = <<>> /\ c.at = Follow[side]
    /\ LET i == c.got
           there == redis[<<"invite", i>>] # None /\ PointedUser(side, i) = u IN
       /\ Become(c, IF ~there
                    THEN [c EXCEPT !.at = none, !.got = None, !.todo = <<Del(<<side, u>>)>>]
                    ELSE IF i \in expired
                    THEN [c EXCEPT !.at = Overdue[side]]
                    ELSE [c EXCEPT !.at = found])
       /\ mixed' = mixed \cup (IF there /\ i \in expired
                               THEN MixedWith(calls \ {c}, Parties(i)) ELSE {})
    /\ UNCHANGED <<redis, made, expired, raced, blurred, client>>

ExpireFriendInvite(c, side, i) ==
    /\ c.todo = <<>> /\ c.at = Overdue[side]
    /\ Do(c, DeleteFriendInvite(i), Gone[side])
    /\ UNCHANGED <<server, client>>

ExpiryTold(c, side, i, none) ==
    /\ c.todo = <<>> /\ c.at = Gone[side]
    /\ Emit(Parties(i), "expired", i)
    /\ Become(c, [c EXCEPT !.at = none, !.got = None])
    /\ UNCHANGED <<server, page>>

Lookup(c, side, u, found, none) ==
    \/ FindPointer(c, side, u, none) \/ FollowPointer(c, side, u, found, none)
    \/ ExpireFriendInvite(c, side, c.got) \/ ExpiryTold(c, side, c.got, none)

------------------------------------------------------------------------------
(* createFriendInvite, acceptFriendInvite, declineFriendInvite *)

\* POST /online/friend-invites.
AskForMatch ==
    /\ Spend("ask") /\ Len(offers) < MaxId
    /\ \E u, v \in Users :
         /\ u # v
         /\ offers' = Append(offers, [kind |-> "invite", from |-> u, to |-> v, match |-> 0])
         /\ Begin({Call("create", u, Len(offers) + 1)})
         /\ mixed' = mixed \cup MixedWith(calls, {u, v})
    /\ UNCHANGED <<redis, matches, expired, raced, blurred, client>>

\* The users service says whether they are friends.
FriendshipChecked(c) ==
    /\ At(c, "create", "begin")
    /\ Goto(c, "pending") \/ Reply(c, "failed")
    /\ UNCHANGED <<server, client>>

\* Defect: only the pointer of the recipient is looked at.
AfterPending_Save == "save"
AfterPending == "outgoing"

CreateLooks(c) ==
    /\ c.op = "create"
    /\ \/ Lookup(c, "pending", To(c.id), "refused", AfterPending)
       \/ Lookup(c, "outgoing", From(c.id), "refused", "save")

CreateRefused(c) == At(c, "create", "refused") /\ Reply(c, "failed") /\ UNCHANGED <<server, client>>

CreateFriendInvite(c) ==
    /\ At(c, "create", "save")
    /\ Do(c, SaveFriendInvite(c.id), "told")
    /\ UNCHANGED <<server, client>>

InviteTold(c) ==
    /\ At(c, "create", "told")
    /\ Emit(Parties(c.id), IF Me = To(c.id) THEN "invited" ELSE "sent", c.id)
    /\ Reply(c, "created")
    /\ UNCHANGED <<server, page>>

\* Whoever looks finds an invite once the pointer is there, and both are told
\* of it before the one who made it has the answer.
KnownTo(u, i) ==
    \/ redis[<<IF u = To(i) THEN "pending" ELSE "outgoing", u>>] = i
    \/ \A d \in calls : d.op = "create" /\ d.id = i => d.at = "created"

\* The id of an invite is made up by the call that creates it.
Saved(c) == c.at = "created" \/ (c.at = "told" /\ Len(c.todo) < 3)

\* Users answer what they know of; Me answers what the page shows.
Answer(op) ==
    /\ Spend("answer")
    /\ \E i \in DOMAIN offers :
         /\ offers[i].kind = "invite"
         /\ redis[<<"invite", i>>] # None \/ \E d \in calls : d.id = i
         /\ \A d \in calls : d.op = "create" /\ d.id = i => Saved(d)
         /\ \E u \in IF op = "decline" THEN Parties(i) ELSE {To(i)} :
              /\ IF u = Me THEN i = IF u = To(i) THEN page.pending ELSE page.outgoing
                 ELSE KnownTo(u, i)
              /\ Begin({Call(op, u, i)})
         /\ mixed' = mixed \cup MixedWith(calls, Parties(i))
         /\ overtaken' = (overtaken \/ \E d \in calls : d.op = "create" /\ d.id = i)
    /\ UNCHANGED <<redis, made, expired, raced, blurred, page, events>>

\* Defect: no lock.
LockFree_Always(c) == TRUE
\* withMatchLock(inviteId).
LockFree(c) == \A d \in calls :
    ~(d.op = "accept" /\ d.id = c.id /\ d.at \notin {"begin", "ready", "failed"})

AcceptFriendInvite(c) ==
    /\ At(c, "accept", "begin") /\ LockFree(c)
    /\ IF redis[<<"invite", c.id>>] = None THEN Reply(c, "failed")
       ELSE Goto(c, IF c.id \in expired THEN Overdue.accept ELSE "delete")
    /\ UNCHANGED <<server, client>>

AcceptTooLate(c) ==
    /\ c.op = "accept"
    /\ ExpireFriendInvite(c, "accept", c.id) \/ ExpiryTold(c, "accept", c.id, "failed")

AcceptDeletes(c) ==
    /\ At(c, "accept", "delete")
    /\ Do(c, DeleteFriendInvite(c.id), "create")
    /\ UNCHANGED <<server, client>>

\* Nobody holds a lock while an invite is declined, or cancelled.
DeclineFriendInvite(c) ==
    /\ At(c, "decline", "begin")
    /\ IF redis[<<"invite", c.id>>] = None THEN Reply(c, "done") ELSE Goto(c, "delete")
    /\ UNCHANGED <<server, client>>

DeclineDeletes(c) ==
    /\ At(c, "decline", "delete")
    /\ Do(c, DeleteFriendInvite(c.id), "told")
    /\ UNCHANGED <<server, client>>

\* Defect: the one who declined is told.
Notified_Self(c) == {c.by}
Notified(c) == {Other(c)}

DeclineTold(c) ==
    /\ At(c, "decline", "told")
    /\ Emit(Notified(c), IF c.by = From(c.id) THEN "cancelled" ELSE "declined", c.id)
    /\ Reply(c, "done")
    /\ UNCHANGED <<server, page>>

Failed(c) ==
    /\ c.at = "failed" /\ c.op \in {"create", "accept"} /\ c.todo = <<>>
    /\ Finish(c) /\ UNCHANGED <<server, client>>

Invites(c) ==
    \/ FriendshipChecked(c) \/ CreateLooks(c) \/ CreateRefused(c)
    \/ CreateFriendInvite(c) \/ InviteTold(c)
    \/ AcceptFriendInvite(c) \/ AcceptTooLate(c) \/ AcceptDeletes(c)
    \/ DeclineFriendInvite(c) \/ DeclineDeletes(c) \/ DeclineTold(c) \/ Failed(c)

------------------------------------------------------------------------------
(* A match is made, found and over: saveState and getActiveSessionForUser *)

\* Defect: the index is written before the session it names.
SaveState_IndexFirst(m, status, us) ==
    LET index(u) == Set(<<"active", u>>, IF status = "over" THEN None ELSE m) IN
    <<index(us[1]), index(us[2]), Set(<<"session", m>>, status)>>
\* A session that is over is deleted from the index of both, whatever it names.
SaveState(m, status, us) ==
    LET index(u) == Set(<<"active", u>>, IF status = "over" THEN None ELSE m) IN
    <<Set(<<"session", m>>, status), index(us[1]), index(us[2])>>

\* The acceptor of a rematch begins, the requester of an invite does.
Seats(c) == IF c.op = "accept" THEN <<From(c.id), To(c.id)>> ELSE <<c.by, From(c.id)>>
InSeats(m) == { us \in [1..2 -> matches[m].players] : us[1] # us[2] }

\* The users whose index a call writes, or may.
Indexing(c) ==
    IF c.op \in {"accept", "acceptRematch"} /\ c.at = "announce" THEN matches[c.got].players
    ELSE IF c.op \in {"end", "chat"} THEN matches[c.id].players
    ELSE IF c.op = "active" THEN {Me} ELSE {}

\* Another match of u than m is open, or another call has to do with the index.
Crowded(u, m, others) ==
    \/ \E k \in DOMAIN matches \ {m} : u \in matches[k].players /\ redis[<<"session", k>>] # "over"
    \/ \E d \in others : u \in Indexing(d)

CreateSession(c) ==
    /\ c.op \in {"accept", "acceptRematch"} /\ c.at = "create" /\ c.todo = <<>>
    /\ Len(matches) < MaxId
    /\ LET m == Len(matches) + 1
           us == Seats(c) IN
       /\ matches' = Append(matches, NewMatch({us[1], us[2]}, c.id))
       /\ Become(c, [c EXCEPT !.at = "announce", !.got = m, !.todo = SaveState(m, "live", us)])
       /\ blurred' = blurred \cup { u \in {us[1], us[2]} : Crowded(u, m, calls \ {c}) }
    /\ UNCHANGED <<redis, offers, expired, mixed, raced, client>>

MatchReady(c) ==
    /\ c.op \in {"accept", "acceptRematch"} /\ c.at = "announce" /\ c.todo = <<>>
    /\ Emit(matches[c.got].players,
            IF c.op = "accept" THEN "ready" ELSE "rematchReady", c.got)
    /\ IF c.op = "accept" THEN Reply(c, "ready") ELSE Finish(c)
    /\ UNCHANGED <<server, page>>

\* A match ends, under its lock, and its session is saved.  Every other save
\* under the lock is of a match that goes on, and finds what it writes here.
MatchEnds ==
    /\ Spend("match")
    /\ \E m \in DOMAIN matches :
         /\ redis[<<"session", m>>] = "live"
         /\ \A d \in calls : ~(d.op = "end" /\ d.id = m)
         /\ \E us \in InSeats(m) :
              Begin({[Call("end", None, m) EXCEPT !.todo = SaveState(m, "over", us)]})
         /\ blurred' = blurred \cup { u \in matches[m].players : Crowded(u, m, calls) }
    /\ UNCHANGED <<redis, made, expired, mixed, raced, client>>

MatchEnded(c) == At(c, "end", "begin") /\ Finish(c) /\ UNCHANGED <<server, client>>

\* A player chats, also in a match that is over: the session is read, ...
SpeakUp ==
    /\ Spend("match")
    /\ \E m \in DOMAIN matches :
         /\ redis[<<"session", m>>] # None
         /\ Begin({[Call("chat", None, m) EXCEPT !.at = redis[<<"session", m>>]]})
         /\ blurred' = blurred \cup { u \in matches[m].players : Crowded(u, m, calls) }
    /\ UNCHANGED <<redis, made, expired, mixed, raced, client>>

\* ... and saved as it was read once the filter has let the message through,
\* without a lock.
AddChatMessage(c) ==
    /\ c.op = "chat" /\ c.at \in {"live", "over"} /\ c.todo = <<>>
    /\ \/ Finish(c)
       \/ \E us \in InSeats(c.id) : Do(c, SaveState(c.id, c.at, us), "done")
    /\ UNCHANGED <<server, client>>

ChatSaved(c) == At(c, "chat", "done") /\ Finish(c) /\ UNCHANGED <<server, client>>

\* GET /online/sessions/active.
AskForActive ==
    /\ Spend("match") /\ Begin({Call("active", Me, 0)}) /\ UNCHANGED <<server, client>>

ActiveIndex(c) ==
    /\ At(c, "active", "begin")
    /\ IF redis[<<"active", Me>>] = None THEN Finish(c)
       ELSE Become(c, [c EXCEPT !.at = "session", !.got = redis[<<"active", Me>>]])
    /\ UNCHANGED <<server, client>>

\* A session that is gone or over: the index is deleted, whatever it names.
GetActiveSessionForUser(c) ==
    /\ At(c, "active", "session")
    /\ IF redis[<<"session", c.got>>] = "live" /\ Me \in matches[c.got].players
       THEN Finish(c) ELSE Do(c, <<Del(<<"active", Me>>)>>, "answer")
    /\ UNCHANGED <<server, client>>

ActiveAnswered(c) == At(c, "active", "answer") /\ Finish(c) /\ UNCHANGED <<server, client>>

MatchSteps(c) ==
    \/ CreateSession(c) \/ MatchReady(c) \/ MatchEnded(c) \/ AddChatMessage(c) \/ ChatSaved(c)
    \/ ActiveIndex(c) \/ GetActiveSessionForUser(c) \/ ActiveAnswered(c)

------------------------------------------------------------------------------
(* Rematches: no lock *)

\* A later request for the same match replaces the key of the one before; the
\* pointer of its opponent stays.
RequestRematch ==
    /\ Spend("rematch") /\ Len(offers) < MaxId
    /\ \E m \in DOMAIN matches : \E u, v \in matches[m].players :
         /\ u # v /\ redis[<<"session", m>>] = "over"
         /\ offers' = Append(offers, [kind |-> "rematch", from |-> u, to |-> v, match |-> m])
         /\ LET r == Len(offers) + 1 IN
            Begin({[Call("requestRematch", u, r) EXCEPT !.todo =
                      <<Set(<<"rematch", m>>, r), Set(<<"rematchPending", v>>, m)>>]})
    /\ UNCHANGED <<redis, matches, expired, ghosts, client>>

RematchRequested(c) ==
    /\ At(c, "requestRematch", "begin")
    /\ Emit({To(c.id)}, "rematchRequested", offers[c.id].match)
    /\ Finish(c)
    /\ UNCHANGED <<server, page>>

\* sameInvite, and its like for rematches.
Clear(side, i) == IF page[side] = i THEN None ELSE page[side]

\* The one who asked may only withdraw, by a decline; the page does not wait
\* for the answer to a decline.
AnswerRematch(op) ==
    /\ Spend("rematch")
    /\ \E i \in DOMAIN offers :
         /\ offers[i].kind = "rematch"
         /\ \A d \in calls : ~(d.op = "requestRematch" /\ d.id = i)
         /\ redis[<<"rematch", offers[i].match>>] # None \/ \E d \in calls : d.id = i
         /\ \E u \in Parties(i) :
              /\ u = Me /\ op = "acceptRematch" => page.rematch = offers[i].match
              /\ Begin({Call(op, u, i)})
              /\ page' = IF u = Me /\ op = "declineRematch"
                         THEN [page EXCEPT !.rematch = Clear("rematch", offers[i].match)]
                         ELSE page
    /\ UNCHANGED <<server, events, overtaken>>

\* deleteRematchRequest reads the request again.
DeleteRematchRequest(m) ==
    LET r == redis[<<"rematch", m>>] IN
    <<Del(<<"rematch", m>>)>> \o IF r = None THEN <<>> ELSE <<Del(<<"rematchPending", To(r)>>)>>

\* The request is read; the session it is for need not be over any more.
AcceptRematch(c) ==
    /\ At(c, "acceptRematch", "begin")
    /\ LET r == redis[<<"rematch", offers[c.id].match>>] IN
       IF r = None THEN Finish(c) /\ UNCHANGED raced
       ELSE IF r \in expired \/ From(r) = c.by THEN Finish(c) /\ UNCHANGED raced
       ELSE /\ Become(c, [c EXCEPT !.at = "delete", !.id = r])
            /\ raced' = raced \cup
                 { d.id : d \in { e \in calls : e.op = "acceptRematch" /\ e.id = r
                                                /\ e.at # "begin" } }
    /\ UNCHANGED <<redis, made, expired, mixed, blurred, client>>

DeclineRematch(c) ==
    /\ At(c, "declineRematch", "begin")
    /\ LET r == redis[<<"rematch", offers[c.id].match>>] IN
       IF r = None THEN Finish(c) ELSE Become(c, [c EXCEPT !.at = "delete", !.id = r])
    /\ UNCHANGED <<server, client>>

RematchDeletes(c) ==
    /\ c.op \in {"acceptRematch", "declineRematch"} /\ c.at = "delete" /\ c.todo = <<>>
    /\ Do(c, DeleteRematchRequest(offers[c.id].match),
          IF c.op = "acceptRematch" THEN "create" ELSE "told")
    /\ UNCHANGED <<server, client>>

RematchDeclined(c) ==
    /\ At(c, "declineRematch", "told")
    /\ Emit({Other(c)}, "rematchDeclined", offers[c.id].match)
    /\ Finish(c)
    /\ UNCHANGED <<server, page>>

FindRematch(c) ==
    /\ At(c, "lookRematch", "begin")
    /\ LET m == redis[<<"rematchPending", Me>>] IN
       Become(c, IF m = None THEN [c EXCEPT !.at = "answered"]
                 ELSE [c EXCEPT !.at = "follow", !.got = m])
    /\ UNCHANGED <<server, client>>

FollowRematch(c) ==
    /\ At(c, "lookRematch", "follow")
    /\ LET r == redis[<<"rematch", c.got>>] IN
       Become(c, IF r # None /\ r \notin expired /\ To(r) = Me THEN [c EXCEPT !.at = "session"]
                 ELSE [c EXCEPT !.at = "answered", !.got = None,
                                !.todo = <<Del(<<"rematchPending", Me>>)>>])
    /\ UNCHANGED <<server, client>>

\* The request for a match that is played again is deleted.
GetPendingRematchForUser(c) ==
    /\ At(c, "lookRematch", "session")
    /\ Become(c, IF redis[<<"session", c.got>>] = "over" THEN [c EXCEPT !.at = "answered"]
                 ELSE [c EXCEPT !.at = "answered", !.got = None,
                                !.todo = DeleteRematchRequest(c.got)])
    /\ UNCHANGED <<server, client>>

Rematches(c) ==
    \/ RematchRequested(c) \/ AcceptRematch(c) \/ DeclineRematch(c) \/ RematchDeletes(c)
    \/ RematchDeclined(c) \/ FindRematch(c) \/ FollowRematch(c)
    \/ GetPendingRematchForUser(c)

------------------------------------------------------------------------------
(* The hooks of Me: useFriendMatchInvites and usePendingRematchNotification *)

\* The effects of both: handlers, and one GET for every kind of offer.
EnableHooks ==
    /\ ~page.on /\ Spend("hooks")
    /\ page' = [Off EXCEPT !.on = TRUE]
    /\ Begin({Call("look", Me, 0), [Call("lookRematch", Me, 0) EXCEPT !.n = started + 2]})
    /\ mixed' = mixed \cup MixedWith(calls, {Me})
    /\ UNCHANGED <<redis, made, expired, raced, blurred, events, overtaken>>

Connected ==
    /\ page.on /\ ~page.joined
    /\ page' = [page EXCEPT !.joined = TRUE]
    /\ UNCHANGED <<server, events, overtaken, calls, started, left>>

\* The connection is lost; the hooks do not look again when there is a new one.
Disconnected ==
    /\ page.joined /\ Spend("hooks")
    /\ page' = [page EXCEPT !.joined = FALSE] /\ events' = <<>>
    /\ overtaken' = (overtaken \/ events # <<>>)
    /\ UNCHANGED <<server, calls, started>>

\* The cleanup, when the user goes to the board, and at once when a match is
\* ready: the socket is closed and the answers of the GETs are dropped.
DisableHooks ==
    /\ page.on
    /\ IF page.ready = None THEN Spend("hooks") ELSE UNCHANGED left
    /\ page' = Off /\ events' = <<>>
    /\ calls' = { IF c.op \in {"look", "lookRematch"} THEN [c EXCEPT !.by = None] ELSE c :
                    c \in calls }
    /\ UNCHANGED <<server, started, overtaken>>

\* Promise.all: pending is answered into id, then outgoing into got.
LookAtInvites(c) ==
    /\ c.op = "look"
    /\ \/ At(c, "look", "begin") /\ Goto(c, "pending") /\ UNCHANGED <<server, client>>
       \/ Lookup(c, "pending", Me, "second", "second")
       \/ /\ At(c, "look", "second")
          /\ Become(c, [c EXCEPT !.at = "outgoing", !.got = None,
                                 !.id = IF c.got = None THEN 0 ELSE c.got])
          /\ UNCHANGED <<server, client>>
       \/ Lookup(c, "outgoing", Me, "answered", "answered")

\* Answers on their way that write what the page shows of invites.
OnTheWay == { c \in calls : c.by = Me /\ (c.op = "look" \/ c.op = "create") }

InvitesLoaded(c) ==
    /\ At(c, "look", "answered")
    /\ page' = IF c.by = None THEN page
               ELSE [page EXCEPT !.pending = IF c.id = 0 THEN None ELSE c.id, !.outgoing = c.got]
    /\ Finish(c)
    /\ UNCHANGED <<server, events, overtaken>>

RematchLoaded(c) ==
    /\ At(c, "lookRematch", "answered")
    /\ page' = IF c.by = None THEN page ELSE [page EXCEPT !.rematch = c.got]
    /\ Finish(c)
    /\ UNCHANGED <<server, events, overtaken>>

\* friend-match:sent-local, from the answer of the POST.
HandleLocalSent(c) ==
    /\ At(c, "create", "created")
    /\ page' = IF page.on THEN [page EXCEPT !.outgoing = c.id] ELSE page
    /\ Finish(c)
    /\ overtaken' = (overtaken \/ OnTheWay # {c})
    /\ UNCHANGED <<server, events>>

InviteAnswered(c) ==
    /\ c.todo = <<>>
    /\ \/ /\ c.op = "accept" /\ c.at = "ready"
          /\ page' = [page EXCEPT !.pending = None, !.outgoing = None, !.ready = c.got]
       \/ /\ c.op = "decline" /\ c.at = "done"
          /\ page' = IF Me = To(c.id) THEN [page EXCEPT !.pending = None]
                     ELSE [page EXCEPT !.outgoing = None]
    /\ Finish(c)
    /\ overtaken' = (overtaken \/ OnTheWay # {} \/ events # <<>>)
    /\ UNCHANGED <<server, events>>

PageAfter(e) ==
    CASE e.kind = "invited" -> [page EXCEPT !.pending = e.id]
      [] e.kind = "sent" -> [page EXCEPT !.outgoing = e.id]
      [] e.kind = "ready" -> [page EXCEPT !.pending = None, !.outgoing = None, !.ready = e.id]
      [] e.kind = "declined" -> [page EXCEPT !.outgoing = Clear("outgoing", e.id)]
      [] e.kind = "cancelled" -> [page EXCEPT !.pending = Clear("pending", e.id)]
      [] e.kind = "expired" -> [page EXCEPT !.pending = Clear("pending", e.id),
                                            !.outgoing = Clear("outgoing", e.id)]
      [] e.kind = "rematchRequested" -> [page EXCEPT !.rematch = e.id]
      [] e.kind = "rematchReady" -> [page EXCEPT !.rematch = None, !.ready = e.id]
      [] e.kind = "rematchDeclined" -> [page EXCEPT !.rematch = Clear("rematch", e.id)]

EventArrives ==
    /\ events # <<>> /\ events' = Tail(events)
    /\ page' = PageAfter(Head(events))
    /\ overtaken' = (overtaken \/ OnTheWay # {})
    /\ UNCHANGED <<server, calls, started, left>>

\* The timer of the invites that are shown.
ExpiryTimer ==
    /\ {page.pending, page.outgoing} \cap expired # {}
    /\ page' = [page EXCEPT !.pending = IF @ \in expired THEN None ELSE @,
                            !.outgoing = IF @ \in expired THEN None ELSE @]
    /\ UNCHANGED <<server, events, overtaken, calls, started, left>>

Hooks ==
    \/ EnableHooks \/ Connected \/ Disconnected \/ DisableHooks \/ EventArrives \/ ExpiryTimer
    \/ \E c \in calls : \/ LookAtInvites(c) \/ InvitesLoaded(c) \/ RematchLoaded(c)
                        \/ HandleLocalSent(c) \/ InviteAnswered(c)

------------------------------------------------------------------------------
(* Time *)

Expire ==
    /\ Spend("expire")
    /\ \E i \in DOMAIN offers \ expired : expired' = expired \cup {i}
    /\ UNCHANGED <<redis, made, ghosts, client, calls, started>>

\* Redis drops the keys of an expired offer, the pointers, which were set
\* later, after what they point at.
TimeToLive ==
    /\ \E i \in expired :
         LET key == IF offers[i].kind = "invite" THEN <<"invite", i>>
                    ELSE <<"rematch", offers[i].match>>
             value == IF offers[i].kind = "invite" THEN "pending" ELSE i
             pointers == IF offers[i].kind = "invite"
                         THEN { k \in {<<"pending", To(i)>>, <<"outgoing", From(i)>>} :
                                  redis[k] = i }
                         ELSE { k \in {<<"rematchPending", To(i)>>} :
                                  redis[k] = offers[i].match } IN
         \/ redis[key] = value /\ redis' = [redis EXCEPT ![key] = None]
         \/ /\ redis[key] = None
            /\ \E k \in pointers : redis' = [redis EXCEPT ![k] = None]
    /\ UNCHANGED <<made, expired, ghosts, client, calls, started, left>>

Next ==
    \/ \E c \in calls : Command(c) \/ Invites(c) \/ MatchSteps(c) \/ Rematches(c)
    \/ AskForMatch \/ RequestRematch \/ MatchEnds \/ SpeakUp \/ AskForActive \/ Hooks
    \/ \E op \in {"accept", "decline"} : Answer(op)
    \/ \E op \in {"acceptRematch", "declineRematch"} : AnswerRematch(op)
    \/ Expire \/ TimeToLive

Spec == Init /\ [][Next]_vars
=============================================================================
