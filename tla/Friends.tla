------------------------------ MODULE Friends ------------------------------
(***************************************************************************)
(* The users service: profiles, friend requests and direct messages, and   *)
(* the pages of one user, Me, that call it.                                *)
(*                                                                         *)
(* Every SQL statement is one step, so what a call has read may be out of  *)
(* date when it writes.  A page keeps what the calls answered; its answers *)
(* wait in calls until the page takes them.  The other users call the      *)
(* service without a page that is looked at.                               *)
(***************************************************************************)
EXTENDS Naturals, Sequences, FiniteSets

CONSTANTS
    Users, Me, None,
    Budgets  \* what may still be started in a behaviour: a record of numbers

ASSUME FriendsAssumption ==
    /\ IsFiniteSet(Users) /\ Me \in Users
    /\ None \notin Users \cup Nat \cup [{"displayName", "avatar"} -> Nat]
    /\ \A b \in Budgets : b \in [friend: Nat, open: Nat, send: Nat, visit: Nat,
                                 befriended: BOOLEAN]

VARIABLES
    rows, lastId,   \* friend_requests, and its AUTOINCREMENT
    convs, msgs,    \* chat_conversations and chat_messages, in order of id
    profile,        \* the row of Me in user_profiles
    calls, started, \* requests under way, and how many have started
    page,           \* FriendsPage of Me
    chat,           \* MessagesPage of Me, and the room of its socket
    events,         \* chat:message events on their way to it
    left,
    saved, stale    \* the last edit of every field; a stale form was saved

table == <<rows, lastId>>
talk == <<convs, msgs>>
me == <<profile, saved, stale>>
pages == <<page, chat, events>>
vars == <<table, talk, me, calls, started, pages, left>>

Closed == [open |-> FALSE, friends |-> {}, requests |-> {}]
NoChat == [visit |-> 0, friend |-> None, conv |-> None, shown |-> {},
           room |-> None, since |-> 0]

Between(u, v) == { r \in rows : {r.from, r.to} = {u, v} }
Accepted(S) == { r \in S : r.status = "accepted" }
HasFriendship(u, v) == Accepted(Between(u, v)) # {}

\* The ids of the requests everybody has made, where Me begins with friends.
Number == CHOOSE n \in [Users \ {Me} -> 1 .. Cardinality(Users) - 1] :
              \A u, v \in Users \ {Me} : n[u] = n[v] => u = v

Init ==
    /\ left \in Budgets
    /\ rows = IF left.befriended
              THEN {[id |-> Number[u], from |-> u, to |-> Me, status |-> "accepted"] :
                      u \in Users \ {Me}}
              ELSE {}
    /\ lastId = IF left.befriended THEN Cardinality(Users) - 1 ELSE 0
    /\ convs = <<>> /\ msgs = <<>>
    /\ profile = None /\ saved = None /\ stale = FALSE
    /\ calls = {} /\ started = 0
    /\ page = Closed /\ chat = NoChat /\ events = {}

------------------------------------------------------------------------------
(* Calls *)

Call(op, u, v, id, visit) ==
    [n |-> started + 1, op |-> op, by |-> u, to |-> v, id |-> id, visit |-> visit,
     at |-> "check", got |-> None, friends |-> HasFriendship(u, v)]

Spend(kind) == left[kind] > 0 /\ left' = [left EXCEPT ![kind] = @ - 1]
Begin(c) == calls' = calls \cup {c} /\ started' = started + 1
Become(c, d) == calls' = (calls \ {c}) \cup {d} /\ UNCHANGED <<started, left>>

\* An answer waits for the page of Me that asked; nobody looks at the others.
Awaited(c) == c.by = Me /\ c.visit # None
Reply(c, answer, got) ==
    /\ calls' = (calls \ {c}) \cup
         IF Awaited(c) THEN {[c EXCEPT !.at = answer, !.got = got]} ELSE {}
    /\ UNCHANGED <<started, left>>

Refuse(c) == Reply(c, "failed", None)

------------------------------------------------------------------------------
(* Friend requests: UserRepository *)

\* The row that the query for an existing request of the two finds, if any,
\* refuses the new one, whatever its state and its direction.
CreateFriendRequestCheck(c) ==
    /\ c.op = "request" /\ c.at = "check"
    /\ IF Between(c.by, c.to) = {} THEN Become(c, [c EXCEPT !.at = "insert"])
       ELSE Refuse(c)
    /\ UNCHANGED <<table, talk, me, pages>>

\* Defect: no UNIQUE (sender, recipient).
UniqueDirection_Not(u, v) == TRUE
UniqueDirection(u, v) == \A r \in rows : <<r.from, r.to>> # <<u, v>>

CreateFriendRequestInsert(c) ==
    /\ c.op = "request" /\ c.at = "insert"
    /\ LET row == [id |-> lastId + 1, from |-> c.by, to |-> c.to,
                   status |-> "pending"] IN
       IF UniqueDirection(c.by, c.to)
       THEN /\ rows' = rows \cup {row} /\ lastId' = lastId + 1
            /\ Reply(c, "done", row)
       ELSE Refuse(c) /\ UNCHANGED table
    /\ UNCHANGED <<talk, me, pages>>

\* acceptFriendRequest reads the row, writes its status and reads it again.
AcceptFriendRequestCheck(c) ==
    /\ c.op = "accept" /\ c.at = "check"
    /\ IF \E r \in rows : r.id = c.id /\ r.to = c.by
       THEN Become(c, [c EXCEPT !.at = "update",
                       !.got = CHOOSE r \in rows : r.id = c.id])
       ELSE Refuse(c)
    /\ UNCHANGED <<table, talk, me, pages>>

\* Defect: the row that was read is written back.
AcceptedRows_WriteBack(c) ==
    { r \in rows : r.id # c.id } \cup {[c.got EXCEPT !.status = "accepted"]}

\* UPDATE ... WHERE id = ?
AcceptedRows(c) ==
    { [r EXCEPT !.status = IF r.id = c.id THEN "accepted" ELSE @] : r \in rows }

AcceptFriendRequestUpdate(c) ==
    /\ c.op = "accept" /\ c.at = "update"
    /\ rows' = AcceptedRows(c)
    /\ Become(c, [c EXCEPT !.at = "select"])
    /\ UNCHANGED <<lastId, talk, me, pages>>

AcceptFriendRequestSelect(c) ==
    /\ c.op = "accept" /\ c.at = "select"
    /\ IF \E r \in rows : r.id = c.id
       THEN Reply(c, "done", CHOOSE r \in rows : r.id = c.id)
       ELSE Refuse(c)
    /\ UNCHANGED <<table, talk, me, pages>>

\* deleteFriendRequest looks at who asks, not at the status: it also ends a
\* friendship that began after the check.
DeleteFriendRequestCheck(c) ==
    /\ c.op = "delete" /\ c.at = "check"
    /\ IF \E r \in rows : r.id = c.id /\ c.by \in {r.from, r.to}
       THEN Become(c, [c EXCEPT !.at = "remove"])
       ELSE Refuse(c)
    /\ UNCHANGED <<table, talk, me, pages>>

DeleteFriendRequestRemove(c) ==
    /\ c.op = "delete" /\ c.at = "remove"
    /\ rows' = { r \in rows : r.id # c.id }
    /\ Reply(c, "done", None)
    /\ UNCHANGED <<lastId, talk, me, pages>>

\* deleteFriendship: one statement, and both rows of requests that crossed.
DeleteFriendship(c) ==
    /\ c.op = "unfriend"
    /\ c.at = "check"
    /\ rows' = rows \ Accepted(Between(c.by, c.to))
    /\ IF HasFriendship(c.by, c.to) THEN Reply(c, "done", None) ELSE Refuse(c)
    /\ UNCHANGED <<lastId, talk, me, pages>>

FriendStep(c) ==
    \/ CreateFriendRequestCheck(c) \/ CreateFriendRequestInsert(c)
    \/ AcceptFriendRequestCheck(c) \/ AcceptFriendRequestUpdate(c)
    \/ AcceptFriendRequestSelect(c)
    \/ DeleteFriendRequestCheck(c) \/ DeleteFriendRequestRemove(c)
    \/ DeleteFriendship(c)

\* Routes that users call without a page that matters here.
OthersAsk ==
    /\ Spend("friend")
    /\ \E u \in Users \ {Me} :
         \/ Begin(Call("request", u, Me, 0, None))
         \/ Begin(Call("unfriend", u, Me, 0, None))
         \/ \E r \in rows, op \in {"accept", "delete"} :
              r \notin Accepted(rows) /\ Begin(Call(op, u, Me, r.id, None))
    /\ UNCHANGED <<table, talk, me, pages>>

------------------------------------------------------------------------------
(* FriendsPage of Me *)

\* The page asks for its friends and its requests at the same time.
OpenFriendsPage ==
    /\ ~page.open /\ chat.visit = 0 /\ Spend("friend")
    /\ page' = [Closed EXCEPT !.open = TRUE]
    /\ Begin([Call("overview", Me, Me, 0, 0) EXCEPT
                !.got = [friends |-> None, incoming |-> None, outgoing |-> None]])
    /\ UNCHANGED <<table, talk, me, chat, events>>

\* DISTINCT: requests that crossed make one friend.
FriendsOf(u) == { v \in Users \ {u} : HasFriendship(u, v) }

ListFriends(c) ==
    /\ c.op = "overview" /\ c.at = "check" /\ c.got.friends = None
    /\ Become(c, [c EXCEPT !.got.friends = FriendsOf(Me)])
    /\ UNCHANGED <<table, talk, me, pages>>

Incoming(u) == { r \in rows : r.status = "pending" /\ r.to = u }
Outgoing(u) == { r \in rows : r.status = "pending" /\ r.from = u }

\* Two queries: what others asked of Me, then what Me asked.
ListPendingFriendRequests(c) ==
    /\ c.op = "overview" /\ c.at = "check" /\ c.got.outgoing = None
    /\ Become(c, IF c.got.incoming = None
                 THEN [c EXCEPT !.got.incoming = Incoming(Me)]
                 ELSE [c EXCEPT !.got.outgoing = Outgoing(Me)])
    /\ UNCHANGED <<table, talk, me, pages>>

\* getFriendsOverview: both answers are there.
GetFriendsOverview(c) ==
    /\ c.op = "overview" /\ c.at = "check"
    /\ c.got.friends # None /\ c.got.outgoing # None
    /\ page' = [page EXCEPT !.friends = c.got.friends,
                            !.requests = c.got.incoming \cup c.got.outgoing]
    /\ calls' = calls \ {c}
    /\ UNCHANGED <<table, talk, me, chat, events, started, left>>

Overview(c) ==
    ListFriends(c) \/ ListPendingFriendRequests(c) \/ GetFriendsOverview(c)

Loaded == page.open /\ \A c \in calls : c.op # "overview"

\* The forms and buttons.  Only a request and the removal of a friend are
\* disabled while one like them is under way.
Waiting(op) == { c \in calls : c.op = op /\ Awaited(c) }
Offered(op) == { r \in page.requests : op = "accept" => r.to = Me }
Removable == { u \in page.friends : \A c \in Waiting("unfriend") : c.to # u }

HandleSubmit ==
    /\ page.open /\ Waiting("request") = {} /\ Spend("friend")
    /\ \E u \in Users \ {Me} : Begin(Call("request", Me, u, 0, 0))
    /\ UNCHANGED <<table, talk, me, pages>>

HandleRequest(op) ==
    /\ Loaded /\ Spend("friend")
    /\ \E r \in Offered(op) :
         Begin(Call(op, Me, IF r.to = Me THEN r.from ELSE r.to, r.id, 0))
    /\ UNCHANGED <<table, talk, me, pages>>

HandleUnfriend ==
    /\ Loaded /\ Spend("friend")
    /\ \E u \in Removable : Begin(Call("unfriend", Me, u, 0, 0))
    /\ UNCHANGED <<table, talk, me, pages>>

Befriends(c) == c.op = "accept" /\ c.at = "done"

\* What the handlers do with an answer.
PageAnswered(c) ==
    /\ c.op \in {"request", "accept", "delete", "unfriend"}
    /\ c.at \in {"done", "failed"}
    /\ page' = [page EXCEPT
         !.friends = CASE Befriends(c) -> @ \cup {c.to}
                       [] c.op = "unfriend" /\ c.at = "done" -> @ \ {c.to}
                       [] OTHER -> @,
         !.requests = CASE c.at = "failed" -> @
                        [] c.op = "request" -> @ \cup {c.got}
                        [] OTHER -> { r \in @ : r.id # c.id \/ c.op = "unfriend" }]
    /\ calls' = calls \ {c}
    /\ UNCHANGED <<table, talk, me, chat, events, started, left>>

FriendsPage ==
    \/ OpenFriendsPage \/ HandleSubmit \/ HandleUnfriend
    \/ \E op \in {"accept", "delete"} : HandleRequest(op)
    \/ \E c \in calls : PageAnswered(c) \/ Overview(c)

------------------------------------------------------------------------------
(* Direct messages: ChatRepository and the socket server *)

ConvOf(u, v) == { i \in DOMAIN convs : convs[i] = {u, v} }
Talks(c) == c.op \in {"list", "send", "join"}

\* Defect: friendship matters only for a new conversation.
MayTalk_OnceStarted(c) == HasFriendship(c.by, c.to) \/ ConvOf(c.by, c.to) # {}
MayTalk(c) == HasFriendship(c.by, c.to)

\* getOrCreateConversationForFriends, statement by statement.
TalkCheck(c) ==
    /\ Talks(c) /\ c.at = "check"
    /\ IF MayTalk(c)
       THEN Become(c, [c EXCEPT !.at = "find",
                       !.friends = @ \/ HasFriendship(c.by, c.to)])
       ELSE Refuse(c)
    /\ UNCHANGED <<table, talk, me, pages>>

TalkFind(c) ==
    /\ Talks(c) /\ c.at = "find"
    /\ Become(c, IF ConvOf(c.by, c.to) = {} THEN [c EXCEPT !.at = "create"]
                 ELSE [c EXCEPT !.at = "talk",
                       !.id = CHOOSE i \in ConvOf(c.by, c.to) : TRUE])
    /\ UNCHANGED <<table, talk, me, pages>>

\* UNIQUE (user_low_id, user_high_id).
UniqueConversation(u, v) == ConvOf(u, v) = {}

TalkCreate(c) ==
    /\ Talks(c) /\ c.at = "create"
    /\ IF UniqueConversation(c.by, c.to)
       THEN /\ convs' = Append(convs, {c.by, c.to})
            /\ Become(c, [c EXCEPT !.at = "talk", !.id = Len(convs) + 1])
       ELSE Refuse(c) /\ UNCHANGED convs
    /\ UNCHANGED <<table, msgs, me, pages>>

ListMessages(c) ==
    /\ c.op = "list" /\ c.at = "talk"
    /\ Reply(c, "done", { i \in DOMAIN msgs : msgs[i].conv = c.id })
    /\ UNCHANGED <<table, talk, me, pages>>

\* The insert, then the update of the conversation and the read of the row.
SendMessage(c) ==
    /\ c.op = "send" /\ c.at = "talk"
    /\ msgs' = Append(msgs, [conv |-> c.id, friends |-> c.friends])
    /\ Become(c, [c EXCEPT !.at = "emit", !.got = Len(msgs) + 1])
    /\ UNCHANGED <<table, convs, me, pages>>

\* sendMessageToFriend emits to the room and answers.
EmitMessage(c) ==
    /\ c.op = "send" /\ c.at = "emit"
    /\ events' = IF chat.room = c.id
                 THEN events \cup {[visit |-> chat.visit, msg |-> c.got]} ELSE events
    /\ Reply(c, "done", {c.got})
    /\ UNCHANGED <<table, talk, me, page, chat>>

\* chat:join of the socket of a visit; a socket that is gone joins nothing.
JoinRoom(c) ==
    /\ c.op = "join" /\ c.at = "talk"
    /\ chat' = IF c.visit = chat.visit
               THEN [chat EXCEPT !.room = c.id, !.since = Len(msgs)] ELSE chat
    /\ calls' = calls \ {c}
    /\ UNCHANGED <<table, talk, me, page, events, started, left>>

TalkStep(c) ==
    \/ TalkCheck(c) \/ TalkFind(c) \/ TalkCreate(c)
    \/ ListMessages(c) \/ SendMessage(c) \/ EmitMessage(c) \/ JoinRoom(c)

OthersSend ==
    /\ Spend("send")
    /\ \E u \in Users \ {Me} : Begin(Call("send", u, Me, 0, None))
    /\ UNCHANGED <<table, talk, me, pages>>

------------------------------------------------------------------------------
(* MessagesPage of Me *)

\* The list of friends is loaded with the page; the model reads it anew for
\* every choice.
Selectable == FriendsOf(Me)

\* leaveChatConversation and disconnectMessagesSocket.
LeftRoom == [chat EXCEPT !.room = None, !.since = 0]

\* Another friend is chosen: the effect of the one before is cleaned up, its
\* socket leaves and is closed.  The messages shown stay until others come.
SelectFriend ==
    /\ ~page.open /\ Spend("open")
    /\ \E u \in Selectable \ {chat.friend} :
         /\ chat' = [LeftRoom EXCEPT !.visit = @ + 1, !.friend = u, !.conv = None]
         /\ Begin(Call("list", Me, u, 0, chat.visit + 1))
    /\ events' = {}
    /\ UNCHANGED <<table, talk, me, page>>

\* connectMessagesSocket and the chat:join it sends.
AskToJoin(c) == Call("join", Me, c.to, 0, c.visit)

\* The messages are shown; then the socket is opened and asks for the room.
MessagesLoaded(c) ==
    /\ c.op = "list" /\ c.at \in {"done", "failed"}
    /\ IF c.visit # chat.visit THEN calls' = calls \ {c} /\ UNCHANGED <<chat, started>>
       ELSE IF c.at = "done"
       THEN /\ chat' = [chat EXCEPT !.conv = c.id, !.shown = c.got]
            /\ calls' = (calls \ {c}) \cup {AskToJoin(c)}
            /\ started' = started + 1
       ELSE /\ chat' = [chat EXCEPT !.conv = None, !.shown = {}]
            /\ calls' = calls \ {c} /\ UNCHANGED started
    /\ UNCHANGED <<table, talk, me, page, events, left>>

JoinRefused(c) ==
    /\ c.op = "join" /\ c.at = "failed"
    /\ calls' = calls \ {c}
    /\ UNCHANGED <<table, talk, me, pages, started, left>>

\* Defect: the last message replaces the others.
MergeMessages_Last(current, incoming) == incoming
\* By id, so that nothing is shown twice.
MergeMessages(current, incoming) == current \cup incoming

MessageArrives(e) ==
    /\ e \in events /\ events' = events \ {e}
    /\ chat' = IF e.visit = chat.visit /\ msgs[e.msg].conv = chat.conv
               THEN [chat EXCEPT !.shown = MergeMessages(@, {e.msg})] ELSE chat
    /\ UNCHANGED <<table, talk, me, page, calls, started, left>>

\* The form is there once the messages are loaded, or could not be.
Composer ==
    /\ chat.friend # None /\ Waiting("send") = {}
    /\ \A c \in Waiting("list") : c.visit # chat.visit

HandleSend ==
    /\ Composer /\ Spend("send")
    /\ Begin(Call("send", Me, chat.friend, 0, chat.visit))
    /\ UNCHANGED <<table, talk, me, pages>>

\* The answer is shown with whatever is on the screen by then.
MessageSent(c) ==
    /\ c.op = "send" /\ c.at \in {"done", "failed"}
    /\ chat' = IF c.at = "done"
               THEN [chat EXCEPT !.shown = MergeMessages(@, c.got)] ELSE chat
    /\ calls' = calls \ {c}
    /\ UNCHANGED <<table, talk, me, page, events, started, left>>

MessagesPage ==
    \/ SelectFriend \/ HandleSend
    \/ \E c \in calls : MessagesLoaded(c) \/ JoinRefused(c) \/ MessageSent(c)
    \/ \E e \in events : MessageArrives(e)

------------------------------------------------------------------------------
(* Profiles: getMyProfile and updateMyProfile behind ProfilePage *)

Fields == {"displayName", "avatar"}
NewProfile == [f \in Fields |-> 0]

OpenProfilePage ==
    /\ Spend("visit")
    /\ Begin(Call("profile", Me, Me, 0, None))
    /\ UNCHANGED <<table, talk, me, pages>>

\* ensureProfile: one read, and an insert when there was nothing.
EnsureProfileRead(c) ==
    /\ c.op = "profile" /\ c.at = "check"
    /\ Become(c, IF profile = None THEN [c EXCEPT !.at = "create"]
                 ELSE [c EXCEPT !.at = "form", !.got = [form |-> profile, base |-> saved]])
    /\ UNCHANGED <<table, talk, me, pages>>

\* Defect: INSERT OR REPLACE.
MayCreateProfile_Replace == TRUE
MayCreateProfile == profile = None

\* A second insert breaks the key and the page has nothing to show.
CreateProfile(c) ==
    /\ c.op = "profile" /\ c.at = "create"
    /\ IF MayCreateProfile
       THEN /\ profile' = NewProfile
            /\ saved' = IF saved = None THEN NewProfile ELSE saved
            /\ Become(c, [c EXCEPT !.at = "form",
                            !.got = [form |-> NewProfile, base |-> NewProfile]])
       ELSE Refuse(c) /\ UNCHANGED <<profile, saved>>
    /\ UNCHANGED <<table, talk, stale, pages>>

\* The form is sent whole, with one field edited.
SubmitProfile(c) ==
    /\ c.op = "profile" /\ c.at = "form"
    /\ \E f \in Fields :
         Become(c, [c EXCEPT !.at = "reread", !.to = f, !.got.form[f] = c.n])
    /\ UNCHANGED <<table, talk, me, pages>>

\* updateProfile reads the row for the fields that are not in the request.
UpdateProfileRead(c) ==
    /\ c.op = "profile" /\ c.at = "reread"
    /\ IF profile = None THEN Refuse(c) ELSE Become(c, [c EXCEPT !.at = "write"])
    /\ UNCHANGED <<table, talk, me, pages>>

UpdateProfileWrite(c) ==
    /\ c.op = "profile" /\ c.at = "write"
    /\ profile' = c.got.form /\ saved' = [saved EXCEPT ![c.to] = c.n]
    /\ stale' = (stale \/ c.got.base # saved)
    /\ Reply(c, "done", None)
    /\ UNCHANGED <<table, talk, pages>>

ProfileStep(c) ==
    \/ EnsureProfileRead(c) \/ CreateProfile(c)
    \/ SubmitProfile(c) \/ UpdateProfileRead(c) \/ UpdateProfileWrite(c)

Next ==
    \/ OthersAsk \/ OthersSend \/ OpenProfilePage
    \/ FriendsPage \/ MessagesPage
    \/ \E c \in calls : FriendStep(c) \/ TalkStep(c) \/ ProfileStep(c)

Spec == Init /\ [][Next]_vars
==============================================================================
