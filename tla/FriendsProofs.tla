---------------------------- MODULE FriendsProofs ----------------------------
(***************************************************************************)
(* What the users service promises for any number of users and calls: what *)
(* a call has read may be out of date when it writes, and the tables, the  *)
(* conversations and the profile are still right.                          *)
(***************************************************************************)
EXTENDS FriendsProps, FiniteSetTheorems, TLAPS

Forms == [Fields -> Nat]
Message == [conv : Nat, friends : {TRUE}]

\* A row, of whatever users.
IsRow(r) == DOMAIN r = {"id", "from", "to", "status"}

TableOK ==
    /\ lastId \in Nat
    /\ \A r \in rows : IsRow(r)
    /\ \A r, q \in rows : <<r.from, r.to>> = <<q.from, q.to>> => r = q

TalkOK ==
    /\ convs \in Seq(SUBSET Users) /\ msgs \in Seq(Message)
    /\ \A i, j \in DOMAIN convs : convs[i] = convs[j] => i = j
    /\ chat.friend \in Users \cup {None}
    /\ DOMAIN chat = {"visit", "friend", "conv", "shown", "room", "since"}

MeOK ==
    /\ profile \in Forms \cup {None} /\ saved \in Forms \cup {None}
    /\ profile = None <=> saved = None
    /\ stale \in BOOLEAN
    /\ ~stale => profile = saved

IsCall(c) ==
    /\ DOMAIN c = {"n", "op", "by", "to", "id", "visit", "at", "got", "friends"}
    /\ c.n \in Nat

\* A call about messages is one of two users; when it is past the check, they
\* were friends while it ran.
Talker(c) == Talks(c) =>
    /\ c.by \in Users /\ c.to \in Users /\ c.id \in Nat
    /\ c.at \in {"find", "create", "talk"} => c.friends = TRUE

\* A form is the profile it was opened with, but for the field edited, unless
\* a stale one has been saved.
Former(c) == (c.op = "profile" /\ c.at \in {"form", "reread", "write"}) =>
    /\ DOMAIN c.got = {"form", "base"}
    /\ c.got.form \in Forms /\ c.got.base \in Forms /\ profile # None
    /\ c.at = "form" => (~stale => c.got.form = c.got.base)
    /\ c.at # "form" => /\ c.to \in Fields
                        /\ ~stale => c.got.form = [c.got.base EXCEPT ![c.to] = c.n]

CallOK(c) == IsCall(c) /\ Talker(c) /\ Former(c)
CallsOK == started \in Nat /\ \A c \in calls : CallOK(c)

IInv == TableOK /\ TalkOK /\ MeOK /\ CallsOK

------------------------------------------------------------------------------
(* Calls *)

\* Calls that were right stay right, unless a stale form counts as good again
\* or the profile is lost.
LEMMA CallsStay ==
    ASSUME CallsOK, started' \in Nat, stale => stale', profile # None => profile' # None,
           \A x \in calls' : x \in calls \/ CallOK(x)'
    PROVE  CallsOK'
<1>1. \A x \in calls : CallOK(x)'
  BY DEF CallsOK, CallOK, IsCall, Talker, Former
<1>. QED
  BY <1>1 DEF CallsOK

\* A call goes on.
LEMMA BecomeOK ==
    ASSUME CallsOK, NEW c \in calls, NEW d, Become(c, d), CallOK(d)', UNCHANGED me
    PROVE  CallsOK'
BY CallsStay DEF Become, CallsOK, me

\* A call that is answered waits for its page, or is over.
LEMMA ReplyOK ==
    ASSUME CallsOK, NEW c \in calls, NEW answer \in {"done", "failed"}, NEW got,
           Reply(c, answer, got), stale => stale', profile # None => profile' # None
    PROVE  CallsOK'
<1>0. PICK d : d = [c EXCEPT !.at = answer, !.got = got]
  OBVIOUS
<1>1. CallOK(c) /\ started' \in Nat
  BY DEF CallsOK, Reply
<1>2. IsCall(d) /\ d.op = c.op /\ d.at = answer /\ d.by = c.by /\ d.to = c.to /\ d.id = c.id
  BY <1>0, <1>1 DEF CallOK, IsCall
<1>3. CallOK(d)'
  BY <1>1, <1>2 DEF CallOK, IsCall, Talker, Talks, Former
<1>4. \A x \in calls' : x \in calls \/ x = d
  BY <1>0 DEF Reply
<1>. QED
  BY <1>1, <1>3, <1>4, CallsStay

\* A new call, of two users when it is about messages.
LEMMA NewCall ==
    ASSUME started \in Nat, NEW op, NEW u, NEW v, NEW id, NEW visit, NEW d,
           op \in {"list", "send", "join"} => u \in Users /\ v \in Users /\ id \in Nat,
           d = Call(op, u, v, id, visit)
    PROVE  CallOK(d)' /\ d.at = "check" /\ IsCall(d) /\ d.op = op
<1>1. IsCall(d) /\ d.op = op /\ d.by = u /\ d.to = v /\ d.id = id /\ d.at = "check"
  BY DEF Call, IsCall
<1>2. CallOK(d)'
  BY <1>1 DEF CallOK, IsCall, Talker, Talks, Former
<1>. QED
  BY <1>1, <1>2

\* It begins.
LEMMA BeginOK ==
    ASSUME CallsOK, NEW d, CallOK(d)', Begin(d), UNCHANGED me
    PROVE  CallsOK'
<1>1. calls' = calls \cup {d} /\ started' = started + 1
  BY DEF Begin
<1>. QED
  BY <1>1, CallsStay DEF CallsOK, me

\* A call that is neither about messages nor about the profile goes on.
LEMMA MovesOn ==
    ASSUME CallsOK, NEW c \in calls, c.op \notin {"list", "send", "join", "profile"},
           NEW d, IsCall(d), d.op = c.op, Become(c, d), UNCHANGED me
    PROVE  CallsOK'
<1>1. CallOK(d)'
  BY DEF CallOK, IsCall, Talker, Talks, Former
<1>. QED
  BY <1>1, BecomeOK

\* Some calls are taken, and none is added.
LEMMA CallsTaken ==
    ASSUME CallsOK, calls' \subseteq calls, UNCHANGED <<me, started>>
    PROVE  CallsOK'
BY CallsStay DEF me, CallsOK

------------------------------------------------------------------------------
(* Friend requests *)

\* No row that was gone is back.
StaysDeleted == \A r \in rows' : r.id > lastId \/ \E q \in rows : q.id = r.id

\* Nothing is written.
LEMMA TableStays == ASSUME TableOK, UNCHANGED table PROVE TableOK' /\ StaysDeleted
BY DEF TableOK, IsRow, table, StaysDeleted

\* Rows are only deleted.
LEMMA RowsDeleted ==
    ASSUME TableOK, rows' \subseteq rows, UNCHANGED lastId
    PROVE  TableOK' /\ StaysDeleted
BY DEF TableOK, IsRow, StaysDeleted

\* The insert is refused where the direction has a row.
LEMMA RowInserted ==
    ASSUME TableOK, NEW c, NEW row, UniqueDirection(c.by, c.to),
           row = [id |-> lastId + 1, from |-> c.by, to |-> c.to, status |-> "pending"],
           rows' = rows \cup {row}, lastId' = lastId + 1
    PROVE  TableOK' /\ StaysDeleted
<1>1. IsRow(row) /\ row.from = c.by /\ row.to = c.to /\ row.id = lastId + 1
  BY DEF IsRow
<1>2. \A r \in rows' : IsRow(r)'
  BY <1>1 DEF TableOK, IsRow
<1>3. \A r \in rows : <<r.from, r.to>> # <<row.from, row.to>>
  BY <1>1 DEF UniqueDirection
<1>4. \A r, q \in rows' : <<r.from, r.to>> = <<q.from, q.to>> => r = q
  BY <1>3 DEF TableOK
<1>5. StaysDeleted
  BY <1>1 DEF StaysDeleted, TableOK
<1>. QED
  BY <1>2, <1>4, <1>5 DEF TableOK

\* The update keeps who asked whom.
LEMMA RowsAccepted ==
    ASSUME TableOK, NEW c, rows' = AcceptedRows(c), UNCHANGED lastId
    PROVE  TableOK' /\ StaysDeleted
<1>1. \A r \in rows' : \E q \in rows :
         /\ r = [q EXCEPT !.status = IF q.id = c.id THEN "accepted" ELSE @]
         /\ IsRow(r) /\ r.from = q.from /\ r.to = q.to /\ r.id = q.id
  BY DEF AcceptedRows, TableOK, IsRow
<1>2. \A r \in rows' : IsRow(r)'
  BY <1>1 DEF IsRow
<1>3. \A r, q \in rows' : <<r.from, r.to>> = <<q.from, q.to>> => r = q
  BY <1>1 DEF TableOK
<1>4. StaysDeleted
  BY <1>1 DEF StaysDeleted
<1>. QED
  BY <1>2, <1>3, <1>4 DEF TableOK

\* The statements of a friend request.
LEMMA FriendStepOK ==
    ASSUME IInv, NEW c \in calls, FriendStep(c)
    PROVE  IInv' /\ StaysDeleted
<1>1. UNCHANGED <<talk, me, pages>> /\ c.op \in {"request", "accept", "delete", "unfriend"}
  BY DEF FriendStep, CreateFriendRequestCheck, CreateFriendRequestInsert,
         AcceptFriendRequestCheck, AcceptFriendRequestUpdate, AcceptFriendRequestSelect,
         DeleteFriendRequestCheck, DeleteFriendRequestRemove, DeleteFriendship
<1>2. TalkOK' /\ MeOK'
  BY <1>1 DEF IInv, TalkOK, MeOK, talk, me, pages
<1>3. IsCall(c) /\ CallsOK /\ TableOK
  BY DEF IInv, CallsOK, CallOK
<1>4. ASSUME NEW answer \in {"done", "failed"}, NEW got, Reply(c, answer, got) PROVE CallsOK'
  BY <1>1, <1>3, <1>4, ReplyOK DEF me
<1>5. ASSUME NEW at, NEW got, Become(c, [c EXCEPT !.at = at, !.got = got]) PROVE CallsOK'
  <2>1. PICK d : d = [c EXCEPT !.at = at, !.got = got]
    OBVIOUS
  <2>2. IsCall(d) /\ d.op = c.op
    BY <1>3, <2>1 DEF IsCall
  <2>. QED
    BY <1>1, <1>3, <1>5, <2>1, <2>2, MovesOn
<1>6. ASSUME NEW at, Become(c, [c EXCEPT !.at = at]) PROVE CallsOK'
  <2>1. PICK d : d = [c EXCEPT !.at = at]
    OBVIOUS
  <2>2. IsCall(d) /\ d.op = c.op
    BY <1>3, <2>1 DEF IsCall
  <2>. QED
    BY <1>1, <1>3, <1>6, <2>1, <2>2, MovesOn
<1>7. CASE \/ CreateFriendRequestCheck(c) \/ AcceptFriendRequestCheck(c)
           \/ AcceptFriendRequestSelect(c) \/ DeleteFriendRequestCheck(c)
  <2>1. CallsOK'
    BY <1>4, <1>5, <1>6, <1>7 DEF CreateFriendRequestCheck, AcceptFriendRequestCheck,
       AcceptFriendRequestSelect, DeleteFriendRequestCheck, Refuse
  <2>2. UNCHANGED table
    BY <1>7 DEF CreateFriendRequestCheck, AcceptFriendRequestCheck,
       AcceptFriendRequestSelect, DeleteFriendRequestCheck
  <2>. QED
    BY <1>2, <1>3, <2>1, <2>2, TableStays DEF IInv
<1>8. CASE CreateFriendRequestInsert(c)
  <2>1. PICK row : row = [id |-> lastId + 1, from |-> c.by, to |-> c.to, status |-> "pending"]
    OBVIOUS
  <2>2. CASE UniqueDirection(c.by, c.to)
    <3>1. rows' = rows \cup {row} /\ lastId' = lastId + 1 /\ Reply(c, "done", row)
      BY <1>8, <2>1, <2>2 DEF CreateFriendRequestInsert
    <3>. QED
      BY <1>2, <1>3, <1>4, <2>1, <2>2, <3>1, RowInserted DEF IInv
  <2>3. CASE ~UniqueDirection(c.by, c.to)
    <3>1. Reply(c, "failed", None) /\ UNCHANGED table
      BY <1>8, <2>3 DEF CreateFriendRequestInsert, Refuse
    <3>. QED
      BY <1>2, <1>3, <1>4, <3>1, TableStays DEF IInv
  <2>. QED
    BY <2>2, <2>3
<1>9. CASE AcceptFriendRequestUpdate(c)
  <2>1. CallsOK'
    BY <1>6, <1>9 DEF AcceptFriendRequestUpdate
  <2>. QED
    BY <1>2, <1>3, <1>9, <2>1, RowsAccepted DEF AcceptFriendRequestUpdate, IInv
<1>10. CASE DeleteFriendRequestRemove(c) \/ DeleteFriendship(c)
  <2>1. CallsOK'
    BY <1>4, <1>10 DEF DeleteFriendRequestRemove, DeleteFriendship, Refuse
  <2>2. rows' \subseteq rows /\ UNCHANGED lastId
    BY <1>10 DEF DeleteFriendRequestRemove, DeleteFriendship
  <2>. QED
    BY <1>2, <1>3, <2>1, <2>2, RowsDeleted DEF IInv
<1>. QED
  BY <1>7, <1>8, <1>9, <1>10 DEF FriendStep

------------------------------------------------------------------------------
(* New calls, and the friends page *)

\* What a step must leave alone to be about calls only.
Quiet == UNCHANGED <<table, talk, me, chat>>

\* Such a step is right when its calls are.
LEMMA QuietOK == ASSUME IInv, Quiet, CallsOK' PROVE IInv' /\ StaysDeleted
BY TableStays DEF IInv, Quiet, TalkOK, MeOK, talk, me

\* Users begin calls.
LEMMA CallsBegin ==
    ASSUME IInv, OthersAsk \/ OthersSend \/ OpenProfilePage \/ OpenFriendsPage
                 \/ HandleSubmit \/ HandleUnfriend \/ HandleSend
                 \/ \E op \in {"accept", "delete"} : HandleRequest(op)
    PROVE  IInv' /\ StaysDeleted
<1>1. Quiet
  BY DEF Quiet, OthersAsk, OthersSend, OpenProfilePage, OpenFriendsPage, HandleSubmit,
         HandleUnfriend, HandleSend, HandleRequest, pages
<1>2. Me \in Users /\ CallsOK /\ started \in Nat
  BY FriendsAssumption DEF IInv, CallsOK
<1>. SUFFICES CallsOK'
  BY <1>1, QuietOK
<1>3. ASSUME NEW op, NEW u, NEW v, NEW id, NEW visit,
             op \in {"list", "send", "join"} => u \in Users /\ v \in Users /\ id \in Nat,
             Begin(Call(op, u, v, id, visit))
      PROVE  CallsOK'
  <2>1. PICK d : d = Call(op, u, v, id, visit)
    OBVIOUS
  <2>2. CallOK(d)'
    BY <1>2, <1>3, <2>1, NewCall
  <2>. QED
    BY <1>1, <1>2, <1>3, <2>1, <2>2, BeginOK DEF Quiet
<1>4. CASE OthersAsk
  BY <1>3, <1>4 DEF OthersAsk
<1>5. CASE OthersSend
  BY <1>2, <1>3, <1>5 DEF OthersSend
<1>6. CASE OpenProfilePage
  BY <1>3, <1>6 DEF OpenProfilePage
<1>7. CASE OpenFriendsPage
  <2>1. PICK o, d : /\ o = Call("overview", Me, Me, 0, 0)
                    /\ d = [o EXCEPT !.got = [friends |-> None, incoming |-> None,
                                              outgoing |-> None]]
                    /\ Begin(d)
    BY <1>7 DEF OpenFriendsPage
  <2>2. IsCall(o) /\ o.op = "overview"
    BY <1>2, <2>1, NewCall
  <2>3. IsCall(d) /\ d.op = "overview"
    BY <2>1, <2>2 DEF IsCall
  <2>4. CallOK(d)'
    BY <2>3 DEF CallOK, IsCall, Talker, Talks, Former
  <2>. QED
    BY <1>1, <1>2, <2>1, <2>4, BeginOK DEF Quiet
<1>8. CASE HandleSubmit
  BY <1>3, <1>8 DEF HandleSubmit
<1>9. CASE HandleUnfriend
  BY <1>3, <1>9 DEF HandleUnfriend
<1>10. CASE HandleSend
  <2>1. chat.friend \in Users
    BY <1>10 DEF HandleSend, Composer, IInv, TalkOK
  <2>. QED
    BY <1>2, <1>3, <1>10, <2>1 DEF HandleSend
<1>11. ASSUME NEW op \in {"accept", "delete"}, HandleRequest(op) PROVE CallsOK'
  BY <1>3, <1>11 DEF HandleRequest
<1>. QED
  BY <1>4, <1>5, <1>6, <1>7, <1>8, <1>9, <1>10, <1>11

\* The page's answers and its overview.
LEMMA PageOK ==
    ASSUME IInv, NEW c \in calls, PageAnswered(c) \/ Overview(c)
    PROVE  IInv' /\ StaysDeleted
<1>1. Quiet
  BY DEF Quiet, PageAnswered, Overview, ListFriends, ListPendingFriendRequests,
         GetFriendsOverview, pages
<1>2. IsCall(c) /\ CallsOK
  BY DEF IInv, CallsOK, CallOK
<1>3. CASE PageAnswered(c) \/ GetFriendsOverview(c)
  <2>1. calls' \subseteq calls /\ UNCHANGED <<me, started>>
    BY <1>1, <1>3 DEF PageAnswered, GetFriendsOverview, Quiet
  <2>. QED
    BY <1>1, <1>2, <2>1, CallsTaken, QuietOK
<1>4. CASE ListFriends(c) \/ ListPendingFriendRequests(c)
  <2>1. PICK d \in { [c EXCEPT !.got.friends = FriendsOf(Me)],
                     [c EXCEPT !.got.incoming = Incoming(Me)],
                     [c EXCEPT !.got.outgoing = Outgoing(Me)] } : Become(c, d)
    BY <1>4 DEF ListFriends, ListPendingFriendRequests
  <2>2. IsCall(d) /\ d.op = c.op /\ c.op = "overview"
    BY <1>2, <1>4, <2>1 DEF IsCall, ListFriends, ListPendingFriendRequests
  <2>3. CallsOK'
    BY <1>1, <1>2, <2>1, <2>2, MovesOn DEF Quiet
  <2>. QED
    BY <1>1, <2>3, QuietOK
<1>. QED
  BY <1>3, <1>4 DEF Overview

------------------------------------------------------------------------------
(* Direct messages *)

\* The statements that look, and those that only answer.
LEMMA TalkReads ==
    ASSUME IInv, NEW c \in calls, TalkCheck(c) \/ TalkFind(c) \/ ListMessages(c) \/ EmitMessage(c)
    PROVE  IInv' /\ StaysDeleted
<1>1. Quiet /\ Talks(c) /\ CallOK(c) /\ CallsOK
  BY DEF Quiet, TalkCheck, TalkFind, ListMessages, EmitMessage, pages, Talks, IInv, CallsOK
<1>. SUFFICES CallsOK'
  BY <1>1, QuietOK
<1>2. ASSUME NEW answer \in {"done", "failed"}, NEW got, Reply(c, answer, got) PROVE CallsOK'
  BY <1>1, <1>2, ReplyOK DEF Quiet, me
<1>3. CASE TalkCheck(c) /\ MayTalk(c)
  <2>1. PICK d : d = [c EXCEPT !.at = "find", !.friends = @ \/ HasFriendship(c.by, c.to)]
    OBVIOUS
  <2>2. IsCall(d) /\ d.op = c.op /\ d.by = c.by /\ d.to = c.to /\ d.id = c.id
        /\ d.at = "find" /\ d.friends = TRUE
    BY <1>1, <1>3, <2>1 DEF CallOK, IsCall, MayTalk
  <2>3. CallOK(d)'
    BY <1>1, <2>2 DEF CallOK, IsCall, Talker, Talks, Former
  <2>. QED
    BY <1>1, <1>3, <2>1, <2>3, BecomeOK DEF TalkCheck, Quiet
<1>4. CASE TalkCheck(c) /\ ~MayTalk(c)
  BY <1>2, <1>4 DEF TalkCheck, Refuse
<1>5. CASE TalkFind(c)
  <2>1. PICK i : i = (CHOOSE x \in ConvOf(c.by, c.to) : TRUE)
    OBVIOUS
  <2>2. ConvOf(c.by, c.to) # {} => i \in Nat
    BY <2>1 DEF ConvOf, IInv, TalkOK
  <2>3. PICK d : /\ d = IF ConvOf(c.by, c.to) = {} THEN [c EXCEPT !.at = "create"]
                        ELSE [c EXCEPT !.at = "talk", !.id = i]
                 /\ Become(c, d)
    BY <1>5, <2>1 DEF TalkFind
  <2>4. IsCall(d) /\ d.op = c.op /\ d.by = c.by /\ d.to = c.to /\ d.id \in Nat
        /\ d.friends = c.friends /\ c.friends = TRUE
    BY <1>1, <1>5, <2>2, <2>3 DEF CallOK, IsCall, Talker, TalkFind
  <2>5. CallOK(d)'
    BY <1>1, <2>4 DEF CallOK, IsCall, Talker, Talks, Former
  <2>. QED
    BY <1>1, <2>3, <2>5, BecomeOK DEF Quiet
<1>6. CASE ListMessages(c) \/ EmitMessage(c)
  BY <1>2, <1>6 DEF ListMessages, EmitMessage
<1>. QED
  BY <1>3, <1>4, <1>5, <1>6

\* The insert of a conversation is refused where there is one.
LEMMA TalkCreates ==
    ASSUME IInv, NEW c \in calls, TalkCreate(c)
    PROVE  IInv' /\ StaysDeleted
<1>1. /\ CallsOK /\ CallOK(c) /\ c.by \in Users /\ c.to \in Users /\ c.friends = TRUE
      /\ Talks(c) /\ convs \in Seq(SUBSET Users)
  BY DEF TalkCreate, IInv, CallsOK, CallOK, Talker, TalkOK
<1>2. UNCHANGED <<table, msgs, me, chat>>
  BY DEF TalkCreate, pages
<1>3. TableOK' /\ StaysDeleted /\ MeOK'
  BY <1>2, TableStays DEF IInv, MeOK, me
<1>4. CASE UniqueConversation(c.by, c.to)
  <2>1. PICK d : d = [c EXCEPT !.at = "talk", !.id = Len(convs) + 1]
    OBVIOUS
  <2>2. Become(c, d) /\ convs' = Append(convs, {c.by, c.to})
    BY <1>4, <2>1 DEF TalkCreate
  <2>3. IsCall(d) /\ d.op = c.op /\ d.by = c.by /\ d.to = c.to /\ d.id \in Nat
        /\ d.friends = TRUE
    BY <1>1, <2>1 DEF CallOK, IsCall
  <2>4. CallOK(d)'
    BY <1>1, <2>3 DEF CallOK, IsCall, Talker, Talks, Former
  <2>5. CallsOK'
    BY <1>1, <1>2, <2>2, <2>4, BecomeOK
  <2>6. /\ convs' \in Seq(SUBSET Users) /\ DOMAIN convs = 1 .. Len(convs)
        /\ DOMAIN convs' = 1 .. Len(convs) + 1
        /\ \A i \in DOMAIN convs : convs'[i] = convs[i]
        /\ convs'[Len(convs) + 1] = {c.by, c.to} /\ Len(convs) \in Nat
    BY <1>1, <2>2
  <2>7. \A i \in DOMAIN convs : convs[i] # {c.by, c.to}
    BY <1>4 DEF UniqueConversation, ConvOf
  <2>8. \A i, j \in DOMAIN convs' : convs'[i] = convs'[j] => i = j
    BY <2>6, <2>7 DEF IInv, TalkOK
  <2>9. TalkOK'
    BY <1>2, <2>6, <2>8 DEF IInv, TalkOK
  <2>. QED
    BY <1>3, <2>5, <2>9 DEF IInv
<1>5. CASE ~UniqueConversation(c.by, c.to)
  <2>1. Reply(c, "failed", None) /\ UNCHANGED convs
    BY <1>5 DEF TalkCreate, Refuse
  <2>2. CallsOK'
    BY <1>1, <1>2, <2>1, ReplyOK DEF me
  <2>. QED
    BY <1>2, <2>1, <2>2, QuietOK DEF Quiet, talk
<1>. QED
  BY <1>4, <1>5

\* A message is stored by a call that has found its users to be friends.
LEMMA SendOK ==
    ASSUME IInv, NEW c \in calls, SendMessage(c)
    PROVE  IInv' /\ StaysDeleted
<1>1. CallsOK /\ CallOK(c) /\ c.id \in Nat /\ c.friends = TRUE /\ Talks(c)
  BY DEF SendMessage, IInv, CallsOK, CallOK, Talker, Talks
<1>2. UNCHANGED <<table, convs, me, chat>>
  BY DEF SendMessage, pages
<1>3. TableOK' /\ StaysDeleted /\ MeOK'
  BY <1>2, TableStays DEF IInv, MeOK, me
<1>4. [conv |-> c.id, friends |-> c.friends] \in Message
  BY <1>1 DEF Message
<1>5. TalkOK'
  BY <1>2, <1>4 DEF SendMessage, IInv, TalkOK
<1>6. PICK d : d = [c EXCEPT !.at = "emit", !.got = Len(msgs) + 1] /\ Become(c, d)
  BY DEF SendMessage
<1>7. IsCall(d) /\ d.op = c.op /\ d.by = c.by /\ d.to = c.to /\ d.id = c.id /\ d.at = "emit"
  BY <1>1, <1>6 DEF CallOK, IsCall
<1>8. CallOK(d)'
  BY <1>1, <1>7 DEF CallOK, IsCall, Talker, Talks, Former
<1>9. CallsOK'
  BY <1>1, <1>2, <1>6, <1>8, BecomeOK
<1>. QED
  BY <1>3, <1>5, <1>9 DEF IInv

\* What the page is told changes what it shows.
LEMMA ChatOK ==
    ASSUME IInv, CallsOK', UNCHANGED <<table, talk, me>>, DOMAIN chat' = DOMAIN chat,
           chat'.friend \in Users \cup {None}
    PROVE  IInv' /\ StaysDeleted
BY TableStays DEF IInv, TalkOK, MeOK, talk, me

\* The socket joins the room of a conversation.
LEMMA JoinRoomOK ==
    ASSUME IInv, NEW c \in calls, JoinRoom(c)
    PROVE  IInv' /\ StaysDeleted
<1>1. CallsOK'
  <2>1. calls' \subseteq calls /\ UNCHANGED <<me, started>>
    BY DEF JoinRoom
  <2>. QED
    BY <2>1, CallsTaken DEF IInv
<1>2. DOMAIN chat' = DOMAIN chat /\ chat'.friend \in Users \cup {None}
  BY DEF JoinRoom, IInv, TalkOK
<1>. QED
  BY <1>1, <1>2, ChatOK DEF JoinRoom

\* Another friend is chosen: one of the users.
LEMMA SelectFriendOK ==
    ASSUME IInv, SelectFriend
    PROVE  IInv' /\ StaysDeleted
<1>1. PICK u \in Selectable :
        /\ chat' = [LeftRoom EXCEPT !.visit = @ + 1, !.friend = u, !.conv = None]
        /\ Begin(Call("list", Me, u, 0, chat.visit + 1))
  BY DEF SelectFriend
<1>2. u \in Users /\ Me \in Users /\ CallsOK /\ started \in Nat
  BY FriendsAssumption DEF Selectable, FriendsOf, IInv, CallsOK
<1>3. UNCHANGED <<table, talk, me>>
  BY DEF SelectFriend
<1>4. CallsOK'
  <2>1. PICK d : d = Call("list", Me, u, 0, chat.visit + 1)
    OBVIOUS
  <2>2. CallOK(d)'
    BY <1>2, <2>1, NewCall
  <2>. QED
    BY <1>1, <1>2, <1>3, <2>1, <2>2, BeginOK
<1>5. DOMAIN chat' = DOMAIN chat /\ chat'.friend \in Users \cup {None}
  BY <1>1, <1>2 DEF LeftRoom, IInv, TalkOK
<1>. QED
  BY <1>3, <1>4, <1>5, ChatOK

\* The answers of a visit, and what the socket brings.
LEMMA MessagesOK ==
    ASSUME IInv, \/ \E c \in calls : MessagesLoaded(c) \/ JoinRefused(c) \/ MessageSent(c)
                 \/ \E e \in events : MessageArrives(e)
    PROVE  IInv' /\ StaysDeleted
<1>1. UNCHANGED <<table, talk, me>>
  BY DEF MessagesLoaded, JoinRefused, MessageSent, MessageArrives
<1>2. DOMAIN chat' = DOMAIN chat /\ chat'.friend \in Users \cup {None}
  BY DEF MessagesLoaded, JoinRefused, MessageSent, MessageArrives, IInv, TalkOK, pages
<1>. SUFFICES CallsOK'
  BY <1>1, <1>2, ChatOK
<1>3. CallsOK /\ started \in Nat /\ Me \in Users
  BY FriendsAssumption DEF IInv, CallsOK
<1>4. CASE calls' \subseteq calls /\ UNCHANGED started
  BY <1>1, <1>3, <1>4, CallsTaken
<1>5. ASSUME NEW c \in calls, MessagesLoaded(c), calls' = (calls \ {c}) \cup {AskToJoin(c)},
             started' = started + 1
      PROVE  CallsOK'
  <2>1. c.to \in Users
    BY <1>3, <1>5 DEF MessagesLoaded, CallsOK, CallOK, Talker, Talks
  <2>2. PICK d : d = AskToJoin(c)
    OBVIOUS
  <2>3. CallOK(d)'
    BY <1>3, <2>1, <2>2, NewCall DEF AskToJoin
  <2>. QED
    BY <1>1, <1>3, <1>5, <2>2, <2>3, CallsStay DEF me
<1>. QED
  BY <1>4, <1>5 DEF MessagesLoaded, JoinRefused, MessageSent, MessageArrives

------------------------------------------------------------------------------
(* Profiles *)

\* The statements that look, and the edit of one field.
LEMMA ProfileReads ==
    ASSUME IInv, NEW c \in calls, \/ EnsureProfileRead(c) \/ SubmitProfile(c)
                                  \/ UpdateProfileRead(c)
    PROVE  IInv' /\ StaysDeleted
<1>1. Quiet /\ c.op = "profile" /\ CallOK(c) /\ CallsOK
  BY DEF Quiet, EnsureProfileRead, SubmitProfile, UpdateProfileRead, pages, IInv, CallsOK
<1>. SUFFICES CallsOK'
  BY <1>1, QuietOK
<1>2. UNCHANGED <<profile, saved, stale>>
  BY <1>1 DEF Quiet, me
<1>3. CASE EnsureProfileRead(c)
  <2>1. PICK d : /\ d = IF profile = None THEN [c EXCEPT !.at = "create"]
                        ELSE [c EXCEPT !.at = "form",
                                       !.got = [form |-> profile, base |-> saved]]
                 /\ Become(c, d)
    BY <1>3 DEF EnsureProfileRead
  <2>2. /\ IsCall(d) /\ d.op = "profile"
        /\ d.at = IF profile = None THEN "create" ELSE "form"
        /\ profile # None => d.got = [form |-> profile, base |-> saved]
    BY <1>1, <2>1 DEF CallOK, IsCall
  <2>3. Former(d)'
    BY <1>2, <2>2 DEF Former, IInv, MeOK
  <2>4. CallOK(d)'
    BY <2>2, <2>3 DEF CallOK, IsCall, Talker, Talks
  <2>. QED
    BY <1>1, <2>1, <2>4, BecomeOK DEF Quiet
<1>4. CASE SubmitProfile(c)
  <2>0. PICK f \in Fields :
          Become(c, [c EXCEPT !.at = "reread", !.to = f, !.got.form[f] = c.n])
    BY <1>4 DEF SubmitProfile
  <2>1. PICK d : /\ d = [c EXCEPT !.at = "reread", !.to = f, !.got.form[f] = c.n]
                 /\ Become(c, d)
    BY <2>0
  <2>2. /\ DOMAIN c.got = {"form", "base"} /\ c.got.form \in Forms /\ c.got.base \in Forms
        /\ profile # None /\ (~stale => c.got.form = c.got.base) /\ c.n \in Nat
    BY <1>1, <1>4 DEF SubmitProfile, CallOK, IsCall, Former
  <2>3. IsCall(d) /\ d.op = "profile" /\ d.at = "reread" /\ d.to = f /\ d.n = c.n
        /\ d.got = [c.got EXCEPT !.form = [c.got.form EXCEPT ![f] = c.n]]
    BY <1>1, <2>1 DEF CallOK, IsCall
  <2>4. DOMAIN d.got = {"form", "base"} /\ d.got.form = [c.got.form EXCEPT ![f] = c.n]
        /\ d.got.base = c.got.base /\ d.got.form \in Forms
    BY <2>2, <2>3 DEF Forms
  <2>5. Former(d)'
    BY <1>2, <2>2, <2>3, <2>4 DEF Former
  <2>6. CallOK(d)'
    BY <2>3, <2>5 DEF CallOK, IsCall, Talker, Talks
  <2>. QED
    BY <1>1, <2>1, <2>6, BecomeOK DEF Quiet
<1>5. CASE UpdateProfileRead(c) /\ profile # None
  <2>1. PICK d : d = [c EXCEPT !.at = "write"] /\ Become(c, d)
    BY <1>5 DEF UpdateProfileRead
  <2>2. IsCall(d) /\ d.op = "profile" /\ d.at = "write" /\ d.to = c.to /\ d.n = c.n
        /\ d.got = c.got
    BY <1>1, <2>1 DEF CallOK, IsCall
  <2>3. Former(d)'
    BY <1>1, <1>2, <1>5, <2>2 DEF Former, CallOK, UpdateProfileRead
  <2>4. CallOK(d)'
    BY <2>2, <2>3 DEF CallOK, IsCall, Talker, Talks
  <2>. QED
    BY <1>1, <2>1, <2>4, BecomeOK DEF Quiet
<1>6. CASE UpdateProfileRead(c) /\ profile = None
  BY <1>1, <1>2, <1>6, ReplyOK DEF UpdateProfileRead, Refuse
<1>. QED
  BY <1>3, <1>4, <1>5, <1>6

\* The first insert of a profile makes it; the second is refused.
LEMMA ProfileCreates ==
    ASSUME IInv, NEW c \in calls, CreateProfile(c)
    PROVE  IInv' /\ StaysDeleted
<1>1. UNCHANGED <<table, talk, stale, chat>> /\ CallOK(c) /\ CallsOK /\ c.op = "profile"
  BY DEF CreateProfile, pages, IInv, CallsOK
<1>2. TableOK' /\ StaysDeleted /\ TalkOK'
  BY <1>1, TableStays DEF IInv, TalkOK, talk
<1>3. NewProfile \in Forms /\ None \notin Forms
  BY FriendsAssumption DEF NewProfile, Forms, Fields
<1>4. CASE MayCreateProfile
  <2>1. PICK d : /\ d = [c EXCEPT !.at = "form",
                                  !.got = [form |-> NewProfile, base |-> NewProfile]]
                 /\ Become(c, d)
    BY <1>4 DEF CreateProfile
  <2>2. profile' = NewProfile /\ saved' = NewProfile /\ profile = None
    BY <1>4 DEF CreateProfile, MayCreateProfile, IInv, MeOK
  <2>3. MeOK'
    BY <1>1, <1>3, <2>2 DEF IInv, MeOK
  <2>4. IsCall(d) /\ d.op = "profile" /\ d.at = "form"
        /\ d.got = [form |-> NewProfile, base |-> NewProfile]
    BY <1>1, <2>1 DEF CallOK, IsCall
  <2>5. Former(d)'
    BY <1>3, <2>2, <2>4 DEF Former
  <2>6. CallOK(d)'
    BY <2>4, <2>5 DEF CallOK, IsCall, Talker, Talks
  <2>7. CallsOK'
    BY <1>1, <2>1, <2>2, <2>6, CallsStay DEF Become, CallsOK
  <2>. QED
    BY <1>2, <2>3, <2>7 DEF IInv
<1>5. CASE ~MayCreateProfile
  <2>1. Reply(c, "failed", None) /\ UNCHANGED <<profile, saved>>
    BY <1>5 DEF CreateProfile, Refuse
  <2>2. CallsOK' /\ MeOK'
    BY <1>1, <2>1, ReplyOK DEF IInv, MeOK
  <2>. QED
    BY <1>2, <2>2 DEF IInv
<1>. QED
  BY <1>4, <1>5

\* A form that was opened with the last save is it, but for the field edited.
LEMMA ProfileWrites ==
    ASSUME IInv, NEW c \in calls, UpdateProfileWrite(c)
    PROVE  IInv' /\ StaysDeleted
<1>1. UNCHANGED <<table, talk, chat>> /\ CallOK(c) /\ CallsOK
  BY DEF UpdateProfileWrite, pages, IInv, CallsOK
<1>2. TableOK' /\ StaysDeleted /\ TalkOK'
  BY <1>1, TableStays DEF IInv, TalkOK, talk
<1>3. None \notin Forms
  BY FriendsAssumption DEF Forms, Fields
<1>4. /\ c.got.form \in Forms /\ c.got.base \in Forms /\ c.to \in Fields /\ c.n \in Nat
      /\ profile # None
      /\ ~stale => c.got.form = [c.got.base EXCEPT ![c.to] = c.n]
  BY <1>1 DEF UpdateProfileWrite, CallOK, IsCall, Former
<1>5. /\ profile' = c.got.form /\ saved' = [saved EXCEPT ![c.to] = c.n]
      /\ stale' = (stale \/ c.got.base # saved)
      /\ Reply(c, "done", None)
  BY DEF UpdateProfileWrite
<1>6. saved \in Forms /\ stale \in BOOLEAN
  BY <1>4 DEF IInv, MeOK
<1>7. saved' \in Forms
  BY <1>4, <1>5, <1>6 DEF Forms
<1>8. ~stale' => profile' = saved'
  BY <1>4, <1>5
<1>9. MeOK'
  BY <1>3, <1>4, <1>5, <1>6, <1>7, <1>8 DEF MeOK
<1>10. CallsOK'
  BY <1>1, <1>3, <1>4, <1>5, ReplyOK
<1>. QED
  BY <1>2, <1>9, <1>10 DEF IInv

------------------------------------------------------------------------------
(* The theorems *)

\* A step of the service or of its pages.
LEMMA StepOK == ASSUME IInv, [Next]_vars PROVE IInv' /\ StaysDeleted
<1>1. CASE UNCHANGED vars
  <2>1. Quiet /\ CallsOK'
    BY <1>1, CallsTaken DEF vars, Quiet, pages, IInv
  <2>. QED
    BY <2>1, QuietOK
<1>2. CASE OthersAsk \/ OthersSend \/ OpenProfilePage
  BY <1>2, CallsBegin
<1>3. CASE FriendsPage
  BY <1>3, CallsBegin, PageOK DEF FriendsPage
<1>4. CASE MessagesPage
  BY <1>4, SelectFriendOK, CallsBegin, MessagesOK DEF MessagesPage
<1>5. ASSUME NEW c \in calls, FriendStep(c) \/ TalkStep(c) \/ ProfileStep(c)
      PROVE  IInv' /\ StaysDeleted
  BY <1>5, FriendStepOK, TalkReads, TalkCreates, SendOK, JoinRoomOK, ProfileReads,
     ProfileCreates, ProfileWrites DEF TalkStep, ProfileStep
<1>. QED
  BY <1>1, <1>2, <1>3, <1>4, <1>5 DEF Next

\* At first there are no calls and no messages, and no friends or one row each.
LEMMA InitOK == Init => IInv
<1>. SUFFICES ASSUME Init PROVE IInv
  OBVIOUS
<1>1. Cardinality(Users) \in Nat \ {0}
  <2>1. Cardinality(Users) # 0
    BY FriendsAssumption, FS_EmptySet
  <2>. QED
    BY <2>1, FriendsAssumption, FS_CardinalityType
<1>2. lastId \in Nat
  BY <1>1 DEF Init
<1>3. \A r \in rows : \E u \in Users : r = [id |-> Number[u], from |-> u, to |-> Me,
                                            status |-> "accepted"]
  BY DEF Init
<1>4. TableOK
  BY <1>2, <1>3 DEF TableOK, IsRow
<1>5. TalkOK
  BY DEF Init, TalkOK, NoChat
<1>6. MeOK /\ CallsOK
  BY DEF Init, MeOK, CallsOK
<1>. QED
  BY <1>4, <1>5, <1>6 DEF IInv

\* The rows, the conversations, the profile and the calls of the service keep
\* to one another, whatever statements come between those of a call.
THEOREM Consistent == Spec => []IInv
<1>1. IInv /\ [Next]_vars => IInv'
  BY StepOK
<1>. QED
  BY <1>1, InitOK, PTL DEF Spec

\* Every insert follows a check that may be out of date; the constraints of
\* the tables still leave one row a direction and one conversation a pair.
THEOREM RowsAreUnique == Spec => []NoDuplicateRows
<1>1. IInv => NoDuplicateRows
  BY DEF IInv, TableOK, TalkOK, NoDuplicateRows
<1>. QED
  BY <1>1, Consistent, PTL

\* An accept writes to the row it has read only if the row is still there, so
\* a request that was withdrawn or rejected does not come back.
THEOREM DeletedRowsStayDeleted == Spec => DeletedStaysDeleted
<1>1. IInv /\ [Next]_vars => [StaysDeleted]_vars
  BY StepOK
<1>. QED
  BY <1>1, Consistent, PTL DEF Spec, DeletedStaysDeleted, StaysDeleted

\* Every message was stored by a call during which its users were friends:
\* the check of a friendship is made for old conversations too.
THEOREM StrangersDoNotWrite == Spec => []OnlyFriendsWrite
<1>1. ASSUME IInv, NEW i \in DOMAIN msgs PROVE msgs[i].friends = TRUE
  <2>1. msgs[i] \in Message
    BY <1>1 DEF IInv, TalkOK
  <2>. QED
    BY <2>1 DEF Message
<1>2. IInv => OnlyFriendsWrite
  BY <1>1 DEF OnlyFriendsWrite
<1>. QED
  BY <1>2, Consistent, PTL

\* While no form older than the last save is saved, the profile is the last
\* edit of each of its fields, whatever pages are open.
THEOREM EditsAreKept == Spec => []EditsSurvive
<1>1. IInv => EditsSurvive
  BY DEF IInv, MeOK, EditsSurvive
<1>. QED
  BY <1>1, Consistent, PTL
------------------------------------------------------------------------------
(* What the page shows of the messages *)

\* A call about messages that is past the search for its conversation has it.
Found(c) == Talks(c) /\ c.at \in {"talk", "emit", "done"} =>
    c.id \in DOMAIN convs /\ convs[c.id] = {c.by, c.to}

\* A send that has stored its message has still to emit it.
Emits(c) == c.op = "send" /\ c.at = "emit"
Stored(c) == Emits(c) => c.got \in DOMAIN msgs /\ msgs[c.got].conv = c.id

\* A visit of the page asks for the messages, then for the room; the socket
\* joins once, and what it has asked for is about the friend of the visit.
Asks(c) == c.op \in {"list", "join"}
Visits(c) == Asks(c) /\ c.visit = chat.visit
OfVisit(c) ==
    /\ Asks(c) => c.visit \in Nat /\ c.visit <= chat.visit /\ c.by = Me
    /\ Visits(c) => c.to = chat.friend /\ chat.room = None
    /\ Visits(c) /\ c.op = "join" =>
         chat.conv \in DOMAIN convs /\ convs[chat.conv] = {Me, chat.friend}

TalkerOK(c) == Found(c) /\ Stored(c) /\ OfVisit(c)
OneAsks == \A c, d \in calls : Visits(c) /\ Visits(d) => c = d

\* Every message since the socket joined is shown or on its way to the page.
OnItsWay(i) == \/ i \in chat.shown
               \/ [visit |-> chat.visit, msg |-> i] \in events
               \/ \E c \in calls : Emits(c) /\ c.got = i
RoomOK == chat.room # None =>
    /\ chat.room = chat.conv
    /\ \A i \in DOMAIN msgs : msgs[i].conv = chat.conv /\ i > chat.since => OnItsWay(i)

VisitOK == chat.visit \in Nat
Heard == VisitOK /\ RoomOK /\ OneAsks /\ \A c \in calls : TalkerOK(c)

\* Conversations are only added.
ConvsGrow == \A i \in DOMAIN convs : i \in DOMAIN convs' /\ convs'[i] = convs[i]

\* What was known of a call stays known while the page stays as it is.
LEMMA TalkerStays ==
    ASSUME NEW x, TalkerOK(x), ConvsGrow, UNCHANGED <<msgs, chat>>
    PROVE  TalkerOK(x)'
BY DEF TalkerOK, Found, Stored, OfVisit, Visits, Asks, Emits, Talks, ConvsGrow

\* No call about messages comes or goes.
LEMMA OthersAreNotHeard ==
    ASSUME Heard, UNCHANGED <<convs, msgs, chat, events>>,
           \A x \in calls' : x \in calls \/ ~Talks(x),
           \A x \in calls : x \in calls' \/ ~Talks(x)
    PROVE  Heard'
<1>1. ConvsGrow
  BY DEF ConvsGrow
<1>2. \A x \in calls' : TalkerOK(x)'
  <2>1. \A x \in calls : TalkerOK(x)'
    BY <1>1, TalkerStays DEF Heard
  <2>2. \A x : ~Talks(x) => TalkerOK(x)'
    BY DEF TalkerOK, Found, Stored, OfVisit, Visits, Asks, Emits, Talks
  <2>. QED
    BY <2>1, <2>2
<1>3. OneAsks'
  BY DEF Heard, OneAsks, Visits, Asks, Talks
<1>4. RoomOK'
  <2>1. \A i : OnItsWay(i) => OnItsWay(i)'
    BY DEF OnItsWay, Emits, Talks
  <2>. QED
    BY <2>1 DEF Heard, RoomOK
<1>. QED
  BY <1>2, <1>3, <1>4 DEF Heard, VisitOK

\* A call about messages goes on or ends.
LEMMA TalkerMoves ==
    ASSUME Heard, ConvsGrow, UNCHANGED <<msgs, chat, events>>,
           NEW c \in calls, ~Emits(c), NEW d,
           calls \ {c} \subseteq calls', calls' \subseteq (calls \ {c}) \cup {d},
           d.op = c.op, d.by = c.by, d.to = c.to, d.visit = c.visit,
           Found(d)', Stored(d)'
    PROVE  Heard'
<1>1. TalkerOK(c)' /\ \A x \in calls : TalkerOK(x)'
  BY TalkerStays DEF Heard
<1>2. OfVisit(d)' /\ (Visits(d)' <=> Visits(c))
  BY <1>1 DEF TalkerOK, OfVisit, Visits, Asks
<1>3. \A x \in calls' : TalkerOK(x)'
  BY <1>1, <1>2 DEF TalkerOK
<1>4. OneAsks'
  <2>1. \A x : Visits(x)' <=> Visits(x)
    BY DEF Visits, Asks
  <2>2. \A x, y \in calls : Visits(x) /\ Visits(y) => x = y
    BY DEF Heard, OneAsks
  <2>. QED
    BY <1>2, <2>1, <2>2 DEF OneAsks
<1>5. RoomOK'
  <2>1. \A i : OnItsWay(i) => OnItsWay(i)'
    BY DEF OnItsWay, Emits
  <2>. QED
    BY <2>1 DEF Heard, RoomOK
<1>. QED
  BY <1>3, <1>4, <1>5 DEF Heard, VisitOK

\* A call begins to send.
LEMMA SendBegins ==
    ASSUME Heard, NEW u, NEW v, NEW visit, Begin(Call("send", u, v, 0, visit)),
           UNCHANGED <<convs, msgs, chat, events>>
    PROVE  Heard'
<1>1. PICK d : d = Call("send", u, v, 0, visit)
  OBVIOUS
<1>2. d.op = "send" /\ d.at = "check"
  BY <1>1 DEF Call
<1>3. calls' = calls \cup {d}
  BY <1>1 DEF Begin
<1>4. ConvsGrow
  BY DEF ConvsGrow
<1>5. \A x \in calls' : TalkerOK(x)'
  <2>1. \A x \in calls : TalkerOK(x)'
    BY <1>4, TalkerStays DEF Heard
  <2>2. TalkerOK(d)'
    BY <1>2 DEF TalkerOK, Found, Stored, OfVisit, Visits, Asks, Emits, Talks
  <2>. QED
    BY <1>3, <2>1, <2>2
<1>6. OneAsks'
  BY <1>2, <1>3 DEF Heard, OneAsks, Visits, Asks
<1>7. RoomOK'
  <2>1. \A i : OnItsWay(i) => OnItsWay(i)'
    BY <1>3 DEF OnItsWay, Emits
  <2>. QED
    BY <2>1 DEF Heard, RoomOK
<1>. QED
  BY <1>5, <1>6, <1>7 DEF Heard, VisitOK

\* The statements before a message is stored, and what they answer.
LEMMA LooksAreHeard ==
    ASSUME IInv, Heard, NEW c \in calls,
           TalkCheck(c) \/ TalkFind(c) \/ TalkCreate(c) \/ ListMessages(c)
    PROVE  Heard'
<1>1. /\ IsCall(c) /\ Talks(c) /\ ~Emits(c) /\ Found(c)
      /\ UNCHANGED <<msgs, chat, events>>
  BY DEF IInv, CallsOK, CallOK, TalkCheck, TalkFind, TalkCreate, ListMessages, Talks, Emits,
         Heard, TalkerOK, pages, talk
<1>2. ConvsGrow
  <2>1. convs \in Seq(SUBSET Users)
    BY DEF IInv, TalkOK
  <2>2. UNCHANGED convs \/ convs' = Append(convs, {c.by, c.to})
    BY DEF TalkCheck, TalkFind, TalkCreate, ListMessages, talk
  <2>3. CASE convs' = Append(convs, {c.by, c.to})
    <3>1. {c.by, c.to} \in SUBSET Users
      BY <1>1 DEF IInv, CallsOK, CallOK, Talker
    <3>. QED
      BY <2>1, <2>3, <3>1 DEF ConvsGrow
  <2>. QED
    BY <2>2, <2>3 DEF ConvsGrow
<1>3. ASSUME NEW d, calls \ {c} \subseteq calls', calls' \subseteq (calls \ {c}) \cup {d},
             d.op = c.op, d.by = c.by, d.to = c.to, d.visit = c.visit, ~Emits(d), Found(d)'
      PROVE  Heard'
  <2>1. Stored(d)'
    BY <1>3 DEF Stored, Emits
  <2>. QED
    BY <1>1, <1>2, <1>3, <2>1, TalkerMoves
<1>4. ASSUME Refuse(c) PROVE Heard'
  <2>1. PICK d : d = [c EXCEPT !.at = "failed", !.got = None]
    OBVIOUS
  <2>2. /\ d.op = c.op /\ d.by = c.by /\ d.to = c.to /\ d.visit = c.visit
        /\ d.at = "failed"
    BY <1>1, <2>1 DEF IsCall
  <2>3. calls \ {c} \subseteq calls' /\ calls' \subseteq (calls \ {c}) \cup {d}
    BY <1>4, <2>1 DEF Refuse, Reply
  <2>4. Found(d)' /\ ~Emits(d)
    BY <2>2 DEF Found, Emits
  <2>. QED
    BY <1>3, <2>2, <2>3, <2>4
<1>5. ASSUME NEW d, Become(c, d), d.op = c.op, d.by = c.by, d.to = c.to, d.visit = c.visit,
             d.at # "emit", Found(d)'
      PROVE  Heard'
  <2>1. calls \ {c} \subseteq calls' /\ calls' \subseteq (calls \ {c}) \cup {d}
    BY <1>5 DEF Become
  <2>2. ~Emits(d)
    BY <1>5 DEF Emits
  <2>. QED
    BY <1>3, <1>5, <2>1, <2>2
<1>6. CASE TalkCheck(c) /\ MayTalk(c)
  <2>1. PICK d : d = [c EXCEPT !.at = "find", !.friends = @ \/ HasFriendship(c.by, c.to)]
    OBVIOUS
  <2>2. /\ d.op = c.op /\ d.by = c.by /\ d.to = c.to /\ d.visit = c.visit
        /\ d.at = "find"
    BY <1>1, <2>1 DEF IsCall
  <2>3. Become(c, d)
    BY <1>6, <2>1 DEF TalkCheck
  <2>4. Found(d)'
    BY <2>2 DEF Found
  <2>. QED
    BY <1>5, <2>2, <2>3, <2>4
<1>7. CASE TalkFind(c) /\ ConvOf(c.by, c.to) = {}
  <2>1. PICK d : d = [c EXCEPT !.at = "create"]
    OBVIOUS
  <2>2. /\ d.op = c.op /\ d.by = c.by /\ d.to = c.to /\ d.visit = c.visit
        /\ d.at = "create"
    BY <1>1, <2>1 DEF IsCall
  <2>3. Become(c, d)
    BY <1>7, <2>1 DEF TalkFind
  <2>4. Found(d)'
    BY <2>2 DEF Found
  <2>. QED
    BY <1>5, <2>2, <2>3, <2>4
<1>8. CASE TalkFind(c) /\ ConvOf(c.by, c.to) # {}
  <2>1. PICK i \in ConvOf(c.by, c.to) : i = (CHOOSE x \in ConvOf(c.by, c.to) : TRUE)
    BY <1>8
  <2>2. PICK d : d = [c EXCEPT !.at = "talk", !.id = i]
    OBVIOUS
  <2>3. /\ d.op = c.op /\ d.by = c.by /\ d.to = c.to /\ d.visit = c.visit
        /\ d.at = "talk" /\ d.id = i
    BY <1>1, <2>2 DEF IsCall
  <2>4. Become(c, d) /\ UNCHANGED convs
    BY <1>8, <2>1, <2>2 DEF TalkFind, talk
  <2>5. Found(d)'
    BY <2>1, <2>3, <2>4 DEF Found, ConvOf
  <2>. QED
    BY <1>5, <2>3, <2>4, <2>5
<1>9. CASE TalkCreate(c) /\ UniqueConversation(c.by, c.to)
  <2>1. PICK d : d = [c EXCEPT !.at = "talk", !.id = Len(convs) + 1]
    OBVIOUS
  <2>2. /\ d.op = c.op /\ d.by = c.by /\ d.to = c.to /\ d.visit = c.visit
        /\ d.at = "talk" /\ d.id = Len(convs) + 1
    BY <1>1, <2>1 DEF IsCall
  <2>3. Become(c, d) /\ convs' = Append(convs, {c.by, c.to})
    BY <1>9, <2>1 DEF TalkCreate
  <2>4. d.id \in DOMAIN convs' /\ convs'[d.id] = {c.by, c.to}
    <3>1. convs \in Seq(SUBSET Users) /\ {c.by, c.to} \in SUBSET Users
      BY <1>1 DEF IInv, CallsOK, CallOK, Talker, TalkOK
    <3>. QED
      BY <2>2, <2>3, <3>1
  <2>5. Found(d)'
    BY <2>2, <2>4 DEF Found
  <2>. QED
    BY <1>5, <2>2, <2>3, <2>5
<1>10. CASE ListMessages(c)
  <2>1. PICK got : Reply(c, "done", got)
    BY <1>10 DEF ListMessages
  <2>2. PICK d : d = [c EXCEPT !.at = "done", !.got = got]
    OBVIOUS
  <2>3. /\ d.op = c.op /\ d.by = c.by /\ d.to = c.to /\ d.visit = c.visit
        /\ d.at = "done" /\ d.id = c.id
    BY <1>1, <2>2 DEF IsCall
  <2>4. calls \ {c} \subseteq calls' /\ calls' \subseteq (calls \ {c}) \cup {d}
    BY <2>1, <2>2 DEF Reply
  <2>5. Found(d)'
    BY <1>1, <1>2, <1>10, <2>3 DEF Found, ListMessages, ConvsGrow, Talks
  <2>6. ~Emits(d)
    BY <2>3 DEF Emits
  <2>. QED
    BY <1>3, <2>3, <2>4, <2>5, <2>6
<1>. QED
  BY <1>4, <1>6, <1>7, <1>8, <1>9, <1>10 DEF TalkCheck, TalkCreate

\* A message that is stored has still to be emitted.
LEMMA SendIsHeard ==
    ASSUME IInv, Heard, NEW c \in calls, SendMessage(c)
    PROVE  Heard'
<1>1. /\ IsCall(c) /\ Talks(c) /\ ~Emits(c) /\ Found(c)
      /\ UNCHANGED <<convs, chat, events>> /\ c.op = "send" /\ c.at = "talk"
  BY DEF IInv, CallsOK, CallOK, SendMessage, Talks, Emits, Heard, TalkerOK, pages
<1>2. PICK d : d = [c EXCEPT !.at = "emit", !.got = Len(msgs) + 1]
  OBVIOUS
<1>3. /\ d.op = "send" /\ d.by = c.by /\ d.to = c.to /\ d.visit = c.visit
      /\ d.at = "emit" /\ d.id = c.id /\ d.got = Len(msgs) + 1
  BY <1>1, <1>2 DEF IsCall
<1>4. calls' = (calls \ {c}) \cup {d} /\ msgs' = Append(msgs, [conv |-> c.id, friends |-> c.friends])
  BY <1>2 DEF SendMessage, Become
<1>5. /\ Len(msgs) \in Nat /\ DOMAIN msgs = 1 .. Len(msgs) /\ DOMAIN msgs' = 1 .. Len(msgs) + 1
      /\ \A i \in DOMAIN msgs : msgs'[i] = msgs[i]
      /\ msgs'[Len(msgs) + 1].conv = c.id
  <2>1. msgs \in Seq(Message)
    BY DEF IInv, TalkOK
  <2>2. [conv |-> c.id, friends |-> c.friends] \in Message
    BY <1>1 DEF IInv, CallsOK, CallOK, Talker, Message
  <2>. QED
    BY <1>4, <2>1, <2>2
<1>6. \A x \in calls' : TalkerOK(x)'
  <2>1. ASSUME NEW x, TalkerOK(x) PROVE TalkerOK(x)'
    <3>1. Found(x)' /\ OfVisit(x)'
      BY <1>1, <2>1 DEF TalkerOK, Found, OfVisit, Visits
    <3>2. Stored(x)'
      BY <1>5, <2>1 DEF TalkerOK, Stored
    <3>. QED
      BY <3>1, <3>2 DEF TalkerOK
  <2>2. TalkerOK(d)'
    <3>1. Found(d)'
      BY <1>1, <1>3 DEF Found
    <3>2. Stored(d)'
      BY <1>3, <1>5 DEF Stored
    <3>3. OfVisit(d)'
      BY <1>3 DEF OfVisit, Visits, Asks
    <3>. QED
      BY <3>1, <3>2, <3>3 DEF TalkerOK
  <2>3. \A x \in calls : TalkerOK(x)'
    BY <2>1 DEF Heard
  <2>. QED
    BY <1>4, <2>2, <2>3
<1>7. OneAsks'
  BY <1>1, <1>3, <1>4 DEF Heard, OneAsks, Visits, Asks
<1>8. RoomOK'
  <2>1. \A i : OnItsWay(i) => OnItsWay(i)'
    BY <1>1, <1>4 DEF OnItsWay, Emits
  <2>2. ASSUME NEW i, i = Len(msgs) + 1 PROVE OnItsWay(i)'
    BY <1>3, <1>4, <2>2 DEF OnItsWay, Emits
  <2>. QED
    BY <1>1, <1>5, <2>1, <2>2 DEF Heard, RoomOK
<1>. QED
  BY <1>1, <1>6, <1>7, <1>8 DEF Heard, VisitOK

\* What is emitted reaches the socket that is in the room.
LEMMA EmitIsHeard ==
    ASSUME IInv, Heard, NEW c \in calls, EmitMessage(c)
    PROVE  Heard'
<1>1. /\ IsCall(c) /\ Talks(c) /\ Emits(c) /\ Found(c) /\ Stored(c)
      /\ UNCHANGED <<convs, msgs, chat>> /\ c.op = "send"
  BY DEF IInv, CallsOK, CallOK, EmitMessage, Talks, Emits, Heard, TalkerOK, pages, talk
<1>2. PICK d : d = [c EXCEPT !.at = "done", !.got = {c.got}]
  OBVIOUS
<1>3. /\ d.op = "send" /\ d.by = c.by /\ d.to = c.to /\ d.visit = c.visit
      /\ d.at = "done" /\ d.id = c.id
  BY <1>1, <1>2 DEF IsCall
<1>4. calls' \subseteq (calls \ {c}) \cup {d} /\ calls \ {c} \subseteq calls'
  BY <1>2 DEF EmitMessage, Reply
<1>5. ConvsGrow
  BY <1>1 DEF ConvsGrow
<1>6. \A x \in calls' : TalkerOK(x)'
  <2>1. \A x \in calls : TalkerOK(x)'
    BY <1>1, <1>5, TalkerStays DEF Heard
  <2>2. TalkerOK(d)'
    BY <1>1, <1>3 DEF TalkerOK, Found, Stored, OfVisit, Visits, Asks, Talks, Emits
  <2>. QED
    BY <1>4, <2>1, <2>2
<1>7. OneAsks'
  BY <1>1, <1>3, <1>4 DEF Heard, OneAsks, Visits, Asks
<1>8. RoomOK'
  <2>. SUFFICES ASSUME chat.room # None, NEW i \in DOMAIN msgs, msgs[i].conv = chat.conv, OnItsWay(i)
                PROVE  OnItsWay(i)'
    BY <1>1 DEF Heard, RoomOK
  <2>1. CASE i = c.got
    <3>1. chat.room = c.id
      BY <1>1, <2>1 DEF Stored, Heard, RoomOK
    <3>2. [visit |-> chat.visit, msg |-> i] \in events'
      BY <2>1, <3>1 DEF EmitMessage
    <3>. QED
      BY <1>1, <3>2 DEF OnItsWay
  <2>2. CASE i # c.got
    <3>1. events \subseteq events'
      BY DEF EmitMessage
    <3>. QED
      BY <1>1, <1>4, <2>2, <3>1 DEF OnItsWay
  <2>. QED
    BY <2>1, <2>2
<1>. QED
  BY <1>1, <1>6, <1>7, <1>8 DEF Heard, VisitOK
\* The socket hears from now on what is sent in the room of its friend.
LEMMA JoinIsHeard ==
    ASSUME IInv, Heard, NEW c \in calls, JoinRoom(c)
    PROVE  Heard'
<1>1. /\ UNCHANGED <<convs, msgs, events>> /\ Asks(c) /\ calls' = calls \ {c}
      /\ Talks(c) /\ c.op = "join" /\ c.at = "talk" /\ TalkerOK(c) /\ ~Emits(c)
  BY DEF JoinRoom, Asks, Talks, Heard, talk, Emits
<1>2. CASE c.visit # chat.visit
  <2>1. UNCHANGED chat /\ ConvsGrow
    BY <1>1, <1>2 DEF JoinRoom, ConvsGrow
  <2>2. Found(c)' /\ Stored(c)'
    BY <1>1, <2>1, TalkerStays DEF TalkerOK
  <2>. QED
    BY <1>1, <2>1, <2>2, TalkerMoves
<1>3. CASE c.visit = chat.visit
  <2>1. /\ chat' = [chat EXCEPT !.room = c.id, !.since = Len(msgs)]
        /\ chat'.room = c.id /\ chat'.since = Len(msgs) /\ chat'.visit = chat.visit
        /\ chat'.friend = chat.friend /\ chat'.conv = chat.conv /\ chat'.shown = chat.shown
    BY <1>3 DEF JoinRoom, IInv, TalkOK
  <2>2. Visits(c) /\ c.by = Me /\ c.to = chat.friend
    BY <1>1, <1>3 DEF Visits, TalkerOK, OfVisit
  <2>3. c.id = chat.conv
    <3>1. c.id \in DOMAIN convs /\ convs[c.id] = {Me, chat.friend}
      BY <1>1, <2>2 DEF TalkerOK, Found
    <3>2. chat.conv \in DOMAIN convs /\ convs[chat.conv] = {Me, chat.friend}
      BY <1>1, <2>2 DEF TalkerOK, OfVisit
    <3>3. \A i, j \in DOMAIN convs : convs[i] = convs[j] => i = j
      BY DEF IInv, TalkOK
    <3>. QED
      BY ONLY <3>1, <3>2, <3>3
  <2>4. \A x \in calls' : ~Visits(x) /\ TalkerOK(x)
    BY <1>1, <2>2 DEF Heard, OneAsks
  <2>5. \A x : Visits(x)' <=> Visits(x)
    BY <2>1 DEF Visits, Asks
  <2>6. \A x \in calls' : TalkerOK(x)'
    <3>. SUFFICES ASSUME NEW x \in calls' PROVE TalkerOK(x)'
      OBVIOUS
    <3>1. Found(x)' /\ Stored(x)'
      BY <1>1, <2>4 DEF TalkerOK, Found, Stored, Talks, Emits
    <3>2. OfVisit(x)'
      BY <2>1, <2>4, <2>5 DEF TalkerOK, OfVisit
    <3>. QED
      BY <3>1, <3>2 DEF TalkerOK
  <2>7. OneAsks'
    BY <2>4, <2>5 DEF OneAsks
  <2>8. RoomOK'
    <3>1. \A i \in DOMAIN msgs : ~(i > Len(msgs))
      BY DEF IInv, TalkOK
    <3>. QED
      BY <1>1, <2>1, <2>3, <3>1 DEF RoomOK
  <2>. QED
    BY <2>1, <2>6, <2>7, <2>8 DEF Heard, VisitOK
<1>. QED
  BY <1>2, <1>3

\* Another visit begins, out of every room.
LEMMA SelectIsHeard ==
    ASSUME IInv, Heard, SelectFriend
    PROVE  Heard'
<1>1. PICK u, d : /\ d = Call("list", Me, u, 0, chat.visit + 1)
                  /\ chat' = [LeftRoom EXCEPT !.visit = @ + 1, !.friend = u, !.conv = None]
                  /\ Begin(d)
  BY DEF SelectFriend
<1>2. /\ d.op = "list" /\ d.by = Me /\ d.to = u /\ d.visit = chat.visit + 1 /\ d.at = "check"
      /\ calls' = calls \cup {d} /\ UNCHANGED <<convs, msgs>>
  BY <1>1 DEF Call, Begin, SelectFriend, talk
<1>3. chat'.visit = chat.visit + 1 /\ chat'.friend = u /\ chat'.room = None
  BY <1>1 DEF LeftRoom, IInv, TalkOK
<1>4. chat.visit \in Nat
  BY DEF Heard, VisitOK
<1>5. ASSUME NEW x \in calls PROVE TalkerOK(x)' /\ ~Visits(x)'
  <2>1. Found(x)' /\ Stored(x)'
    BY <1>2 DEF Heard, TalkerOK, Found, Stored
  <2>2. Asks(x) => x.visit \in Nat /\ x.visit <= chat.visit /\ x.by = Me
    BY DEF Heard, TalkerOK, OfVisit
  <2>3. ~Visits(x)'
    BY <1>3, <1>4, <2>2 DEF Visits, Asks
  <2>4. OfVisit(x)'
    BY <1>3, <1>4, <2>2, <2>3 DEF OfVisit, Asks
  <2>. QED
    BY <2>1, <2>3, <2>4 DEF TalkerOK
<1>6. TalkerOK(d)'
  <2>1. Found(d)' /\ Stored(d)'
    BY <1>2 DEF Found, Stored, Emits
  <2>2. OfVisit(d)'
    BY <1>2, <1>3, <1>4 DEF OfVisit, Visits, Asks
  <2>. QED
    BY <2>1, <2>2 DEF TalkerOK
<1>7. OneAsks'
  BY <1>2, <1>5 DEF OneAsks
<1>8. RoomOK' /\ VisitOK'
  BY <1>3, <1>4 DEF RoomOK, VisitOK
<1>. QED
  BY <1>2, <1>5, <1>6, <1>7, <1>8 DEF Heard

\* What the page shows when it asks for the room is of the same conversation.
LEMMA LoadedIsHeard ==
    ASSUME IInv, Heard, NEW c \in calls, MessagesLoaded(c)
    PROVE  Heard'
<1>1. /\ UNCHANGED <<convs, msgs, events>> /\ Asks(c) /\ Talks(c) /\ c.op = "list"
      /\ TalkerOK(c) /\ ~Emits(c) /\ c.at \in {"done", "failed"}
  BY DEF MessagesLoaded, Asks, Talks, Heard, talk, Emits
<1>2. CASE c.visit # chat.visit
  <2>1. UNCHANGED chat /\ ConvsGrow /\ calls' = calls \ {c}
    BY <1>1, <1>2 DEF MessagesLoaded, ConvsGrow
  <2>2. Found(c)' /\ Stored(c)'
    BY <1>1, <2>1, TalkerStays DEF TalkerOK
  <2>. QED
    BY <1>1, <2>1, <2>2, TalkerMoves
<1>3. CASE c.visit = chat.visit
  <2>1. PICK conv, shown, d :
          /\ chat' = [chat EXCEPT !.conv = conv, !.shown = shown]
          /\ d = AskToJoin(c) /\ calls \ {c} \subseteq calls'
          /\ calls' \subseteq (calls \ {c}) \cup {d}
          /\ c.at = "done" => conv = c.id
          /\ c.at # "done" => calls' = calls \ {c}
    <3>1. CASE c.at = "done"
      <4>1. /\ chat' = [chat EXCEPT !.conv = c.id, !.shown = c.got]
            /\ calls' = (calls \ {c}) \cup {AskToJoin(c)}
        BY <1>3, <3>1 DEF MessagesLoaded
      <4>. QED
        BY <3>1, <4>1
    <3>2. CASE c.at # "done"
      <4>1. chat' = [chat EXCEPT !.conv = None, !.shown = {}] /\ calls' = calls \ {c}
        BY <1>3, <3>2 DEF MessagesLoaded
      <4>. QED
        BY <3>2, <4>1
    <3>. QED
      BY <3>1, <3>2
  <2>2. /\ chat'.room = chat.room /\ chat'.visit = chat.visit
        /\ chat'.friend = chat.friend /\ chat'.conv = conv
    BY <2>1 DEF IInv, TalkOK
  <2>3. Visits(c) /\ c.by = Me /\ c.to = chat.friend /\ chat.room = None
    BY <1>1, <1>3 DEF Visits, TalkerOK, OfVisit
  <2>4. d.op = "join" /\ d.by = Me /\ d.to = c.to /\ d.visit = c.visit /\ d.at = "check"
    BY <2>1 DEF AskToJoin, Call
  <2>5. \A x : Visits(x)' <=> Visits(x)
    BY <2>2 DEF Visits, Asks
  <2>6. \A x \in calls \ {c} : ~Visits(x) /\ TalkerOK(x)
    BY <2>3 DEF Heard, OneAsks
  <2>7. \A x \in calls \ {c} : TalkerOK(x)'
    <3>. SUFFICES ASSUME NEW x \in calls \ {c} PROVE TalkerOK(x)'
      OBVIOUS
    <3>1. Found(x)' /\ Stored(x)'
      BY <1>1, <2>6 DEF TalkerOK, Found, Stored, Talks, Emits
    <3>2. OfVisit(x)'
      BY <2>2, <2>5, <2>6 DEF TalkerOK, OfVisit
    <3>. QED
      BY <3>1, <3>2 DEF TalkerOK
  <2>8. ASSUME c.at = "done" PROVE TalkerOK(d)'
    <3>1. Found(d)' /\ Stored(d)'
      BY <2>4 DEF Found, Stored, Emits
    <3>2. c.id \in DOMAIN convs /\ convs[c.id] = {Me, chat.friend}
      BY <1>1, <2>3, <2>8 DEF TalkerOK, Found
    <3>3. OfVisit(d)'
      BY <1>1, <1>3, <2>1, <2>2, <2>3, <2>4, <2>8, <3>2 DEF OfVisit, Visits, Asks, TalkerOK
    <3>. QED
      BY <3>1, <3>3 DEF TalkerOK
  <2>9. OneAsks' /\ \A x \in calls' : TalkerOK(x)'
    BY <2>1, <2>5, <2>6, <2>7, <2>8 DEF OneAsks
  <2>10. RoomOK' /\ VisitOK'
    BY <2>2, <2>3 DEF RoomOK, Heard, VisitOK
  <2>. QED
    BY <2>9, <2>10 DEF Heard
<1>. QED
  BY <1>2, <1>3

\* The page shows more messages, and no call but c ends.
LEMMA ShownIsHeard ==
    ASSUME IInv, Heard, NEW c, UNCHANGED <<convs, msgs>>, ~Emits(c), calls' \in {calls, calls \ {c}},
           NEW more, \/ chat' = [chat EXCEPT !.shown = chat.shown \cup more]
                     \/ UNCHANGED chat /\ more = {},
           \A i \in DOMAIN msgs :
               msgs[i].conv = chat.conv /\ [visit |-> chat.visit, msg |-> i] \in events
                   => i \in more \/ [visit |-> chat.visit, msg |-> i] \in events'
    PROVE  Heard'
<1>1. /\ chat'.room = chat.room /\ chat'.visit = chat.visit /\ chat'.since = chat.since
      /\ chat'.friend = chat.friend /\ chat'.conv = chat.conv /\ chat'.shown = chat.shown \cup more
  BY DEF IInv, TalkOK
<1>2. \A x : Visits(x)' <=> Visits(x)
  BY <1>1 DEF Visits, Asks
<1>3. \A x \in calls' : TalkerOK(x)'
  <2>. SUFFICES ASSUME NEW x \in calls PROVE TalkerOK(x)'
    OBVIOUS
  <2>1. Found(x)' /\ Stored(x)'
    BY DEF Heard, TalkerOK, Found, Stored, Talks, Emits
  <2>2. OfVisit(x)'
    BY <1>1, <1>2 DEF Heard, TalkerOK, OfVisit
  <2>. QED
    BY <2>1, <2>2 DEF TalkerOK
<1>4. OneAsks'
  BY <1>2 DEF Heard, OneAsks
<1>5. RoomOK'
  <2>1. \A i \in DOMAIN msgs : msgs[i].conv = chat.conv /\ OnItsWay(i) => OnItsWay(i)'
    BY <1>1 DEF OnItsWay, Emits
  <2>. QED
    BY <1>1, <2>1 DEF Heard, RoomOK
<1>. QED
  BY <1>1, <1>3, <1>4, <1>5 DEF Heard, VisitOK

LEMMA PageIsHeard ==
    ASSUME IInv, Heard, \/ \E c \in calls : JoinRefused(c) \/ MessageSent(c)
                        \/ \E e \in events : MessageArrives(e)
    PROVE  Heard'
<1>0. UNCHANGED <<convs, msgs>>
  BY DEF JoinRefused, MessageSent, MessageArrives, talk
<1>1. PICK more : more = {}
  OBVIOUS
<1>2. ASSUME NEW c \in calls, JoinRefused(c) PROVE Heard'
  <2>1. ~Emits(c) /\ calls' = calls \ {c} /\ UNCHANGED <<chat, events>>
    BY <1>2 DEF JoinRefused, Emits, pages
  <2>. QED
    BY <1>0, <1>1, <2>1, ShownIsHeard
<1>3. ASSUME NEW c \in calls, MessageSent(c) PROVE Heard'
  <2>1. /\ ~Emits(c) /\ calls' = calls \ {c} /\ UNCHANGED events
        /\ chat' = [chat EXCEPT !.shown = chat.shown \cup c.got] \/ UNCHANGED chat
    BY <1>3 DEF MessageSent, Emits, MergeMessages
  <2>. QED
    BY <1>0, <1>1, <2>1, ShownIsHeard
<1>4. ASSUME NEW e \in events, MessageArrives(e) PROVE Heard'
  <2>1. PICK c : c = [op |-> "list"]
    OBVIOUS
  <2>2. ~Emits(c) /\ UNCHANGED calls /\ events' = events \ {e}
    BY <1>4, <2>1 DEF MessageArrives, Emits
  <2>3. CASE e.visit = chat.visit /\ msgs[e.msg].conv = chat.conv
    <3>1. chat' = [chat EXCEPT !.shown = chat.shown \cup {e.msg}]
      BY <1>4, <2>3 DEF MessageArrives, MergeMessages
    <3>2. \A i : [visit |-> chat.visit, msg |-> i] = e => i = e.msg
      OBVIOUS
    <3>. QED
      BY <1>0, <2>2, <3>1, <3>2, ShownIsHeard
  <2>4. CASE ~(e.visit = chat.visit /\ msgs[e.msg].conv = chat.conv)
    <3>1. UNCHANGED chat
      BY <1>4, <2>4 DEF MessageArrives
    <3>2. \A i : msgs[i].conv = chat.conv => [visit |-> chat.visit, msg |-> i] # e
      BY <2>4
    <3>. QED
      BY <1>0, <1>1, <2>2, <3>1, <3>2, ShownIsHeard
  <2>. QED
    BY <2>3, <2>4
<1>. QED
  BY <1>2, <1>3, <1>4

\* The other calls say nothing of messages.
LEMMA OthersStep ==
    ASSUME IInv, Heard, \/ OthersAsk \/ OpenProfilePage \/ FriendsPage
                        \/ \E c \in calls : FriendStep(c) \/ ProfileStep(c)
    PROVE  Heard'
<1>1. UNCHANGED <<convs, msgs, chat, events>>
  BY DEF OthersAsk, OpenProfilePage, FriendsPage, OpenFriendsPage, HandleSubmit, HandleUnfriend,
         HandleRequest, PageAnswered, Overview, ListFriends, ListPendingFriendRequests,
         GetFriendsOverview, FriendStep, CreateFriendRequestCheck, CreateFriendRequestInsert,
         AcceptFriendRequestCheck, AcceptFriendRequestUpdate, AcceptFriendRequestSelect,
         DeleteFriendRequestCheck, DeleteFriendRequestRemove, DeleteFriendship, ProfileStep,
         EnsureProfileRead, CreateProfile, SubmitProfile, UpdateProfileRead, UpdateProfileWrite,
         talk, pages
<1>2. ASSUME NEW op, NEW u, NEW v, NEW id, NEW visit, op \notin {"list", "send", "join"},
             Begin(Call(op, u, v, id, visit))
      PROVE  Heard'
  <2>1. PICK d : d = Call(op, u, v, id, visit)
    OBVIOUS
  <2>2. d.op = op
    BY <2>1 DEF Call
  <2>3. calls' = calls \cup {d} /\ ~Talks(d)
    BY <1>2, <2>1, <2>2 DEF Begin, Talks
  <2>. QED
    BY <1>1, <2>3, OthersAreNotHeard
<1>3. ASSUME NEW c \in calls, ~Talks(c), NEW d, d.op = c.op, calls \ {c} \subseteq calls',
             calls' \subseteq (calls \ {c}) \cup {d}
      PROVE  Heard'
  BY <1>1, <1>3, OthersAreNotHeard DEF Talks
<1>4. CASE OthersAsk
  BY <1>2, <1>4 DEF OthersAsk
<1>5. CASE OpenProfilePage
  BY <1>2, <1>5 DEF OpenProfilePage
<1>6. CASE HandleSubmit \/ HandleUnfriend
  BY <1>2, <1>6 DEF HandleSubmit, HandleUnfriend
<1>7. ASSUME NEW op \in {"accept", "delete"}, HandleRequest(op) PROVE Heard'
  BY <1>2, <1>7 DEF HandleRequest
<1>8. CASE OpenFriendsPage
  <2>1. PICK o, d : /\ o = Call("overview", Me, Me, 0, 0)
                    /\ d = [o EXCEPT !.got = [friends |-> None, incoming |-> None,
                                              outgoing |-> None]]
                    /\ Begin(d)
    BY <1>8 DEF OpenFriendsPage
  <2>2. d.op = "overview"
    BY <2>1 DEF Call
  <2>3. calls' = calls \cup {d} /\ ~Talks(d)
    BY <2>1, <2>2 DEF Begin, Talks
  <2>. QED
    BY <1>1, <2>3, OthersAreNotHeard
<1>9. ASSUME NEW c \in calls, PageAnswered(c) \/ Overview(c) PROVE Heard'
  <2>1. ~Talks(c) /\ IsCall(c)
    BY <1>9 DEF PageAnswered, Overview, ListFriends, ListPendingFriendRequests,
       GetFriendsOverview, Talks, IInv, CallsOK, CallOK
  <2>2. CASE PageAnswered(c) \/ GetFriendsOverview(c)
    BY <1>1, <2>1, <2>2, OthersAreNotHeard DEF PageAnswered, GetFriendsOverview
  <2>3. CASE ListFriends(c) \/ ListPendingFriendRequests(c)
    <3>1. PICK d \in { [c EXCEPT !.got.friends = FriendsOf(Me)],
                       [c EXCEPT !.got.incoming = Incoming(Me)],
                       [c EXCEPT !.got.outgoing = Outgoing(Me)] } : Become(c, d)
      BY <2>3 DEF ListFriends, ListPendingFriendRequests
    <3>2. d.op = c.op
      BY <2>1, <3>1 DEF IsCall
    <3>. QED
      BY <1>3, <2>1, <3>1, <3>2 DEF Become
  <2>. QED
    BY <1>9, <2>2, <2>3 DEF Overview
<1>10. ASSUME NEW c \in calls, FriendStep(c) \/ ProfileStep(c) PROVE Heard'
  <2>1. ~Talks(c) /\ IsCall(c)
    BY <1>10 DEF FriendStep, CreateFriendRequestCheck, CreateFriendRequestInsert,
       AcceptFriendRequestCheck, AcceptFriendRequestUpdate, AcceptFriendRequestSelect,
       DeleteFriendRequestCheck, DeleteFriendRequestRemove, DeleteFriendship, ProfileStep,
       EnsureProfileRead, CreateProfile, SubmitProfile, UpdateProfileRead, UpdateProfileWrite,
       Talks, IInv, CallsOK, CallOK
  <2>2. ASSUME NEW answer, NEW got, Reply(c, answer, got) PROVE Heard'
    <3>1. PICK d : d = [c EXCEPT !.at = answer, !.got = got]
      OBVIOUS
    <3>2. d.op = c.op
      BY <2>1, <3>1 DEF IsCall
    <3>. QED
      BY <1>3, <2>1, <2>2, <3>1, <3>2 DEF Reply
  <2>3. ASSUME NEW at, NEW to, NEW got, NEW d \in {[c EXCEPT !.at = at], [c EXCEPT !.at = at, !.got = got],
                                                [c EXCEPT !.at = at, !.to = to, !.got = got]},
               Become(c, d)
        PROVE  Heard'
    <3>1. d.op = c.op
      BY <2>1, <2>3 DEF IsCall
    <3>. QED
      BY <1>3, <2>1, <2>3, <3>1 DEF Become
  <2>4. CASE FriendStep(c)
    BY <2>2, <2>3, <2>4 DEF FriendStep, CreateFriendRequestCheck, CreateFriendRequestInsert,
       AcceptFriendRequestCheck, AcceptFriendRequestUpdate, AcceptFriendRequestSelect,
       DeleteFriendRequestCheck, DeleteFriendRequestRemove, DeleteFriendship, Refuse
  <2>5. CASE SubmitProfile(c)
    <3>1. PICK f, d : d = [c EXCEPT !.at = "reread", !.to = f, !.got.form[f] = c.n] /\ Become(c, d)
      BY <2>5 DEF SubmitProfile
    <3>2. d.op = c.op
      BY <2>1, <3>1 DEF IsCall
    <3>. QED
      BY <1>3, <2>1, <3>1, <3>2 DEF Become
  <2>6. CASE EnsureProfileRead(c) \/ CreateProfile(c) \/ UpdateProfileRead(c) \/ UpdateProfileWrite(c)
    BY <2>2, <2>3, <2>6 DEF EnsureProfileRead, CreateProfile, UpdateProfileRead,
       UpdateProfileWrite, Refuse
  <2>. QED
    BY <1>10, <2>4, <2>5, <2>6 DEF ProfileStep
<1>. QED
  BY <1>4, <1>5, <1>6, <1>7, <1>8, <1>9, <1>10 DEF FriendsPage

LEMMA HeardStep == ASSUME IInv, Heard, [Next]_vars PROVE Heard'
<1>1. CASE UNCHANGED vars
  BY <1>1, OthersAreNotHeard DEF vars, talk, pages
<1>2. CASE OthersSend \/ HandleSend
  <2>1. UNCHANGED <<convs, msgs, chat, events>>
    BY <1>2 DEF OthersSend, HandleSend, talk, pages
  <2>2. PICK u, v, visit : Begin(Call("send", u, v, 0, visit))
    BY <1>2 DEF OthersSend, HandleSend
  <2>. QED
    BY <2>1, <2>2, SendBegins
<1>3. CASE MessagesPage
  BY <1>2, <1>3, SelectIsHeard, LoadedIsHeard, PageIsHeard DEF MessagesPage
<1>4. ASSUME NEW c \in calls, TalkStep(c) PROVE Heard'
  BY <1>4, LooksAreHeard, SendIsHeard, EmitIsHeard, JoinIsHeard DEF TalkStep
<1>. QED
  BY <1>1, <1>2, <1>3, <1>4, OthersStep DEF Next

\* A page that has joined the room shows what was stored since, once what is
\* sent has been emitted and has arrived: the room it joined is that of the
\* conversation it shows (JoinRoom, EmitMessage, MessagesLoaded).
THEOREM PageHearsAll == Spec => []JoinedSeesAll
<1>1. Init => Heard
  BY DEF Init, NoChat, Heard, VisitOK, RoomOK, OneAsks
<1>2. IInv /\ Heard /\ [Next]_vars => Heard'
  BY HeardStep
<1>3. Heard => JoinedSeesAll
  BY DEF Heard, RoomOK, OnItsWay, Emits, JoinedSeesAll, Sending
<1>. QED
  BY <1>1, <1>2, <1>3, Consistent, PTL DEF Spec
==============================================================================
