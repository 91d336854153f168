---------------------------- MODULE LobbyProofs ----------------------------
(***************************************************************************)
(* Proofs about Lobby, for any users, any budgets and any length of a      *)
(* behaviour: what the properties of LobbyProps say of the store holds     *)
(* because of what is known of the commands that calls still have to do.   *)
(***************************************************************************)
EXTENDS LobbyProps, SequenceTheorems, FiniteSetTheorems, TLAPS

------------------------------------------------------------------------------
(* What calls hold and the store keeps *)

FriendOffers == { i \in DOMAIN offers : offers[i].kind = "invite" }
RematchOffers == { i \in DOMAIN offers : offers[i].kind = "rematch" }

Offer == [kind : {"invite", "rematch"}, from : Users, to : Users, match : Nat]
Game == [players : SUBSET Users, from : Nat]

\* What may be stored under a key.
Fits(k, v) ==
    \/ v = None
    \/ k[1] = "invite" /\ v = "pending" /\ k[2] \in FriendOffers
    \/ k[1] = "session" /\ v \in {"live", "over"} /\ k[2] \in DOMAIN matches
    \/ k[1] = "rematch" /\ v \in RematchOffers /\ offers[v].match = k[2]
    \/ k[1] \in {"pending", "outgoing"} /\ v \in FriendOffers
    \/ k[1] \in {"rematchPending", "active"} /\ v \in DOMAIN matches

Ops == {"create", "accept", "decline", "end", "chat", "active", "requestRematch", "acceptRematch",
        "declineRematch", "look", "lookRematch"}
Stages == {"begin", "pending", "outgoing", "follow pending", "follow outgoing",
           "expire pending", "expire outgoing", "expire accept",
           "expired pending", "expired outgoing", "expired accept",
           "refused", "save", "told", "created", "failed", "delete", "done", "create",
           "announce", "ready", "session", "answer", "second", "answered", "follow",
           "live", "over"}
Value == {None, "pending", "live", "over"} \cup Nat
Writing == [key : Keys, value : Value]
Job == [n : Nat, op : Ops, by : Users \cup {None}, id : Nat, at : Stages,
        got : Nat \cup {None}, todo : Seq(Writing)]

Writings(s) == { s[i] : i \in DOMAIN s }

IdFits(c) ==
    /\ c.op \in {"create", "accept", "decline"} => c.id \in FriendOffers
    /\ c.op \in {"requestRematch", "acceptRematch", "declineRematch"} => c.id \in RematchOffers
    /\ c.op = "acceptRematch" => c.by \in Users
    /\ c.op = "decline" => c.by \in Parties(c.id)
    /\ c.op = "create" => c.by = From(c.id)
    /\ c.op = "accept" => c.by = To(c.id)
    /\ c.op \in {"end", "chat"} => c.id \in DOMAIN matches
    /\ c.op = "active" => c.by = Me
    /\ c.op \in {"create", "look"} => c.got \in FriendOffers \cup {None}
    /\ /\ c.op \in {"create", "look"}
       /\ \E side \in {"pending", "outgoing"} : c.at \in {Follow[side], Overdue[side], Gone[side]}
       => c.got \in FriendOffers
    /\ c.op = "look" => c.id \in FriendOffers \cup {0}
    /\ c.op \in {"active", "lookRematch"} => c.got \in DOMAIN matches \cup {None}
    /\ c.op \in {"active", "lookRematch"} /\ c.at = "session" => c.got \in DOMAIN matches
    /\ c.op = "lookRematch" /\ c.at = "follow" => c.got \in DOMAIN matches
    /\ c.op \in {"accept", "acceptRematch"} /\ c.at = "announce" => c.got \in DOMAIN matches

MadeOK ==
    /\ offers \in Seq(Offer) /\ Len(offers) <= MaxId
    /\ \A i \in DOMAIN offers : From(i) # To(i)
    /\ \A i \in RematchOffers : offers[i].match \in DOMAIN matches
    /\ matches \in Seq(Game) /\ Len(matches) <= MaxId
    /\ \A m \in DOMAIN matches : matches[m].from \in DOMAIN offers \cup {0}
    /\ \A m \in DOMAIN matches : \E u, v \in Users : matches[m].players = {u, v}
    /\ expired \subseteq DOMAIN offers
StoreOK == DOMAIN redis = Keys /\ \A k \in Keys : Fits(k, redis[k])
CallsOK ==
    \A c \in calls :
        /\ c \in Job /\ IdFits(c)
        /\ \A w \in Writings(c.todo) : Fits(w.key, w.value)
TypeOK == MadeOK /\ StoreOK /\ CallsOK /\ started \in Nat

------------------------------------------------------------------------------
(* One match for an offer *)

Stored(i) ==
    IF offers[i].kind = "invite" THEN redis[<<"invite", i>>] # None
    ELSE redis[<<"rematch", offers[i].match>>] = i
Saves(c) == (c.op = "create" /\ ~Saved(c)) \/ (c.op = "requestRematch" /\ Len(c.todo) = 2)
Takes(c) == c.op \in {"accept", "acceptRematch"} /\ c.at \in {"delete", "create"}
OfferKey(i) == IF offers[i].kind = "invite" THEN <<"invite", i>> ELSE <<"rematch", offers[i].match>>

\* An offer is stored by the call that makes it, and by no other.
MakesOnly(c) ==
    \A j \in DOMAIN c.todo :
        LET w == c.todo[j] IN
        w.key[1] \in {"invite", "rematch"} /\ w.value # None =>
            /\ j = 1 /\ w.key = OfferKey(c.id)
            /\ \/ c.op = "create" /\ c.at = "told" /\ Len(c.todo) = 3
               \/ c.op = "requestRematch" /\ Len(c.todo) = 2 /\ w.value = c.id
MakersStore == \A c \in calls : MakesOnly(c)
OneMaker ==
    /\ \A c, d \in calls : c.op = "requestRematch" /\ d.op = "requestRematch" /\ c.id = d.id => c = d
    /\ \A c, d \in calls : c.op = "create" /\ d.op = "create" /\ c.id = d.id => c = d
    /\ \A c, d \in calls : c.op = "create" /\ Saves(c) /\ d.op \in {"accept", "decline"} => c.id # d.id
    /\ \A c \in calls : c.op = "requestRematch" /\ Saves(c) => ~Stored(c.id)
    /\ \A c \in calls : c.op = "requestRematch" => Len(c.todo) <= 2
FreshIsFree ==
    \A c \in calls : Saves(c) =>
        /\ \A d \in calls : Takes(d) => d.id # c.id
        /\ \A m \in DOMAIN matches : matches[m].from # c.id
UsedIsGone == \A m \in DOMAIN matches : matches[m].from # 0 => ~Stored(matches[m].from)
TakenOnce ==
    /\ \A c, d \in calls : Takes(c) /\ Takes(d) /\ c.id = d.id /\ c # d => c.id \in raced
    /\ \A c \in calls : \A m \in DOMAIN matches :
           Takes(c) /\ matches[m].from = c.id => c.id \in raced
TakenIsGone ==
    \A c \in calls : Takes(c) /\ c.at = "create" =>
        \/ ~Stored(c.id)
        \/ c.todo # <<>> /\ Head(c.todo) = Del(OfferKey(c.id))
Once == MakersStore /\ OneMaker /\ FreshIsFree /\ UsedIsGone /\ TakenOnce /\ TakenIsGone
        /\ OneMatchPerOffer

------------------------------------------------------------------------------
(* The pointers to an invite *)

Sides == {"pending", "outgoing"}
Alive(i) == i \in FriendOffers /\ redis[<<"invite", i>>] # None
Works(c, u) == c \in calls /\ Writes(c) /\ u \in Touched(c)
Subject(c, side) == IF c.op = "look" THEN Me ELSE PointedUser(side, c.id)
Dooms(c, i) == c.todo # <<>> /\ Head(c.todo) = Del(<<"invite", i>>)
Seeks(c) == c.op \in {"create", "look"}

AloneAtWork == \A u \in Users \ mixed : \A c, d \in calls : Works(c, u) /\ Works(d, u) => c = d

\* What a call has still to write of invites: the one it saves, and otherwise
\* it only deletes, for the users it touches.
SaveWrites(i) ==
    { <<Set(<<"invite", i>>, "pending"), Set(<<"pending", To(i)>>, i), Set(<<"outgoing", From(i)>>, i)>>,
      <<Set(<<"pending", To(i)>>, i), Set(<<"outgoing", From(i)>>, i)>>,
      <<Set(<<"outgoing", From(i)>>, i)>>, <<>> }
Saver(c) == c.op = "create" /\ c.at = "told"
Deletes(c, w) ==
    /\ w.value = None /\ Writes(c)
    /\ w.key[1] \in Sides => w.key[2] \in Touched(c)
    /\ w.key[1] = "invite" => w.key[2] \in FriendOffers /\ Parties(w.key[2]) \subseteq Touched(c)
WritesOwn(c) ==
    /\ Saver(c) => c.todo \in SaveWrites(c.id)
    /\ ~Saver(c) => \A w \in Writings(c.todo) : w.key[1] \in Sides \cup {"invite"} => Deletes(c, w)
    /\ Seeks(c) /\ (\E side \in Sides : c.at \in {Follow[side], Overdue[side]}) => c.todo = <<>>
    /\ Deleting(c) => Seeks(c)
PointerWriters == \A c \in calls : WritesOwn(c)

\* An invite that is stored is pointed at, will be, or is about to go.
IsPointed(i, side) ==
    LET k == <<side, PointedUser(side, i)>> IN
    \/ \E c \in calls : Dooms(c, i)
    \/ redis[k] = i /\ \A c \in calls : \A w \in Writings(c.todo) : w.key # k
    \/ \E c \in calls : c.op = "create" /\ c.id = i /\ Set(k, i) \in Writings(c.todo)
Pointed ==
    \A i \in FriendOffers : \A side \in Sides :
        Alive(i) /\ PointedUser(side, i) \notin mixed => IsPointed(i, side)

\* What a call that looks a pointer up knows of it.
KnowsPointer(c, side) ==
    LET u == Subject(c, side) IN
    /\ c.at \in {Follow[side], Overdue[side]} => redis[<<side, u>>] \in {c.got, None}
    /\ c.at = Gone[side] =>
         \A i \in FriendOffers : Alive(i) /\ PointedUser(side, i) = u => Dooms(c, i)
LooksTrue ==
    \A c \in calls : \A side \in Sides :
        Seeks(c) /\ Subject(c, side) \notin mixed => KnowsPointer(c, side)

\* A call that goes on to save its invite has found no other.
PastPending == {"outgoing", Follow.outgoing, Overdue.outgoing, Gone.outgoing, "save"}
NoneOf(side, u) == \A i \in FriendOffers : ~(Alive(i) /\ PointedUser(side, i) = u)
RoomFor(c) ==
    /\ c.at \in PastPending /\ To(c.id) \notin mixed => NoneOf("pending", To(c.id))
    /\ c.at = "save" /\ From(c.id) \notin mixed => NoneOf("outgoing", From(c.id))
RoomIsFree == \A c \in calls : c.op = "create" => RoomFor(c)
Findable == AloneAtWork /\ PointerWriters /\ Pointed /\ LooksTrue /\ RoomIsFree

------------------------------------------------------------------------------
(* The proofs: calls and their writings *)

LEMMA WritingsOf ==
    ASSUME NEW x, NEW y, NEW z
    PROVE  /\ Writings(<<>>) = {} /\ Writings(<<x>>) = {x}
           /\ Writings(<<x, y, z>>) = {x, y, z}
BY DEF Writings

LEMMA Triple ==
    ASSUME NEW X, NEW x \in X, NEW y \in X, NEW z \in X
    PROVE  /\ <<x, y, z>> \in Seq(X) /\ Writings(<<x, y, z>>) = {x, y, z}
           /\ Head(<<x, y, z>>) = x /\ Len(<<x, y, z>>) = 3 /\ <<x, y, z>> # <<>>
<1>1. <<x, y, z>> \in Seq(X) /\ Head(<<x, y, z>>) = x
  OBVIOUS
<1>2. Len(<<x, y, z>>) = 3 /\ <<x, y, z>> # <<>>
  OBVIOUS
<1>3. Writings(<<x, y, z>>) = {x, y, z}
  BY DEF Writings
<1>. QED
  BY <1>1, <1>2, <1>3

LEMMA Joined ==
    ASSUME NEW X, NEW x \in X, NEW y \in X, NEW z \in X
    PROVE  /\ <<x>> \o <<>> = <<x>> /\ <<x>> \o <<y>> = <<x, y>>
           /\ <<x>> \o <<y, z>> = <<x, y, z>>
<1>1. /\ <<x>> \in Seq(X) /\ <<y>> \in Seq(X) /\ <<y, z>> \in Seq(X)
      /\ Len(<<x>>) = 1 /\ Len(<<y>>) = 1 /\ Len(<<y, z>>) = 2
  OBVIOUS
<1>2. <<x, y>> \in Seq(X) /\ Len(<<x, y>>) = 2
  OBVIOUS
<1>3. <<x, y, z>> \in Seq(X) /\ Len(<<x, y, z>>) = 3
  OBVIOUS
<1>4. <<x>> \o <<>> = <<x>>
  BY <1>1, ConcatEmptySeq
<1>5. <<x>> \o <<y>> = <<x, y>>
  <2>. DEFINE s == <<x>> \o <<y>>
  <2>1. s \in Seq(X) /\ Len(s) = 2
    BY <1>1, ConcatProperties
  <2>2. s[1] = x /\ s[2] = y
    BY <1>1, ConcatProperties
  <2>3. \A i \in 1 .. Len(s) : s[i] = <<x, y>>[i]
    BY <2>1, <2>2
  <2>. QED
    BY <1>2, <2>1, <2>3, SeqEqual
<1>6. <<x>> \o <<y, z>> = <<x, y, z>>
  <2>. DEFINE s == <<x>> \o <<y, z>>
  <2>1. s \in Seq(X) /\ Len(s) = 3
    BY <1>1, ConcatProperties
  <2>2. s[1] = x /\ s[2] = y /\ s[3] = z
    BY <1>1, ConcatProperties
  <2>3. \A i \in 1 .. Len(s) : s[i] = <<x, y, z>>[i]
    BY <2>1, <2>2
  <2>. QED
    BY <1>3, <2>1, <2>3, SeqEqual
<1>. QED
  BY <1>4, <1>5, <1>6

LEMMA Few ==
    ASSUME NEW X, NEW x \in X, NEW y \in X
    PROVE  /\ <<x>> \in Seq(X) /\ Writings(<<x>>) = {x} /\ Head(<<x>>) = x
           /\ Len(<<x>>) = 1 /\ <<x>> # <<>>
           /\ <<x, y>> \in Seq(X) /\ Writings(<<x, y>>) = {x, y} /\ Head(<<x, y>>) = x
           /\ Len(<<x, y>>) = 2 /\ <<x, y>> # <<>> /\ <<>> \in Seq(X)
<1>1. Writings(<<x>>) = {x} /\ Writings(<<x, y>>) = {x, y}
  BY DEF Writings
<1>. QED
  BY <1>1

LEMMA WritingsOfTail ==
    ASSUME NEW X, NEW s \in Seq(X), s # <<>>
    PROVE  /\ Head(s) \in Writings(s) /\ Writings(Tail(s)) \subseteq Writings(s)
           /\ Writings(s) \subseteq Writings(Tail(s)) \cup {Head(s)}
           /\ Tail(s) \in Seq(X) /\ Len(Tail(s)) = Len(s) - 1 /\ Head(s) \in X
           /\ \A j \in DOMAIN Tail(s) : j + 1 \in DOMAIN s /\ Tail(s)[j] = s[j + 1]
<1>1. /\ Tail(s) \in Seq(X) /\ Len(Tail(s)) = Len(s) - 1 /\ Len(s) \in Nat /\ Len(s) >= 1
      /\ Head(s) = s[1] /\ Head(s) \in X
  BY EmptySeq, LenProperties, HeadTailProperties
<1>2. \A j \in DOMAIN Tail(s) : j + 1 \in DOMAIN s /\ Tail(s)[j] = s[j + 1]
  BY <1>1, HeadTailProperties, LenProperties
<1>3. \A j \in DOMAIN s : j = 1 \/ (j - 1 \in DOMAIN Tail(s) /\ Tail(s)[j - 1] = s[j])
  BY <1>1, LenProperties
<1>4. Head(s) \in Writings(s)
  BY <1>1 DEF Writings
<1>5. Writings(Tail(s)) \subseteq Writings(s)
  BY <1>2 DEF Writings
<1>6. Writings(s) \subseteq Writings(Tail(s)) \cup {Head(s)}
  BY <1>1, <1>3 DEF Writings
<1>. QED
  BY <1>1, <1>2, <1>4, <1>5, <1>6

LEMMA StageNames ==
    /\ Follow["pending"] = "follow pending" /\ Follow["outgoing"] = "follow outgoing"
    /\ Overdue["pending"] = "expire pending" /\ Overdue["outgoing"] = "expire outgoing"
    /\ Overdue["accept"] = "expire accept"
    /\ Gone["pending"] = "expired pending" /\ Gone["outgoing"] = "expired outgoing"
    /\ Gone["accept"] = "expired accept"
BY DEF Follow, Overdue, Gone

LEMMA KeyTypes ==
    /\ \A i \in 1 .. MaxId : /\ <<"invite", i>> \in Keys /\ <<"session", i>> \in Keys
                             /\ <<"rematch", i>> \in Keys
    /\ \A u \in Users : /\ <<"pending", u>> \in Keys /\ <<"outgoing", u>> \in Keys
                        /\ <<"rematchPending", u>> \in Keys /\ <<"active", u>> \in Keys
BY DEF Keys

LEMMA MaxIdIsFour == MaxId = 4
BY DEF MaxId

\* A call that goes on.
Is(d, c, at, id, got, todo) ==
    /\ d \in Job /\ d.op = c.op /\ d.by = c.by
    /\ d.at = at /\ d.id = id /\ d.got = got /\ d.todo = todo

LEMMA Edits ==
    ASSUME NEW c \in Job, NEW at \in Stages, NEW id \in Nat, NEW got \in Nat \cup {None},
           NEW todo \in Seq(Writing)
    PROVE  /\ Is([c EXCEPT !.at = at], c, at, c.id, c.got, c.todo)
           /\ Is([c EXCEPT !.todo = todo], c, c.at, c.id, c.got, todo)
           /\ Is([c EXCEPT !.at = at, !.got = got], c, at, c.id, got, c.todo)
           /\ Is([c EXCEPT !.at = at, !.todo = todo], c, at, c.id, c.got, todo)
           /\ Is([c EXCEPT !.at = at, !.got = got, !.todo = todo], c, at, c.id, got, todo)
           /\ Is([c EXCEPT !.at = at, !.id = id], c, at, id, c.got, c.todo)
           /\ Is([c EXCEPT !.at = at, !.got = got, !.id = id], c, at, id, got, c.todo)
<1>1. Is([c EXCEPT !.at = at], c, at, c.id, c.got, c.todo)
  BY DEF Job, Is
<1>2. Is([c EXCEPT !.todo = todo], c, c.at, c.id, c.got, todo)
  BY DEF Job, Is
<1>3. Is([c EXCEPT !.at = at, !.got = got], c, at, c.id, got, c.todo)
  BY DEF Job, Is
<1>4. Is([c EXCEPT !.at = at, !.todo = todo], c, at, c.id, c.got, todo)
  BY DEF Job, Is
<1>5. Is([c EXCEPT !.at = at, !.got = got, !.todo = todo], c, at, c.id, got, todo)
  BY DEF Job, Is
<1>6. Is([c EXCEPT !.at = at, !.id = id], c, at, id, c.got, c.todo)
  BY DEF Job, Is
<1>7. Is([c EXCEPT !.at = at, !.got = got, !.id = id], c, at, id, got, c.todo)
  BY DEF Job, Is
<1>. QED
  BY <1>1, <1>2, <1>3, <1>4, <1>5, <1>6, <1>7

\* Writing of one key.
LEMMA SetType ==
    ASSUME NEW k \in Keys, NEW v \in Value
    PROVE  /\ Set(k, v) \in Writing /\ Set(k, v).key = k /\ Set(k, v).value = v
           /\ Del(k) \in Writing /\ Del(k).key = k /\ Del(k).value = None
BY DEF Set, Del, Writing, Value

------------------------------------------------------------------------------
(* How a call goes on, as a relation of its record before and after *)

Goes(c, d) ==
    /\ c \in calls /\ c.todo = <<>> /\ d \in Job /\ d.op = c.op /\ d.by = c.by
    /\ calls' = (calls \ {c}) \cup {d} /\ started' = started
Leaves(c) == c \in calls /\ c.todo = <<>> /\ calls' = calls \ {c} /\ started' = started

Turns(c, d, from, to) ==
    c.at = from /\ d.at = to /\ d.id = c.id /\ d.got = c.got /\ d.todo = <<>>
There(c, side, u) == redis[<<"invite", c.got>>] # None /\ PointedUser(side, c.got) = u

LooksUp(c, d, side, u, found, none) ==
    \/ Turns(c, d, side, none) /\ redis[<<side, u>>] = None
    \/ /\ c.at = side /\ d.at = Follow[side] /\ d.id = c.id /\ d.todo = <<>>
       /\ d.got = redis[<<side, u>>] /\ d.got # None
    \/ /\ c.at = Follow[side] /\ d.at = none /\ d.id = c.id /\ d.got = None
       /\ ~There(c, side, u) /\ d.todo = <<Del(<<side, u>>)>>
    \/ Turns(c, d, Follow[side], Overdue[side]) /\ There(c, side, u) /\ c.got \in expired
    \/ Turns(c, d, Follow[side], found) /\ There(c, side, u) /\ c.got \notin expired
    \/ /\ c.at = Overdue[side] /\ d.at = Gone[side] /\ d.id = c.id /\ d.got = c.got
       /\ d.todo = DeleteFriendInvite(c.got)
    \/ /\ c.at = Gone[side] /\ d.at = none /\ d.id = c.id /\ d.got = None /\ d.todo = <<>>

LookupStep(c, side, u, found, none) ==
    /\ \E d : /\ Goes(c, d) /\ LooksUp(c, d, side, u, found, none)
              /\ mixed' = mixed \cup (IF Deleting(d) /\ ~Deleting(c)
                                      THEN MixedWith(calls \ {c}, Parties(c.got)) ELSE {})
    /\ UNCHANGED <<redis, made, expired, raced, blurred>>

Creates(c, d) ==
    /\ c.op = "create"
    /\ \/ Turns(c, d, "begin", "pending") \/ Turns(c, d, "begin", "failed")
       \/ LooksUp(c, d, "pending", To(c.id), "refused", "outgoing")
       \/ LooksUp(c, d, "outgoing", From(c.id), "refused", "save")
       \/ Turns(c, d, "refused", "failed")
       \/ /\ c.at = "save" /\ d.at = "told" /\ d.id = c.id /\ d.got = c.got
          /\ d.todo = SaveFriendInvite(c.id)
       \/ Turns(c, d, "told", "created") /\ c.by = Me
Accepts(c, d) ==
    /\ c.op = "accept"
    /\ \/ Turns(c, d, "begin", "failed")
       \/ Turns(c, d, "begin", Overdue.accept) /\ c.id \in expired
       \/ Turns(c, d, "begin", "delete") /\ LockFree(c) /\ redis[<<"invite", c.id>>] # None
       \/ /\ c.at = Overdue.accept /\ d.at = Gone.accept /\ d.id = c.id /\ d.got = c.got
          /\ d.todo = DeleteFriendInvite(c.id)
       \/ c.at = Gone.accept /\ d.at = "failed" /\ d.id = c.id /\ d.got = None /\ d.todo = <<>>
       \/ /\ c.at = "delete" /\ d.at = "create" /\ d.id = c.id /\ d.got = c.got
          /\ d.todo = DeleteFriendInvite(c.id)
       \/ Turns(c, d, "announce", "ready") /\ c.by = Me
Declines(c, d) ==
    /\ c.op = "decline"
    /\ \/ Turns(c, d, "begin", "done") /\ c.by = Me /\ redis[<<"invite", c.id>>] = None
       \/ Turns(c, d, "begin", "delete")
       \/ /\ c.at = "delete" /\ d.at = "told" /\ d.id = c.id /\ d.got = c.got
          /\ d.todo = DeleteFriendInvite(c.id)
       \/ Turns(c, d, "told", "done") /\ c.by = Me
Looks(c, d) ==
    /\ c.op = "look"
    /\ \/ Turns(c, d, "begin", "pending")
       \/ LooksUp(c, d, "pending", Me, "second", "second")
       \/ /\ c.at = "second" /\ d.at = "outgoing" /\ d.got = None /\ d.todo = <<>>
          /\ d.id = (IF c.got = None THEN 0 ELSE c.got)
       \/ LooksUp(c, d, "outgoing", Me, "answered", "answered")
\* A step of a call about invites, apart from the match it makes.
InviteStep(c, d) ==
    /\ Goes(c, d) /\ (Creates(c, d) \/ Accepts(c, d) \/ Declines(c, d) \/ Looks(c, d))
    /\ mixed' = mixed \cup (IF Deleting(d) /\ ~Deleting(c)
                            THEN MixedWith(calls \ {c}, Parties(c.got)) ELSE {})
    /\ UNCHANGED <<redis, made, expired, raced, blurred>>

MakesMatch(c, d) ==
    /\ Goes(c, d) /\ c.op \in {"accept", "acceptRematch"} /\ c.at = "create"
    /\ Len(matches) < MaxId
    /\ d.at = "announce" /\ d.id = c.id /\ d.got = Len(matches) + 1
    /\ d.todo = SaveState(Len(matches) + 1, "live", Seats(c))
    /\ matches' = Append(matches, NewMatch({Seats(c)[1], Seats(c)[2]}, c.id))
    /\ UNCHANGED <<redis, offers, expired, mixed, raced>>

\* The id of the request that is read takes the place of the one answered.
AcceptsRematch(c, d) ==
    /\ c.op = "acceptRematch"
    /\ \/ /\ c.at = "begin" /\ d.at = "delete" /\ d.got = c.got /\ d.todo = <<>>
          /\ d.id = redis[<<"rematch", offers[c.id].match>>] /\ d.id # None
          /\ raced' = raced \cup
               { e.id : e \in { e \in calls : e.op = "acceptRematch" /\ e.id = d.id
                                              /\ e.at # "begin" } }
       \/ /\ c.at = "delete" /\ d.at = "create" /\ d.id = c.id /\ d.got = c.got
          /\ d.todo = DeleteRematchRequest(offers[c.id].match)
          /\ raced' = raced
DeclinesRematch(c, d) ==
    /\ c.op = "declineRematch" /\ raced' = raced
    /\ \/ /\ c.at = "begin" /\ d.at = "delete" /\ d.got = c.got /\ d.todo = <<>>
          /\ d.id = redis[<<"rematch", offers[c.id].match>>] /\ d.id # None
       \/ /\ c.at = "delete" /\ d.at = "told" /\ d.id = c.id /\ d.got = c.got
          /\ d.todo = DeleteRematchRequest(offers[c.id].match)
LooksForRematch(c, d) ==
    /\ c.op = "lookRematch" /\ raced' = raced /\ d.id = c.id
    /\ \/ c.at = "begin" /\ d.at = "answered" /\ d.got = c.got /\ d.todo = <<>>
       \/ /\ c.at = "begin" /\ d.at = "follow" /\ d.todo = <<>>
          /\ d.got = redis[<<"rematchPending", Me>>] /\ d.got # None
       \/ c.at = "follow" /\ d.at = "session" /\ d.got = c.got /\ d.todo = <<>>
       \/ /\ c.at = "follow" /\ d.at = "answered" /\ d.got = None
          /\ d.todo = <<Del(<<"rematchPending", Me>>)>>
       \/ c.at = "session" /\ d.at = "answered" /\ d.got = c.got /\ d.todo = <<>>
       \/ /\ c.at = "session" /\ d.at = "answered" /\ d.got = None
          /\ d.todo = DeleteRematchRequest(c.got)
RematchStep(c, d) ==
    /\ Goes(c, d) /\ (AcceptsRematch(c, d) \/ DeclinesRematch(c, d) \/ LooksForRematch(c, d))
    /\ UNCHANGED <<redis, made, expired, mixed, blurred>>

ActiveStep(c, d) ==
    /\ Goes(c, d) /\ c.op = "active" /\ d.id = c.id
    /\ \/ /\ c.at = "begin" /\ d.at = "session" /\ d.todo = <<>>
          /\ d.got = redis[<<"active", Me>>] /\ d.got # None
       \/ /\ c.at = "session" /\ d.at = "answer" /\ d.got = c.got
          /\ d.todo = <<Del(<<"active", Me>>)>>
          /\ ~(redis[<<"session", c.got>>] = "live" /\ Me \in matches[c.got].players)
    /\ UNCHANGED <<redis, made, expired, mixed, raced, blurred>>

\* A chat message is saved with the session as it was read.
ChatStep(c, d) ==
    /\ Goes(c, d) /\ c.op = "chat" /\ d.id = c.id /\ d.got = c.got
    /\ c.at \in {"live", "over"} /\ d.at = "done"
    /\ \E u, v \in Users : d.todo = SaveState(c.id, c.at, <<u, v>>)
    /\ UNCHANGED <<redis, made, expired, mixed, raced, blurred>>

IndexStep(c, d) == ActiveStep(c, d) \/ ChatStep(c, d)

EndOfCall(c) == Leaves(c) /\ UNCHANGED <<redis, made, expired, mixed, raced, blurred>>

------------------------------------------------------------------------------
(* What calls write *)

LEMMA OfferTypes ==
    ASSUME TypeOK
    PROVE  /\ FriendOffers \subseteq 1 .. MaxId /\ RematchOffers \subseteq 1 .. MaxId
           /\ DOMAIN offers = 1 .. Len(offers) /\ Len(offers) \in Nat
           /\ DOMAIN matches = 1 .. Len(matches) /\ Len(matches) \in Nat
           /\ DOMAIN matches \subseteq 1 .. MaxId /\ DOMAIN offers \subseteq 1 .. MaxId
           /\ \A i \in DOMAIN offers : /\ From(i) \in Users /\ To(i) \in Users
                                       /\ offers[i].match \in Nat
                                       /\ offers[i].kind \in {"invite", "rematch"}
           /\ \A m \in DOMAIN matches : matches[m].players \subseteq Users /\ matches[m].from \in Nat
<1>1. /\ offers \in Seq(Offer) /\ Len(offers) <= MaxId /\ matches \in Seq(Game)
      /\ Len(matches) <= MaxId
  BY DEF TypeOK, MadeOK
<1>2. /\ DOMAIN offers = 1 .. Len(offers) /\ Len(offers) \in Nat
      /\ DOMAIN matches = 1 .. Len(matches) /\ Len(matches) \in Nat
  BY <1>1, LenProperties
<1>3. \A i \in DOMAIN offers : offers[i] \in Offer
  BY <1>1
<1>4. \A m \in DOMAIN matches : matches[m] \in Game
  BY <1>1
<1>5. \A i \in DOMAIN offers : /\ From(i) \in Users /\ To(i) \in Users
                               /\ offers[i].match \in Nat
                               /\ offers[i].kind \in {"invite", "rematch"}
  BY <1>3 DEF Offer, From, To
<1>6. \A m \in DOMAIN matches : matches[m].players \subseteq Users /\ matches[m].from \in Nat
  BY <1>4 DEF Game
<1>7. DOMAIN matches \subseteq 1 .. MaxId /\ DOMAIN offers \subseteq 1 .. MaxId
  BY <1>1, <1>2, MaxIdIsFour
<1>. QED
  BY <1>2, <1>5, <1>6, <1>7 DEF FriendOffers, RematchOffers

LEMMA DeletesAre ==
    ASSUME TypeOK, NEW i \in FriendOffers
    PROVE  LET a == Del(<<"invite", i>>)
               b == Del(<<"pending", To(i)>>)
               e == Del(<<"outgoing", From(i)>>)
               s == DeleteFriendInvite(i) IN
           /\ s \in Seq(Writing) /\ s # <<>> /\ Head(s) = a /\ Len(s) \in {1, 3}
           /\ IF redis[<<"invite", i>>] = None THEN s = <<a>> ELSE s = <<a, b, e>>
           /\ Writings(s) = {a} \cup (IF redis[<<"invite", i>>] = None THEN {} ELSE {b, e})
<1>. DEFINE a == Del(<<"invite", i>>)
            b == Del(<<"pending", To(i)>>)
            e == Del(<<"outgoing", From(i)>>)
            s == DeleteFriendInvite(i)
<1>1. /\ <<"invite", i>> \in Keys /\ <<"pending", To(i)>> \in Keys
      /\ <<"outgoing", From(i)>> \in Keys /\ None \in Value
  BY OfferTypes, KeyTypes DEF FriendOffers, Value
<1>2. a \in Writing /\ b \in Writing /\ e \in Writing
  BY <1>1, SetType
<1>. HIDE DEF a, b, e
<1>3. CASE redis[<<"invite", i>>] = None
  <2>1. s = <<a>> \o <<>>
    BY <1>3 DEF DeleteFriendInvite, a
  <2>2. s = <<a>>
    BY <1>2, <2>1, Joined
  <2>. HIDE DEF s
  <2>3. s \in Seq(Writing) /\ s # <<>> /\ Head(s) = a /\ Len(s) = 1 /\ Writings(s) = {a}
    BY <1>2, <2>2, Few
  <2>. QED
    BY <1>3, <2>2, <2>3 DEF a, b, e, s
<1>4. CASE redis[<<"invite", i>>] # None
  <2>1. s = <<a>> \o <<b, e>>
    BY <1>4 DEF DeleteFriendInvite, a, b, e
  <2>2. s = <<a, b, e>>
    BY <1>2, <2>1, Joined
  <2>. HIDE DEF s
  <2>3. s \in Seq(Writing) /\ s # <<>> /\ Head(s) = a /\ Len(s) = 3 /\ Writings(s) = {a, b, e}
    BY <1>2, <2>2, Triple
  <2>. QED
    BY <1>4, <2>2, <2>3 DEF a, b, e, s
<1>. QED
  BY <1>3, <1>4

LEMMA SavesAre ==
    ASSUME TypeOK, NEW i \in FriendOffers
    PROVE  LET a == Set(<<"invite", i>>, "pending")
               b == Set(<<"pending", To(i)>>, i)
               e == Set(<<"outgoing", From(i)>>, i) IN
           /\ SaveFriendInvite(i) \in Seq(Writing) /\ Writings(SaveFriendInvite(i)) = {a, b, e}
           /\ SaveFriendInvite(i) = <<a, b, e>> /\ Head(SaveFriendInvite(i)) = a
<1>1. /\ <<"invite", i>> \in Keys /\ <<"pending", To(i)>> \in Keys
      /\ <<"outgoing", From(i)>> \in Keys /\ "pending" \in Value /\ i \in Value
  <2>1. i \in Nat /\ i \in 1 .. MaxId /\ i \in DOMAIN offers
    BY OfferTypes, MaxIdIsFour DEF FriendOffers
  <2>. QED
    BY <2>1, OfferTypes, KeyTypes DEF Value
<1>. DEFINE a == Set(<<"invite", i>>, "pending")
            b == Set(<<"pending", To(i)>>, i)
            e == Set(<<"outgoing", From(i)>>, i)
<1>2. a \in Writing /\ b \in Writing /\ e \in Writing
  BY <1>1, SetType
<1>3. SaveFriendInvite(i) = <<a, b, e>>
  BY DEF SaveFriendInvite
<1>. HIDE DEF a, b, e
<1>4. /\ <<a, b, e>> \in Seq(Writing) /\ Writings(<<a, b, e>>) = {a, b, e}
      /\ Head(<<a, b, e>>) = a
  BY <1>2, Triple
<1>. QED
  BY <1>3, <1>4 DEF a, b, e

LEMMA SavedStateIs ==
    ASSUME NEW m \in 1 .. MaxId, NEW status \in {"live", "over"}, NEW u \in Users, NEW v \in Users
    PROVE  LET n == IF status = "over" THEN None ELSE m
               a == Set(<<"session", m>>, status)
               b == Set(<<"active", u>>, n)
               e == Set(<<"active", v>>, n)
               s == SaveState(m, status, <<u, v>>) IN
           /\ s \in Seq(Writing) /\ Writings(s) = {a, b, e}
           /\ s = <<a, b, e>> /\ Head(s) = a /\ Len(s) = 3
<1>. DEFINE n == IF status = "over" THEN None ELSE m
            a == Set(<<"session", m>>, status)
            b == Set(<<"active", u>>, n)
            e == Set(<<"active", v>>, n)
<1>1. /\ <<"session", m>> \in Keys /\ <<"active", u>> \in Keys
      /\ <<"active", v>> \in Keys /\ status \in Value /\ n \in Value
  <2>1. m \in Nat
    BY MaxIdIsFour
  <2>. QED
    BY <2>1, KeyTypes DEF Value
<1>3. SaveState(m, status, <<u, v>>) = <<a, b, e>>
  BY DEF SaveState
<1>. HIDE DEF n
<1>2. a \in Writing /\ b \in Writing /\ e \in Writing
  BY <1>1, SetType
<1>. HIDE DEF a, b, e
<1>4. /\ <<a, b, e>> \in Seq(Writing) /\ Writings(<<a, b, e>>) = {a, b, e}
      /\ Head(<<a, b, e>>) = a /\ Len(<<a, b, e>>) = 3
  BY <1>2, Triple
<1>. QED
  BY <1>3, <1>4 DEF a, b, e, n

LEMMA RematchDeletesAre ==
    ASSUME TypeOK, NEW m \in DOMAIN matches
    PROVE  LET r == redis[<<"rematch", m>>]
               s == DeleteRematchRequest(m) IN
           /\ s \in Seq(Writing) /\ s # <<>> /\ Head(s) = Del(<<"rematch", m>>) /\ Len(s) \in {1, 2}
           /\ r # None => r \in RematchOffers
           /\ Writings(s) = {Del(<<"rematch", m>>)}
                            \cup (IF r = None THEN {} ELSE {Del(<<"rematchPending", To(r)>>)})
<1>. DEFINE r == redis[<<"rematch", m>>]
            a == Del(<<"rematch", m>>)
            b == Del(<<"rematchPending", To(r)>>)
            s == DeleteRematchRequest(m)
<1>1. <<"rematch", m>> \in Keys
  BY OfferTypes, KeyTypes
<1>2. Fits(<<"rematch", m>>, r)
  BY <1>1 DEF TypeOK, StoreOK
<1>3. r # None => r \in RematchOffers
  BY <1>2 DEF Fits
<1>4. a \in Writing
  BY <1>1, SetType DEF Value
<1>5. r # None => b \in Writing
  <2>. SUFFICES ASSUME r # None PROVE b \in Writing
    OBVIOUS
  <2>1. To(r) \in Users
    BY <1>3, OfferTypes DEF RematchOffers
  <2>. QED
    BY <2>1, KeyTypes, SetType DEF Value
<1>6. s = <<a>> \o (IF r = None THEN <<>> ELSE <<b>>)
  BY DEF DeleteRematchRequest
<1>. HIDE DEF a, b, r, s
<1>7. CASE r = None
  <2>1. s = <<a>>
    BY <1>4, <1>6, <1>7
  <2>2. s \in Seq(Writing) /\ s # <<>> /\ Head(s) = a /\ Len(s) = 1 /\ Writings(s) = {a}
    BY <1>4, <2>1, Few
  <2>. QED
    BY <1>3, <1>7, <2>2 DEF a, b, r, s
<1>8. CASE r # None
  <2>0. s = <<a>> \o <<b>>
    BY <1>6, <1>8
  <2>1. s = <<a, b>>
    BY <1>4, <1>5, <1>8, <2>0, Joined
  <2>2. /\ <<a, b>> \in Seq(Writing) /\ <<a, b>> # <<>> /\ Head(<<a, b>>) = a
        /\ Len(<<a, b>>) = 2 /\ Writings(<<a, b>>) = {a, b}
    BY <1>4, <1>5, <1>8, Few
  <2>3. s \in Seq(Writing) /\ s # <<>> /\ Head(s) = a /\ Len(s) = 2 /\ Writings(s) = {a, b}
    BY <2>1, <2>2
  <2>. QED
    BY <1>3, <1>8, <2>3 DEF a, b, r, s
<1>. QED
  BY <1>7, <1>8

------------------------------------------------------------------------------
(* Every step of a call is in the table *)

LEMMA CallTypes ==
    ASSUME TypeOK, NEW c \in calls
    PROVE  /\ c \in Job /\ c.id \in Nat /\ c.got \in Nat \cup {None} /\ c.todo \in Seq(Writing)
           /\ c.at \in Stages /\ c.op \in Ops /\ c.by \in Users \cup {None}
           /\ IdFits(c) /\ <<>> \in Seq(Writing)
           /\ \A w \in Writings(c.todo) : Fits(w.key, w.value)
BY DEF TypeOK, CallsOK, Job

LEMMA PointerTypes ==
    ASSUME TypeOK, NEW side \in Sides, NEW u \in Users
    PROVE  /\ <<side, u>> \in Keys
           /\ redis[<<side, u>>] \in FriendOffers \cup {None}
           /\ redis[<<side, u>>] \in Nat \cup {None}
           /\ Del(<<side, u>>) \in Writing
<1>1. <<side, u>> \in Keys
  BY KeyTypes DEF Sides
<1>2. Fits(<<side, u>>, redis[<<side, u>>])
  BY <1>1 DEF TypeOK, StoreOK
<1>3. redis[<<side, u>>] \in FriendOffers \cup {None}
  BY <1>2 DEF Fits, Sides
<1>4. FriendOffers \subseteq Nat
  BY OfferTypes, MaxIdIsFour
<1>5. Del(<<side, u>>) \in Writing
  BY <1>1, SetType DEF Value
<1>. QED
  BY <1>1, <1>3, <1>4, <1>5

LEMMA LookupTable ==
    ASSUME TypeOK, NEW c \in calls, c.op \in {"create", "look"},
           NEW side \in Sides, NEW u \in Users, NEW found, NEW none,
           found \in {"refused", "second", "answered"},
           none \in {"outgoing", "save", "second", "answered"},
           Lookup(c, side, u, found, none)
    PROVE  LookupStep(c, side, u, found, none)
<1>. DEFINE Mixing(d) == IF Deleting(d) /\ ~Deleting(c)
                         THEN MixedWith(calls \ {c}, Parties(c.got)) ELSE {}
<1>. SUFFICES /\ \E d : /\ Goes(c, d) /\ LooksUp(c, d, side, u, found, none)
                        /\ mixed' = mixed \cup Mixing(d)
              /\ UNCHANGED <<redis, made, expired, raced, blurred>>
  BY DEF LookupStep
<1>0. /\ c \in Job /\ c.todo \in Seq(Writing) /\ <<>> \in Seq(Writing) /\ c.id \in Nat
      /\ c.got \in FriendOffers \cup {None} /\ c.got \in Nat \cup {None} /\ None \in Nat \cup {None}
  BY CallTypes DEF IdFits
<1>s. /\ Follow[side] \in {"follow pending", "follow outgoing"}
      /\ Overdue[side] \in {"expire pending", "expire outgoing"}
      /\ Gone[side] \in {"expired pending", "expired outgoing"}
      /\ found \in Stages /\ none \in Stages
  BY StageNames DEF Sides, Stages
<1>d. \A e : Deleting(e) <=> e.at \in {"expire pending", "expire outgoing",
                                       "expired pending", "expired outgoing"}
  BY StageNames DEF Deleting
<1>1. CASE FindPointer(c, side, u, none)
  <2>. DEFINE i == redis[<<side, u>>]
              d1 == [c EXCEPT !.at = none]
              d2 == [c EXCEPT !.at = Follow[side], !.got = i]
  <2>1. /\ c.todo = <<>> /\ c.at = side /\ Become(c, IF i = None THEN d1 ELSE d2)
        /\ UNCHANGED <<redis, made, expired, raced, blurred, mixed>>
    BY <1>1 DEF FindPointer, server, ghosts
  <2>2. i \in Nat \cup {None}
    BY PointerTypes
  <2>3. Follow[side] \in Stages
    BY <1>s DEF Stages
  <2>4. Is(d1, c, none, c.id, c.got, c.todo) /\ Is(d2, c, Follow[side], c.id, i, c.todo)
    BY <1>0, <1>s, <2>2, <2>3, Edits
  <2>. HIDE DEF d1, d2
  <2>5. CASE i = None
    <3>1. Goes(c, d1) /\ LooksUp(c, d1, side, u, found, none)
      BY <2>1, <2>4, <2>5 DEF Goes, Become, LooksUp, Turns, Is
    <3>2. ~Deleting(d1)
      BY <1>d, <2>4 DEF Is
    <3>. QED
      BY <2>1, <3>1, <3>2
  <2>6. CASE i # None
    <3>1. Goes(c, d2) /\ LooksUp(c, d2, side, u, found, none)
      BY <2>1, <2>4, <2>6 DEF Goes, Become, LooksUp, Turns, Is
    <3>2. ~Deleting(d2)
      BY <1>d, <1>s, <2>4 DEF Is
    <3>. QED
      BY <2>1, <3>1, <3>2
  <2>. QED
    BY <2>5, <2>6
<1>2. CASE FollowPointer(c, side, u, found, none)
  <2>. DEFINE there == There(c, side, u)
              d1 == [c EXCEPT !.at = none, !.got = None, !.todo = <<Del(<<side, u>>)>>]
              d2 == [c EXCEPT !.at = Overdue[side]]
              d3 == [c EXCEPT !.at = found]
  <2>1. /\ c.todo = <<>> /\ c.at = Follow[side]
        /\ Become(c, IF ~there THEN d1 ELSE IF c.got \in expired THEN d2 ELSE d3)
        /\ mixed' = mixed \cup (IF there /\ c.got \in expired
                                THEN MixedWith(calls \ {c}, Parties(c.got)) ELSE {})
        /\ UNCHANGED <<redis, made, expired, raced, blurred>>
    BY <1>2 DEF FollowPointer, There
  <2>2. <<Del(<<side, u>>)>> \in Seq(Writing)
    BY PointerTypes, Few
  <2>3. Overdue[side] \in Stages
    BY <1>s DEF Stages
  <2>4. /\ Is(d1, c, none, c.id, None, <<Del(<<side, u>>)>>)
        /\ Is(d2, c, Overdue[side], c.id, c.got, c.todo) /\ Is(d3, c, found, c.id, c.got, c.todo)
    BY <1>0, <1>s, <2>2, <2>3, Edits
  <2>. HIDE DEF d1, d2, d3, there
  <2>0. ~Deleting(c)
    BY <1>d, <1>s, <2>1
  <2>5. CASE ~there
    <3>1. Goes(c, d1)
      BY <2>1, <2>4, <2>5 DEF Goes, Become, Is
    <3>2. LooksUp(c, d1, side, u, found, none)
      BY <2>1, <2>4, <2>5 DEF LooksUp, Is, there
    <3>3. ~Deleting(d1)
      BY <1>d, <2>4 DEF Is
    <3>. QED
      BY <2>1, <2>5, <3>1, <3>2, <3>3
  <2>6. CASE there /\ c.got \in expired
    <3>1. Goes(c, d2)
      BY <2>1, <2>4, <2>6 DEF Goes, Become, Is
    <3>2. LooksUp(c, d2, side, u, found, none)
      BY <2>1, <2>4, <2>6 DEF LooksUp, Turns, Is, there
    <3>3. Deleting(d2)
      BY <1>d, <1>s, <2>4 DEF Is
    <3>. QED
      BY <2>0, <2>1, <2>6, <3>1, <3>2, <3>3
  <2>7. CASE there /\ c.got \notin expired
    <3>1. Goes(c, d3)
      BY <2>1, <2>4, <2>7 DEF Goes, Become, Is
    <3>2. LooksUp(c, d3, side, u, found, none)
      BY <2>1, <2>4, <2>7 DEF LooksUp, Turns, Is, there
    <3>3. ~Deleting(d3)
      BY <1>d, <2>4 DEF Is
    <3>. QED
      BY <2>1, <2>7, <3>1, <3>2, <3>3
  <2>. QED
    BY <2>5, <2>6, <2>7
<1>3. CASE ExpireFriendInvite(c, side, c.got)
  <2>. DEFINE s == DeleteFriendInvite(c.got)
              d1 == [c EXCEPT !.at = Gone[side], !.todo = s]
  <2>1. /\ c.todo = <<>> /\ c.at = Overdue[side] /\ Become(c, d1)
        /\ UNCHANGED <<redis, made, expired, raced, blurred, mixed>>
    BY <1>3 DEF ExpireFriendInvite, Do, server, ghosts
  <2>2. c.got \in FriendOffers
    BY <2>1, CallTypes DEF IdFits, Sides
  <2>3. s \in Seq(Writing)
    BY <2>2, DeletesAre
  <2>. HIDE DEF s
  <2>4. Gone[side] \in Stages
    BY <1>s DEF Stages
  <2>5. Is(d1, c, Gone[side], c.id, c.got, s)
    BY <1>0, <1>s, <2>3, <2>4, Edits
  <2>. HIDE DEF d1
  <2>6. Goes(c, d1)
    BY <2>1, <2>5 DEF Goes, Become, Is
  <2>7. LooksUp(c, d1, side, u, found, none)
    BY <2>1, <2>5 DEF LooksUp, Is, s
  <2>8. Deleting(c)
    BY <1>d, <1>s, <2>1
  <2>. QED
    BY <2>1, <2>6, <2>7, <2>8
<1>4. CASE ExpiryTold(c, side, c.got, none)
  <2>. DEFINE d1 == [c EXCEPT !.at = none, !.got = None]
  <2>1. /\ c.todo = <<>> /\ c.at = Gone[side] /\ Become(c, d1)
        /\ UNCHANGED <<redis, made, expired, raced, blurred, mixed>>
    BY <1>4 DEF ExpiryTold, server, ghosts
  <2>2. Is(d1, c, none, c.id, None, c.todo)
    BY <1>0, <1>s, Edits
  <2>. HIDE DEF d1
  <2>3. Goes(c, d1)
    BY <2>1, <2>2 DEF Goes, Become, Is
  <2>4. LooksUp(c, d1, side, u, found, none)
    BY <2>1, <2>2 DEF LooksUp, Is
  <2>5. ~Deleting(d1)
    BY <1>d, <2>2 DEF Is
  <2>. QED
    BY <2>1, <2>3, <2>4, <2>5
<1>. QED
  BY <1>1, <1>2, <1>3, <1>4 DEF Lookup

LEMMA TurnIt ==
    ASSUME TypeOK, NEW c \in calls, c.todo = <<>>, NEW to, to \in Stages, Goto(c, to)
    PROVE  \E d : Goes(c, d) /\ Turns(c, d, c.at, to)
<1>. DEFINE d == [c EXCEPT !.at = to]
<1>1. Is(d, c, to, c.id, c.got, c.todo) /\ Become(c, d)
  BY CallTypes, Edits DEF Goto
<1>. HIDE DEF d
<1>. QED
  BY <1>1 DEF Goes, Turns, Is, Become

LEMMA DoIt ==
    ASSUME TypeOK, NEW c \in calls, c.todo = <<>>, NEW to, to \in Stages,
           NEW s \in Seq(Writing), Do(c, s, to)
    PROVE  \E d : Goes(c, d) /\ d.at = to /\ d.id = c.id /\ d.got = c.got /\ d.todo = s
<1>. DEFINE d == [c EXCEPT !.at = to, !.todo = s]
<1>1. Is(d, c, to, c.id, c.got, s) /\ Become(c, d)
  BY CallTypes, Edits DEF Do
<1>. HIDE DEF d
<1>. QED
  BY <1>1 DEF Goes, Is, Become

LEMMA FinishIt ==
    ASSUME NEW c \in calls, c.todo = <<>>, Finish(c)
    PROVE  Leaves(c)
BY DEF Finish, Leaves

LEMMA ReplyIt ==
    ASSUME TypeOK, NEW c \in calls, c.todo = <<>>, NEW to, to \in Stages, Reply(c, to)
    PROVE  \/ c.by = Me /\ \E d : Goes(c, d) /\ Turns(c, d, c.at, to)
           \/ c.by # Me /\ Leaves(c)
<1>1. CASE c.by = Me
  BY <1>1, TurnIt DEF Reply
<1>2. CASE c.by # Me
  BY <1>2, FinishIt DEF Reply
<1>. QED
  BY <1>1, <1>2

\* Only a call that looks a pointer up can come to mix users.
LEMMA DeletingStages ==
    \A e : Deleting(e) <=> e.at \in {"expire pending", "expire outgoing",
                                     "expired pending", "expired outgoing"}
BY StageNames DEF Deleting

LEMMA CreateTable ==
    ASSUME TypeOK, NEW c \in calls, c.op = "create",
           \/ FriendshipChecked(c) \/ CreateLooks(c) \/ CreateRefused(c)
           \/ CreateFriendInvite(c) \/ InviteTold(c) \/ Failed(c) \/ HandleLocalSent(c)
    PROVE  EndOfCall(c) \/ \E d : InviteStep(c, d)
<1>0. /\ c.id \in FriendOffers /\ c.by = From(c.id) /\ From(c.id) \in Users /\ To(c.id) \in Users
      /\ c.op \in {"create", "look"}
  BY CallTypes, OfferTypes DEF IdFits, FriendOffers
<1>1. CASE FriendshipChecked(c)
  <2>1. /\ c.at = "begin" /\ c.todo = <<>> /\ (Goto(c, "pending") \/ Reply(c, "failed"))
        /\ UNCHANGED <<redis, made, expired, raced, blurred, mixed>>
    BY <1>1 DEF FriendshipChecked, At, server, ghosts
  <2>2. CASE Goto(c, "pending")
    <3>1. \E d : Goes(c, d) /\ Turns(c, d, "begin", "pending")
      BY <2>1, <2>2, TurnIt DEF Stages
    <3>. QED
      BY <2>1, <3>1, DeletingStages DEF InviteStep, Creates, Turns
  <2>3. CASE Reply(c, "failed")
    <3>1. (\E d : Goes(c, d) /\ Turns(c, d, "begin", "failed")) \/ Leaves(c)
      BY <2>1, <2>3, ReplyIt DEF Stages
    <3>. QED
      BY <2>1, <3>1, DeletingStages DEF InviteStep, Creates, Turns, EndOfCall
  <2>. QED
    BY <2>1, <2>2, <2>3
<1>2. CASE CreateLooks(c)
  <2>0. /\ "pending" \in Sides /\ "outgoing" \in Sides
        /\ "refused" \in {"refused", "second", "answered"}
        /\ "outgoing" \in {"outgoing", "save", "second", "answered"}
        /\ "save" \in {"outgoing", "save", "second", "answered"}
    BY DEF Sides
  <2>1. CASE Lookup(c, "pending", To(c.id), "refused", AfterPending)
    <3>1. LookupStep(c, "pending", To(c.id), "refused", "outgoing")
      BY <1>0, <2>0, <2>1, LookupTable DEF AfterPending
    <3>. QED
      BY <3>1 DEF InviteStep, Creates, LookupStep
  <2>2. CASE Lookup(c, "outgoing", From(c.id), "refused", "save")
    <3>1. LookupStep(c, "outgoing", From(c.id), "refused", "save")
      BY <1>0, <2>0, <2>2, LookupTable
    <3>. QED
      BY <3>1 DEF InviteStep, Creates, LookupStep
  <2>. QED
    BY <1>2, <2>1, <2>2 DEF CreateLooks
<1>3. CASE CreateRefused(c)
  <2>1. /\ c.at = "refused" /\ c.todo = <<>> /\ Reply(c, "failed")
        /\ UNCHANGED <<redis, made, expired, raced, blurred, mixed>>
    BY <1>3 DEF CreateRefused, At, server, ghosts
  <2>2. (\E d : Goes(c, d) /\ Turns(c, d, "refused", "failed")) \/ Leaves(c)
    BY <2>1, ReplyIt DEF Stages
  <2>. QED
    BY <2>1, <2>2, DeletingStages DEF InviteStep, Creates, Turns, EndOfCall
<1>4. CASE CreateFriendInvite(c)
  <2>1. /\ c.at = "save" /\ c.todo = <<>> /\ Do(c, SaveFriendInvite(c.id), "told")
        /\ UNCHANGED <<redis, made, expired, raced, blurred, mixed>>
    BY <1>4 DEF CreateFriendInvite, At, server, ghosts
  <2>2. SaveFriendInvite(c.id) \in Seq(Writing) /\ "told" \in Stages
    BY <1>0, SavesAre DEF Stages
  <2>3. \E d : Goes(c, d) /\ d.at = "told" /\ d.id = c.id /\ d.got = c.got
               /\ d.todo = SaveFriendInvite(c.id)
    BY <2>1, <2>2, DoIt
  <2>. QED
    BY <1>0, <2>1, <2>3, DeletingStages DEF InviteStep, Creates
<1>5. CASE InviteTold(c)
  <2>1. /\ c.at = "told" /\ c.todo = <<>> /\ Reply(c, "created")
        /\ UNCHANGED <<redis, made, expired, raced, blurred, mixed>>
    BY <1>5 DEF InviteTold, At, server, ghosts
  <2>2. (c.by = Me /\ \E d : Goes(c, d) /\ Turns(c, d, "told", "created")) \/ Leaves(c)
    BY <2>1, ReplyIt DEF Stages
  <2>. QED
    BY <2>1, <2>2, DeletingStages DEF InviteStep, Creates, Turns, EndOfCall
<1>6. CASE Failed(c)
  BY <1>6, FinishIt DEF Failed, EndOfCall, server, ghosts
<1>7. CASE HandleLocalSent(c)
  BY <1>7, FinishIt DEF HandleLocalSent, At, EndOfCall, server, ghosts
<1>. QED
  BY <1>1, <1>2, <1>3, <1>4, <1>5, <1>6, <1>7

LEMMA AcceptTable ==
    ASSUME TypeOK, NEW c \in calls, c.op = "accept",
           \/ AcceptFriendInvite(c) \/ AcceptTooLate(c) \/ AcceptDeletes(c) \/ MatchReady(c)
           \/ Failed(c) \/ InviteAnswered(c)
    PROVE  EndOfCall(c) \/ \E d : InviteStep(c, d)
<1>0. c.id \in FriendOffers
  BY CallTypes DEF IdFits
<1>1. CASE AcceptFriendInvite(c)
  <2>1. /\ c.at = "begin" /\ c.todo = <<>> /\ LockFree(c)
        /\ IF redis[<<"invite", c.id>>] = None THEN Reply(c, "failed")
           ELSE Goto(c, IF c.id \in expired THEN Overdue.accept ELSE "delete")
        /\ UNCHANGED <<redis, made, expired, raced, blurred, mixed>>
    BY <1>1 DEF AcceptFriendInvite, At, server, ghosts
  <2>2. CASE redis[<<"invite", c.id>>] = None
    <3>1. (\E d : Goes(c, d) /\ Turns(c, d, "begin", "failed")) \/ Leaves(c)
      BY <2>1, <2>2, ReplyIt DEF Stages
    <3>. QED
      BY <2>1, <3>1, DeletingStages DEF InviteStep, Accepts, Turns, EndOfCall
  <2>3. CASE redis[<<"invite", c.id>>] # None /\ c.id \in expired
    <3>1. Goto(c, Overdue.accept) /\ Overdue.accept \in Stages
      BY <2>1, <2>3, StageNames DEF Stages
    <3>2. \E d : Goes(c, d) /\ Turns(c, d, "begin", Overdue.accept)
      BY <2>1, <3>1, TurnIt
    <3>. QED
      BY <2>1, <2>3, <3>2, DeletingStages, StageNames DEF InviteStep, Accepts, Turns
  <2>4. CASE redis[<<"invite", c.id>>] # None /\ c.id \notin expired
    <3>1. \E d : Goes(c, d) /\ Turns(c, d, "begin", "delete")
      BY <2>1, <2>4, TurnIt DEF Stages
    <3>. QED
      BY <2>1, <2>4, <3>1, DeletingStages DEF InviteStep, Accepts, Turns
  <2>. QED
    BY <2>2, <2>3, <2>4
<1>2. CASE ExpireFriendInvite(c, "accept", c.id)
  <2>1. /\ c.at = Overdue.accept /\ c.todo = <<>>
        /\ Do(c, DeleteFriendInvite(c.id), Gone.accept)
        /\ UNCHANGED <<redis, made, expired, raced, blurred, mixed>>
    BY <1>2 DEF ExpireFriendInvite, server, ghosts
  <2>2. DeleteFriendInvite(c.id) \in Seq(Writing) /\ Gone.accept \in Stages
    BY <1>0, DeletesAre, StageNames DEF Stages
  <2>3. \E d : Goes(c, d) /\ d.at = Gone.accept /\ d.id = c.id /\ d.got = c.got
               /\ d.todo = DeleteFriendInvite(c.id)
    BY <2>1, <2>2, DoIt
  <2>. QED
    BY <2>1, <2>3, DeletingStages, StageNames DEF InviteStep, Accepts
<1>3. CASE ExpiryTold(c, "accept", c.id, "failed")
  <2>. DEFINE d == [c EXCEPT !.at = "failed", !.got = None]
  <2>1. /\ c.at = Gone.accept /\ c.todo = <<>> /\ Become(c, d)
        /\ UNCHANGED <<redis, made, expired, raced, blurred, mixed>>
    BY <1>3 DEF ExpiryTold, server, ghosts
  <2>2. Is(d, c, "failed", c.id, None, c.todo)
    BY CallTypes, Edits DEF Stages
  <2>. HIDE DEF d
  <2>3. Goes(c, d) /\ d.at = "failed" /\ d.id = c.id /\ d.got = None /\ d.todo = <<>>
    BY <2>1, <2>2 DEF Goes, Become, Is
  <2>. QED
    BY <2>1, <2>3, DeletingStages DEF InviteStep, Accepts
<1>4. CASE AcceptDeletes(c)
  <2>1. /\ c.at = "delete" /\ c.todo = <<>>
        /\ Do(c, DeleteFriendInvite(c.id), "create")
        /\ UNCHANGED <<redis, made, expired, raced, blurred, mixed>>
    BY <1>4 DEF AcceptDeletes, At, server, ghosts
  <2>2. DeleteFriendInvite(c.id) \in Seq(Writing) /\ "create" \in Stages
    BY <1>0, DeletesAre DEF Stages
  <2>3. \E d : Goes(c, d) /\ d.at = "create" /\ d.id = c.id /\ d.got = c.got
               /\ d.todo = DeleteFriendInvite(c.id)
    BY <2>1, <2>2, DoIt
  <2>. QED
    BY <2>1, <2>3, DeletingStages DEF InviteStep, Accepts
<1>5. CASE MatchReady(c)
  <2>1. /\ c.at = "announce" /\ c.todo = <<>> /\ Reply(c, "ready")
        /\ UNCHANGED <<redis, made, expired, raced, blurred, mixed>>
    BY <1>5 DEF MatchReady, server, ghosts
  <2>2. (c.by = Me /\ \E d : Goes(c, d) /\ Turns(c, d, "announce", "ready")) \/ Leaves(c)
    BY <2>1, ReplyIt DEF Stages
  <2>. QED
    BY <2>1, <2>2, DeletingStages DEF InviteStep, Accepts, Turns, EndOfCall
<1>6. CASE Failed(c)
  BY <1>6, FinishIt DEF Failed, EndOfCall, server, ghosts
<1>7. CASE InviteAnswered(c)
  BY <1>7, FinishIt DEF InviteAnswered, EndOfCall, server, ghosts
<1>. QED
  BY <1>1, <1>2, <1>3, <1>4, <1>5, <1>6, <1>7 DEF AcceptTooLate

LEMMA DeclineTable ==
    ASSUME TypeOK, NEW c \in calls, c.op = "decline",
           DeclineFriendInvite(c) \/ DeclineDeletes(c) \/ DeclineTold(c) \/ InviteAnswered(c)
    PROVE  EndOfCall(c) \/ \E d : InviteStep(c, d)
<1>0. c.id \in FriendOffers
  BY CallTypes DEF IdFits
<1>1. CASE DeclineFriendInvite(c)
  <2>1. /\ c.at = "begin" /\ c.todo = <<>>
        /\ IF redis[<<"invite", c.id>>] = None THEN Reply(c, "done") ELSE Goto(c, "delete")
        /\ UNCHANGED <<redis, made, expired, raced, blurred, mixed>>
    BY <1>1 DEF DeclineFriendInvite, At, server, ghosts
  <2>2. CASE redis[<<"invite", c.id>>] = None
    <3>1. (c.by = Me /\ \E d : Goes(c, d) /\ Turns(c, d, "begin", "done")) \/ Leaves(c)
      BY <2>1, <2>2, ReplyIt DEF Stages
    <3>. QED
      BY <2>1, <2>2, <3>1, DeletingStages DEF InviteStep, Declines, Turns, EndOfCall
  <2>3. CASE redis[<<"invite", c.id>>] # None
    <3>1. \E d : Goes(c, d) /\ Turns(c, d, "begin", "delete")
      BY <2>1, <2>3, TurnIt DEF Stages
    <3>. QED
      BY <2>1, <3>1, DeletingStages DEF InviteStep, Declines, Turns
  <2>. QED
    BY <2>2, <2>3
<1>2. CASE DeclineDeletes(c)
  <2>1. /\ c.at = "delete" /\ c.todo = <<>>
        /\ Do(c, DeleteFriendInvite(c.id), "told")
        /\ UNCHANGED <<redis, made, expired, raced, blurred, mixed>>
    BY <1>2 DEF DeclineDeletes, At, server, ghosts
  <2>2. DeleteFriendInvite(c.id) \in Seq(Writing) /\ "told" \in Stages
    BY <1>0, DeletesAre DEF Stages
  <2>3. \E d : Goes(c, d) /\ d.at = "told" /\ d.id = c.id /\ d.got = c.got
               /\ d.todo = DeleteFriendInvite(c.id)
    BY <2>1, <2>2, DoIt
  <2>. QED
    BY <2>1, <2>3, DeletingStages DEF InviteStep, Declines
<1>3. CASE DeclineTold(c)
  <2>1. /\ c.at = "told" /\ c.todo = <<>> /\ Reply(c, "done")
        /\ UNCHANGED <<redis, made, expired, raced, blurred, mixed>>
    BY <1>3 DEF DeclineTold, At, server, ghosts
  <2>2. (c.by = Me /\ \E d : Goes(c, d) /\ Turns(c, d, "told", "done")) \/ Leaves(c)
    BY <2>1, ReplyIt DEF Stages
  <2>. QED
    BY <2>1, <2>2, DeletingStages DEF InviteStep, Declines, Turns, EndOfCall
<1>4. CASE InviteAnswered(c)
  BY <1>4, FinishIt DEF InviteAnswered, EndOfCall, server, ghosts
<1>. QED
  BY <1>1, <1>2, <1>3, <1>4

LEMMA LookTable ==
    ASSUME TypeOK, NEW c \in calls, c.op = "look", LookAtInvites(c) \/ InvitesLoaded(c)
    PROVE  EndOfCall(c) \/ \E d : InviteStep(c, d)
<1>0. /\ Me \in Users /\ c.got \in FriendOffers \cup {None} /\ FriendOffers \subseteq Nat
      /\ "pending" \in Sides /\ "outgoing" \in Sides
  <2>1. IdFits(c) /\ Me \in Users
    BY CallTypes, LobbyAssumption
  <2>2. c.got \in FriendOffers \cup {None}
    BY <2>1 DEF IdFits
  <2>3. FriendOffers \subseteq Nat
    BY OfferTypes, MaxIdIsFour
  <2>. QED
    BY <2>1, <2>2, <2>3 DEF Sides
<1>1. CASE At(c, "look", "begin") /\ Goto(c, "pending") /\ UNCHANGED <<server, client>>
  <2>1. /\ c.at = "begin" /\ c.todo = <<>> /\ Goto(c, "pending")
        /\ UNCHANGED <<redis, made, expired, raced, blurred, mixed>>
    BY <1>1 DEF At, server, ghosts
  <2>2. \E d : Goes(c, d) /\ Turns(c, d, "begin", "pending")
    BY <2>1, TurnIt DEF Stages
  <2>. QED
    BY <2>1, <2>2, DeletingStages DEF InviteStep, Looks, Turns
<1>2. CASE Lookup(c, "pending", Me, "second", "second")
  <2>1. LookupStep(c, "pending", Me, "second", "second")
    BY <1>0, <1>2, LookupTable
  <2>. QED
    BY <2>1 DEF InviteStep, Looks, LookupStep
<1>3. CASE /\ At(c, "look", "second")
           /\ Become(c, [c EXCEPT !.at = "outgoing", !.got = None,
                                  !.id = IF c.got = None THEN 0 ELSE c.got])
           /\ UNCHANGED <<server, client>>
  <2>. DEFINE i == IF c.got = None THEN 0 ELSE c.got
              d == [c EXCEPT !.at = "outgoing", !.got = None, !.id = i]
  <2>1. /\ c.at = "second" /\ c.todo = <<>> /\ Become(c, d)
        /\ UNCHANGED <<redis, made, expired, raced, blurred, mixed>>
    BY <1>3 DEF At, server, ghosts
  <2>2. i \in Nat /\ "outgoing" \in Stages
    BY <1>0 DEF Stages
  <2>. HIDE DEF i
  <2>3. Is(d, c, "outgoing", i, None, c.todo)
    BY <2>2, CallTypes, Edits
  <2>. HIDE DEF d
  <2>4. Goes(c, d) /\ d.at = "outgoing" /\ d.id = i /\ d.got = None /\ d.todo = <<>>
    BY <2>1, <2>3 DEF Goes, Become, Is
  <2>. QED
    BY <2>1, <2>4, DeletingStages DEF InviteStep, Looks, i
<1>4. CASE Lookup(c, "outgoing", Me, "answered", "answered")
  <2>1. LookupStep(c, "outgoing", Me, "answered", "answered")
    BY <1>0, <1>4, LookupTable
  <2>. QED
    BY <2>1 DEF InviteStep, Looks, LookupStep
<1>5. CASE InvitesLoaded(c)
  BY <1>5, FinishIt DEF InvitesLoaded, At, EndOfCall, server, ghosts
<1>. QED
  BY <1>1, <1>2, <1>3, <1>4, <1>5 DEF LookAtInvites

LEMMA SeatTypes ==
    ASSUME TypeOK, NEW c \in calls, c.op \in {"accept", "acceptRematch"}
    PROVE  /\ Seats(c)[1] \in Users /\ Seats(c)[2] \in Users
           /\ Seats(c) = <<Seats(c)[1], Seats(c)[2]>>
           /\ c.id \in DOMAIN offers
           /\ c.op = "accept" => {Seats(c)[1], Seats(c)[2]} = Parties(c.id)
<1>1. /\ c.id \in DOMAIN offers /\ From(c.id) \in Users /\ To(c.id) \in Users
      /\ (c.op = "acceptRematch" => c.by \in Users)
  BY CallTypes, OfferTypes DEF IdFits, FriendOffers, RematchOffers
<1>2. CASE c.op = "accept"
  BY <1>1, <1>2 DEF Seats, Parties
<1>3. CASE c.op = "acceptRematch"
  BY <1>1, <1>3 DEF Seats
<1>. QED
  BY <1>1, <1>2, <1>3

LEMMA SessionTable ==
    ASSUME TypeOK, NEW c \in calls, CreateSession(c)
    PROVE  \E d : MakesMatch(c, d)
<1>. DEFINE m == Len(matches) + 1
            s == SaveState(m, "live", Seats(c))
            d == [c EXCEPT !.at = "announce", !.got = m, !.todo = s]
<1>1. /\ c.op \in {"accept", "acceptRematch"} /\ c.at = "create" /\ c.todo = <<>>
      /\ Len(matches) < MaxId
      /\ matches' = Append(matches, NewMatch({Seats(c)[1], Seats(c)[2]}, c.id))
      /\ Become(c, d)
      /\ UNCHANGED <<redis, offers, expired, mixed, raced>>
  BY DEF CreateSession
<1>2. m \in 1 .. MaxId /\ m \in Nat
  BY <1>1, OfferTypes, MaxIdIsFour
<1>3. Seats(c)[1] \in Users /\ Seats(c)[2] \in Users /\ Seats(c) = <<Seats(c)[1], Seats(c)[2]>>
  BY <1>1, SeatTypes
<1>4. s \in Seq(Writing) /\ "announce" \in Stages
  <2>. DEFINE u == Seats(c)[1]
              v == Seats(c)[2]
  <2>1. u \in Users /\ v \in Users /\ s = SaveState(m, "live", <<u, v>>)
    BY <1>3
  <2>. HIDE DEF u, v, s, m
  <2>2. SaveState(m, "live", <<u, v>>) \in Seq(Writing)
    BY <1>2, <2>1, SavedStateIs
  <2>. QED
    BY <2>1, <2>2 DEF Stages
<1>. HIDE DEF s, m
<1>5. Is(d, c, "announce", c.id, m, s)
  BY <1>2, <1>4, CallTypes, Edits
<1>. HIDE DEF d
<1>6. Goes(c, d) /\ d.at = "announce" /\ d.id = c.id /\ d.got = m /\ d.todo = s
  BY <1>1, <1>5 DEF Goes, Become, Is
<1>. QED
  BY <1>1, <1>6 DEF MakesMatch, m, s

LEMMA RematchTable ==
    ASSUME TypeOK, NEW c \in calls, Rematches(c) \/ RematchLoaded(c)
    PROVE  EndOfCall(c) \/ \E d : RematchStep(c, d)
<1>0. /\ c \in Job /\ c.id \in Nat /\ c.got \in Nat \cup {None} /\ None \notin Nat
      /\ c.todo \in Seq(Writing)
  BY CallTypes, LobbyAssumption
<1>a. c.op \in {"acceptRematch", "declineRematch"} =>
        /\ c.id \in RematchOffers /\ offers[c.id].match \in DOMAIN matches
        /\ <<"rematch", offers[c.id].match>> \in Keys
        /\ redis[<<"rematch", offers[c.id].match>>] \in RematchOffers \cup {None}
        /\ redis[<<"rematch", offers[c.id].match>>] \in Nat \cup {None}
  <2>. SUFFICES ASSUME c.op \in {"acceptRematch", "declineRematch"}
       PROVE  /\ c.id \in RematchOffers /\ offers[c.id].match \in DOMAIN matches
              /\ <<"rematch", offers[c.id].match>> \in Keys
              /\ redis[<<"rematch", offers[c.id].match>>] \in RematchOffers \cup {None}
              /\ redis[<<"rematch", offers[c.id].match>>] \in Nat \cup {None}
    OBVIOUS
  <2>1. c.id \in RematchOffers
    BY CallTypes DEF IdFits
  <2>2. offers[c.id].match \in DOMAIN matches
    BY <2>1 DEF TypeOK, MadeOK
  <2>. DEFINE k == <<"rematch", offers[c.id].match>>
  <2>3. k \in Keys
    BY <2>2, OfferTypes, KeyTypes
  <2>4. Fits(k, redis[k])
    BY <2>3 DEF TypeOK, StoreOK
  <2>5. redis[k] \in RematchOffers \cup {None}
    BY <2>4 DEF Fits
  <2>6. RematchOffers \subseteq Nat
    BY OfferTypes, MaxIdIsFour
  <2>. QED
    BY <2>1, <2>2, <2>3, <2>5, <2>6
<1>1. CASE RematchRequested(c)
  BY <1>1, FinishIt DEF RematchRequested, At, EndOfCall, server, ghosts
<1>2. CASE AcceptRematch(c)
  <2>. DEFINE r == redis[<<"rematch", offers[c.id].match>>]
              e == [c EXCEPT !.at = "delete", !.id = r]
              R == { d.id : d \in { d \in calls : d.op = "acceptRematch" /\ d.id = r
                                                  /\ d.at # "begin" } }
  <2>1. /\ c.op = "acceptRematch" /\ c.at = "begin" /\ c.todo = <<>>
        /\ \/ Finish(c) /\ UNCHANGED raced
           \/ r # None /\ Become(c, e) /\ raced' = raced \cup R
        /\ UNCHANGED <<redis, made, expired, mixed, blurred>>
    BY <1>2 DEF AcceptRematch, At
  <2>2. CASE Finish(c) /\ UNCHANGED raced
    BY <2>1, <2>2, FinishIt DEF EndOfCall
  <2>3. CASE r # None /\ Become(c, e) /\ raced' = raced \cup R
    <3>1. r \in Nat /\ "delete" \in Stages
      BY <1>a, <2>1, <2>3 DEF Stages
    <3>. HIDE DEF r
    <3>2. Is(e, c, "delete", r, c.got, c.todo)
      BY <1>0, <3>1, Edits
    <3>. HIDE DEF e
    <3>3. /\ Goes(c, e) /\ e.at = "delete" /\ e.id = r /\ e.got = c.got /\ e.todo = <<>>
      BY <2>1, <2>3, <3>2 DEF Goes, Become, Is
    <3>4. AcceptsRematch(c, e)
      BY <2>1, <2>3, <3>3 DEF AcceptsRematch, r
    <3>. QED
      BY <2>1, <3>3, <3>4 DEF RematchStep
  <2>. QED
    BY <2>1, <2>2, <2>3
<1>3. CASE DeclineRematch(c)
  <2>. DEFINE r == redis[<<"rematch", offers[c.id].match>>]
              e == [c EXCEPT !.at = "delete", !.id = r]
  <2>1. /\ c.op = "declineRematch" /\ c.at = "begin" /\ c.todo = <<>>
        /\ IF r = None THEN Finish(c) ELSE Become(c, e)
        /\ UNCHANGED <<redis, made, expired, mixed, raced, blurred>>
    BY <1>3 DEF DeclineRematch, At, server, ghosts
  <2>2. CASE r = None
    BY <2>1, <2>2, FinishIt DEF EndOfCall
  <2>3. CASE r # None
    <3>1. r \in Nat /\ "delete" \in Stages
      BY <1>a, <2>1, <2>3 DEF Stages
    <3>2. Become(c, e)
      BY <2>1, <2>3
    <3>. HIDE DEF r
    <3>3. Is(e, c, "delete", r, c.got, c.todo)
      BY <1>0, <3>1, Edits
    <3>. HIDE DEF e
    <3>4. /\ Goes(c, e) /\ e.at = "delete" /\ e.id = r /\ e.got = c.got /\ e.todo = <<>>
      BY <2>1, <3>2, <3>3 DEF Goes, Become, Is
    <3>5. DeclinesRematch(c, e)
      BY <2>1, <2>3, <3>4 DEF DeclinesRematch, r
    <3>. QED
      BY <2>1, <3>4, <3>5 DEF RematchStep
  <2>. QED
    BY <2>2, <2>3
<1>4. CASE RematchDeletes(c)
  <2>. DEFINE s == DeleteRematchRequest(offers[c.id].match)
              to == IF c.op = "acceptRematch" THEN "create" ELSE "told"
  <2>1. /\ c.op \in {"acceptRematch", "declineRematch"} /\ c.at = "delete" /\ c.todo = <<>>
        /\ Do(c, s, to)
        /\ UNCHANGED <<redis, made, expired, mixed, raced, blurred>>
    BY <1>4 DEF RematchDeletes, server, ghosts
  <2>2. s \in Seq(Writing) /\ to \in Stages
    BY <1>a, <2>1, RematchDeletesAre DEF Stages
  <2>. HIDE DEF s, to
  <2>3. \E d : Goes(c, d) /\ d.at = to /\ d.id = c.id /\ d.got = c.got /\ d.todo = s
    BY <2>1, <2>2, DoIt
  <2>4. PICK d : Goes(c, d) /\ d.at = to /\ d.id = c.id /\ d.got = c.got /\ d.todo = s
    BY <2>3
  <2>5. AcceptsRematch(c, d) \/ DeclinesRematch(c, d)
    BY <2>1, <2>4 DEF AcceptsRematch, DeclinesRematch, s, to
  <2>. QED
    BY <2>1, <2>4, <2>5 DEF RematchStep
<1>5. CASE RematchDeclined(c)
  BY <1>5, FinishIt DEF RematchDeclined, At, EndOfCall, server, ghosts
<1>6. CASE FindRematch(c)
  <2>. DEFINE m == redis[<<"rematchPending", Me>>]
              d1 == [c EXCEPT !.at = "answered"]
              d2 == [c EXCEPT !.at = "follow", !.got = m]
  <2>1. /\ c.op = "lookRematch" /\ c.at = "begin" /\ c.todo = <<>>
        /\ Become(c, IF m = None THEN d1 ELSE d2)
        /\ UNCHANGED <<redis, made, expired, mixed, raced, blurred>>
    BY <1>6 DEF FindRematch, At, server, ghosts
  <2>2. m \in DOMAIN matches \cup {None}
    <3>1. <<"rematchPending", Me>> \in Keys
      BY KeyTypes, LobbyAssumption
    <3>2. Fits(<<"rematchPending", Me>>, m)
      BY <3>1 DEF TypeOK, StoreOK
    <3>. QED
      BY <3>2 DEF Fits
  <2>3. m \in Nat \cup {None} /\ "answered" \in Stages /\ "follow" \in Stages
    BY <2>2, OfferTypes DEF Stages
  <2>. HIDE DEF m
  <2>4. Is(d1, c, "answered", c.id, c.got, c.todo) /\ Is(d2, c, "follow", c.id, m, c.todo)
    BY <1>0, <2>3, Edits
  <2>. HIDE DEF d1, d2
  <2>5. CASE m = None
    <3>1. Goes(c, d1) /\ LooksForRematch(c, d1)
      BY <2>1, <2>4, <2>5 DEF Goes, Become, Is, LooksForRematch
    <3>. QED
      BY <2>1, <3>1 DEF RematchStep
  <2>6. CASE m # None
    <3>1. Goes(c, d2) /\ LooksForRematch(c, d2)
      BY <2>1, <2>4, <2>6 DEF Goes, Become, Is, LooksForRematch, m
    <3>. QED
      BY <2>1, <3>1 DEF RematchStep
  <2>. QED
    BY <2>5, <2>6
<1>7. CASE FollowRematch(c)
  <2>. DEFINE s == <<Del(<<"rematchPending", Me>>)>>
              d1 == [c EXCEPT !.at = "session"]
              d2 == [c EXCEPT !.at = "answered", !.got = None, !.todo = s]
  <2>1. /\ c.op = "lookRematch" /\ c.at = "follow" /\ c.todo = <<>>
        /\ Become(c, d1) \/ Become(c, d2)
        /\ UNCHANGED <<redis, made, expired, mixed, raced, blurred>>
    BY <1>7 DEF FollowRematch, At, server, ghosts
  <2>2. s \in Seq(Writing) /\ "answered" \in Stages /\ "session" \in Stages
    <3>1. Del(<<"rematchPending", Me>>) \in Writing
      BY KeyTypes, LobbyAssumption, SetType DEF Value
    <3>. QED
      BY <3>1, Few DEF Stages
  <2>. HIDE DEF s
  <2>4. /\ Is(d1, c, "session", c.id, c.got, c.todo)
        /\ Is(d2, c, "answered", c.id, None, s)
    BY <1>0, <2>2, Edits
  <2>. HIDE DEF d1, d2
  <2>5. CASE Become(c, d1)
    <3>1. Goes(c, d1) /\ LooksForRematch(c, d1)
      BY <2>1, <2>4, <2>5 DEF Goes, Become, Is, LooksForRematch
    <3>. QED
      BY <2>1, <3>1 DEF RematchStep
  <2>6. CASE Become(c, d2)
    <3>1. Goes(c, d2) /\ LooksForRematch(c, d2)
      BY <2>1, <2>4, <2>6 DEF Goes, Become, Is, LooksForRematch, s
    <3>. QED
      BY <2>1, <3>1 DEF RematchStep
  <2>. QED
    BY <2>1, <2>5, <2>6
<1>9. CASE GetPendingRematchForUser(c)
  <2>. DEFINE s == DeleteRematchRequest(c.got)
              d1 == [c EXCEPT !.at = "answered"]
              d2 == [c EXCEPT !.at = "answered", !.got = None, !.todo = s]
  <2>1. /\ c.op = "lookRematch" /\ c.at = "session" /\ c.todo = <<>>
        /\ Become(c, d1) \/ Become(c, d2)
        /\ UNCHANGED <<redis, made, expired, mixed, raced, blurred>>
    BY <1>9 DEF GetPendingRematchForUser, At, server, ghosts
  <2>2. s \in Seq(Writing) /\ "answered" \in Stages
    <3>1. c.got \in DOMAIN matches
      BY <2>1, CallTypes DEF IdFits
    <3>. QED
      BY <3>1, RematchDeletesAre DEF Stages
  <2>. HIDE DEF s
  <2>4. /\ Is(d1, c, "answered", c.id, c.got, c.todo)
        /\ Is(d2, c, "answered", c.id, None, s)
    BY <1>0, <2>2, Edits
  <2>. HIDE DEF d1, d2
  <2>5. CASE Become(c, d1)
    <3>1. Goes(c, d1) /\ LooksForRematch(c, d1)
      BY <2>1, <2>4, <2>5 DEF Goes, Become, Is, LooksForRematch
    <3>. QED
      BY <2>1, <3>1 DEF RematchStep
  <2>6. CASE Become(c, d2)
    <3>1. Goes(c, d2) /\ LooksForRematch(c, d2)
      BY <2>1, <2>4, <2>6 DEF Goes, Become, Is, LooksForRematch, s
    <3>. QED
      BY <2>1, <3>1 DEF RematchStep
  <2>. QED
    BY <2>1, <2>5, <2>6
<1>8. CASE RematchLoaded(c)
  BY <1>8, FinishIt DEF RematchLoaded, At, EndOfCall, server, ghosts
<1>. QED
  BY <1>1, <1>2, <1>3, <1>4, <1>5, <1>6, <1>7, <1>8, <1>9 DEF Rematches

\* The match of a rematch is announced to both, and nobody waits for an answer.
LEMMA IndexTable ==
    ASSUME TypeOK, NEW c \in calls,
           \/ MatchEnded(c) \/ ChatSaved(c) \/ ActiveIndex(c) \/ GetActiveSessionForUser(c) \/ ActiveAnswered(c)
           \/ c.op = "acceptRematch" /\ MatchReady(c)
    PROVE  EndOfCall(c) \/ \E d : ActiveStep(c, d)
<1>0. /\ c \in Job /\ c.id \in Nat /\ c.got \in Nat \cup {None} /\ c.todo \in Seq(Writing)
  BY CallTypes
<1>k. <<"active", Me>> \in Keys
  BY KeyTypes, LobbyAssumption
<1>1. CASE MatchEnded(c)
  BY <1>1, FinishIt DEF MatchEnded, At, EndOfCall, server, ghosts
<1>2. CASE ActiveIndex(c)
  <2>. DEFINE g == redis[<<"active", Me>>]
              d == [c EXCEPT !.at = "session", !.got = g]
  <2>1. /\ c.op = "active" /\ c.at = "begin" /\ c.todo = <<>>
        /\ IF g = None THEN Finish(c) ELSE Become(c, d)
        /\ UNCHANGED <<redis, made, expired, mixed, raced, blurred>>
    BY <1>2 DEF ActiveIndex, At, server, ghosts
  <2>2. CASE g = None
    BY <2>1, <2>2, FinishIt DEF EndOfCall
  <2>3. CASE g # None
    <3>1. Fits(<<"active", Me>>, g)
      BY <1>k DEF TypeOK, StoreOK
    <3>2. g \in DOMAIN matches
      BY <2>3, <3>1 DEF Fits
    <3>3. g \in Nat /\ "session" \in Stages /\ Become(c, d)
      BY <2>1, <2>3, <3>2, OfferTypes DEF Stages
    <3>. HIDE DEF g
    <3>4. Is(d, c, "session", c.id, g, c.todo)
      BY <1>0, <3>3, Edits
    <3>. HIDE DEF d
    <3>5. Goes(c, d) /\ d.at = "session" /\ d.id = c.id /\ d.got = g /\ d.todo = <<>>
      BY <2>1, <3>3, <3>4 DEF Goes, Become, Is
    <3>. QED
      BY <2>1, <2>3, <3>5 DEF ActiveStep, g
  <2>. QED
    BY <2>2, <2>3
<1>3. CASE GetActiveSessionForUser(c)
  <2>. DEFINE s == <<Del(<<"active", Me>>)>>
              there == redis[<<"session", c.got>>] = "live" /\ Me \in matches[c.got].players
  <2>1. /\ c.op = "active" /\ c.at = "session" /\ c.todo = <<>>
        /\ IF there THEN Finish(c) ELSE Do(c, s, "answer")
        /\ UNCHANGED <<redis, made, expired, mixed, raced, blurred>>
    BY <1>3 DEF GetActiveSessionForUser, At, server, ghosts
  <2>2. CASE there
    BY <2>1, <2>2, FinishIt DEF EndOfCall
  <2>3. CASE ~there
    <3>1. s \in Seq(Writing) /\ "answer" \in Stages
      <4>1. Del(<<"active", Me>>) \in Writing
        BY <1>k, SetType DEF Value
      <4>. QED
        BY <4>1, Few DEF Stages
    <3>. HIDE DEF s
    <3>2. \E d : Goes(c, d) /\ d.at = "answer" /\ d.id = c.id /\ d.got = c.got /\ d.todo = s
      BY <2>1, <2>3, <3>1, DoIt
    <3>. QED
      BY <2>1, <2>3, <3>2 DEF ActiveStep, s
  <2>. QED
    BY <2>2, <2>3
<1>4. CASE ActiveAnswered(c)
  BY <1>4, FinishIt DEF ActiveAnswered, At, EndOfCall, server, ghosts
<1>5. CASE c.op = "acceptRematch" /\ MatchReady(c)
  BY <1>5, FinishIt DEF MatchReady, EndOfCall, server, ghosts
<1>6. CASE ChatSaved(c)
  BY <1>6, FinishIt DEF ChatSaved, At, EndOfCall, server, ghosts
<1>. QED
  BY <1>1, <1>2, <1>3, <1>4, <1>5, <1>6

LEMMA PlayersOf ==
    ASSUME TypeOK, NEW m \in DOMAIN matches, NEW us \in InSeats(m)
    PROVE  /\ us[1] \in Users /\ us[2] \in Users /\ us = <<us[1], us[2]>> /\ m \in 1 .. MaxId
<1>1. matches[m].players \subseteq Users /\ m \in 1 .. MaxId
  BY OfferTypes
<1>2. us \in [1 .. 2 -> matches[m].players]
  BY DEF InSeats
<1>3. us[1] \in Users /\ us[2] \in Users
  BY <1>1, <1>2
<1>4. us = <<us[1], us[2]>>
  BY <1>2
<1>. QED
  BY <1>1, <1>3, <1>4

LEMMA ChatTable ==
    ASSUME TypeOK, NEW c \in calls, AddChatMessage(c)
    PROVE  EndOfCall(c) \/ \E d : ChatStep(c, d)
<1>1. /\ c.op = "chat" /\ c.at \in {"live", "over"} /\ c.todo = <<>>
      /\ Finish(c) \/ \E us \in InSeats(c.id) : Do(c, SaveState(c.id, c.at, us), "done")
      /\ UNCHANGED <<redis, made, expired, mixed, raced, blurred>>
  BY DEF AddChatMessage, server, ghosts
<1>2. CASE Finish(c)
  BY <1>1, <1>2, FinishIt DEF EndOfCall
<1>3. CASE \E us \in InSeats(c.id) : Do(c, SaveState(c.id, c.at, us), "done")
  <2>1. c.id \in DOMAIN matches
    BY <1>1, CallTypes DEF IdFits
  <2>2. PICK us \in InSeats(c.id) : Do(c, SaveState(c.id, c.at, us), "done")
    BY <1>3
  <2>. DEFINE u == us[1]
              v == us[2]
              s == SaveState(c.id, c.at, <<u, v>>)
  <2>3. u \in Users /\ v \in Users /\ us = <<u, v>> /\ c.id \in 1 .. MaxId
    BY <2>1, PlayersOf
  <2>4. Do(c, s, "done")
    BY <2>2, <2>3
  <2>. HIDE DEF u, v
  <2>5. s \in Seq(Writing) /\ "done" \in Stages
    BY <1>1, <2>3, SavedStateIs DEF Stages
  <2>. HIDE DEF s
  <2>6. \E d : Goes(c, d) /\ d.at = "done" /\ d.id = c.id /\ d.got = c.got /\ d.todo = s
    BY <1>1, <2>4, <2>5, DoIt
  <2>. QED
    BY <1>1, <2>3, <2>6 DEF ChatStep, s
<1>. QED
  BY <1>1, <1>2, <1>3

------------------------------------------------------------------------------
(* How calls begin, and the steps of the environment *)

Begun(c, op, u, id, todo) ==
    /\ c \in Job /\ c.op = op /\ c.by = u /\ c.id = id
    /\ c.at = "begin" /\ c.got = None /\ c.todo = todo
Joins(C) == calls' = calls \cup C /\ started' \in Nat

AsksForMatch(c, u, v) ==
    /\ u \in Users /\ v \in Users /\ u # v /\ Len(offers) < MaxId
    /\ Joins({c}) /\ Begun(c, "create", u, Len(offers) + 1, <<>>)
    /\ offers' = Append(offers, [kind |-> "invite", from |-> u, to |-> v, match |-> 0])
    /\ mixed' = mixed \cup MixedWith(calls, {u, v})
    /\ UNCHANGED <<redis, matches, expired, raced, blurred>>
Answers(c, i) ==
    /\ Joins({c}) /\ i \in FriendOffers
    /\ \/ Begun(c, "accept", To(i), i, <<>>)
       \/ Begun(c, "decline", c.by, i, <<>>) /\ c.by \in Parties(i)
    /\ \A d \in calls : d.op = "create" /\ d.id = i => Saved(d) /\ overtaken'
    /\ mixed' = mixed \cup MixedWith(calls, Parties(i))
    /\ UNCHANGED <<redis, made, expired, raced, blurred>>
RequestsRematch(c, u, v, m) ==
    /\ m \in DOMAIN matches /\ u \in Users /\ v \in Users /\ u # v /\ Len(offers) < MaxId
    /\ Joins({c})
    /\ Begun(c, "requestRematch", u, Len(offers) + 1,
             <<Set(<<"rematch", m>>, Len(offers) + 1), Set(<<"rematchPending", v>>, m)>>)
    /\ offers' = Append(offers, [kind |-> "rematch", from |-> u, to |-> v, match |-> m])
    /\ UNCHANGED <<redis, matches, expired, ghosts>>
AnswersRematch(c, i) ==
    /\ Joins({c}) /\ i \in RematchOffers /\ c.by \in Parties(i)
    /\ Begun(c, "acceptRematch", c.by, i, <<>>) \/ Begun(c, "declineRematch", c.by, i, <<>>)
    /\ UNCHANGED <<redis, made, expired, ghosts>>
Closes(c, m, u, v) ==
    /\ m \in DOMAIN matches
    /\ Joins({c}) /\ Begun(c, "end", None, m, SaveState(m, "over", <<u, v>>))
    /\ UNCHANGED <<redis, made, expired, mixed, raced>>
Chats(c, m) ==
    /\ m \in DOMAIN matches /\ Joins({c})
    /\ c \in Job /\ c.op = "chat" /\ c.by = None /\ c.id = m /\ c.todo = <<>>
    /\ c.at \in {"live", "over"} /\ c.got = None
    /\ UNCHANGED <<redis, made, expired, mixed, raced>>
AsksForActive(c) ==
    /\ Joins({c}) /\ Begun(c, "active", Me, 0, <<>>) /\ UNCHANGED <<redis, made, expired, ghosts>>
Opens(c, d) ==
    /\ Joins({c, d}) /\ Begun(c, "look", Me, 0, <<>>) /\ Begun(d, "lookRematch", Me, 0, <<>>)
    /\ mixed' = mixed \cup MixedWith(calls, {Me})
    /\ UNCHANGED <<redis, made, expired, raced, blurred>>
Blind(c) == IF c.op \in {"look", "lookRematch"} THEN [c EXCEPT !.by = None] ELSE c
Leaving == calls' = { Blind(c) : c \in calls } /\ UNCHANGED <<redis, made, expired, ghosts, started>>
Passes == \E i \in DOMAIN offers : expired' = expired \cup {i} /\ UNCHANGED <<redis, made, ghosts, calls, started>>
Lost(i, k) ==
    \/ k = OfferKey(i)
    \/ /\ i \in FriendOffers /\ redis[<<"invite", i>>] = None /\ redis[k] = i
       /\ \E side \in Sides : k = <<side, PointedUser(side, i)>>
    \/ i \in RematchOffers /\ k = <<"rematchPending", To(i)>>
Drops(i, k) ==
    /\ i \in expired /\ k \in Keys /\ Lost(i, k)
    /\ redis' = [redis EXCEPT ![k] = None] /\ UNCHANGED <<made, expired, ghosts, calls, started>>
Watches == UNCHANGED <<redis, made, expired, ghosts, calls, started>>

\* Every step is one of these.
Turned(c, d) ==
    InviteStep(c, d) \/ MakesMatch(c, d) \/ RematchStep(c, d) \/ IndexStep(c, d)
Started(c) ==
    \/ \E u, v \in Users : AsksForMatch(c, u, v) \/ (\E m \in DOMAIN matches : RequestsRematch(c, u, v, m))
    \/ \E i \in DOMAIN offers : Answers(c, i) \/ AnswersRematch(c, i)
    \/ \E u, v \in Users : \E m \in DOMAIN matches : Closes(c, m, u, v)
    \/ \E m \in DOMAIN matches : Chats(c, m)
    \/ AsksForActive(c)
Writes1(c, d) ==
    /\ c \in calls /\ c.todo # <<>> /\ d \in Job
    /\ Is(d, c, c.at, c.id, c.got, Tail(c.todo))
    /\ redis' = [redis EXCEPT ![Head(c.todo).key] = Head(c.todo).value]
    /\ calls' = (calls \ {c}) \cup {d} /\ UNCHANGED <<made, expired, ghosts, started>>
Step ==
    \/ \E c \in calls : EndOfCall(c) \/ \E d : Turned(c, d) \/ Writes1(c, d)
    \/ \E c : Started(c) \/ \E d : Opens(c, d)
    \/ Leaving \/ Passes \/ Watches \/ \E i, k : Drops(i, k)

LEMMA CallIsNew ==
    ASSUME TypeOK, NEW op \in Ops, NEW u \in Users \cup {None}, NEW id \in Nat
    PROVE  /\ Begun(Call(op, u, id), op, u, id, <<>>)
           /\ Begun([Call(op, u, id) EXCEPT !.n = started + 2], op, u, id, <<>>)
           /\ \A s \in Seq(Writing) : Begun([Call(op, u, id) EXCEPT !.todo = s], op, u, id, s)
<1>1. started \in Nat /\ started + 1 \in Nat /\ started + 2 \in Nat
  BY DEF TypeOK
<1>2. "begin" \in Stages /\ <<>> \in Seq(Writing)
  BY DEF Stages
<1>3. Call(op, u, id) \in Job
  BY <1>1, <1>2 DEF Call, Job
<1>4. Begun(Call(op, u, id), op, u, id, <<>>)
  BY <1>3 DEF Begun, Call
<1>5. Begun([Call(op, u, id) EXCEPT !.n = started + 2], op, u, id, <<>>)
  BY <1>1, <1>2 DEF Begun, Call, Job
<1>6. ASSUME NEW s \in Seq(Writing) PROVE Begun([Call(op, u, id) EXCEPT !.todo = s], op, u, id, s)
  BY <1>1, <1>2 DEF Begun, Call, Job
<1>. QED
  BY <1>4, <1>5, <1>6

LEMMA BeginIt ==
    ASSUME TypeOK, NEW c, NEW d
    PROVE  /\ Begin({c}) => Joins({c})
           /\ Begin({c, d}) => Joins({c, d})
<1>1. started \in Nat
  BY DEF TypeOK
<1>2. Cardinality({c}) \in Nat /\ Cardinality({c, d}) \in Nat
  <2>1. IsFiniteSet({c}) /\ IsFiniteSet({d})
    BY FS_Singleton
  <2>2. IsFiniteSet({c} \cup {d}) /\ {c} \cup {d} = {c, d}
    BY <2>1, FS_Union
  <2>3. IsFiniteSet({c, d})
    BY <2>2
  <2>. QED
    BY <2>1, <2>3, FS_CardinalityType
<1>. QED
  BY <1>1, <1>2 DEF Begin, Joins

LEMMA StartTable ==
    ASSUME TypeOK,
           \/ AskForMatch \/ RequestRematch \/ MatchEnds \/ SpeakUp \/ AskForActive \/ EnableHooks
           \/ \E op \in {"accept", "decline"} : Answer(op)
           \/ \E op \in {"acceptRematch", "declineRematch"} : AnswerRematch(op)
    PROVE  Step
<1>0. /\ Me \in Users \cup {None} /\ Me \in Users /\ 0 \in Nat /\ Len(offers) + 1 \in Nat
      /\ \A i \in DOMAIN offers : /\ i \in Nat /\ From(i) \in Users /\ To(i) \in Users
                                  /\ Parties(i) \subseteq Users
      /\ \A m \in DOMAIN matches : m \in Nat /\ m \in 1 .. MaxId /\ matches[m].players \subseteq Users
  BY OfferTypes, LobbyAssumption DEF Parties
<1>1. CASE AskForMatch
  <2>1. PICK u \in Users, v \in Users :
             /\ u # v /\ Len(offers) < MaxId
             /\ offers' = Append(offers, [kind |-> "invite", from |-> u, to |-> v, match |-> 0])
             /\ Begin({Call("create", u, Len(offers) + 1)})
             /\ mixed' = mixed \cup MixedWith(calls, {u, v})
             /\ UNCHANGED <<redis, matches, expired, raced, blurred>>
    BY <1>1 DEF AskForMatch
  <2>. DEFINE c == Call("create", u, Len(offers) + 1)
  <2>2. Begun(c, "create", u, Len(offers) + 1, <<>>)
    BY <1>0, CallIsNew DEF Ops
  <2>3. Joins({c})
    BY <2>1, BeginIt
  <2>. HIDE DEF c
  <2>4. AsksForMatch(c, u, v)
    BY <2>1, <2>2, <2>3 DEF AsksForMatch
  <2>. QED
    BY <2>4 DEF Step, Started
<1>2. CASE RequestRematch
  <2>1. PICK m \in DOMAIN matches : \E u, v \in matches[m].players :
             /\ u # v /\ Len(offers) < MaxId
             /\ offers' = Append(offers, [kind |-> "rematch", from |-> u, to |-> v, match |-> m])
             /\ LET r == Len(offers) + 1 IN
                Begin({[Call("requestRematch", u, r) EXCEPT !.todo =
                      <<Set(<<"rematch", m>>, r), Set(<<"rematchPending", v>>, m)>>]})
             /\ UNCHANGED <<redis, matches, expired, ghosts>>
    BY <1>2 DEF RequestRematch
  <2>2. PICK u \in matches[m].players, v \in matches[m].players :
             /\ u # v /\ Len(offers) < MaxId
             /\ offers' = Append(offers, [kind |-> "rematch", from |-> u, to |-> v, match |-> m])
             /\ LET r == Len(offers) + 1 IN
                Begin({[Call("requestRematch", u, r) EXCEPT !.todo =
                      <<Set(<<"rematch", m>>, r), Set(<<"rematchPending", v>>, m)>>]})
             /\ UNCHANGED <<redis, matches, expired, ghosts>>
    BY <2>1
  <2>. DEFINE r == Len(offers) + 1
              s == <<Set(<<"rematch", m>>, r), Set(<<"rematchPending", v>>, m)>>
              c == [Call("requestRematch", u, r) EXCEPT !.todo = s]
  <2>3. u \in Users /\ v \in Users /\ r \in Nat /\ m \in Nat /\ m \in 1 .. MaxId
    BY <1>0
  <2>4. s \in Seq(Writing)
    <3>1. r \in Value /\ m \in Value
      BY <2>3 DEF Value
    <3>. HIDE DEF r
    <3>2. /\ Set(<<"rematch", m>>, r) \in Writing
          /\ Set(<<"rematchPending", v>>, m) \in Writing
      BY <2>3, <3>1, KeyTypes, SetType
    <3>. QED
      BY <3>2, Few
  <2>5. Joins({c})
    BY <2>2, BeginIt
  <2>6. "requestRematch" \in Ops /\ u \in Users \cup {None}
    BY <2>3 DEF Ops
  <2>. HIDE DEF s, r
  <2>7. Begun(c, "requestRematch", u, r, s)
    BY <2>3, <2>4, <2>6, CallIsNew
  <2>. HIDE DEF c
  <2>8. RequestsRematch(c, u, v, m)
    BY <2>2, <2>3, <2>5, <2>7 DEF RequestsRematch, r, s
  <2>. QED
    BY <2>3, <2>8 DEF Step, Started
<1>3. CASE MatchEnds
  <2>1. PICK m \in DOMAIN matches :
         /\ \E us \in InSeats(m) :
              Begin({[Call("end", None, m) EXCEPT !.todo = SaveState(m, "over", us)]})
         /\ UNCHANGED <<redis, made, expired, mixed, raced>>
    BY <1>3 DEF MatchEnds
  <2>2. PICK us \in InSeats(m) :
              Begin({[Call("end", None, m) EXCEPT !.todo = SaveState(m, "over", us)]})
    BY <2>1
  <2>. DEFINE u == us[1]
              v == us[2]
              s == SaveState(m, "over", <<u, v>>)
              c == [Call("end", None, m) EXCEPT !.todo = s]
  <2>3. u \in Users /\ v \in Users /\ us = <<u, v>> /\ m \in Nat /\ m \in 1 .. MaxId
    BY <1>0, PlayersOf
  <2>4. Begin({c})
    BY <2>2, <2>3
  <2>5. Joins({c})
    BY <2>4, BeginIt
  <2>. HIDE DEF u, v
  <2>6. s \in Seq(Writing)
    BY <2>3, SavedStateIs
  <2>. HIDE DEF s
  <2>7. Begun(c, "end", None, m, s)
    BY <2>3, <2>6, CallIsNew DEF Ops
  <2>. HIDE DEF c
  <2>8. Closes(c, m, u, v)
    BY <2>1, <2>5, <2>7 DEF Closes, s
  <2>. QED
    BY <2>3, <2>8 DEF Step, Started
<1>8. CASE SpeakUp
  <2>1. PICK m \in DOMAIN matches :
         /\ redis[<<"session", m>>] # None
         /\ Begin({[Call("chat", None, m) EXCEPT !.at = redis[<<"session", m>>]]})
         /\ UNCHANGED <<redis, made, expired, mixed, raced>>
    BY <1>8 DEF SpeakUp
  <2>. DEFINE x == redis[<<"session", m>>]
              c == [Call("chat", None, m) EXCEPT !.at = x]
  <2>2. x \in {"live", "over"}
    <3>1. <<"session", m>> \in Keys
      BY <1>0, KeyTypes
    <3>2. Fits(<<"session", m>>, x)
      BY <3>1 DEF TypeOK, StoreOK
    <3>. QED
      BY <2>1, <3>2 DEF Fits
  <2>3. Joins({c})
    BY <2>1, BeginIt
  <2>. HIDE DEF x
  <2>4. /\ c \in Job /\ c.op = "chat" /\ c.by = None /\ c.id = m /\ c.todo = <<>>
        /\ c.at = x /\ c.got = None
    <3>1. Begun(Call("chat", None, m), "chat", None, m, <<>>)
      BY <1>0, CallIsNew DEF Ops
    <3>2. x \in Stages
      BY <2>2 DEF Stages
    <3>3. DOMAIN Call("chat", None, m) = {"n", "op", "by", "id", "at", "got", "todo"}
      BY DEF Call
    <3>. QED
      BY <3>1, <3>2, <3>3 DEF Begun, Job
  <2>. HIDE DEF c
  <2>5. Chats(c, m)
    BY <2>1, <2>2, <2>3, <2>4 DEF Chats
  <2>. QED
    BY <2>5 DEF Step, Started
<1>4. CASE AskForActive
  <2>. DEFINE c == Call("active", Me, 0)
  <2>1. Begun(c, "active", Me, 0, <<>>)
    BY <1>0, CallIsNew DEF Ops
  <2>2. Joins({c}) /\ UNCHANGED <<redis, made, expired, ghosts>>
    BY <1>4, BeginIt DEF AskForActive, server
  <2>. HIDE DEF c
  <2>. QED
    BY <2>1, <2>2 DEF Step, Started, AsksForActive
<1>5. CASE EnableHooks
  <2>. DEFINE c == Call("look", Me, 0)
              d == [Call("lookRematch", Me, 0) EXCEPT !.n = started + 2]
  <2>1. Begun(c, "look", Me, 0, <<>>) /\ Begun(d, "lookRematch", Me, 0, <<>>)
    BY <1>0, CallIsNew DEF Ops
  <2>2. /\ Joins({c, d}) /\ mixed' = mixed \cup MixedWith(calls, {Me})
        /\ UNCHANGED <<redis, made, expired, raced, blurred>>
    BY <1>5, BeginIt DEF EnableHooks
  <2>. HIDE DEF c, d
  <2>. QED
    BY <2>1, <2>2 DEF Step, Opens
<1>6. ASSUME NEW op \in {"accept", "decline"}, Answer(op)
      PROVE  Step
  <2>1. PICK i \in DOMAIN offers :
         /\ offers[i].kind = "invite"
         /\ \A d \in calls : d.op = "create" /\ d.id = i => Saved(d)
         /\ (\E d \in calls : d.op = "create" /\ d.id = i) => overtaken'
         /\ \E u \in IF op = "decline" THEN Parties(i) ELSE {To(i)} : Begin({Call(op, u, i)})
         /\ mixed' = mixed \cup MixedWith(calls, Parties(i))
         /\ UNCHANGED <<redis, made, expired, raced, blurred>>
    BY <1>6 DEF Answer
  <2>2. PICK u \in IF op = "decline" THEN Parties(i) ELSE {To(i)} : Begin({Call(op, u, i)})
    BY <2>1
  <2>. DEFINE c == Call(op, u, i)
  <2>3. u \in Users \cup {None} /\ i \in Nat /\ op \in Ops
    BY <1>0, <1>6, <2>2 DEF Ops
  <2>4. Begun(c, op, u, i, <<>>)
    BY <2>3, CallIsNew
  <2>5. Joins({c})
    BY <2>2, BeginIt
  <2>. HIDE DEF c
  <2>6. i \in FriendOffers
    BY <2>1 DEF FriendOffers
  <2>7. \/ Begun(c, "accept", To(i), i, <<>>)
        \/ Begun(c, "decline", c.by, i, <<>>) /\ c.by \in Parties(i)
    <3>1. c.by = u
      BY <2>4 DEF Begun
    <3>2. CASE op = "accept"
      BY <2>2, <2>4, <3>2
    <3>3. CASE op = "decline"
      BY <2>2, <2>4, <3>1, <3>3
    <3>. QED
      BY <1>6, <3>2, <3>3
  <2>8. Answers(c, i)
    BY <2>1, <2>5, <2>6, <2>7 DEF Answers
  <2>. QED
    BY <2>8 DEF Step, Started
<1>7. ASSUME NEW op \in {"acceptRematch", "declineRematch"}, AnswerRematch(op)
      PROVE  Step
  <2>1. PICK i \in DOMAIN offers :
         /\ offers[i].kind = "rematch"
         /\ \E u \in Parties(i) : Begin({Call(op, u, i)})
         /\ UNCHANGED <<redis, made, expired, ghosts>>
    BY <1>7 DEF AnswerRematch, server
  <2>2. PICK u \in Parties(i) : Begin({Call(op, u, i)})
    BY <2>1
  <2>. DEFINE c == Call(op, u, i)
  <2>3. u \in Users \cup {None} /\ i \in Nat /\ op \in Ops
    BY <1>0, <1>7, <2>2 DEF Ops
  <2>4. Begun(c, op, u, i, <<>>)
    BY <2>3, CallIsNew
  <2>5. Joins({c})
    BY <2>2, BeginIt
  <2>. HIDE DEF c
  <2>6. i \in RematchOffers
    BY <2>1 DEF RematchOffers
  <2>7. c.by = u
    BY <2>4 DEF Begun
  <2>8. AnswersRematch(c, i)
    BY <1>7, <2>1, <2>2, <2>4, <2>5, <2>6, <2>7 DEF AnswersRematch
  <2>. QED
    BY <2>8 DEF Step, Started
<1>. QED
  BY <1>1, <1>2, <1>3, <1>4, <1>5, <1>6, <1>7, <1>8

LEMMA CommandTable ==
    ASSUME TypeOK, NEW c \in calls, Command(c)
    PROVE  \E d : Writes1(c, d)
<1>. DEFINE d == [c EXCEPT !.todo = Tail(@)]
            s == Tail(c.todo)
<1>1. /\ c.todo # <<>> /\ Become(c, d) /\ UNCHANGED <<made, expired, ghosts>>
      /\ redis' = [redis EXCEPT ![Head(c.todo).key] = Head(c.todo).value]
  BY DEF Command
<1>2. s \in Seq(Writing)
  BY <1>1, CallTypes, HeadTailProperties
<1>3. d = [c EXCEPT !.todo = s]
  OBVIOUS
<1>. HIDE DEF s
<1>4. Is(d, c, c.at, c.id, c.got, s)
  BY <1>2, <1>3, CallTypes, Edits
<1>. HIDE DEF d
<1>. QED
  BY <1>1, <1>4 DEF Writes1, Become, Is, s

\* What a call does, apart from its commands.
Acts(c) ==
    \/ Invites(c) \/ MatchSteps(c) \/ Rematches(c) \/ LookAtInvites(c) \/ InvitesLoaded(c)
    \/ RematchLoaded(c) \/ HandleLocalSent(c) \/ InviteAnswered(c)

LEMMA CallTurns ==
    ASSUME TypeOK, NEW c \in calls, Acts(c)
    PROVE  EndOfCall(c) \/ \E d : Turned(c, d)
<1>2. CASE /\ c.op = "create"
           /\ \/ FriendshipChecked(c) \/ CreateLooks(c) \/ CreateRefused(c)
              \/ CreateFriendInvite(c) \/ InviteTold(c) \/ Failed(c) \/ HandleLocalSent(c)
  BY <1>2, CreateTable DEF Turned
<1>3. CASE /\ c.op = "accept"
           /\ \/ AcceptFriendInvite(c) \/ AcceptTooLate(c) \/ AcceptDeletes(c) \/ MatchReady(c)
              \/ Failed(c) \/ InviteAnswered(c)
  BY <1>3, AcceptTable DEF Turned
<1>4. CASE /\ c.op = "decline"
           /\ DeclineFriendInvite(c) \/ DeclineDeletes(c) \/ DeclineTold(c) \/ InviteAnswered(c)
  BY <1>4, DeclineTable DEF Turned
<1>5. CASE c.op = "look" /\ (LookAtInvites(c) \/ InvitesLoaded(c))
  BY <1>5, LookTable DEF Turned
<1>6. CASE CreateSession(c)
  BY <1>6, SessionTable DEF Turned
<1>7. CASE Rematches(c) \/ RematchLoaded(c)
  BY <1>7, RematchTable DEF Turned
<1>8. CASE \/ MatchEnded(c) \/ ChatSaved(c) \/ ActiveIndex(c) \/ GetActiveSessionForUser(c)
           \/ ActiveAnswered(c)
           \/ c.op = "acceptRematch" /\ MatchReady(c)
  BY <1>8, IndexTable DEF Turned, IndexStep
<1>9. CASE AddChatMessage(c)
  BY <1>9, ChatTable DEF Turned, IndexStep
<1>a. Invites(c) => \/ c.op = "create" /\ (\/ FriendshipChecked(c) \/ CreateLooks(c) \/ CreateRefused(c)
                                           \/ CreateFriendInvite(c) \/ InviteTold(c) \/ Failed(c))
                    \/ c.op = "accept" /\ (\/ AcceptFriendInvite(c) \/ AcceptTooLate(c)
                                           \/ AcceptDeletes(c) \/ Failed(c))
                    \/ c.op = "decline" /\ (\/ DeclineFriendInvite(c) \/ DeclineDeletes(c)
                                            \/ DeclineTold(c))
  BY DEF Invites, FriendshipChecked, CreateLooks, CreateRefused, CreateFriendInvite, InviteTold, Failed,
         AcceptFriendInvite, AcceptTooLate, AcceptDeletes, DeclineFriendInvite, DeclineDeletes, DeclineTold, At
<1>b. /\ LookAtInvites(c) \/ InvitesLoaded(c) => c.op = "look"
      /\ HandleLocalSent(c) => c.op = "create"
      /\ InviteAnswered(c) => c.op \in {"accept", "decline"}
      /\ MatchReady(c) => c.op \in {"accept", "acceptRematch"}
  BY DEF LookAtInvites, InvitesLoaded, HandleLocalSent, InviteAnswered, MatchReady, At
<1>. QED
  BY <1>2, <1>3, <1>4, <1>5, <1>6, <1>7, <1>8, <1>9, <1>a, <1>b DEF Acts, MatchSteps

LEMMA CallTable ==
    ASSUME TypeOK, NEW c \in calls, Command(c) \/ Acts(c)
    PROVE  Step
<1>1. CASE Command(c)
  BY <1>1, CommandTable DEF Step
<1>2. CASE Acts(c)
  BY <1>2, CallTurns DEF Step
<1>. QED
  BY <1>1, <1>2

LEMMA StepTable ==
    ASSUME TypeOK, [Next]_vars
    PROVE  Step
<1>1. CASE UNCHANGED vars
  BY <1>1 DEF vars, server, Step, Watches
<1>2. CASE Connected \/ Disconnected \/ EventArrives \/ ExpiryTimer
  BY <1>2 DEF Connected, Disconnected, EventArrives, ExpiryTimer, server, Step, Watches
<1>3. CASE Expire
  <2>1. PICK i \in DOMAIN offers \ expired : expired' = expired \cup {i}
    BY <1>3 DEF Expire
  <2>2. UNCHANGED <<redis, made, ghosts, calls, started>>
    BY <1>3 DEF Expire
  <2>. QED
    BY <2>1, <2>2 DEF Step, Passes
<1>4. CASE DisableHooks
  <2>1. calls' = { Blind(c) : c \in calls }
    BY <1>4 DEF DisableHooks, Blind
  <2>2. UNCHANGED <<redis, made, expired, ghosts, started>>
    BY <1>4 DEF DisableHooks, server
  <2>. QED
    BY <2>1, <2>2 DEF Step, Leaving
<1>5. CASE TimeToLive
  <2>. DEFINE key(i) == IF offers[i].kind = "invite" THEN <<"invite", i>>
                        ELSE <<"rematch", offers[i].match>>
              value(i) == IF offers[i].kind = "invite" THEN "pending" ELSE i
              pointers(i) == IF offers[i].kind = "invite"
                             THEN { k \in {<<"pending", To(i)>>, <<"outgoing", From(i)>>} :
                                      redis[k] = i }
                             ELSE { k \in {<<"rematchPending", To(i)>>} :
                                      redis[k] = offers[i].match }
  <2>1. PICK i \in expired :
         \/ redis[key(i)] = value(i) /\ redis' = [redis EXCEPT ![key(i)] = None]
         \/ /\ redis[key(i)] = None
            /\ \E k \in pointers(i) : redis' = [redis EXCEPT ![k] = None]
    BY <1>5 DEF TimeToLive
  <2>2. UNCHANGED <<made, expired, ghosts, calls, started>>
    BY <1>5 DEF TimeToLive
  <2>3. /\ i \in DOMAIN offers /\ key(i) = OfferKey(i) /\ i \in 1 .. MaxId
        /\ To(i) \in Users /\ From(i) \in Users
        /\ offers[i].kind = "invite" \/ (offers[i].kind = "rematch" /\ offers[i].match \in 1 .. MaxId)
    <3>1. i \in DOMAIN offers
      BY DEF TypeOK, MadeOK
    <3>2. offers[i].kind = "rematch" => offers[i].match \in DOMAIN matches
      BY <3>1 DEF TypeOK, MadeOK, RematchOffers
    <3>. QED
      BY <3>1, <3>2, OfferTypes DEF OfferKey
  <2>4. CASE redis' = [redis EXCEPT ![key(i)] = None]
    <3>1. OfferKey(i) \in Keys
      BY <2>3, KeyTypes DEF OfferKey
    <3>. QED
      BY <2>2, <2>3, <2>4, <3>1 DEF Step, Drops, Lost
  <2>5. ASSUME redis[key(i)] = None, NEW k \in pointers(i), redis' = [redis EXCEPT ![k] = None]
        PROVE  Step
    <3>1. CASE offers[i].kind = "invite"
      <4>1. /\ k \in {<<"pending", To(i)>>, <<"outgoing", From(i)>>} /\ redis[k] = i
            /\ redis[<<"invite", i>>] = None
        BY <2>5, <3>1
      <4>2. \E side \in Sides : k = <<side, PointedUser(side, i)>>
        BY <4>1 DEF Sides, PointedUser
      <4>3. k \in Keys
        BY <2>3, <4>1, KeyTypes
      <4>4. i \in FriendOffers
        BY <2>3, <3>1 DEF FriendOffers
      <4>. QED
        BY <2>2, <2>5, <4>1, <4>2, <4>3, <4>4 DEF Step, Drops, Lost
    <3>2. CASE offers[i].kind = "rematch"
      <4>1. k = <<"rematchPending", To(i)>>
        BY <3>2
      <4>2. k \in Keys /\ i \in RematchOffers
        BY <2>3, <3>2, <4>1, KeyTypes DEF RematchOffers
      <4>. QED
        BY <2>2, <2>5, <4>1, <4>2 DEF Step, Drops, Lost
    <3>. QED
      BY <2>3, <3>1, <3>2
  <2>. QED
    BY <2>1, <2>4, <2>5
<1>. QED
  BY <1>1, <1>2, <1>3, <1>4, <1>5, StartTable, CallTable DEF Next, Hooks, Acts
------------------------------------------------------------------------------
(* What is stored keeps fitting *)

Grown ==
    /\ \A i \in DOMAIN offers : i \in DOMAIN offers' /\ offers'[i] = offers[i]
    /\ \A m \in DOMAIN matches : m \in DOMAIN matches' /\ matches'[m] = matches[m]

LEMMA GrownKeeps ==
    ASSUME Grown
    PROVE  /\ \A i \in FriendOffers : i \in FriendOffers' /\ From(i)' = From(i) /\ To(i)' = To(i)
                                      /\ Parties(i)' = Parties(i)
           /\ \A i \in RematchOffers : i \in RematchOffers' /\ offers'[i].match = offers[i].match
           /\ \A k, v : Fits(k, v) => Fits(k, v)'
           /\ \A c : IdFits(c) => IdFits(c)'
<1>1. \A i \in FriendOffers : i \in FriendOffers' /\ From(i)' = From(i) /\ To(i)' = To(i)
                              /\ Parties(i)' = Parties(i)
  BY DEF Grown, FriendOffers, From, To, Parties
<1>2. \A i \in RematchOffers : i \in RematchOffers' /\ offers'[i].match = offers[i].match
  BY DEF Grown, RematchOffers
<1>3. \A m \in DOMAIN matches : m \in DOMAIN matches'
  BY DEF Grown
<1>4. ASSUME NEW k, NEW v, Fits(k, v) PROVE Fits(k, v)'
  BY <1>1, <1>2, <1>3, <1>4 DEF Fits
<1>5. ASSUME NEW c, IdFits(c) PROVE IdFits(c)'
  BY <1>1, <1>2, <1>3, <1>5 DEF IdFits
<1>. QED
  BY <1>1, <1>2, <1>4, <1>5

LEMMA TypeKept ==
    ASSUME TypeOK, Grown, MadeOK', started' \in Nat, DOMAIN redis' = Keys,
           \A k \in Keys : redis'[k] = redis[k] \/ Fits(k, redis'[k]),
           NEW C, calls' \subseteq calls \cup C,
           \A d \in C : /\ d \in Job /\ IdFits(d)'
                        /\ \A w \in Writings(d.todo) : Fits(w.key, w.value)'
    PROVE  TypeOK'
<1>1. StoreOK'
  <2>1. \A k \in Keys : Fits(k, redis'[k])
    BY DEF TypeOK, StoreOK
  <2>. QED
    BY <2>1, GrownKeeps DEF StoreOK
<1>2. CallsOK'
  <2>. SUFFICES ASSUME NEW c \in calls'
                PROVE  /\ c \in Job /\ IdFits(c)'
                       /\ \A w \in Writings(c.todo) : Fits(w.key, w.value)'
    BY DEF CallsOK
  <2>1. CASE c \in calls
    BY <2>1, CallTypes, GrownKeeps
  <2>2. CASE c \in C
    BY <2>2
  <2>. QED
    BY <2>1, <2>2
<1>. QED
  BY <1>1, <1>2 DEF TypeOK

LEMMA TypeStays ==
    ASSUME TypeOK, Grown, MadeOK', started' \in Nat, DOMAIN redis' = Keys,
           \A k \in Keys : redis'[k] = redis[k] \/ Fits(k, redis'[k]), calls' \subseteq calls
    PROVE  TypeOK'
<1>. DEFINE C == {}
<1>1. /\ calls' \subseteq calls \cup C
      /\ \A d \in C : d \in Job /\ IdFits(d)' /\ \A w \in Writings(d.todo) : Fits(w.key, w.value)'
  OBVIOUS
<1>. HIDE DEF C
<1>. QED
  BY <1>1, TypeKept

LEMMA FitsSet ==
    ASSUME TypeOK
    PROVE  /\ \A k : Fits(Del(k).key, Del(k).value)
           /\ \A i \in FriendOffers : \A w \in Writings(SaveFriendInvite(i)) : Fits(w.key, w.value)
           /\ \A i \in FriendOffers : \A w \in Writings(DeleteFriendInvite(i)) : Fits(w.key, w.value)
           /\ \A m \in DOMAIN matches : \A w \in Writings(DeleteRematchRequest(m)) : Fits(w.key, w.value)
<1>1. \A k : Fits(Del(k).key, Del(k).value) /\ Del(k).value = None
  BY DEF Fits, Del, Set
<1>2. ASSUME NEW i \in FriendOffers, NEW w \in Writings(SaveFriendInvite(i))
      PROVE  Fits(w.key, w.value)
  <2>1. w \in {Set(<<"invite", i>>, "pending"), Set(<<"pending", To(i)>>, i),
               Set(<<"outgoing", From(i)>>, i)}
    BY <1>2, SavesAre
  <2>. QED
    BY <2>1 DEF Fits, Set
<1>3. ASSUME NEW i \in FriendOffers, NEW w \in Writings(DeleteFriendInvite(i))
      PROVE  Fits(w.key, w.value)
  BY <1>1, <1>3, DeletesAre
<1>4. ASSUME NEW m \in DOMAIN matches, NEW w \in Writings(DeleteRematchRequest(m))
      PROVE  Fits(w.key, w.value)
  BY <1>1, <1>4, RematchDeletesAre
<1>. QED
  BY <1>1, <1>2, <1>3, <1>4

\* What a step of a call that makes no match leaves to do fits.
DoesFit(d) == IdFits(d) /\ \A w \in Writings(d.todo) : Fits(w.key, w.value)

LEMMA LooksUpFits ==
    ASSUME TypeOK, NEW c \in calls, NEW d, Goes(c, d), c.op \in {"create", "look"},
           NEW side \in Sides, NEW u \in Users,
           NEW found \in {"refused", "second", "answered"},
           NEW none \in {"outgoing", "save", "second", "answered"},
           LooksUp(c, d, side, u, found, none)
    PROVE  DoesFit(d)
<1>1. /\ d.op = c.op /\ d.by = c.by /\ d.id = c.id /\ IdFits(c)
      /\ \A w \in Writings(c.todo) : Fits(w.key, w.value)
  BY CallTypes DEF LooksUp, Turns, Goes
<1>2. redis[<<side, u>>] \in FriendOffers \cup {None} /\ Writings(<<>>) = {}
  BY PointerTypes, WritingsOf
<1>s. /\ Follow["pending"] = "follow pending" /\ Follow["outgoing"] = "follow outgoing"
      /\ Overdue["pending"] = "expire pending" /\ Overdue["outgoing"] = "expire outgoing"
      /\ Gone["pending"] = "expired pending" /\ Gone["outgoing"] = "expired outgoing"
      /\ side \in {"pending", "outgoing"}
  BY StageNames DEF Sides
<1>4. /\ c.at \in {Follow[side], Overdue[side]} => c.got \in FriendOffers
      /\ c.got \in FriendOffers \cup {None}
  BY <1>1, <1>s DEF IdFits
<1>6. d.got \in FriendOffers \cup {None}
  BY <1>2, <1>4 DEF LooksUp, Turns
<1>7. d.at \in {found, none} \/ d.got \in FriendOffers
  BY <1>2, <1>4 DEF LooksUp, Turns
<1>8. IdFits(d)
  <2>1. d.at \in {found, none} => \A s \in Sides : d.at \notin {Follow[s], Overdue[s], Gone[s]}
    BY <1>s DEF Sides
  <2>2. (\E s \in Sides : d.at \in {Follow[s], Overdue[s], Gone[s]}) => d.got \in FriendOffers
    BY <1>7, <2>1
  <2>. QED
    BY <1>1, <1>6, <2>2 DEF IdFits, Sides
<1>9. d.todo \in {<<>>, <<Del(<<side, u>>)>>} \/ \E i \in FriendOffers : d.todo = DeleteFriendInvite(i)
  BY <1>4 DEF LooksUp, Turns
<1>10. \A w \in Writings(d.todo) : Fits(w.key, w.value)
  <2>1. CASE d.todo = <<>>
    BY <1>2, <2>1
  <2>2. CASE d.todo = <<Del(<<side, u>>)>>
    <3>1. Writings(d.todo) = {Del(<<side, u>>)}
      BY <2>2, PointerTypes, Few
    <3>. QED
      BY <3>1, FitsSet
  <2>3. ASSUME NEW i \in FriendOffers, d.todo = DeleteFriendInvite(i)
        PROVE  \A w \in Writings(d.todo) : Fits(w.key, w.value)
    BY <2>3, FitsSet
  <2>. QED
    BY <1>9, <2>1, <2>2, <2>3
<1>. QED
  BY <1>8, <1>10 DEF DoesFit

LEMMA InviteStepFits ==
    ASSUME TypeOK, NEW c \in calls, NEW d, InviteStep(c, d)
    PROVE  DoesFit(d)
<1>0. Goes(c, d) /\ d.op = c.op /\ d.by = c.by /\ IdFits(c) /\ Writings(<<>>) = {}
  BY CallTypes, WritingsOf DEF InviteStep, Goes
<1>1. CASE Creates(c, d)
  <2>0. /\ c.id \in FriendOffers /\ From(c.id) \in Users /\ To(c.id) \in Users /\ c.op = "create"
        /\ "pending" \in Sides /\ "outgoing" \in Sides /\ c.op \in {"create", "look"}
        /\ "refused" \in {"refused", "second", "answered"}
        /\ "outgoing" \in {"outgoing", "save", "second", "answered"}
        /\ "save" \in {"outgoing", "save", "second", "answered"}
    BY <1>0, <1>1, OfferTypes DEF IdFits, FriendOffers, Creates, Sides
  <2>1. CASE LooksUp(c, d, "pending", To(c.id), "refused", "outgoing")
    BY <1>0, <2>0, <2>1, LooksUpFits
  <2>2. CASE LooksUp(c, d, "outgoing", From(c.id), "refused", "save")
    BY <1>0, <2>0, <2>2, LooksUpFits
  <2>3. CASE d.at = "told" /\ d.id = c.id /\ d.got = c.got /\ d.todo = SaveFriendInvite(c.id)
    <3>1. IdFits(d)
      BY <1>0, <2>0, <2>3, StageNames DEF IdFits
    <3>. QED
      BY <2>0, <2>3, <3>1, FitsSet DEF DoesFit
  <2>4. CASE \/ Turns(c, d, "begin", "pending") \/ Turns(c, d, "begin", "failed")
             \/ Turns(c, d, "refused", "failed") \/ Turns(c, d, "told", "created")
    <3>1. /\ d.at \in {"pending", "failed", "created"} /\ d.id = c.id /\ d.got = c.got
          /\ d.todo = <<>>
      BY <2>4 DEF Turns
    <3>2. IdFits(d)
      BY <1>0, <2>0, <3>1, StageNames DEF IdFits
    <3>. QED
      BY <1>0, <3>1, <3>2 DEF DoesFit
  <2>. QED
    BY <1>1, <2>1, <2>2, <2>3, <2>4 DEF Creates
<1>2. CASE Accepts(c, d)
  <2>1. /\ c.op = "accept" /\ d.id = c.id /\ d.todo \in {<<>>, DeleteFriendInvite(c.id)}
        /\ d.at # "announce"
    BY <1>2, StageNames DEF Accepts, Turns
  <2>2. c.id \in FriendOffers
    BY <1>0, <2>1 DEF IdFits
  <2>3. IdFits(d)
    BY <1>0, <2>1 DEF IdFits
  <2>. QED
    BY <1>0, <2>1, <2>2, <2>3, FitsSet DEF DoesFit
<1>3. CASE Declines(c, d)
  <2>1. c.op = "decline" /\ d.id = c.id /\ d.todo \in {<<>>, DeleteFriendInvite(c.id)}
    BY <1>3 DEF Declines, Turns
  <2>2. c.id \in FriendOffers
    BY <1>0, <2>1 DEF IdFits
  <2>3. IdFits(d)
    BY <1>0, <2>1 DEF IdFits
  <2>. QED
    BY <1>0, <2>1, <2>2, <2>3, FitsSet DEF DoesFit
<1>4. CASE Looks(c, d)
  <2>0. /\ Me \in Users /\ c.op = "look"
        /\ "pending" \in Sides /\ "outgoing" \in Sides /\ c.op \in {"create", "look"}
        /\ "second" \in {"refused", "second", "answered"}
        /\ "answered" \in {"refused", "second", "answered"}
        /\ "second" \in {"outgoing", "save", "second", "answered"}
        /\ "answered" \in {"outgoing", "save", "second", "answered"}
    BY <1>4, LobbyAssumption DEF Looks, Sides
  <2>1. CASE LooksUp(c, d, "pending", Me, "second", "second")
    BY <1>0, <2>0, <2>1, LooksUpFits
  <2>2. CASE LooksUp(c, d, "outgoing", Me, "answered", "answered")
    BY <1>0, <2>0, <2>2, LooksUpFits
  <2>3. CASE Turns(c, d, "begin", "pending")
    <3>1. d.at = "pending" /\ d.id = c.id /\ d.got = c.got /\ d.todo = <<>>
      BY <2>3 DEF Turns
    <3>2. IdFits(d)
      BY <1>0, <2>0, <3>1, StageNames DEF IdFits
    <3>. QED
      BY <1>0, <3>1, <3>2 DEF DoesFit
  <2>4. CASE /\ c.at = "second" /\ d.at = "outgoing" /\ d.got = None /\ d.todo = <<>>
             /\ d.id = (IF c.got = None THEN 0 ELSE c.got)
    <3>1. d.id \in FriendOffers \cup {0}
      BY <1>0, <2>0, <2>4 DEF IdFits
    <3>2. IdFits(d)
      BY <1>0, <2>0, <2>4, <3>1, StageNames DEF IdFits
    <3>. QED
      BY <1>0, <2>4, <3>2 DEF DoesFit
  <2>. QED
    BY <1>4, <2>1, <2>2, <2>3, <2>4 DEF Looks
<1>. QED
  BY <1>1, <1>2, <1>3, <1>4 DEF InviteStep

LEMMA RematchStepFits ==
    ASSUME TypeOK, NEW c \in calls, NEW d, RematchStep(c, d)
    PROVE  DoesFit(d)
<1>0. /\ d.op = c.op /\ d.by = c.by /\ IdFits(c) /\ Writings(<<>>) = {}
      /\ d.got \in Nat \cup {None}
  BY CallTypes, WritingsOf DEF RematchStep, Goes, Job
<1>1. CASE AcceptsRematch(c, d) \/ DeclinesRematch(c, d)
  <2>1. /\ c.op \in {"acceptRematch", "declineRematch"} /\ c.id \in RematchOffers
        /\ offers[c.id].match \in DOMAIN matches /\ d.at # "announce"
    <3>1. c.op \in {"acceptRematch", "declineRematch"} /\ d.at # "announce"
      BY <1>1 DEF AcceptsRematch, DeclinesRematch
    <3>. QED
      BY <1>0, <3>1 DEF IdFits, TypeOK, MadeOK
  <2>2. redis[<<"rematch", offers[c.id].match>>] \in RematchOffers \cup {None}
    <3>. DEFINE k == <<"rematch", offers[c.id].match>>
    <3>1. k \in Keys
      BY <2>1, OfferTypes, KeyTypes
    <3>2. Fits(k, redis[k])
      BY <3>1 DEF TypeOK, StoreOK
    <3>. QED
      BY <3>2 DEF Fits
  <2>3. d.id \in RematchOffers
    BY <1>1, <2>1, <2>2 DEF AcceptsRematch, DeclinesRematch
  <2>4. IdFits(d)
    BY <1>0, <2>1, <2>3 DEF IdFits
  <2>5. d.todo \in {<<>>, DeleteRematchRequest(offers[c.id].match)}
    BY <1>1 DEF AcceptsRematch, DeclinesRematch
  <2>6. \A w \in Writings(d.todo) : Fits(w.key, w.value)
    BY <1>0, <2>1, <2>5, FitsSet
  <2>. QED
    BY <2>4, <2>6 DEF DoesFit
<1>2. CASE LooksForRematch(c, d)
  <2>1. c.op = "lookRematch"
    BY <1>2 DEF LooksForRematch
  <2>2. redis[<<"rematchPending", Me>>] \in DOMAIN matches \cup {None}
    <3>. DEFINE k == <<"rematchPending", Me>>
    <3>1. k \in Keys
      BY KeyTypes, LobbyAssumption
    <3>2. Fits(k, redis[k])
      BY <3>1 DEF TypeOK, StoreOK
    <3>. QED
      BY <3>2 DEF Fits
  <2>3. /\ d.got \in DOMAIN matches \cup {None}
        /\ d.at \in {"session", "follow"} => d.got \in DOMAIN matches
    BY <1>0, <1>2, <2>1, <2>2 DEF LooksForRematch, IdFits
  <2>4. IdFits(d)
    BY <1>0, <2>1, <2>3 DEF IdFits
  <2>5. \/ d.todo = <<>> \/ d.todo = <<Del(<<"rematchPending", Me>>)>>
        \/ c.got \in DOMAIN matches /\ d.todo = DeleteRematchRequest(c.got)
    BY <1>0, <1>2 DEF LooksForRematch, IdFits
  <2>6. Del(<<"rematchPending", Me>>) \in Writing
    BY KeyTypes, LobbyAssumption, SetType DEF Value
  <2>7. \A w \in Writings(d.todo) : Fits(w.key, w.value)
    <3>1. Writings(<<Del(<<"rematchPending", Me>>)>>) = {Del(<<"rematchPending", Me>>)}
      BY <2>6, Few
    <3>. QED
      BY <1>0, <2>5, <3>1, FitsSet
  <2>. QED
    BY <2>4, <2>7 DEF DoesFit
<1>. QED
  BY <1>1, <1>2 DEF RematchStep

LEMMA SavedFits ==
    ASSUME TypeOK, NEW m \in DOMAIN matches, NEW status \in {"live", "over"},
           NEW u \in Users, NEW v \in Users, NEW w \in Writings(SaveState(m, status, <<u, v>>))
    PROVE  Fits(w.key, w.value)
<1>. DEFINE n == IF status = "over" THEN None ELSE m
<1>1. m \in 1 .. MaxId
  BY OfferTypes
<1>2. w \in {Set(<<"session", m>>, status), Set(<<"active", u>>, n), Set(<<"active", v>>, n)}
  BY <1>1, SavedStateIs
<1>. QED
  BY <1>2 DEF Fits, Set

LEMMA ActiveStepFits ==
    ASSUME TypeOK, NEW c \in calls, NEW d, ActiveStep(c, d)
    PROVE  DoesFit(d)
<1>0. /\ d.op = c.op /\ d.by = c.by /\ IdFits(c) /\ Writings(<<>>) = {} /\ c.op = "active"
  BY CallTypes, WritingsOf DEF ActiveStep, Goes
<1>1. <<"active", Me>> \in Keys
  BY KeyTypes, LobbyAssumption
<1>2. redis[<<"active", Me>>] \in DOMAIN matches \cup {None}
  BY <1>1 DEF TypeOK, StoreOK, Fits
<1>3. d.got \in DOMAIN matches
  BY <1>0, <1>2 DEF ActiveStep, IdFits
<1>4. IdFits(d)
  BY <1>0, <1>3 DEF IdFits
<1>5. Writings(<<Del(<<"active", Me>>)>>) = {Del(<<"active", Me>>)}
  BY <1>1, SetType, Few DEF Value
<1>6. d.todo = <<>> \/ d.todo = <<Del(<<"active", Me>>)>>
  BY DEF ActiveStep
<1>. QED
  BY <1>0, <1>4, <1>5, <1>6, FitsSet DEF DoesFit

LEMMA ChatStepFits ==
    ASSUME TypeOK, NEW c \in calls, NEW d, ChatStep(c, d)
    PROVE  DoesFit(d)
<1>1. /\ d.op = "chat" /\ d.id = c.id /\ c.id \in DOMAIN matches /\ c.at \in {"live", "over"}
  BY CallTypes DEF ChatStep, Goes, IdFits
<1>2. PICK u \in Users, v \in Users : d.todo = SaveState(c.id, c.at, <<u, v>>)
  BY DEF ChatStep
<1>3. \A w \in Writings(d.todo) : Fits(w.key, w.value)
  BY <1>1, <1>2, SavedFits
<1>4. IdFits(d)
  BY <1>1 DEF IdFits
<1>. QED
  BY <1>3, <1>4 DEF DoesFit

LEMMA IndexStepFits ==
    ASSUME TypeOK, NEW c \in calls, NEW d, IndexStep(c, d)
    PROVE  DoesFit(d)
BY ActiveStepFits, ChatStepFits DEF IndexStep

LEMMA MatchAdded ==
    ASSUME TypeOK, NEW us, us \subseteq Users, NEW id \in DOMAIN offers,
           \E u, v \in Users : us = {u, v}, Len(matches) < MaxId,
           matches' = Append(matches, NewMatch(us, id)), UNCHANGED <<offers, expired>>
    PROVE  /\ Grown /\ MadeOK' /\ DOMAIN matches' = DOMAIN matches \cup {Len(matches) + 1}
           /\ Len(matches) + 1 \notin DOMAIN matches /\ Len(matches) + 1 \in 1 .. MaxId
           /\ matches'[Len(matches) + 1].players = us /\ matches'[Len(matches) + 1].from = id
<1>. DEFINE m == Len(matches) + 1
            g == NewMatch(us, id)
<1>0. /\ matches \in Seq(Game) /\ Len(matches) \in Nat /\ DOMAIN matches = 1 .. Len(matches)
      /\ id \in Nat
  BY OfferTypes, MaxIdIsFour DEF TypeOK, MadeOK
<1>1. g \in Game /\ g.players = us /\ g.from = id
  BY <1>0 DEF NewMatch, Game
<1>. HIDE DEF g
<1>2. /\ matches' \in Seq(Game) /\ Len(matches') = m /\ DOMAIN matches' = 1 .. m
      /\ matches'[m] = g /\ \A k \in 1 .. Len(matches) : matches'[k] = matches[k]
  <2>1. matches' = Append(matches, g)
    BY DEF g
  <2>. QED
    BY <1>0, <1>1, <2>1, AppendProperties, LenProperties
<1>3. /\ DOMAIN matches' = DOMAIN matches \cup {m} /\ m \notin DOMAIN matches /\ m \in 1 .. MaxId
  BY <1>0, <1>2, MaxIdIsFour
<1>4. Grown
  BY <1>0, <1>2, <1>3 DEF Grown
<1>5. MadeOK'
  <2>1. offers' = offers /\ expired' = expired
    OBVIOUS
  <2>2. Len(matches') <= MaxId
    BY <1>0, <1>2, MaxIdIsFour
  <2>3. \A k \in DOMAIN matches' : matches'[k].from \in DOMAIN offers \cup {0}
    BY <1>0, <1>1, <1>2, <1>3 DEF TypeOK, MadeOK
  <2>4. \A k \in DOMAIN matches' : \E u, v \in Users : matches'[k].players = {u, v}
    BY <1>0, <1>1, <1>2, <1>3 DEF TypeOK, MadeOK
  <2>5. \A i \in RematchOffers : offers[i].match \in DOMAIN matches'
    BY <1>3 DEF TypeOK, MadeOK
  <2>. QED
    BY <1>2, <2>1, <2>2, <2>3, <2>4, <2>5
       DEF TypeOK, MadeOK, From, To, RematchOffers
<1>. QED
  BY <1>1, <1>2, <1>3, <1>4, <1>5

LEMMA OfferAdded ==
    ASSUME TypeOK, NEW o \in Offer, o.from # o.to, o.kind = "rematch" => o.match \in DOMAIN matches,
           Len(offers) < MaxId, offers' = Append(offers, o), UNCHANGED <<matches, expired>>
    PROVE  /\ Grown /\ MadeOK' /\ DOMAIN offers' = DOMAIN offers \cup {Len(offers) + 1}
           /\ Len(offers) + 1 \notin DOMAIN offers /\ Len(offers) + 1 \in 1 .. MaxId
           /\ offers'[Len(offers) + 1] = o
<1>. DEFINE j == Len(offers) + 1
<1>0. /\ offers \in Seq(Offer) /\ Len(offers) \in Nat /\ DOMAIN offers = 1 .. Len(offers)
  BY OfferTypes DEF TypeOK, MadeOK
<1>2. /\ offers' \in Seq(Offer) /\ Len(offers') = j /\ DOMAIN offers' = 1 .. j
      /\ offers'[j] = o /\ \A k \in 1 .. Len(offers) : offers'[k] = offers[k]
  BY <1>0, AppendProperties, LenProperties
<1>3. DOMAIN offers' = DOMAIN offers \cup {j} /\ j \notin DOMAIN offers /\ j \in 1 .. MaxId
  BY <1>0, <1>2, MaxIdIsFour
<1>4. Grown
  BY <1>0, <1>2, <1>3 DEF Grown
<1>5. MadeOK'
  <2>1. Len(offers') <= MaxId
    BY <1>0, <1>2, MaxIdIsFour
  <2>2. \A k \in DOMAIN offers' : From(k)' # To(k)'
    BY <1>0, <1>2, <1>3 DEF TypeOK, MadeOK, From, To
  <2>3. \A k \in RematchOffers' : offers'[k].match \in DOMAIN matches
    BY <1>0, <1>2, <1>3 DEF TypeOK, MadeOK, RematchOffers
  <2>. QED
    BY <1>2, <1>3, <2>1, <2>2, <2>3 DEF TypeOK, MadeOK, From, To, RematchOffers
<1>. QED
  BY <1>2, <1>3, <1>4, <1>5

LEMMA SameMade ==
    ASSUME TypeOK, UNCHANGED <<made, expired>>
    PROVE  /\ Grown /\ MadeOK' /\ FriendOffers' = FriendOffers /\ RematchOffers' = RematchOffers
           /\ \A i : From(i)' = From(i) /\ To(i)' = To(i) /\ Parties(i)' = Parties(i)
           /\ offers' = offers /\ matches' = matches
BY DEF TypeOK, made, Grown, MadeOK, FriendOffers, RematchOffers, From, To, Parties

LEMMA MakesMatchAdds ==
    ASSUME TypeOK, NEW c \in calls, NEW d, MakesMatch(c, d)
    PROVE  /\ Grown /\ MadeOK' /\ DOMAIN matches' = DOMAIN matches \cup {Len(matches) + 1}
           /\ Len(matches) + 1 \notin DOMAIN matches /\ Len(matches) + 1 \in 1 .. MaxId
           /\ matches'[Len(matches) + 1].players = {Seats(c)[1], Seats(c)[2]}
           /\ matches'[Len(matches) + 1].from = c.id
           /\ \A m \in DOMAIN matches : matches'[m] = matches[m]
<1>. DEFINE us == {Seats(c)[1], Seats(c)[2]}
<1>0. /\ c.op \in {"accept", "acceptRematch"} /\ Len(matches) < MaxId
      /\ matches' = Append(matches, NewMatch(us, c.id)) /\ UNCHANGED <<offers, expired>>
  BY DEF MakesMatch
<1>1. us \subseteq Users /\ (\E u, v \in Users : us = {u, v}) /\ c.id \in DOMAIN offers
  BY <1>0, SeatTypes
<1>. HIDE DEF us
<1>2. /\ Grown /\ MadeOK' /\ DOMAIN matches' = DOMAIN matches \cup {Len(matches) + 1}
      /\ Len(matches) + 1 \notin DOMAIN matches /\ Len(matches) + 1 \in 1 .. MaxId
      /\ matches'[Len(matches) + 1].players = us /\ matches'[Len(matches) + 1].from = c.id
  BY <1>0, <1>1, MatchAdded
<1>. QED
  BY <1>2 DEF us, Grown

LEMMA MakesMatchFits ==
    ASSUME TypeOK, NEW c \in calls, NEW d, MakesMatch(c, d)
    PROVE  /\ d \in Job /\ IdFits(d)'
           /\ \A w \in Writings(d.todo) : Fits(w.key, w.value)'
<1>. DEFINE m == Len(matches) + 1
            u == Seats(c)[1]
            v == Seats(c)[2]
<1>0. /\ d \in Job /\ d.op = c.op /\ d.by = c.by /\ d.at = "announce" /\ d.id = c.id /\ d.got = m
      /\ d.todo = SaveState(m, "live", Seats(c)) /\ c.op \in {"accept", "acceptRematch"}
      /\ IdFits(c)
  BY CallTypes DEF MakesMatch, Goes
<1>1. Grown /\ m \in DOMAIN matches' /\ m \in 1 .. MaxId
  BY MakesMatchAdds
<1>2. IdFits(d)'
  <2>1. IdFits(c)'
    BY <1>0, <1>1, GrownKeeps
  <2>. HIDE DEF m
  <2>. QED
    BY <1>0, <1>1, <2>1, StageNames DEF IdFits
<1>3. u \in Users /\ v \in Users /\ Seats(c) = <<u, v>>
  BY <1>0, SeatTypes
<1>. HIDE DEF m, u, v
<1>4. Writings(d.todo) = {Set(<<"session", m>>, "live"), Set(<<"active", u>>, m), Set(<<"active", v>>, m)}
  BY <1>0, <1>1, <1>3, SavedStateIs
<1>5. \A w \in Writings(d.todo) : Fits(w.key, w.value)'
  BY <1>1, <1>4 DEF Fits, Set
<1>. QED
  BY <1>0, <1>2, <1>5

LEMMA StartedFits ==
    ASSUME TypeOK, NEW c, Started(c)
    PROVE  /\ Grown /\ MadeOK' /\ redis' = redis /\ Joins({c}) /\ c \in Job /\ IdFits(c)'
           /\ \A w \in Writings(c.todo) : Fits(w.key, w.value)'
<1>0. Writings(<<>>) = {} /\ DOMAIN offers = 1 .. Len(offers) /\ Len(offers) \in Nat
  BY WritingsOf, OfferTypes
<1>1. ASSUME NEW u \in Users, NEW v \in Users, AsksForMatch(c, u, v)
      PROVE  /\ Grown /\ MadeOK' /\ redis' = redis /\ Joins({c}) /\ c \in Job /\ IdFits(c)'
             /\ \A w \in Writings(c.todo) : Fits(w.key, w.value)'
  <2>. DEFINE o == [kind |-> "invite", from |-> u, to |-> v, match |-> 0]
              j == Len(offers) + 1
  <2>1. o \in Offer /\ o.from = u /\ o.to = v /\ o.kind = "invite"
    BY DEF Offer
  <2>2. /\ u # v /\ Len(offers) < MaxId /\ Joins({c}) /\ Begun(c, "create", u, j, <<>>)
        /\ offers' = Append(offers, o) /\ UNCHANGED <<redis, matches, expired>>
    BY <1>1 DEF AsksForMatch
  <2>. HIDE DEF o
  <2>3. Grown /\ MadeOK' /\ offers'[j] = o /\ j \in DOMAIN offers'
    BY <2>1, <2>2, OfferAdded
  <2>. HIDE DEF j
  <2>4. IdFits(c)'
    BY <2>1, <2>2, <2>3, StageNames DEF IdFits, Begun, FriendOffers, From, Sides
  <2>. QED
    BY <1>0, <2>2, <2>3, <2>4 DEF Begun
<1>2. ASSUME NEW u \in Users, NEW v \in Users, NEW m \in DOMAIN matches, RequestsRematch(c, u, v, m)
      PROVE  /\ Grown /\ MadeOK' /\ redis' = redis /\ Joins({c}) /\ c \in Job /\ IdFits(c)'
             /\ \A w \in Writings(c.todo) : Fits(w.key, w.value)'
  <2>. DEFINE o == [kind |-> "rematch", from |-> u, to |-> v, match |-> m]
              j == Len(offers) + 1
              a == Set(<<"rematch", m>>, j)
              b == Set(<<"rematchPending", v>>, m)
  <2>1. o \in Offer /\ o.from = u /\ o.to = v /\ o.kind = "rematch" /\ o.match = m
    BY OfferTypes DEF Offer
  <2>2. /\ u # v /\ Len(offers) < MaxId /\ Joins({c})
        /\ Begun(c, "requestRematch", u, j, <<a, b>>)
        /\ offers' = Append(offers, o) /\ UNCHANGED <<redis, matches, expired>>
    BY <1>2 DEF RequestsRematch
  <2>. HIDE DEF o
  <2>3. Grown /\ MadeOK' /\ offers'[j] = o /\ j \in DOMAIN offers' /\ j \in 1 .. MaxId
    BY <2>1, <2>2, OfferAdded
  <2>4. a \in Writing /\ b \in Writing
    <3>1. j \in Value /\ m \in Value
      BY <1>0, OfferTypes DEF Value
    <3>. HIDE DEF j
    <3>2. m \in 1 .. MaxId
      BY OfferTypes
    <3>. QED
      BY <3>1, <3>2, KeyTypes, SetType
  <2>. HIDE DEF j
  <2>5. /\ a.key = <<"rematch", m>> /\ a.value = j /\ b.key = <<"rematchPending", v>> /\ b.value = m
    BY DEF Set
  <2>. HIDE DEF a, b
  <2>6. Writings(<<a, b>>) = {a, b} /\ c.todo = <<a, b>>
    BY <2>2, <2>4, Few DEF Begun
  <2>7. IdFits(c)'
    BY <2>1, <2>2, <2>3 DEF IdFits, Begun, RematchOffers
  <2>8. ASSUME NEW w \in Writings(c.todo) PROVE Fits(w.key, w.value)'
    <3>1. CASE w = a
      BY <2>1, <2>3, <2>5, <3>1 DEF Fits, RematchOffers
    <3>2. CASE w = b
      <4>1. m \in DOMAIN matches'
        BY <2>3 DEF Grown
      <4>. QED
        BY <2>5, <3>2, <4>1 DEF Fits
    <3>. QED
      BY <2>6, <3>1, <3>2
  <2>. QED
    BY <2>2, <2>3, <2>7, <2>8 DEF Begun
<1>3. ASSUME UNCHANGED <<redis, made, expired>>, Joins({c}), c \in Job, DoesFit(c)
      PROVE  /\ Grown /\ MadeOK' /\ redis' = redis /\ Joins({c}) /\ c \in Job /\ IdFits(c)'
             /\ \A w \in Writings(c.todo) : Fits(w.key, w.value)'
  BY <1>3, SameMade, GrownKeeps DEF DoesFit
<1>4. ASSUME NEW i \in DOMAIN offers, Answers(c, i) \/ AnswersRematch(c, i)
      PROVE  UNCHANGED <<redis, made, expired>> /\ Joins({c}) /\ c \in Job /\ DoesFit(c)
  <2>1. CASE Answers(c, i)
    <3>1. /\ UNCHANGED <<redis, made, expired>> /\ Joins({c}) /\ c \in Job /\ c.todo = <<>>
          /\ i \in FriendOffers /\ c.id = i
          /\ \/ c.op = "accept" /\ c.by = To(i) /\ c.at = "begin"
             \/ c.op = "decline" /\ c.by \in Parties(i) /\ c.at = "begin"
      BY <2>1 DEF Answers, Begun
    <3>2. IdFits(c)
      BY <3>1 DEF IdFits
    <3>. QED
      BY <1>0, <3>1, <3>2 DEF DoesFit
  <2>2. CASE AnswersRematch(c, i)
    <3>1. /\ UNCHANGED <<redis, made, expired>> /\ Joins({c}) /\ c \in Job /\ c.todo = <<>>
          /\ i \in RematchOffers /\ c.id = i /\ c.by \in Parties(i) /\ c.at = "begin"
          /\ c.op \in {"acceptRematch", "declineRematch"}
      BY <2>2 DEF AnswersRematch, Begun
    <3>2. Parties(i) \subseteq Users
      BY OfferTypes DEF Parties
    <3>3. IdFits(c)
      BY <3>1, <3>2 DEF IdFits
    <3>. QED
      BY <1>0, <3>1, <3>3 DEF DoesFit
  <2>. QED
    BY <1>4, <2>1, <2>2
<1>5. ASSUME NEW u \in Users, NEW v \in Users, NEW m \in DOMAIN matches, Closes(c, m, u, v)
      PROVE  UNCHANGED <<redis, made, expired>> /\ Joins({c}) /\ c \in Job /\ DoesFit(c)
  <2>1. /\ UNCHANGED <<redis, made, expired>> /\ Joins({c}) /\ c \in Job
        /\ c.op = "end" /\ c.id = m /\ c.todo = SaveState(m, "over", <<u, v>>)
    BY <1>5 DEF Closes, Begun
  <2>2. IdFits(c)
    BY <2>1 DEF IdFits
  <2>3. \A w \in Writings(c.todo) : Fits(w.key, w.value)
    BY <2>1, SavedFits
  <2>. QED
    BY <2>1, <2>2, <2>3 DEF DoesFit
<1>7. ASSUME NEW m \in DOMAIN matches, Chats(c, m)
      PROVE  UNCHANGED <<redis, made, expired>> /\ Joins({c}) /\ c \in Job /\ DoesFit(c)
  <2>1. /\ UNCHANGED <<redis, made, expired>> /\ Joins({c}) /\ c \in Job
        /\ c.op = "chat" /\ c.id = m /\ c.todo = <<>>
    BY <1>7 DEF Chats
  <2>2. IdFits(c)
    BY <2>1 DEF IdFits
  <2>. QED
    BY <1>0, <2>1, <2>2 DEF DoesFit
<1>6. ASSUME AsksForActive(c)
      PROVE  UNCHANGED <<redis, made, expired>> /\ Joins({c}) /\ c \in Job /\ DoesFit(c)
  <2>1. /\ UNCHANGED <<redis, made, expired>> /\ Joins({c}) /\ c \in Job
        /\ c.op = "active" /\ c.by = Me /\ c.at = "begin" /\ c.todo = <<>> /\ c.got = None
    BY <1>6 DEF AsksForActive, Begun
  <2>2. IdFits(c)
    BY <2>1 DEF IdFits
  <2>. QED
    BY <1>0, <2>1, <2>2 DEF DoesFit
<1>. QED
  BY <1>1, <1>2, <1>3, <1>4, <1>5, <1>6, <1>7 DEF Started

LEMMA OpensFits ==
    ASSUME TypeOK, NEW c, NEW d, Opens(c, d)
    PROVE  c \in Job /\ d \in Job /\ DoesFit(c) /\ DoesFit(d)
<1>1. /\ c \in Job /\ c.op = "look" /\ c.id = 0 /\ c.at = "begin" /\ c.got = None /\ c.todo = <<>>
      /\ d \in Job /\ d.op = "lookRematch" /\ d.at = "begin" /\ d.got = None /\ d.todo = <<>>
  BY DEF Opens, Begun
<1>2. IdFits(c) /\ IdFits(d)
  BY <1>1, StageNames DEF IdFits, Sides
<1>. QED
  BY <1>1, <1>2, WritingsOf DEF DoesFit

LEMMA BlindIs ==
    ASSUME TypeOK, NEW c \in calls
    PROVE  /\ Blind(c) \in Job /\ Blind(c).op = c.op /\ Blind(c).at = c.at /\ Blind(c).id = c.id
           /\ Blind(c).got = c.got /\ Blind(c).todo = c.todo
           /\ Blind(c).by = (IF c.op \in {"look", "lookRematch"} THEN None ELSE c.by)
           /\ c.op \notin {"look", "lookRematch"} => Blind(c) = c
           /\ DoesFit(Blind(c))
<1>0. c \in Job /\ IdFits(c) /\ \A w \in Writings(c.todo) : Fits(w.key, w.value)
  BY CallTypes
<1>1. /\ Blind(c) \in Job /\ Blind(c).op = c.op /\ Blind(c).at = c.at /\ Blind(c).id = c.id
      /\ Blind(c).got = c.got /\ Blind(c).todo = c.todo
      /\ Blind(c).by = (IF c.op \in {"look", "lookRematch"} THEN None ELSE c.by)
      /\ c.op \notin {"look", "lookRematch"} => Blind(c) = c
  BY <1>0 DEF Blind, Job
<1>2. IdFits(Blind(c))
  BY <1>0, <1>1 DEF IdFits
<1>. QED
  BY <1>0, <1>1, <1>2 DEF DoesFit

LEMMA TypeStep ==
    ASSUME TypeOK, Step
    PROVE  TypeOK'
<1>0. started \in Nat /\ DOMAIN redis = Keys
  BY DEF TypeOK, StoreOK
<1>1. ASSUME NEW c \in calls, EndOfCall(c) PROVE TypeOK'
  <2>1. /\ calls' \subseteq calls /\ started' = started
        /\ UNCHANGED <<redis, made, expired>>
    BY <1>1 DEF EndOfCall, Leaves
  <2>. QED
    BY <1>0, <2>1, SameMade, TypeStays
<1>2. ASSUME NEW c \in calls, NEW d, InviteStep(c, d) \/ RematchStep(c, d) \/ IndexStep(c, d)
      PROVE  TypeOK'
  <2>1. /\ calls' \subseteq calls \cup {d} /\ started' = started /\ d \in Job
        /\ UNCHANGED <<redis, made, expired>>
    BY <1>2 DEF InviteStep, RematchStep, IndexStep, ActiveStep, ChatStep, Goes
  <2>2. DoesFit(d)
    BY <1>2, InviteStepFits, RematchStepFits, IndexStepFits
  <2>3. /\ Grown /\ MadeOK' /\ IdFits(d)'
        /\ \A w \in Writings(d.todo) : Fits(w.key, w.value)'
    BY <2>1, <2>2, SameMade, GrownKeeps DEF DoesFit
  <2>. DEFINE C == {d}
  <2>4. \A e \in C : e \in Job /\ IdFits(e)' /\ \A w \in Writings(e.todo) : Fits(w.key, w.value)'
    BY <2>1, <2>3
  <2>5. calls' \subseteq calls \cup C
    BY <2>1
  <2>. HIDE DEF C
  <2>. QED
    BY <1>0, <2>1, <2>3, <2>4, <2>5, TypeKept
<1>3. ASSUME NEW c \in calls, NEW d, MakesMatch(c, d) PROVE TypeOK'
  <2>1. calls' \subseteq calls \cup {d} /\ started' = started /\ redis' = redis
    BY <1>3 DEF MakesMatch, Goes
  <2>2. /\ Grown /\ MadeOK' /\ d \in Job /\ IdFits(d)'
        /\ \A w \in Writings(d.todo) : Fits(w.key, w.value)'
    BY <1>3, MakesMatchAdds, MakesMatchFits
  <2>. DEFINE C == {d}
  <2>4. \A e \in C : e \in Job /\ IdFits(e)' /\ \A w \in Writings(e.todo) : Fits(w.key, w.value)'
    BY <2>2
  <2>5. calls' \subseteq calls \cup C
    BY <2>1
  <2>. HIDE DEF C
  <2>. QED
    BY <1>0, <2>1, <2>2, <2>4, <2>5, TypeKept
<1>4. ASSUME NEW c \in calls, NEW d, Writes1(c, d) PROVE TypeOK'
  <2>1. /\ calls' \subseteq calls \cup {d} /\ started' = started /\ d \in Job
        /\ UNCHANGED <<made, expired>> /\ c.todo # <<>>
        /\ redis' = [redis EXCEPT ![Head(c.todo).key] = Head(c.todo).value]
        /\ d.op = c.op /\ d.by = c.by /\ d.at = c.at /\ d.id = c.id /\ d.got = c.got
        /\ d.todo = Tail(c.todo)
    BY <1>4 DEF Writes1, Is
  <2>2. /\ c.todo \in Seq(Writing) /\ IdFits(c)
        /\ \A w \in Writings(c.todo) : Fits(w.key, w.value)
    BY CallTypes
  <2>3. /\ Head(c.todo) \in Writings(c.todo) /\ Writings(d.todo) \subseteq Writings(c.todo)
        /\ Head(c.todo) \in Writing
    BY <2>1, <2>2, WritingsOfTail
  <2>4. DoesFit(d)
    <3>1. IdFits(d)
      BY <2>1, <2>2 DEF IdFits
    <3>. QED
      BY <2>2, <2>3, <3>1 DEF DoesFit
  <2>5. DOMAIN redis' = Keys /\ \A k \in Keys : redis'[k] = redis[k] \/ Fits(k, redis'[k])
    BY <1>0, <2>1, <2>2, <2>3
  <2>6. /\ Grown /\ MadeOK' /\ IdFits(d)'
        /\ \A w \in Writings(d.todo) : Fits(w.key, w.value)'
    BY <2>1, <2>4, SameMade, GrownKeeps DEF DoesFit
  <2>. DEFINE C == {d}
  <2>7. \A e \in C : e \in Job /\ IdFits(e)' /\ \A w \in Writings(e.todo) : Fits(w.key, w.value)'
    BY <2>1, <2>6
  <2>8. calls' \subseteq calls \cup C /\ started' \in Nat
    BY <1>0, <2>1
  <2>. HIDE DEF C
  <2>. QED
    BY <2>5, <2>6, <2>7, <2>8, TypeKept
<1>5. ASSUME NEW c, Started(c) PROVE TypeOK'
  <2>1. /\ Grown /\ MadeOK' /\ redis' = redis /\ calls' = calls \cup {c} /\ started' \in Nat
        /\ c \in Job /\ IdFits(c)' /\ \A w \in Writings(c.todo) : Fits(w.key, w.value)'
    BY <1>5, StartedFits DEF Joins
  <2>. DEFINE C == {c}
  <2>2. \A e \in C : e \in Job /\ IdFits(e)' /\ \A w \in Writings(e.todo) : Fits(w.key, w.value)'
    BY <2>1
  <2>3. calls' \subseteq calls \cup C
    BY <2>1
  <2>. HIDE DEF C
  <2>. QED
    BY <1>0, <2>1, <2>2, <2>3, TypeKept
<1>6. ASSUME NEW c, NEW d, Opens(c, d) PROVE TypeOK'
  <2>1. UNCHANGED <<redis, made, expired>> /\ calls' = calls \cup {c, d} /\ started' \in Nat
    BY <1>6 DEF Opens, Joins
  <2>2. c \in Job /\ d \in Job /\ DoesFit(c) /\ DoesFit(d)
    BY <1>6, OpensFits
  <2>. DEFINE C == {c, d}
  <2>3. \A e \in C : e \in Job /\ IdFits(e)' /\ \A w \in Writings(e.todo) : Fits(w.key, w.value)'
    BY <2>1, <2>2, SameMade, GrownKeeps DEF DoesFit
  <2>4. calls' \subseteq calls \cup C
    BY <2>1
  <2>. HIDE DEF C
  <2>. QED
    BY <1>0, <2>1, <2>3, <2>4, SameMade, TypeKept
<1>7. CASE Leaving
  <2>1. /\ calls' = { Blind(c) : c \in calls } /\ started' = started
        /\ UNCHANGED <<redis, made, expired>>
    BY <1>7 DEF Leaving
  <2>. DEFINE C == { Blind(c) : c \in calls }
  <2>2. \A e \in C : e \in Job /\ DoesFit(e)
    BY BlindIs
  <2>3. \A e \in C : e \in Job /\ IdFits(e)' /\ \A w \in Writings(e.todo) : Fits(w.key, w.value)'
    BY <2>1, <2>2, SameMade, GrownKeeps DEF DoesFit
  <2>4. calls' \subseteq calls \cup C
    BY <2>1
  <2>. HIDE DEF C
  <2>. QED
    BY <1>0, <2>1, <2>3, <2>4, SameMade, TypeKept
<1>8. CASE Passes
  <2>1. PICK i \in DOMAIN offers : expired' = expired \cup {i} /\ UNCHANGED <<redis, made, calls, started>>
    BY <1>8 DEF Passes
  <2>2. MadeOK'
    BY <2>1 DEF TypeOK, MadeOK, made, From, To, RematchOffers
  <2>3. Grown
    BY <2>1 DEF Grown, made
  <2>. QED
    BY <1>0, <2>1, <2>2, <2>3, TypeStays
<1>9. CASE Watches
  BY <1>0, <1>9, SameMade, TypeStays DEF Watches
<1>10. ASSUME NEW i, NEW k, Drops(i, k) PROVE TypeOK'
  <2>1. /\ k \in Keys /\ redis' = [redis EXCEPT ![k] = None] /\ UNCHANGED <<made, expired, calls, started>>
    BY <1>10 DEF Drops
  <2>2. DOMAIN redis' = Keys /\ \A x \in Keys : redis'[x] = redis[x] \/ Fits(x, redis'[x])
    BY <1>0, <2>1 DEF Fits
  <2>. QED
    BY <1>0, <2>1, <2>2, SameMade, TypeStays
<1>. QED
  BY <1>1, <1>2, <1>3, <1>4, <1>5, <1>6, <1>7, <1>8, <1>9, <1>10 DEF Step, Turned

LEMMA TypeInit == Init => TypeOK
<1>. SUFFICES ASSUME Init PROVE TypeOK
  OBVIOUS
<1>1. PICK u \in Users \ {Me} : matches = <<NewMatch({Me, u}, 0)>>
  BY DEF Init
<1>2. /\ redis = [k \in Keys |-> IF k = <<"session", 1>> THEN "over" ELSE None]
      /\ offers = <<>> /\ expired = {} /\ calls = {} /\ started = 0
  BY DEF Init
<1>. DEFINE g == NewMatch({Me, u}, 0)
<1>3. g \in Game /\ g.from = 0 /\ g.players = {Me, u} /\ Me \in Users
  BY LobbyAssumption DEF Game, NewMatch
<1>. HIDE DEF g
<1>4. /\ matches \in Seq(Game) /\ Len(matches) = 1 /\ DOMAIN matches = {1} /\ matches[1] = g
  BY <1>1, <1>3 DEF g
<1>5. MadeOK
  <2>1. offers \in Seq(Offer) /\ Len(offers) = 0 /\ DOMAIN offers = {}
    BY <1>2
  <2>. QED
    BY <1>2, <1>3, <1>4, <2>1, MaxIdIsFour DEF MadeOK, RematchOffers
<1>6. StoreOK
  <2>1. \A k \in Keys : Fits(k, redis[k])
    BY <1>2, <1>4 DEF Fits
  <2>. QED
    BY <1>2, <2>1 DEF StoreOK
<1>. QED
  BY <1>2, <1>5, <1>6 DEF TypeOK, CallsOK
------------------------------------------------------------------------------
(* One match for an offer: the steps *)

LEMMA IdsKnown ==
    ASSUME TypeOK
    PROVE  /\ \A c \in calls : c.op \in {"create", "accept", "decline"} => c.id \in FriendOffers
           /\ \A c \in calls : c.op \in {"requestRematch", "acceptRematch", "declineRematch"} =>
                 c.id \in RematchOffers
           /\ FriendOffers \cap RematchOffers = {}
           /\ FriendOffers \subseteq DOMAIN offers /\ RematchOffers \subseteq DOMAIN offers
           /\ 0 \notin DOMAIN offers
           /\ \A i \in FriendOffers : OfferKey(i) = <<"invite", i>>
                                      /\ (Stored(i) <=> redis[<<"invite", i>>] # None)
           /\ \A i \in RematchOffers : OfferKey(i) = <<"rematch", offers[i].match>>
                                      /\ (Stored(i) <=> redis[<<"rematch", offers[i].match>>] = i)
<1>1. /\ \A c \in calls : c.op \in {"create", "accept", "decline"} => c.id \in FriendOffers
      /\ \A c \in calls : c.op \in {"requestRematch", "acceptRematch", "declineRematch"} =>
                 c.id \in RematchOffers
  BY CallTypes DEF IdFits
<1>2. 0 \notin DOMAIN offers
  BY OfferTypes, MaxIdIsFour
<1>3. /\ FriendOffers \cap RematchOffers = {}
      /\ FriendOffers \subseteq DOMAIN offers /\ RematchOffers \subseteq DOMAIN offers
  BY DEF FriendOffers, RematchOffers
<1>4. /\ \A i \in FriendOffers : offers[i].kind = "invite"
      /\ \A i \in RematchOffers : offers[i].kind # "invite"
  BY DEF FriendOffers, RematchOffers
<1>5. /\ \A i \in FriendOffers : OfferKey(i) = <<"invite", i>>
                                      /\ (Stored(i) <=> redis[<<"invite", i>>] # None)
      /\ \A i \in RematchOffers : OfferKey(i) = <<"rematch", offers[i].match>>
                                      /\ (Stored(i) <=> redis[<<"rematch", offers[i].match>>] = i)
  BY <1>4 DEF OfferKey, Stored
<1>. QED
  BY <1>1, <1>2, <1>3, <1>5

LEMMA TakersKnown ==
    ASSUME TypeOK
    PROVE  /\ \A c \in calls : Takes(c) \/ Saves(c) => c.id \in DOMAIN offers /\ c.id # 0
           /\ \A c, d \in calls : c.op = "accept" /\ d.op = "acceptRematch" => c.id # d.id
           /\ \A c, d \in calls : c.op = "accept" /\ d.op = "requestRematch" => c.id # d.id
           /\ \A c, d \in calls : c.op = "create" /\ d.op = "acceptRematch" => c.id # d.id
BY IdsKnown DEF Takes, Saves

\* Fewer calls and fewer offers that are stored.
LEMMA OnceFewer ==
    ASSUME TypeOK, Once, UNCHANGED <<made, raced>>, \A i \in DOMAIN offers : Stored(i)' => Stored(i),
           \A e \in calls' : \/ e \in calls
                             \/ /\ e.op \in {"look", "lookRematch"}
                                /\ \E f \in calls : f.op = e.op /\ f.todo = e.todo
    PROVE  Once'
<1>0. /\ offers' = offers /\ matches' = matches /\ raced' = raced
      /\ \A i : OfferKey(i)' = OfferKey(i)
  BY DEF made, OfferKey
<1>1. \A e \in calls' : e.op \notin {"look", "lookRematch"} => e \in calls
  OBVIOUS
<1>2. MakersStore'
  <2>. SUFFICES ASSUME NEW e \in calls' PROVE MakesOnly(e)'
    BY DEF MakersStore
  <2>1. CASE e \in calls
    BY <1>0, <2>1 DEF MakesOnly, Once, MakersStore
  <2>2. ASSUME NEW f \in calls, f.op = e.op, f.todo = e.todo, e.op \in {"look", "lookRematch"}
        PROVE  MakesOnly(e)'
    BY <1>0, <2>2 DEF MakesOnly, Once, MakersStore
  <2>. QED
    BY <2>1, <2>2
<1>3. OneMaker'
  <2>1. \A c \in calls' : c.op \in {"requestRematch", "create", "accept", "decline"} => c \in calls
    BY <1>1
  <2>2. \A c \in calls : c.op = "requestRematch" => c.id \in DOMAIN offers
    BY IdsKnown
  <2>. QED
    BY <2>1, <2>2 DEF Once, OneMaker, Saves
<1>4. FreshIsFree'
  BY <1>0, <1>1 DEF Once, FreshIsFree, Saves, Takes
<1>5. UsedIsGone'
  BY <1>0 DEF Once, UsedIsGone, TypeOK, MadeOK
<1>6. TakenOnce'
  BY <1>0, <1>1 DEF Once, TakenOnce, Takes
<1>7. TakenIsGone'
  <2>1. \A c \in calls' : Takes(c) => c \in calls /\ c.id \in DOMAIN offers
    BY <1>1, TakersKnown DEF Takes
  <2>. QED
    BY <1>0, <2>1 DEF Once, TakenIsGone
<1>8. OneMatchPerOffer'
  BY <1>0 DEF Once, OneMatchPerOffer
<1>. QED
  BY <1>2, <1>3, <1>4, <1>5, <1>6, <1>7, <1>8 DEF Once

\* A call goes on and makes no match.
LEMMA OnceMoves ==
    ASSUME TypeOK, TypeOK', Once, NEW c \in calls, NEW d, Goes(c, d), UNCHANGED <<redis, made>>,
           raced \subseteq raced', MakesOnly(d),
           d.op # "requestRematch", d.op \in {"create", "accept", "decline"} => d.id = c.id,
           Saves(d) => Saves(c),
           Takes(d) => \/ Takes(c) /\ d.id = c.id
                       \/ /\ Stored(d.id)
                          /\ \A e \in calls \ {c} : Takes(e) /\ e.id = d.id => d.id \in raced'
                          /\ \A e \in calls : Saves(e) => e.id # d.id,
           Takes(d) /\ d.at = "create" =>
               ~Stored(d.id) \/ (d.todo # <<>> /\ Head(d.todo) = Del(OfferKey(d.id)))
    PROVE  Once'
<1>0. /\ offers' = offers /\ matches' = matches /\ redis' = redis
      /\ \A i : (OfferKey(i)' = OfferKey(i)) /\ (Stored(i)' <=> Stored(i))
  BY DEF made, OfferKey, Stored
<1>1. /\ d.op = c.op /\ calls' = (calls \ {c}) \cup {d} /\ d \in calls'
  BY DEF Goes
<1>2. MakersStore'
  BY <1>0, <1>1 DEF MakesOnly, Once, MakersStore
<1>3. OneMaker'
  <2>1. \A a, b \in calls' : a.op = "requestRematch" /\ b.op = "requestRematch" /\ a.id = b.id => a = b
    BY <1>1 DEF Once, OneMaker
  <2>2. \A a, b \in calls' : a.op = "create" /\ b.op = "create" /\ a.id = b.id => a = b
    BY <1>1 DEF Once, OneMaker
  <2>3. \A a, b \in calls' : a.op = "create" /\ Saves(a) /\ b.op \in {"accept", "decline"} => a.id # b.id
    BY <1>1 DEF Once, OneMaker
  <2>4. \A a \in calls' : a.op = "requestRematch" /\ Saves(a) => ~Stored(a.id)'
    BY <1>0, <1>1 DEF Once, OneMaker
  <2>5. \A a \in calls' : a.op = "requestRematch" => Len(a.todo) <= 2
    BY <1>1 DEF Once, OneMaker
  <2>. QED
    BY <2>1, <2>2, <2>3, <2>4, <2>5 DEF OneMaker
<1>4. FreshIsFree'
  <2>1. \A e \in calls' : Saves(e) => \E f \in calls : Saves(f) /\ f.id = e.id
    BY <1>1 DEF Saves
  <2>2. \A e \in calls' : Takes(e) => \/ \E f \in calls : Takes(f) /\ f.id = e.id
                                      \/ \A f \in calls : Saves(f) => f.id # e.id
    BY <1>1
  <2>. QED
    BY <1>0, <2>1, <2>2 DEF Once, FreshIsFree
<1>5. UsedIsGone'
  BY <1>0 DEF Once, UsedIsGone
<1>6. TakenOnce'
  <2>0. c.id \in Nat /\ d.id \in Nat /\ (Takes(d) => d.id \in DOMAIN offers /\ d.id # 0)
    <3>1. IdFits(d)' /\ d \in Job
      BY <1>1 DEF TypeOK, CallsOK
    <3>2. Takes(d) => d.id \in DOMAIN offers
      BY <1>0, <3>1 DEF Takes, IdFits, FriendOffers, RematchOffers
    <3>. QED
      BY <3>1, <3>2, CallTypes, IdsKnown DEF Job
  <2>1. ASSUME NEW e \in calls \ {c}, Takes(e), Takes(d), e.id = d.id PROVE d.id \in raced'
    BY <2>1 DEF Once, TakenOnce
  <2>2. ASSUME NEW m \in DOMAIN matches, Takes(d), matches[m].from = d.id PROVE d.id \in raced'
    <3>1. ~Stored(d.id)
      BY <2>0, <2>2 DEF Once, UsedIsGone
    <3>. QED
      BY <2>2, <3>1 DEF Once, TakenOnce
  <2>3. \A a, b \in calls \ {c} : Takes(a) /\ Takes(b) /\ a.id = b.id /\ a # b => a.id \in raced'
    BY DEF Once, TakenOnce
  <2>4. \A a \in calls \ {c} : \A m \in DOMAIN matches :
           Takes(a) /\ matches[m].from = a.id => a.id \in raced'
    BY DEF Once, TakenOnce
  <2>5. \A a, b \in calls' : Takes(a) /\ Takes(b) /\ a.id = b.id /\ a # b => a.id \in raced'
    BY <1>1, <2>1, <2>3
  <2>6. \A a \in calls' : \A m \in DOMAIN matches :
           Takes(a) /\ matches[m].from = a.id => a.id \in raced'
    BY <1>1, <2>2, <2>4
  <2>. QED
    BY <1>0, <2>5, <2>6 DEF TakenOnce
<1>7. TakenIsGone'
  BY <1>0, <1>1 DEF Once, TakenIsGone
<1>8. OneMatchPerOffer'
  BY <1>0 DEF Once, OneMatchPerOffer
<1>. QED
  BY <1>2, <1>3, <1>4, <1>5, <1>6, <1>7, <1>8 DEF Once

LEMMA WriteStores ==
    ASSUME TypeOK, Once, NEW c \in calls, NEW d, Writes1(c, d), NEW i \in DOMAIN offers, Stored(i)'
    PROVE  Stored(i) \/ (Saves(c) /\ i = c.id)
<1>. DEFINE w == c.todo[1]
<1>0. /\ c.todo \in Seq(Writing) /\ c.todo # <<>> /\ offers' = offers
      /\ redis' = [redis EXCEPT ![Head(c.todo).key] = Head(c.todo).value]
  BY CallTypes DEF Writes1, made
<1>1. /\ 1 \in DOMAIN c.todo /\ Head(c.todo) = w /\ w \in Writing /\ w.key \in Keys
      /\ Len(c.todo) \in Nat
  <2>1. Len(c.todo) \in Nat /\ DOMAIN c.todo = 1 .. Len(c.todo) /\ Len(c.todo) # 0
    BY <1>0, EmptySeq, LenProperties
  <2>2. Head(c.todo) = w /\ Head(c.todo) \in Writing
    BY <1>0, HeadTailProperties
  <2>3. w.key \in Keys
    BY <2>2 DEF Writing
  <2>. QED
    BY <2>1, <2>2, <2>3
<1>2. DOMAIN redis = Keys /\ i \in Nat /\ None \notin Nat
  BY OfferTypes, LobbyAssumption DEF TypeOK, StoreOK
<1>3. w.key[1] \in {"invite", "rematch"} /\ w.value # None =>
            /\ w.key = OfferKey(c.id)
            /\ \/ c.op = "create" /\ c.at = "told" /\ Len(c.todo) = 3
               \/ c.op = "requestRematch" /\ Len(c.todo) = 2 /\ w.value = c.id
  BY <1>1 DEF Once, MakersStore, MakesOnly
<1>. HIDE DEF w
<1>4. c.op = "create" => c.id \in FriendOffers /\ OfferKey(c.id) = <<"invite", c.id>>
  BY IdsKnown
<1>5. c.op = "requestRematch" => OfferKey(c.id) = <<"rematch", offers[c.id].match>>
  BY IdsKnown
<1>6. CASE offers[i].kind = "invite"
  <2>1. redis'[<<"invite", i>>] # None
    BY <1>0, <1>6 DEF Stored
  <2>2. CASE w.key = <<"invite", i>>
    <3>1. w.value # None
      BY <1>0, <1>1, <1>2, <2>1, <2>2
    <3>2. w.key[1] = "invite"
      BY <2>2
    <3>3. c.op = "create" /\ c.at = "told" /\ Len(c.todo) = 3 /\ c.id = i
      BY <1>3, <1>4, <1>5, <2>2, <3>1, <3>2
    <3>. QED
      BY <3>3 DEF Saves, Saved
  <2>3. CASE w.key # <<"invite", i>>
    BY <1>0, <1>1, <1>2, <1>6, <2>1, <2>3 DEF Stored
  <2>. QED
    BY <2>2, <2>3
<1>7. CASE offers[i].kind # "invite"
  <2>. DEFINE k == <<"rematch", offers[i].match>>
  <2>1. redis'[k] = i /\ i # None
    BY <1>0, <1>2, <1>7 DEF Stored
  <2>2. CASE w.key = k
    <3>1. w.value = i
      BY <1>0, <1>1, <1>2, <2>1, <2>2
    <3>2. w.key[1] = "rematch"
      BY <2>2
    <3>. QED
      BY <1>3, <1>4, <1>5, <2>1, <2>2, <3>1, <3>2 DEF Saves
  <2>3. CASE w.key # k
    <3>1. redis'[k] = redis[k]
      BY <1>0, <1>1, <2>3
    <3>. QED
      BY <1>7, <2>1, <3>1 DEF Stored
  <2>. QED
    BY <2>2, <2>3
<1>. QED
  BY <1>6, <1>7

LEMMA OnceWrites ==
    ASSUME TypeOK, Once, NEW c \in calls, NEW d, Writes1(c, d)
    PROVE  Once'
<1>0. /\ offers' = offers /\ matches' = matches /\ raced' = raced
      /\ \A i : (OfferKey(i)' = OfferKey(i))
      /\ redis' = [redis EXCEPT ![Head(c.todo).key] = Head(c.todo).value]
      /\ c.todo \in Seq(Writing) /\ c.todo # <<>>
  BY CallTypes DEF made, OfferKey, Writes1, ghosts
<1>1. /\ d.op = c.op /\ d.at = c.at /\ d.id = c.id /\ d.todo = Tail(c.todo)
      /\ calls' = (calls \ {c}) \cup {d} /\ d \in calls'
  BY DEF Writes1, Is
<1>2. /\ Len(d.todo) = Len(c.todo) - 1 /\ Len(c.todo) \in Nat
      /\ \A j \in DOMAIN d.todo : /\ j + 1 \in DOMAIN c.todo /\ d.todo[j] = c.todo[j + 1]
                                  /\ j \in Nat /\ j > 0
  BY <1>0, <1>1, WritingsOfTail, LenProperties, HeadTailProperties
<1>3. MakersStore'
  <2>1. MakesOnly(d)
    BY <1>2 DEF MakesOnly, Once, MakersStore
  <2>. QED
    BY <1>0, <1>1, <2>1 DEF MakesOnly, Once, MakersStore
<1>s. \A i \in DOMAIN offers : Stored(i)' => Stored(i) \/ (Saves(c) /\ i = c.id)
  BY WriteStores
<1>l. \A a \in calls : a.op = "requestRematch" => Len(a.todo) <= 2
  BY DEF Once, OneMaker
<1>n. Len(d.todo) = Len(c.todo) - 1 /\ Len(c.todo) \in Nat
  BY <1>2
<1>t. /\ Saves(d) => Saves(c) /\ d.op = "create"
      /\ Takes(d) <=> Takes(c)
  <2>1. c.op = "requestRematch" => Len(d.todo) # 2
    <3>1. c.op = "requestRematch" => Len(c.todo) <= 2
      BY <1>l
    <3>2. ASSUME NEW x \in Nat, NEW y, y = x - 1, x <= 2 PROVE y # 2
      BY <3>2
    <3>. QED
      BY <1>n, <3>1, <3>2
  <2>2. Saves(d) => Saves(c) /\ d.op = "create"
    <3>1. Len(c.todo) < 3 => Len(d.todo) < 3
      <4>1. ASSUME NEW x \in Nat, NEW y, y = x - 1, x < 3 PROVE y < 3
        BY <4>1
      <4>. QED
        BY <1>n, <4>1
    <3>. QED
      BY <1>1, <2>1, <3>1 DEF Saves, Saved
  <2>3. Takes(d) <=> Takes(c)
    BY <1>1 DEF Takes
  <2>. QED
    BY <2>2, <2>3
<1>4. OneMaker'
  <2>1. \A a, b \in calls' : a.op = "requestRematch" /\ b.op = "requestRematch" /\ a.id = b.id => a = b
    BY <1>1 DEF Once, OneMaker
  <2>2. \A a, b \in calls' : a.op = "create" /\ b.op = "create" /\ a.id = b.id => a = b
    BY <1>1 DEF Once, OneMaker
  <2>3. \A a, b \in calls' : a.op = "create" /\ Saves(a) /\ b.op \in {"accept", "decline"} => a.id # b.id
    BY <1>1, <1>t DEF Once, OneMaker
  <2>4. ASSUME NEW a \in calls', a.op = "requestRematch", Saves(a) PROVE ~Stored(a.id)'
    <3>1. a \in calls /\ a # c
      BY <1>1, <1>t, <2>4 DEF Saves
    <3>2. ~Stored(a.id) /\ a.id \in DOMAIN offers /\ a.id \in RematchOffers
      BY <2>4, <3>1, IdsKnown DEF Once, OneMaker
    <3>3. ~(Saves(c) /\ c.id = a.id)
      <4>1. CASE c.op = "create"
        BY <3>2, <4>1, IdsKnown
      <4>2. CASE c.op = "requestRematch"
        BY <2>4, <3>1, <4>2 DEF Once, OneMaker
      <4>. QED
        BY <4>1, <4>2 DEF Saves
    <3>. QED
      BY <1>s, <3>2, <3>3
  <2>5. \A a \in calls' : a.op = "requestRematch" => Len(a.todo) <= 2
    <3>1. c.op = "requestRematch" => Len(d.todo) <= 2
      <4>1. c.op = "requestRematch" => Len(c.todo) <= 2
        BY <1>l
      <4>. QED
        BY <1>n, <4>1
    <3>. QED
      BY <1>1, <1>l, <3>1
  <2>. QED
    BY <2>1, <2>2, <2>3, <2>4, <2>5 DEF OneMaker
<1>5. FreshIsFree'
  <2>1. \A e \in calls' : Saves(e) => \E f \in calls : Saves(f) /\ f.id = e.id
    BY <1>1, <1>t
  <2>2. \A e \in calls' : Takes(e) => \E f \in calls : Takes(f) /\ f.id = e.id
    BY <1>1, <1>t
  <2>. QED
    BY <1>0, <2>1, <2>2 DEF Once, FreshIsFree
<1>6. UsedIsGone'
  <2>1. ASSUME NEW m \in DOMAIN matches, NEW i, i = matches[m].from, i # 0, Stored(i)'
        PROVE  FALSE
    <3>1. i \in DOMAIN offers
      BY <2>1 DEF TypeOK, MadeOK
    <3>2. ~Stored(i)
      BY <2>1 DEF Once, UsedIsGone
    <3>3. Saves(c) /\ i = c.id
      BY <1>s, <2>1, <3>1, <3>2
    <3>. QED
      BY <2>1, <3>3 DEF Once, FreshIsFree
  <2>. QED
    BY <1>0, <2>1 DEF UsedIsGone, Stored
<1>7. TakenOnce'
  <2>1. \A a, b \in calls' : Takes(a) /\ Takes(b) /\ a.id = b.id /\ a # b => a.id \in raced
    BY <1>1, <1>t DEF Once, TakenOnce
  <2>2. \A a \in calls' : \A m \in DOMAIN matches :
           Takes(a) /\ matches[m].from = a.id => a.id \in raced
    BY <1>1, <1>t DEF Once, TakenOnce
  <2>. QED
    BY <1>0, <2>1, <2>2 DEF TakenOnce
<1>8. TakenIsGone'
  <2>1. ASSUME NEW a \in calls \ {c}, Takes(a), a.at = "create"
        PROVE  ~Stored(a.id)' \/ (a.todo # <<>> /\ Head(a.todo) = Del(OfferKey(a.id)))
    <3>1. a.id \in DOMAIN offers /\ ~(Saves(c) /\ c.id = a.id)
      BY <2>1, TakersKnown DEF Once, FreshIsFree
    <3>. QED
      BY <1>s, <2>1, <3>1 DEF Once, TakenIsGone
  <2>2. ASSUME Takes(c), c.at = "create" PROVE ~Stored(c.id)'
    <3>1. c.id \in DOMAIN offers /\ ~Saves(c) /\ c.id \in Nat /\ c.id # None
      BY <2>2, TakersKnown, OfferTypes, LobbyAssumption DEF Saves, Takes
    <3>2. CASE ~Stored(c.id)
      BY <1>s, <3>1, <3>2
    <3>3. CASE Head(c.todo) = Del(OfferKey(c.id))
      <4>1. /\ Head(c.todo).key = OfferKey(c.id) /\ Head(c.todo).value = None
            /\ Head(c.todo).key \in DOMAIN redis
        <5>1. Head(c.todo) \in Writing
          BY <1>0, HeadTailProperties
        <5>. QED
          BY <3>3, <5>1 DEF Del, Set, Writing, TypeOK, StoreOK
      <4>2. redis'[OfferKey(c.id)] = None
        BY <1>0, <4>1
      <4>. QED
        BY <1>0, <3>1, <4>2 DEF Stored, OfferKey
    <3>. QED
      BY <2>2, <3>2, <3>3 DEF Once, TakenIsGone
  <2>. QED
    BY <1>0, <1>1, <1>t, <2>1, <2>2 DEF TakenIsGone
<1>9. OneMatchPerOffer'
  BY <1>0 DEF Once, OneMatchPerOffer
<1>. QED
  BY <1>3, <1>4, <1>5, <1>6, <1>7, <1>8, <1>9 DEF Once

LEMMA DelIs ==
    \A k, v : /\ Set(k, v).key = k /\ Set(k, v).value = v
             /\ Del(k).key = k /\ Del(k).value = None
BY DEF Del, Set

LEMMA DeletesClear ==
    ASSUME TypeOK
    PROVE  /\ \A i \in FriendOffers : \A w \in Writings(DeleteFriendInvite(i)) : w.value = None
           /\ \A m \in DOMAIN matches : \A w \in Writings(DeleteRematchRequest(m)) : w.value = None
<1>1. ASSUME NEW i \in FriendOffers, NEW w \in Writings(DeleteFriendInvite(i)) PROVE w.value = None
  <2>1. w \in {Del(<<"invite", i>>), Del(<<"pending", To(i)>>), Del(<<"outgoing", From(i)>>)}
    BY <1>1, DeletesAre
  <2>2. \E k : w = Del(k)
    BY <2>1
  <2>. QED
    BY <2>2, DelIs
<1>2. ASSUME NEW m \in DOMAIN matches, NEW w \in Writings(DeleteRematchRequest(m))
      PROVE  w.value = None
  <2>1. w \in {Del(<<"rematch", m>>), Del(<<"rematchPending", To(redis[<<"rematch", m>>])>>)}
    BY <1>2, RematchDeletesAre
  <2>2. \E k : w = Del(k)
    BY <2>1
  <2>. QED
    BY <2>2, DelIs
<1>. QED
  BY <1>1, <1>2

LEMMA QuietWrites ==
    ASSUME NEW c, \A w \in Writings(c.todo) : w.key[1] \notin {"invite", "rematch"} \/ w.value = None
    PROVE  MakesOnly(c)
BY DEF MakesOnly, Writings

LEMMA OnceMakes ==
    ASSUME TypeOK, Once, NEW c \in calls, NEW d, MakesMatch(c, d)
    PROVE  Once'
<1>. DEFINE m == Len(matches) + 1
            u == Seats(c)[1]
            v == Seats(c)[2]
<1>0. /\ offers' = offers /\ raced' = raced /\ redis' = redis
      /\ \A i : (OfferKey(i)' = OfferKey(i)) /\ (Stored(i)' <=> Stored(i))
  BY DEF MakesMatch, OfferKey, Stored
<1>1. /\ d.op = c.op /\ c.op \in {"accept", "acceptRematch"} /\ c.at = "create" /\ c.todo = <<>>
      /\ d.at = "announce" /\ d.id = c.id /\ d.todo = SaveState(m, "live", Seats(c))
      /\ calls' = (calls \ {c}) \cup {d} /\ d \in calls'
  BY DEF MakesMatch, Goes
<1>2. /\ DOMAIN matches' = DOMAIN matches \cup {m} /\ m \notin DOMAIN matches /\ m \in 1 .. MaxId
      /\ matches'[m].from = c.id /\ \A k \in DOMAIN matches : matches'[k] = matches[k]
  BY MakesMatchAdds
<1>3. Takes(c) /\ ~Takes(d) /\ ~Saves(d) /\ c.id \in DOMAIN offers /\ c.id # 0
  BY <1>1, TakersKnown DEF Takes, Saves
<1>4. MakersStore'
  <2>1. u \in Users /\ v \in Users /\ Seats(c) = <<u, v>>
    BY <1>1, SeatTypes
  <2>. HIDE DEF m, u, v
  <2>2. Writings(d.todo) = {Set(<<"session", m>>, "live"), Set(<<"active", u>>, m), Set(<<"active", v>>, m)}
    BY <1>1, <1>2, <2>1, SavedStateIs
  <2>3. MakesOnly(d)
    BY <2>2, QuietWrites DEF Set
  <2>. QED
    BY <1>0, <1>1, <2>3 DEF MakesOnly, Once, MakersStore
<1>. HIDE DEF m
<1>5. OneMaker'
  <2>1. \A a, b \in calls' : a.op = "requestRematch" /\ b.op = "requestRematch" /\ a.id = b.id => a = b
    BY <1>1 DEF Once, OneMaker
  <2>2. \A a, b \in calls' : a.op = "create" /\ b.op = "create" /\ a.id = b.id => a = b
    BY <1>1 DEF Once, OneMaker
  <2>3. \A a, b \in calls' : a.op = "create" /\ Saves(a) /\ b.op \in {"accept", "decline"} => a.id # b.id
    BY <1>1 DEF Once, OneMaker
  <2>4. \A a \in calls' : a.op = "requestRematch" /\ Saves(a) => ~Stored(a.id)'
    BY <1>0, <1>1 DEF Once, OneMaker
  <2>5. \A a \in calls' : a.op = "requestRematch" => Len(a.todo) <= 2
    BY <1>1 DEF Once, OneMaker
  <2>. QED
    BY <2>1, <2>2, <2>3, <2>4, <2>5 DEF OneMaker
<1>6. FreshIsFree'
  <2>1. \A e \in calls' : Saves(e) => e \in calls /\ e.id # c.id
    BY <1>1, <1>3 DEF Once, FreshIsFree
  <2>2. \A e \in calls' : Takes(e) => e \in calls
    BY <1>1, <1>3
  <2>. QED
    BY <1>2, <2>1, <2>2 DEF Once, FreshIsFree
<1>7. UsedIsGone'
  <2>1. ~Stored(c.id)
    BY <1>1, <1>3 DEF Once, TakenIsGone
  <2>2. ASSUME NEW k \in DOMAIN matches', NEW i, i = matches'[k].from, i # 0 PROVE ~Stored(i)'
    <3>1. CASE k = m
      BY <1>0, <1>2, <2>1, <2>2, <3>1
    <3>2. CASE k \in DOMAIN matches
      BY <1>0, <1>2, <2>2, <3>2 DEF Once, UsedIsGone
    <3>. QED
      BY <1>2, <3>1, <3>2
  <2>. QED
    BY <2>2 DEF UsedIsGone, Stored
<1>8. TakenOnce'
  <2>1. \A a \in calls' : Takes(a) => a \in calls \ {c}
    BY <1>1, <1>3
  <2>2. \A a \in calls \ {c} : Takes(a) /\ a.id = c.id => a.id \in raced
    BY <1>3 DEF Once, TakenOnce
  <2>3. \A a \in calls : \A k \in DOMAIN matches : Takes(a) /\ matches[k].from = a.id => a.id \in raced
    BY DEF Once, TakenOnce
  <2>4. \A a \in calls' : \A k \in DOMAIN matches' :
           Takes(a) /\ matches'[k].from = a.id => a.id \in raced
    BY <1>2, <2>1, <2>2, <2>3
  <2>5. \A a, b \in calls' : Takes(a) /\ Takes(b) /\ a.id = b.id /\ a # b => a.id \in raced
    BY <2>1 DEF Once, TakenOnce
  <2>. QED
    BY <1>0, <2>4, <2>5 DEF TakenOnce
<1>9. TakenIsGone'
  BY <1>0, <1>1, <1>3 DEF Once, TakenIsGone
<1>10. OneMatchPerOffer'
  <2>1. \A k \in DOMAIN matches : matches[k].from = c.id => c.id \in raced
    BY <1>3 DEF Once, TakenOnce
  <2>. QED
    BY <1>0, <1>2, <2>1 DEF Once, OneMatchPerOffer
<1>. QED
  BY <1>4, <1>5, <1>6, <1>7, <1>8, <1>9, <1>10 DEF Once

\* New calls, and the offer one of them may make.
LEMMA OnceStarts ==
    ASSUME TypeOK, TypeOK', Once, Grown, NEW C, calls' = calls \cup C, UNCHANGED <<redis, matches, raced>>,
           \A c \in C : /\ ~Takes(c) /\ MakesOnly(c)'
                        /\ c.op \in {"create", "requestRematch"} =>
                             c.id \notin DOMAIN offers /\ (\A d \in C : d = c) /\ Len(c.todo) <= 2
                        /\ c.op \in {"accept", "decline"} =>
                             \A d \in calls \cup C : ~(d.op = "create" /\ Saves(d) /\ d.id = c.id)
    PROVE  Once'
<1>0. /\ matches' = matches /\ raced' = raced /\ redis' = redis
      /\ \A i \in DOMAIN offers : (OfferKey(i)' = OfferKey(i)) /\ (Stored(i)' <=> Stored(i))
  BY DEF Grown, OfferKey, Stored
<1>1. \A c \in C : ~Takes(c)
  OBVIOUS
<1>2. \A c \in calls : c.op \in {"create", "accept", "decline", "requestRematch"} => c.id \in DOMAIN offers
  BY IdsKnown
<1>3. MakersStore'
  <2>1. ASSUME NEW c \in calls PROVE MakesOnly(c)'
    <3>1. MakesOnly(c)
      BY DEF Once, MakersStore
    <3>2. MakesOnly(c)' <=> \A j \in DOMAIN c.todo :
            LET w == c.todo[j] IN
            w.key[1] \in {"invite", "rematch"} /\ w.value # None =>
            /\ j = 1 /\ w.key = OfferKey(c.id)'
            /\ \/ c.op = "create" /\ c.at = "told" /\ Len(c.todo) = 3
               \/ c.op = "requestRematch" /\ Len(c.todo) = 2 /\ w.value = c.id
      BY DEF MakesOnly
    <3>3. c.op \in {"create", "requestRematch"} => OfferKey(c.id)' = OfferKey(c.id)
      BY <1>0, <1>2
    <3>. QED
      BY <3>1, <3>2, <3>3 DEF MakesOnly
  <2>. QED
    BY <2>1 DEF MakersStore
<1>4. OneMaker'
  <2>1. \A a, b \in calls' : a.op = "requestRematch" /\ b.op = "requestRematch" /\ a.id = b.id => a = b
    BY <1>2 DEF Once, OneMaker
  <2>2. \A a, b \in calls' : a.op = "create" /\ b.op = "create" /\ a.id = b.id => a = b
    BY <1>2 DEF Once, OneMaker
  <2>3. \A a, b \in calls' : a.op = "create" /\ Saves(a) /\ b.op \in {"accept", "decline"} => a.id # b.id
    BY <1>2 DEF Once, OneMaker
  <2>4. ASSUME NEW a \in calls', a.op = "requestRematch", Saves(a) PROVE ~Stored(a.id)'
    <3>1. CASE a \in calls
      BY <1>0, <1>2, <2>4, <3>1 DEF Once, OneMaker
    <3>2. CASE a \in C
      <4>1. a.id \notin DOMAIN offers /\ IdFits(a)'
        BY <2>4, <3>2 DEF TypeOK, CallsOK
      <4>. DEFINE k == <<"rematch", offers'[a.id].match>>
      <4>2. offers'[a.id].kind = "rematch" /\ offers'[a.id].match \in DOMAIN matches
        BY <1>0, <2>4, <4>1 DEF IdFits, RematchOffers, TypeOK, MadeOK
      <4>3. k \in Keys
        BY <4>2, OfferTypes, KeyTypes
      <4>4. Fits(k, redis[k])
        BY <4>3 DEF TypeOK, StoreOK
      <4>5. redis[k] # a.id
        <5>1. a.id # None
          BY <3>2, LobbyAssumption DEF TypeOK, CallsOK, Job
        <5>. QED
          BY <4>1, <4>4, <5>1 DEF Fits, RematchOffers
      <4>. QED
        BY <1>0, <4>2, <4>5 DEF Stored
    <3>. QED
      BY <3>1, <3>2
  <2>5. \A a \in calls' : a.op = "requestRematch" => Len(a.todo) <= 2
    BY DEF Once, OneMaker
  <2>. QED
    BY <2>1, <2>2, <2>3, <2>4, <2>5 DEF OneMaker
<1>5. FreshIsFree'
  <2>1. ASSUME NEW a \in calls', Saves(a)
        PROVE  /\ \A d \in calls' : Takes(d) => d.id # a.id
               /\ \A m \in DOMAIN matches : matches[m].from # a.id
    <3>1. CASE a \in calls
      BY <1>1, <2>1, <3>1 DEF Once, FreshIsFree
    <3>2. CASE a \in C
      <4>1. a.id \notin DOMAIN offers /\ a.id # 0
        <5>1. a.op \in {"create", "requestRematch"} /\ IdFits(a)'
          BY <2>1, <3>2 DEF TypeOK, CallsOK, Saves
        <5>2. a.id \in DOMAIN offers' /\ offers' \in Seq(Offer)
          BY <5>1 DEF IdFits, FriendOffers, RematchOffers, TypeOK, MadeOK
        <5>3. a.id # 0
          BY <5>2, LenProperties
        <5>. QED
          BY <3>2, <5>1, <5>3
      <4>2. \A d \in calls' : Takes(d) => d.id \in DOMAIN offers
        BY <1>1, TakersKnown
      <4>3. \A m \in DOMAIN matches : matches[m].from \in DOMAIN offers \cup {0}
        BY DEF TypeOK, MadeOK
      <4>. QED
        BY <4>1, <4>2, <4>3
    <3>. QED
      BY <3>1, <3>2
  <2>. QED
    BY <1>0, <2>1 DEF FreshIsFree
<1>6. UsedIsGone'
  <2>1. ASSUME NEW m \in DOMAIN matches, NEW i, i = matches[m].from, i # 0 PROVE ~Stored(i)'
    <3>1. i \in DOMAIN offers /\ ~Stored(i)
      BY <2>1 DEF TypeOK, MadeOK, Once, UsedIsGone
    <3>. QED
      BY <1>0, <3>1
  <2>. QED
    BY <1>0, <2>1 DEF UsedIsGone, Stored
<1>7. TakenOnce'
  BY <1>0, <1>1 DEF Once, TakenOnce
<1>8. TakenIsGone'
  <2>1. ASSUME NEW a \in calls', Takes(a), a.at = "create"
        PROVE  ~Stored(a.id)' \/ (a.todo # <<>> /\ Head(a.todo) = Del(OfferKey(a.id)'))
    <3>1. a \in calls /\ a.id \in DOMAIN offers
      BY <1>1, <2>1, TakersKnown
    <3>. QED
      BY <1>0, <2>1, <3>1 DEF Once, TakenIsGone
  <2>. QED
    BY <2>1 DEF TakenIsGone, Del, Set, OfferKey
<1>9. OneMatchPerOffer'
  BY <1>0 DEF Once, OneMatchPerOffer
<1>. QED
  BY <1>3, <1>4, <1>5, <1>6, <1>7, <1>8, <1>9 DEF Once

LEMMA InviteTodo ==
    ASSUME TypeOK, NEW c \in calls, NEW d, InviteStep(c, d)
    PROVE  /\ d.op = c.op /\ c.op \in {"create", "accept", "decline", "look"}
           /\ c.op # "look" => d.id = c.id
           /\ \/ d.todo = <<>>
              \/ c.op = "create" /\ c.at = "save" /\ d.at = "told" /\ d.todo = SaveFriendInvite(c.id)
              \/ \E i \in FriendOffers : d.todo = DeleteFriendInvite(i)
              \/ \E side \in Sides : \E u \in Users : d.todo = <<Del(<<side, u>>)>>
<1>0. d.op = c.op /\ IdFits(c) /\ Me \in Users /\ "pending" \in Sides /\ "outgoing" \in Sides
  BY CallTypes, LobbyAssumption DEF InviteStep, Goes, Sides
<1>1. ASSUME NEW side \in Sides, NEW u \in Users, NEW found, NEW none, c.op \in {"create", "look"},
             LooksUp(c, d, side, u, found, none)
      PROVE  /\ d.id = c.id
             /\ \/ d.todo = <<>>
                \/ \E i \in FriendOffers : d.todo = DeleteFriendInvite(i)
                \/ d.todo = <<Del(<<side, u>>)>>
  <2>1. c.at = Overdue[side] => c.got \in FriendOffers
    BY <1>0, <1>1, StageNames DEF IdFits, Sides
  <2>2. d.id = c.id /\ (\/ d.todo = <<>> \/ d.todo = <<Del(<<side, u>>)>>
                        \/ c.at = Overdue[side] /\ d.todo = DeleteFriendInvite(c.got))
    BY <1>1 DEF LooksUp, Turns
  <2>. QED
    BY <2>1, <2>2
<1>2. CASE Creates(c, d)
  <2>1. /\ c.op = "create" /\ From(c.id) \in Users /\ To(c.id) \in Users
        /\ c.op \in {"create", "look"}
    BY <1>0, <1>2, OfferTypes DEF IdFits, FriendOffers, Creates
  <2>2. CASE LooksUp(c, d, "pending", To(c.id), "refused", "outgoing")
    <3>1. /\ d.id = c.id
          /\ \/ d.todo = <<>>
             \/ \E i \in FriendOffers : d.todo = DeleteFriendInvite(i)
             \/ d.todo = <<Del(<<"pending", To(c.id)>>)>>
      BY <1>0, <1>1, <2>1, <2>2
    <3>. QED
      BY <1>0, <2>1, <3>1
  <2>3. CASE LooksUp(c, d, "outgoing", From(c.id), "refused", "save")
    <3>1. /\ d.id = c.id
          /\ \/ d.todo = <<>>
             \/ \E i \in FriendOffers : d.todo = DeleteFriendInvite(i)
             \/ d.todo = <<Del(<<"outgoing", From(c.id)>>)>>
      BY <1>0, <1>1, <2>1, <2>3
    <3>. QED
      BY <1>0, <2>1, <3>1
  <2>. QED
    BY <1>0, <1>2, <2>1, <2>2, <2>3 DEF Creates, Turns
<1>3. CASE Accepts(c, d) \/ Declines(c, d)
  <2>1. c.op \in {"accept", "decline"} /\ d.id = c.id /\ d.todo \in {<<>>, DeleteFriendInvite(c.id)}
    BY <1>3 DEF Accepts, Declines, Turns
  <2>. QED
    BY <1>0, <2>1 DEF IdFits
<1>4. CASE Looks(c, d)
  <2>1. c.op = "look"
    BY <1>4 DEF Looks
  <2>2. CASE LooksUp(c, d, "pending", Me, "second", "second")
    BY <1>0, <1>1, <2>1, <2>2
  <2>3. CASE LooksUp(c, d, "outgoing", Me, "answered", "answered")
    BY <1>0, <1>1, <2>1, <2>3
  <2>. QED
    BY <1>0, <1>4, <2>1, <2>2, <2>3 DEF Looks, Turns
<1>. QED
  BY <1>2, <1>3, <1>4 DEF InviteStep

LEMMA OnceInvites ==
    ASSUME TypeOK, TypeOK', Once, NEW c \in calls, NEW d, InviteStep(c, d)
    PROVE  Once'
<1>0. /\ Goes(c, d) /\ UNCHANGED <<redis, made>> /\ raced' = raced /\ DoesFit(d)
  BY InviteStepFits DEF InviteStep
<1>1. /\ d.op = c.op /\ c.op \in {"create", "accept", "decline", "look"}
      /\ c.op # "look" => d.id = c.id
      /\ \/ d.todo = <<>>
         \/ c.op = "create" /\ c.at = "save" /\ d.at = "told" /\ d.todo = SaveFriendInvite(c.id)
         \/ \E i \in FriendOffers : d.todo = DeleteFriendInvite(i)
         \/ \E side \in Sides : \E u \in Users : d.todo = <<Del(<<side, u>>)>>
  BY InviteTodo
<1>2. MakesOnly(d)
  <2>1. CASE d.todo = <<>>
    BY <2>1, WritingsOf, QuietWrites
  <2>2. CASE c.op = "create" /\ d.at = "told" /\ d.todo = SaveFriendInvite(c.id)
    <3>1. c.id \in FriendOffers /\ OfferKey(d.id) = <<"invite", c.id>>
      BY <1>1, <2>2, IdsKnown
    <3>. DEFINE a == Set(<<"invite", c.id>>, "pending")
                b == Set(<<"pending", To(c.id)>>, c.id)
                e == Set(<<"outgoing", From(c.id)>>, c.id)
    <3>2. d.todo = <<a, b, e>>
      BY <2>2, <3>1, SavesAre
    <3>3. a.key = <<"invite", c.id>> /\ b.key[1] = "pending" /\ e.key[1] = "outgoing"
      BY DEF Set
    <3>. HIDE DEF a, b, e
    <3>4. /\ DOMAIN d.todo = {1, 2, 3} /\ Len(d.todo) = 3 /\ d.todo[1] = a /\ d.todo[2] = b /\ d.todo[3] = e
      BY <3>2
    <3>. QED
      BY <1>1, <2>2, <3>1, <3>3, <3>4 DEF MakesOnly
  <2>3. ASSUME NEW i \in FriendOffers, d.todo = DeleteFriendInvite(i) PROVE MakesOnly(d)
    <3>1. \A w \in Writings(d.todo) : w.value = None
      BY <2>3, DeletesClear
    <3>. QED
      BY <3>1, QuietWrites
  <2>4. ASSUME NEW side \in Sides, NEW u \in Users, d.todo = <<Del(<<side, u>>)>> PROVE MakesOnly(d)
    <3>1. Writings(d.todo) = {Del(<<side, u>>)}
      BY <2>4, PointerTypes, Few
    <3>2. \A w \in Writings(d.todo) : w.value = None
      BY <3>1, DelIs
    <3>. QED
      BY <3>2, QuietWrites
  <2>. QED
    BY <1>1, <2>1, <2>2, <2>3, <2>4
<1>3. Takes(d) => /\ c.op = "accept"
                  /\ \/ c.at = "begin" /\ d.at = "delete" /\ LockFree(c) /\ redis[<<"invite", c.id>>] # None
                     \/ c.at = "delete" /\ d.at = "create" /\ d.todo = DeleteFriendInvite(c.id)
  <2>1. Takes(d) => Accepts(c, d)
    BY <1>1 DEF Takes, InviteStep, Creates, Declines, Looks
  <2>. QED
    BY <2>1, StageNames DEF Takes, Accepts, Turns
<1>4. Takes(d) => \/ Takes(c) /\ d.id = c.id
                  \/ /\ Stored(d.id)
                     /\ \A e \in calls \ {c} : Takes(e) /\ e.id = d.id => d.id \in raced'
                     /\ \A e \in calls : Saves(e) => e.id # d.id
  <2>1. CASE c.op = "accept" /\ c.at = "begin" /\ LockFree(c) /\ redis[<<"invite", c.id>>] # None
    <3>1. d.id = c.id /\ Stored(d.id)
      BY <1>1, <2>1, IdsKnown
    <3>2. \A e \in calls : Takes(e) => e.id # d.id
      <4>1. \A e \in calls : e.op = "accept" /\ e.id = c.id => e.at \in {"begin", "ready", "failed"}
        BY <2>1 DEF LockFree
      <4>. QED
        BY <2>1, <3>1, <4>1, TakersKnown DEF Takes
    <3>3. \A e \in calls : Saves(e) => e.id # d.id
      BY <2>1, <3>1, TakersKnown DEF Saves, Once, OneMaker
    <3>. QED
      BY <3>1, <3>2, <3>3
  <2>. QED
    BY <1>1, <1>3, <2>1 DEF Takes
<1>5. Takes(d) /\ d.at = "create" =>
           ~Stored(d.id) \/ (d.todo # <<>> /\ Head(d.todo) = Del(OfferKey(d.id)))
  <2>. SUFFICES ASSUME Takes(d), d.at = "create"
                PROVE  d.todo # <<>> /\ Head(d.todo) = Del(OfferKey(d.id))
    OBVIOUS
  <2>1. c.op = "accept" /\ d.todo = DeleteFriendInvite(c.id) /\ d.id = c.id
    BY <1>1, <1>3
  <2>2. c.id \in FriendOffers /\ OfferKey(c.id) = <<"invite", c.id>>
    BY <2>1, IdsKnown
  <2>3. DeleteFriendInvite(c.id) # <<>> /\ Head(DeleteFriendInvite(c.id)) = Del(<<"invite", c.id>>)
    BY <2>2, DeletesAre
  <2>. QED
    BY <2>1, <2>2, <2>3
<1>6. Saves(d) => Saves(c)
  <2>1. CASE c.op # "create"
    BY <1>1, <2>1 DEF Saves
  <2>2. CASE c.op = "create"
    <3>1. Creates(c, d)
      BY <2>2 DEF InviteStep, Accepts, Declines, Looks
    <3>2. c.at # "created" /\ (c.at = "told" => d.at = "created")
      BY <3>1, StageNames DEF Creates, LooksUp, Turns
    <3>. QED
      BY <1>1, <2>2, <3>2 DEF Saves, Saved
  <2>. QED
    BY <2>1, <2>2
<1>. QED
  BY <1>0, <1>1, <1>2, <1>4, <1>5, <1>6, OnceMoves

LEMMA OnceRematches ==
    ASSUME TypeOK, TypeOK', Once, NEW c \in calls, NEW d, RematchStep(c, d)
    PROVE  Once'
<1>0. /\ Goes(c, d) /\ UNCHANGED <<redis, made>> /\ DoesFit(d) /\ d.op = c.op /\ c.todo = <<>>
      /\ c.op \in {"acceptRematch", "declineRematch", "lookRematch"} /\ raced \subseteq raced'
      /\ ~Saves(d)
  BY RematchStepFits DEF RematchStep, Goes, AcceptsRematch, DeclinesRematch, LooksForRematch, Saves
<1>a. c.op \in {"acceptRematch", "declineRematch"} =>
        c.id \in RematchOffers /\ offers[c.id].match \in DOMAIN matches
  BY IdsKnown DEF TypeOK, MadeOK
<1>1. \/ d.todo = <<>>
      \/ d.todo = <<Del(<<"rematchPending", Me>>)>>
      \/ \E m \in DOMAIN matches : d.todo = DeleteRematchRequest(m)
  <2>1. AcceptsRematch(c, d) => c.op \in {"acceptRematch", "declineRematch"}
          /\ (d.todo = <<>> \/ d.todo = DeleteRematchRequest(offers[c.id].match))
    BY DEF AcceptsRematch
  <2>2. DeclinesRematch(c, d) => c.op \in {"acceptRematch", "declineRematch"}
          /\ (d.todo = <<>> \/ d.todo = DeleteRematchRequest(offers[c.id].match))
    BY DEF DeclinesRematch
  <2>3. LooksForRematch(c, d) =>
          \/ d.todo = <<>> \/ d.todo = <<Del(<<"rematchPending", Me>>)>>
          \/ c.got \in DOMAIN matches /\ d.todo = DeleteRematchRequest(c.got)
    BY CallTypes DEF LooksForRematch, IdFits
  <2>. QED
    BY <1>a, <2>1, <2>2, <2>3 DEF RematchStep
<1>2. MakesOnly(d)
  <2>1. CASE d.todo = <<>>
    BY <2>1, WritingsOf, QuietWrites
  <2>2. CASE d.todo = <<Del(<<"rematchPending", Me>>)>>
    <3>1. Del(<<"rematchPending", Me>>) \in Writing
      BY KeyTypes, LobbyAssumption, SetType DEF Value
    <3>2. Writings(d.todo) = {Del(<<"rematchPending", Me>>)}
      BY <2>2, <3>1, Few
    <3>3. \A w \in Writings(d.todo) : w.value = None
      BY <3>2, DelIs
    <3>. QED
      BY <3>3, QuietWrites
  <2>3. ASSUME NEW m \in DOMAIN matches, d.todo = DeleteRematchRequest(m) PROVE MakesOnly(d)
    <3>1. \A w \in Writings(d.todo) : w.value = None
      BY <2>3, DeletesClear
    <3>. QED
      BY <3>1, QuietWrites
  <2>. QED
    BY <1>1, <2>1, <2>2, <2>3
<1>3. CASE AcceptsRematch(c, d) /\ c.at = "begin"
  <2>. DEFINE r == redis[<<"rematch", offers[c.id].match>>]
  <2>1. /\ c.op = "acceptRematch" /\ d.at = "delete" /\ d.id = r /\ r # None
        /\ raced' = raced \cup
               { e.id : e \in { e \in calls : e.op = "acceptRematch" /\ e.id = d.id
                                              /\ e.at # "begin" } }
    BY <1>3 DEF AcceptsRematch
  <2>2. r \in RematchOffers /\ offers[r].match = offers[c.id].match
    <3>. DEFINE k == <<"rematch", offers[c.id].match>>
    <3>1. k \in Keys
      BY <1>a, <2>1, OfferTypes, KeyTypes
    <3>2. Fits(k, redis[k])
      BY <3>1 DEF TypeOK, StoreOK
    <3>. QED
      BY <2>1, <3>2 DEF Fits
  <2>3. Stored(d.id)
    BY <2>1, <2>2, IdsKnown
  <2>4. \A e \in calls \ {c} : Takes(e) /\ e.id = d.id => d.id \in raced'
    <3>1. ASSUME NEW e \in calls, Takes(e), e.id = d.id PROVE d.id \in raced'
      <4>1. e.op = "acceptRematch" /\ e.at # "begin"
        BY <2>1, <2>2, <3>1, IdsKnown DEF Takes
      <4>. QED
        BY <2>1, <3>1, <4>1
    <3>. QED
      BY <3>1
  <2>5. \A e \in calls : Saves(e) => e.id # d.id
    <3>1. ASSUME NEW e \in calls, Saves(e), e.id = d.id PROVE FALSE
      <4>1. e.op = "requestRematch"
        BY <2>1, <2>2, <3>1, IdsKnown DEF Saves
      <4>. QED
        BY <2>3, <3>1, <4>1 DEF Once, OneMaker
    <3>. QED
      BY <3>1
  <2>. QED
    BY <1>0, <1>2, <2>1, <2>3, <2>4, <2>5, OnceMoves
<1>4. CASE AcceptsRematch(c, d) /\ c.at # "begin"
  <2>1. /\ c.op = "acceptRematch" /\ c.at = "delete" /\ d.at = "create" /\ d.id = c.id
        /\ d.todo = DeleteRematchRequest(offers[c.id].match)
    BY <1>4 DEF AcceptsRematch
  <2>2. Head(d.todo) = Del(OfferKey(d.id)) /\ d.todo # <<>>
    <3>. DEFINE m == offers[c.id].match
    <3>1. m \in DOMAIN matches /\ OfferKey(c.id) = <<"rematch", m>>
      BY <1>a, <2>1, IdsKnown
    <3>2. Head(DeleteRematchRequest(m)) = Del(<<"rematch", m>>) /\ DeleteRematchRequest(m) # <<>>
      BY <3>1, RematchDeletesAre
    <3>. QED
      BY <2>1, <3>1, <3>2
  <2>3. Takes(c) /\ d.op = "acceptRematch"
    BY <1>0, <2>1 DEF Takes
  <2>. QED
    BY <1>0, <1>2, <2>1, <2>2, <2>3, OnceMoves
<1>5. CASE DeclinesRematch(c, d) \/ LooksForRematch(c, d)
  <2>1. ~Takes(d) /\ d.op \notin {"create", "accept", "decline", "requestRematch"}
    BY <1>0, <1>5 DEF Takes, DeclinesRematch, LooksForRematch
  <2>. QED
    BY <1>0, <1>2, <2>1, OnceMoves
<1>. QED
  BY <1>3, <1>4, <1>5 DEF RematchStep

LEMMA SavedKeys ==
    ASSUME NEW m \in 1 .. MaxId, NEW status \in {"live", "over"}, NEW u \in Users, NEW v \in Users
    PROVE  \A w \in Writings(SaveState(m, status, <<u, v>>)) : w.key[1] \in {"session", "active"}
<1>. DEFINE n == IF status = "over" THEN None ELSE m
<1>1. Writings(SaveState(m, status, <<u, v>>)) =
        {Set(<<"session", m>>, status), Set(<<"active", u>>, n), Set(<<"active", v>>, n)}
  BY SavedStateIs
<1>. HIDE DEF n
<1>. QED
  BY <1>1, DelIs

LEMMA OnceLooks ==
    ASSUME TypeOK, TypeOK', Once, NEW c \in calls, NEW d, IndexStep(c, d)
    PROVE  Once'
<1>1. /\ Goes(c, d) /\ UNCHANGED <<redis, made>> /\ raced' = raced /\ d.op \in {"active", "chat"}
  BY DEF IndexStep, ActiveStep, ChatStep, Goes
<1>2. MakesOnly(d)
  <2>1. CASE ActiveStep(c, d)
    <3>1. Writings(d.todo) = {} \/ Writings(d.todo) = {Del(<<"active", Me>>)}
      BY <2>1, WritingsOf DEF ActiveStep
    <3>2. \A w \in Writings(d.todo) : w.value = None
      BY <3>1, DelIs
    <3>. QED
      BY <3>2, QuietWrites
  <2>2. CASE ChatStep(c, d)
    <3>1. c.op = "chat" /\ c.at \in {"live", "over"}
      BY <2>2 DEF ChatStep
    <3>2. c.id \in DOMAIN matches
      BY <3>1, CallTypes DEF IdFits
    <3>3. PICK u \in Users, v \in Users : d.todo = SaveState(c.id, c.at, <<u, v>>)
      BY <2>2 DEF ChatStep
    <3>4. c.id \in 1 .. MaxId
      BY <3>2, OfferTypes
    <3>5. \A w \in Writings(d.todo) : w.key[1] \in {"session", "active"}
      BY <3>1, <3>3, <3>4, SavedKeys
    <3>. QED
      BY <3>5, QuietWrites
  <2>. QED
    BY <2>1, <2>2 DEF IndexStep
<1>3. ~Takes(d) /\ ~Saves(d)
  BY <1>1 DEF Takes, Saves
<1>. QED
  BY <1>1, <1>2, <1>3, OnceMoves

LEMMA OnceBegins ==
    ASSUME TypeOK, TypeOK', Once, NEW c, Started(c)
    PROVE  Once'
<1>0. /\ Grown /\ calls' = calls \cup {c} /\ redis' = redis
      /\ DOMAIN offers = 1 .. Len(offers) /\ Len(offers) \in Nat
  BY StartedFits, OfferTypes DEF Joins
<1>. DEFINE C == {c}
<1>1. SUFFICES /\ UNCHANGED <<matches, raced>> /\ ~Takes(c) /\ MakesOnly(c)'
               /\ c.op \in {"create", "requestRematch"} => c.id \notin DOMAIN offers /\ Len(c.todo) <= 2
               /\ c.op \in {"accept", "decline"} =>
                      \A d \in calls : ~(d.op = "create" /\ Saves(d) /\ d.id = c.id)
  <2>1. calls' = calls \cup C
    BY <1>0
  <2>2. ASSUME /\ UNCHANGED <<matches, raced>> /\ ~Takes(c) /\ MakesOnly(c)'
               /\ c.op \in {"create", "requestRematch"} => c.id \notin DOMAIN offers /\ Len(c.todo) <= 2
               /\ c.op \in {"accept", "decline"} =>
                      \A d \in calls : ~(d.op = "create" /\ Saves(d) /\ d.id = c.id)
        PROVE  \A e \in C : /\ ~Takes(e) /\ MakesOnly(e)'
                            /\ e.op \in {"create", "requestRematch"} =>
                                 e.id \notin DOMAIN offers /\ (\A d \in C : d = e) /\ Len(e.todo) <= 2
                            /\ e.op \in {"accept", "decline"} =>
                                 \A d \in calls \cup C : ~(d.op = "create" /\ Saves(d) /\ d.id = e.id)
    BY <2>2
  <2>. HIDE DEF C
  <2>. QED
    BY <1>0, <2>1, <2>2, OnceStarts
<1>q. c.todo = <<>> => MakesOnly(c)' /\ Len(c.todo) <= 2
  <2>1. c.todo = <<>> => DOMAIN c.todo = {} /\ Len(c.todo) = 0
    OBVIOUS
  <2>. QED
    BY <2>1 DEF MakesOnly
<1>2. ASSUME NEW u \in Users, NEW v \in Users, AsksForMatch(c, u, v)
      PROVE  /\ UNCHANGED <<matches, raced>> /\ ~Takes(c) /\ MakesOnly(c)'
             /\ c.op = "create" /\ c.id \notin DOMAIN offers /\ Len(c.todo) <= 2
  BY <1>0, <1>2, <1>q DEF AsksForMatch, Begun, Takes
<1>3. ASSUME NEW u \in Users, NEW v \in Users, NEW m \in DOMAIN matches, RequestsRematch(c, u, v, m)
      PROVE  /\ UNCHANGED <<matches, raced>> /\ ~Takes(c) /\ MakesOnly(c)'
             /\ c.op = "requestRematch" /\ c.id \notin DOMAIN offers /\ Len(c.todo) <= 2
  <2>. DEFINE o == [kind |-> "rematch", from |-> u, to |-> v, match |-> m]
              j == Len(offers) + 1
              a == Set(<<"rematch", m>>, j)
              b == Set(<<"rematchPending", v>>, m)
  <2>1. /\ UNCHANGED <<matches, raced, expired>> /\ c.op = "requestRematch" /\ c.id = j /\ ~Takes(c)
        /\ c.todo = <<a, b>> /\ u # v /\ Len(offers) < MaxId /\ offers' = Append(offers, o)
    BY <1>3 DEF RequestsRematch, Begun, ghosts, Takes
  <2>2. o \in Offer /\ o.from = u /\ o.to = v /\ o.kind = "rematch" /\ o.match = m
    BY OfferTypes DEF Offer
  <2>. HIDE DEF o
  <2>3. offers'[j] = o /\ j \notin DOMAIN offers
    BY <2>1, <2>2, OfferAdded
  <2>. HIDE DEF j
  <2>4. \A k : k = c.id => OfferKey(k)' = <<"rematch", m>>
    BY <2>1, <2>2, <2>3 DEF OfferKey
  <2>5. /\ a.key = <<"rematch", m>> /\ a.value = j
        /\ b.key[1] = "rematchPending"
    BY DelIs
  <2>. HIDE DEF a, b
  <2>6. DOMAIN c.todo = {1, 2} /\ c.todo[1] = a /\ c.todo[2] = b /\ Len(c.todo) = 2
    BY <2>1
  <2>7. MakesOnly(c)'
    BY <2>1, <2>4, <2>5, <2>6 DEF MakesOnly
  <2>. QED
    BY <2>1, <2>3, <2>6, <2>7
<1>4. ASSUME NEW i \in DOMAIN offers, Answers(c, i)
      PROVE  /\ UNCHANGED <<matches, raced>> /\ ~Takes(c) /\ MakesOnly(c)'
             /\ c.op \in {"accept", "decline"}
             /\ \A d \in calls : ~(d.op = "create" /\ Saves(d) /\ d.id = c.id)
  BY <1>4, <1>q DEF Answers, Begun, made, Takes, Saves
<1>5. ASSUME NEW i \in DOMAIN offers, AnswersRematch(c, i)
      PROVE  /\ UNCHANGED <<matches, raced>> /\ ~Takes(c) /\ MakesOnly(c)'
             /\ c.op \in {"acceptRematch", "declineRematch"}
  BY <1>5, <1>q DEF AnswersRematch, Begun, made, ghosts, Takes
<1>6. ASSUME NEW u \in Users, NEW v \in Users, NEW m \in DOMAIN matches, Closes(c, m, u, v)
      PROVE  /\ UNCHANGED <<matches, raced>> /\ ~Takes(c) /\ MakesOnly(c)' /\ c.op = "end"
  <2>1. /\ UNCHANGED <<matches, raced>> /\ c.op = "end" /\ m \in 1 .. MaxId
        /\ c.todo = SaveState(m, "over", <<u, v>>)
    BY <1>6, OfferTypes DEF Closes, Begun, made
  <2>2. \A w \in Writings(c.todo) : w.key[1] \in {"session", "active"}
    BY <2>1, SavedKeys
  <2>3. MakesOnly(c)'
    BY <2>2 DEF MakesOnly, Writings
  <2>. QED
    BY <2>1, <2>3 DEF Takes
<1>8. ASSUME NEW m \in DOMAIN matches, Chats(c, m)
      PROVE  UNCHANGED <<matches, raced>> /\ ~Takes(c) /\ MakesOnly(c)' /\ c.op = "chat"
  BY <1>8, <1>q DEF Chats, made, Takes
<1>7. ASSUME AsksForActive(c)
      PROVE  UNCHANGED <<matches, raced>> /\ ~Takes(c) /\ MakesOnly(c)' /\ c.op = "active"
  BY <1>7, <1>q DEF AsksForActive, Begun, made, ghosts, Takes
<1>. QED
  BY <1>2, <1>3, <1>4, <1>5, <1>6, <1>7, <1>8 DEF Started

LEMMA OnceOpens ==
    ASSUME TypeOK, TypeOK', Once, NEW c, NEW d, Opens(c, d)
    PROVE  Once'
<1>. DEFINE C == {c, d}
<1>1. /\ calls' = calls \cup C /\ UNCHANGED <<redis, made, expired, raced>>
      /\ c.op = "look" /\ d.op = "lookRematch"
      /\ c.at = "begin" /\ d.at = "begin" /\ c.todo = <<>> /\ d.todo = <<>>
  BY DEF Opens, Begun, Joins
<1>2. Grown /\ UNCHANGED <<redis, matches, raced>>
  BY <1>1, SameMade
<1>3. DOMAIN c.todo = {} /\ DOMAIN d.todo = {}
  BY <1>1
<1>4. \A e \in C : /\ ~Takes(e) /\ MakesOnly(e)'
                   /\ e.op \in {"create", "requestRematch"} =>
                        e.id \notin DOMAIN offers /\ (\A f \in C : f = e) /\ Len(e.todo) <= 2
                   /\ e.op \in {"accept", "decline"} =>
                        \A f \in calls \cup C : ~(f.op = "create" /\ Saves(f) /\ f.id = e.id)
  BY <1>1, <1>3 DEF MakesOnly, Takes
<1>. HIDE DEF C
<1>. QED
  BY <1>1, <1>2, <1>4, OnceStarts

LEMMA OnceStep ==
    ASSUME TypeOK, TypeOK', Once, Step
    PROVE  Once'
<1>1. ASSUME NEW c \in calls, EndOfCall(c) PROVE Once'
  <2>1. /\ \A e \in calls' : e \in calls
        /\ UNCHANGED <<made, raced>> /\ \A i \in DOMAIN offers : Stored(i)' => Stored(i)
    BY <1>1 DEF EndOfCall, Leaves, made, Stored
  <2>. QED
    BY <2>1, OnceFewer
<1>2. ASSUME NEW c \in calls, NEW d, Turned(c, d) PROVE Once'
  BY <1>2, OnceInvites, OnceMakes, OnceRematches, OnceLooks DEF Turned
<1>3. ASSUME NEW c \in calls, NEW d, Writes1(c, d) PROVE Once'
  BY <1>3, OnceWrites
<1>4. ASSUME NEW c, Started(c) PROVE Once'
  BY <1>4, OnceBegins
<1>5. ASSUME NEW c, NEW d, Opens(c, d) PROVE Once'
  BY <1>5, OnceOpens
<1>6. CASE Leaving
  <2>1. ASSUME NEW e \in calls'
        PROVE  e \in calls \/ (e.op \in {"look", "lookRematch"}
                               /\ \E f \in calls : f.op = e.op /\ f.todo = e.todo)
    <3>1. PICK f \in calls : e = Blind(f)
      BY <1>6, <2>1 DEF Leaving
    <3>. QED
      BY <3>1, BlindIs
  <2>2. UNCHANGED <<made, raced>> /\ \A i \in DOMAIN offers : Stored(i)' => Stored(i)
    BY <1>6 DEF Leaving, made, ghosts, Stored
  <2>. QED
    BY <2>1, <2>2, OnceFewer
<1>7. CASE Passes \/ Watches
  <2>1. /\ \A e \in calls' : e \in calls
        /\ UNCHANGED <<made, raced>> /\ \A i \in DOMAIN offers : Stored(i)' => Stored(i)
    BY <1>7 DEF Passes, Watches, made, ghosts, Stored
  <2>. QED
    BY <2>1, OnceFewer
<1>8. ASSUME NEW i, NEW k, Drops(i, k) PROVE Once'
  <2>1. /\ \A e \in calls' : e \in calls
        /\ UNCHANGED <<made, raced>> /\ redis' = [redis EXCEPT ![k] = None]
    BY <1>8 DEF Drops, ghosts
  <2>2. ASSUME NEW j \in DOMAIN offers, Stored(j)' PROVE Stored(j)
    <3>1. DOMAIN redis = Keys /\ offers' = offers /\ j \in Nat /\ j # None
      BY <2>1, OfferTypes, MaxIdIsFour, LobbyAssumption DEF TypeOK, StoreOK, made
    <3>2. \A x : redis'[x] = redis[x] \/ (x \notin Keys) \/ redis'[x] = None
      BY <2>1, <3>1
    <3>3. \/ <<"invite", j>> \in Keys /\ <<"rematch", offers[j].match>> \in Keys
          \/ offers[j].kind = "invite" /\ <<"invite", j>> \in Keys
      <4>1. j \in 1 .. MaxId
        BY OfferTypes
      <4>2. offers[j].kind = "invite" \/ j \in RematchOffers
        BY OfferTypes DEF RematchOffers
      <4>3. j \in RematchOffers => offers[j].match \in 1 .. MaxId
        BY OfferTypes DEF TypeOK, MadeOK
      <4>. QED
        BY <4>1, <4>2, <4>3, KeyTypes
    <3>. QED
      BY <2>2, <3>1, <3>2, <3>3 DEF Stored
  <2>. QED
    BY <2>1, <2>2, OnceFewer
<1>. QED
  BY <1>1, <1>2, <1>3, <1>4, <1>5, <1>6, <1>7, <1>8 DEF Step

LEMMA OnceInit == Init => Once
<1>. SUFFICES ASSUME Init PROVE Once
  OBVIOUS
<1>1. PICK u \in Users \ {Me} : matches = <<NewMatch({Me, u}, 0)>>
  BY DEF Init
<1>2. DOMAIN matches = {1} /\ matches[1].from = 0 /\ calls = {}
  BY <1>1 DEF NewMatch, Init
<1>. QED
  BY <1>2 DEF Once, MakersStore, OneMaker, FreshIsFree, UsedIsGone, TakenOnce, TakenIsGone, OneMatchPerOffer

LEMMA OnceAlways == Spec => [](TypeOK /\ Once)
<1>1. Init => TypeOK /\ Once
  BY TypeInit, OnceInit
<1>2. TypeOK /\ Once /\ [Next]_vars => TypeOK' /\ Once'
  BY StepTable, TypeStep, OnceStep
<1>. QED
  BY <1>1, <1>2, PTL DEF Spec

\* No offer makes two matches, however often it is accepted (acceptFriendInvite
\* holds a lock for the invite, acceptRematch none).
THEOREM OffersMakeOneMatch == Spec => []OneMatchPerOffer
<1>1. Once => OneMatchPerOffer
  BY DEF Once
<1>. QED
  BY <1>1, OnceAlways, PTL

LEMMA Replaced ==
    ASSUME TypeOK, NEW c \in calls, NEW d, Writes1(c, d)
    PROVE  /\ calls' = (calls \ {c}) \cup {d} /\ d \in calls' /\ \A e \in calls : e = c \/ e \in calls'
           /\ \A e \in calls' : e = d \/ (e \in calls /\ e # c)
           /\ matches' = matches /\ blurred' = blurred /\ c.todo # <<>>
           /\ d.op = c.op /\ d.at = c.at /\ d.id = c.id /\ d.got = c.got /\ d.todo = Tail(c.todo)
           /\ c \in Job /\ d \in Job
BY CallTypes DEF Writes1, Is, made, ghosts

LEMMA RematchTodo ==
    ASSUME TypeOK, NEW c \in calls, NEW d, RematchStep(c, d)
    PROVE  \A w \in Writings(d.todo) : w.key[1] \in {"rematch", "rematchPending"}
<1>1. \/ d.todo = <<>> \/ d.todo = <<Del(<<"rematchPending", Me>>)>>
      \/ \E m \in DOMAIN matches : d.todo = DeleteRematchRequest(m)
  <2>1. c.op \in {"acceptRematch", "declineRematch"} => offers[c.id].match \in DOMAIN matches
    BY IdsKnown DEF TypeOK, MadeOK
  <2>2. c.op = "lookRematch" /\ c.at = "session" => c.got \in DOMAIN matches
    BY CallTypes DEF IdFits
  <2>. QED
    BY <2>1, <2>2 DEF RematchStep, AcceptsRematch, DeclinesRematch, LooksForRematch
<1>2. CASE d.todo = <<>>
  BY <1>2, WritingsOf
<1>3. CASE d.todo = <<Del(<<"rematchPending", Me>>)>>
  <2>1. Writings(d.todo) = {Del(<<"rematchPending", Me>>)}
    BY <1>3, WritingsOf
  <2>. QED
    BY <2>1, DelIs
<1>4. ASSUME NEW m \in DOMAIN matches, d.todo = DeleteRematchRequest(m)
      PROVE  \A w \in Writings(d.todo) : w.key[1] \in {"rematch", "rematchPending"}
  <2>1. \A w \in Writings(DeleteRematchRequest(m)) :
          w \in {Del(<<"rematch", m>>), Del(<<"rematchPending", To(redis[<<"rematch", m>>])>>)}
    BY RematchDeletesAre
  <2>. QED
    BY <1>4, <2>1, DelIs
<1>. QED
  BY <1>1, <1>2, <1>3, <1>4

LEMMA IndexTodo ==
    ASSUME TypeOK, NEW c \in calls, NEW d, IndexStep(c, d)
    PROVE  /\ d.op = c.op /\ d.op \in {"active", "chat"} /\ d.at \in {"session", "answer", "done"}
           /\ \A w \in Writings(d.todo) : w.key[1] \in {"session", "active"}
<1>1. d.op = c.op /\ d.op \in {"active", "chat"} /\ d.at \in {"session", "answer", "done"}
  BY DEF IndexStep, ActiveStep, ChatStep, Goes
<1>2. CASE ActiveStep(c, d)
  <2>1. d.todo = <<>> \/ d.todo = <<Del(<<"active", Me>>)>>
    BY <1>2 DEF ActiveStep
  <2>2. Writings(<<>>) = {} /\ Writings(<<Del(<<"active", Me>>)>>) = {Del(<<"active", Me>>)}
    BY WritingsOf
  <2>3. \A w \in Writings(d.todo) : w = Del(<<"active", Me>>)
    BY <2>1, <2>2
  <2>. QED
    BY <1>1, <2>3, DelIs
<1>3. CASE ChatStep(c, d)
  <2>1. c.op = "chat" /\ c.at \in {"live", "over"}
    BY <1>3 DEF ChatStep
  <2>2. c.id \in 1 .. MaxId
    BY <2>1, CallTypes, OfferTypes DEF IdFits
  <2>3. PICK u \in Users, v \in Users : d.todo = SaveState(c.id, c.at, <<u, v>>)
    BY <1>3 DEF ChatStep
  <2>. QED
    BY <1>1, <2>1, <2>2, <2>3, SavedKeys
<1>. QED
  BY <1>2, <1>3 DEF IndexStep

------------------------------------------------------------------------------
(* The pointers: who works on the offers of a user *)

LEMMA TouchedIs ==
    ASSUME TypeOK, PointerWriters, NEW c \in calls
    PROVE  /\ c.op = "look" => Me \in Touched(c)
           /\ c.op \in {"create", "accept", "decline"} => Parties(c.id) \subseteq Touched(c)
           /\ Deleting(c) => Seeks(c) /\ c.got \in FriendOffers /\ Parties(c.got) \subseteq Touched(c)
           /\ Seeks(c) => \A side \in Sides : Subject(c, side) \in Touched(c) /\ Subject(c, side) \in Users
           /\ Grown /\ Writes(c) => Touched(c)' = Touched(c)
           /\ Grown /\ Seeks(c) => \A side : Subject(c, side)' = Subject(c, side)
<1>1. Deleting(c) => Seeks(c) /\ c.got \in FriendOffers
  <2>1. Deleting(c) => Seeks(c)
    BY DEF PointerWriters, WritesOwn
  <2>2. Deleting(c) => \E side \in {"pending", "outgoing"} : c.at \in {Follow[side], Overdue[side], Gone[side]}
    BY DEF Deleting
  <2>3. IdFits(c)
    BY CallTypes
  <2>. QED
    BY <2>1, <2>2, <2>3 DEF IdFits, Seeks
<1>2. /\ c.op = "look" => Me \in Touched(c)
      /\ c.op \in {"create", "accept", "decline"} => Parties(c.id) \subseteq Touched(c)
      /\ Deleting(c) => Parties(c.got) \subseteq Touched(c)
  BY DEF Touched
<1>3. c.op = "create" => c.id \in FriendOffers /\ c.id \in DOMAIN offers
  BY IdsKnown
<1>4. ASSUME Seeks(c), NEW side \in Sides
      PROVE  Subject(c, side) \in Touched(c) /\ Subject(c, side) \in Users
  <2>1. CASE c.op = "look"
    BY <1>2, <2>1, LobbyAssumption DEF Subject
  <2>2. CASE c.op = "create"
    <3>1. PointedUser(side, c.id) \in Parties(c.id) /\ PointedUser(side, c.id) \in Users
      BY <1>3, <2>2, OfferTypes DEF PointedUser, Parties
    <3>. QED
      BY <1>2, <2>2, <3>1 DEF Subject
  <2>. QED
    BY <1>4, <2>1, <2>2 DEF Seeks
<1>5. ASSUME Grown, Writes(c) PROVE Touched(c)' = Touched(c)
  <2>1. c.op # "look" => Parties(c.id)' = Parties(c.id)
    BY <1>5, IdsKnown, GrownKeeps DEF Writes
  <2>2. Deleting(c) => Parties(c.got)' = Parties(c.got)
    BY <1>1, <1>5, GrownKeeps
  <2>. QED
    BY <2>1, <2>2 DEF Touched
<1>6. ASSUME Grown, Seeks(c), NEW side PROVE Subject(c, side)' = Subject(c, side)
  BY <1>3, <1>6, GrownKeeps DEF Subject, PointedUser, Seeks
<1>. QED
  BY <1>1, <1>2, <1>4, <1>5, <1>6

LEMMA MixedIs ==
    ASSUME NEW C, NEW us, NEW w \in us, w \notin MixedWith(C, us)
    PROVE  \A d \in C : ~(Writes(d) /\ w \in Touched(d))
<1>1. ASSUME NEW d \in C, Writes(d), w \in Touched(d) PROVE FALSE
  <2>1. { e \in C : Writes(e) /\ Touched(e) \cap us # {} } # {}
    BY <1>1
  <2>. QED
    BY <2>1 DEF MixedWith
<1>. QED
  BY <1>1

LEMMA AloneTurns ==
    ASSUME TypeOK, Findable, Grown, mixed \subseteq mixed', NEW c \in calls, NEW d,
           calls' = (calls \ {c}) \cup {d},
           \A u \in Users \ mixed' : Writes(d) /\ u \in Touched(d)' =>
               Works(c, u) \/ (\A e \in calls \ {c} : ~Works(e, u))
    PROVE  AloneAtWork'
<1>1. \A e \in calls : Writes(e) => Touched(e)' = Touched(e)
  BY TouchedIs DEF Findable
<1>2. ASSUME NEW u \in Users \ mixed', NEW a \in calls', NEW b \in calls', Works(a, u)', Works(b, u)'
      PROVE  a = b
  <2>1. \A e \in calls' : e # d /\ Works(e, u)' => e \in calls \ {c} /\ Works(e, u)
    BY <1>1 DEF Works
  <2>2. \A x, y \in calls : Works(x, u) /\ Works(y, u) => x = y
    BY <1>2 DEF Findable, AloneAtWork
  <2>3. Works(d, u)' => Works(c, u) \/ (\A e \in calls \ {c} : ~Works(e, u))
    BY <1>2 DEF Works
  <2>. QED
    BY <1>2, <2>1, <2>2, <2>3
<1>. QED
  BY <1>2 DEF AloneAtWork

LEMMA AloneStarts ==
    ASSUME TypeOK, Findable, Grown, mixed \subseteq mixed', NEW C, calls' = calls \cup C,
           \A c \in C : \A u \in Users \ mixed' : Writes(c) /\ u \in Touched(c)' =>
               /\ \A e \in calls : ~Works(e, u)
               /\ \A e \in C : Writes(e) => e = c
    PROVE  AloneAtWork'
<1>1. \A e \in calls : Writes(e) => Touched(e)' = Touched(e)
  BY TouchedIs DEF Findable
<1>2. ASSUME NEW u \in Users \ mixed', NEW a \in calls', NEW b \in calls', Works(a, u)', Works(b, u)'
      PROVE  a = b
  <2>1. \A e \in calls : Works(e, u)' => Works(e, u)
    BY <1>1 DEF Works
  <2>2. \A x, y \in calls : Works(x, u) /\ Works(y, u) => x = y
    BY <1>2 DEF Findable, AloneAtWork
  <2>3. \A c \in C : Works(c, u)' => /\ \A e \in calls : ~Works(e, u)
                                     /\ \A e \in C : Works(e, u)' => e = c
    BY <1>2 DEF Works
  <2>. QED
    BY <1>2, <2>1, <2>2, <2>3
<1>. QED
  BY <1>2 DEF AloneAtWork

\* The record of a call, apart from who waits for its answer.
Twin(e, f) == e.op = f.op /\ e.at = f.at /\ e.id = f.id /\ e.got = f.got /\ e.todo = f.todo

LEMMA AloneFewer ==
    ASSUME TypeOK, Findable, Grown, mixed \subseteq mixed',
           \A e \in calls' : \/ e \in calls
                             \/ e.op = "lookRematch"
                             \/ \E f \in calls : e = Blind(f) /\ Twin(e, f),
           \A f \in calls : f.op = "look" /\ f \in calls' => f = Blind(f)
    PROVE  AloneAtWork'
<1>1. \A e \in calls : Writes(e) => Touched(e)' = Touched(e)
  BY TouchedIs DEF Findable
<1>2. \A f \in calls : f.op # "look" /\ Writes(f) => Blind(f) = f
  BY DEF Blind, Writes
<1>3. \A e \in calls' : Writes(e) => \E f \in calls : e = Blind(f) /\ Writes(f) /\ Touched(e)' = Touched(f)
  <2>1. ASSUME NEW e \in calls', Writes(e), NEW f \in calls, e = Blind(f), Twin(e, f)
        PROVE  Writes(f) /\ Touched(e)' = Touched(f)
    <3>1. Writes(f)
      BY <2>1 DEF Writes, Twin
    <3>2. Touched(e)' = Touched(f)'
      BY <2>1 DEF Touched, Twin, Deleting
    <3>. QED
      BY <1>1, <3>1, <3>2
  <2>2. ASSUME NEW e \in calls', Writes(e), e \in calls PROVE e = Blind(e) /\ Touched(e)' = Touched(e)
    BY <1>1, <1>2, <2>2 DEF Writes
  <2>3. \A e \in calls' : Writes(e) => e.op # "lookRematch"
    BY DEF Writes
  <2>. QED
    BY <2>1, <2>2, <2>3
<1>4. ASSUME NEW u \in Users \ mixed', NEW a \in calls', NEW b \in calls', Works(a, u)', Works(b, u)'
      PROVE  a = b
  <2>1. PICK f \in calls : a = Blind(f) /\ Works(f, u)
    BY <1>3, <1>4 DEF Works
  <2>2. PICK g \in calls : b = Blind(g) /\ Works(g, u)
    BY <1>3, <1>4 DEF Works
  <2>. QED
    BY <1>4, <2>1, <2>2 DEF Findable, AloneAtWork
<1>. QED
  BY <1>4 DEF AloneAtWork

LEMMA AloneLess ==
    ASSUME TypeOK, Findable, Grown, mixed \subseteq mixed', calls' \subseteq calls
    PROVE  AloneAtWork'
<1>1. \A e \in calls : Writes(e) => Touched(e)' = Touched(e)
  BY TouchedIs DEF Findable
<1>. QED
  BY <1>1 DEF Findable, AloneAtWork, Works

\* A call that goes on works on the offers of nobody new, unless it has found
\* an invite that is over.
LEMMA InviteTouches ==
    ASSUME TypeOK, Findable, NEW c \in calls, NEW d, InviteStep(c, d)
    PROVE  /\ Writes(c) /\ Writes(d) /\ (Seeks(d) <=> Seeks(c))
           /\ Deleting(d) => d.got = c.got /\ Seeks(d)
           /\ Touched(d) \subseteq Touched(c) \cup (IF Deleting(d) /\ ~Deleting(c) THEN Parties(c.got) ELSE {})
<1>1. /\ d.op = c.op /\ c.op \in {"create", "accept", "decline", "look"}
      /\ c.op # "look" => d.id = c.id
  BY InviteTodo
<1>2. ASSUME NEW side \in Sides, NEW u, NEW found \in {"refused", "second", "answered"},
             NEW none \in {"outgoing", "save", "second", "answered"},
             LooksUp(c, d, side, u, found, none), Deleting(d)
      PROVE  d.got = c.got
  <2>1. /\ Follow[side] \in {"follow pending", "follow outgoing"}
        /\ d.at \notin {"follow pending", "follow outgoing"} /\ d.at # found /\ d.at # none
    BY <1>2, StageNames, DeletingStages DEF Sides
  <2>. QED
    BY <1>2, <2>1 DEF LooksUp, Turns
<1>3. Deleting(d) => d.got = c.got /\ Seeks(d)
  <2>. SUFFICES ASSUME Deleting(d) PROVE d.got = c.got /\ Seeks(d)
    OBVIOUS
  <2>1. d.at \in {"expire pending", "expire outgoing", "expired pending", "expired outgoing"}
    BY DeletingStages
  <2>2. CASE Creates(c, d)
    <3>1. \/ LooksUp(c, d, "pending", To(c.id), "refused", "outgoing")
          \/ LooksUp(c, d, "outgoing", From(c.id), "refused", "save")
      BY <2>1, <2>2 DEF Creates, Turns
    <3>. QED
      BY <1>1, <1>2, <2>2, <3>1 DEF Sides, Creates, Seeks
  <2>3. ~Accepts(c, d) /\ ~Declines(c, d)
    BY <2>1, StageNames DEF Accepts, Declines, Turns
  <2>4. CASE Looks(c, d)
    <3>1. \/ LooksUp(c, d, "pending", Me, "second", "second")
          \/ LooksUp(c, d, "outgoing", Me, "answered", "answered")
      BY <2>1, <2>4 DEF Looks, Turns
    <3>. QED
      BY <1>1, <1>2, <2>4, <3>1 DEF Sides, Looks, Seeks
  <2>. QED
    BY <2>2, <2>3, <2>4 DEF InviteStep
<1>4. Touched(d) \subseteq Touched(c) \cup (IF Deleting(d) /\ ~Deleting(c) THEN Parties(c.got) ELSE {})
  <2>1. (IF d.op = "look" THEN {Me} ELSE Parties(d.id)) = (IF c.op = "look" THEN {Me} ELSE Parties(c.id))
    BY <1>1
  <2>2. Deleting(d) => Parties(d.got) = Parties(c.got)
    BY <1>3
  <2>. QED
    BY <2>1, <2>2 DEF Touched
<1>. QED
  BY <1>1, <1>3, <1>4 DEF Writes, Seeks

LEMMA AloneStep ==
    ASSUME TypeOK, Findable, Step
    PROVE  AloneAtWork'
<1>0. \A c \in calls : Writes(c) => (c \in calls /\ \A u : u \in Touched(c) => Works(c, u))
  BY DEF Works
<1>1. ASSUME NEW c \in calls, EndOfCall(c) PROVE AloneAtWork'
  BY <1>1, AloneLess, SameMade DEF EndOfCall, Leaves
<1>2. ASSUME NEW c \in calls, NEW d, InviteStep(c, d) PROVE AloneAtWork'
  <2>. DEFINE P == IF Deleting(d) /\ ~Deleting(c) THEN Parties(c.got) ELSE {}
  <2>1. /\ calls' = (calls \ {c}) \cup {d} /\ UNCHANGED <<made, expired>>
        /\ mixed' = mixed \cup (IF Deleting(d) /\ ~Deleting(c)
                                THEN MixedWith(calls \ {c}, Parties(c.got)) ELSE {})
    BY <1>2 DEF InviteStep, Goes
  <2>2. Touched(d)' = Touched(d)
    BY <2>1, SameMade DEF Touched, Deleting
  <2>3. Touched(d) \subseteq Touched(c) \cup P /\ Writes(c)
    BY <1>2, InviteTouches
  <2>4. ASSUME NEW u \in Users \ mixed', Writes(d), u \in Touched(d)'
        PROVE  Works(c, u) \/ (\A e \in calls \ {c} : ~Works(e, u))
    <3>1. CASE u \in Touched(c)
      BY <1>0, <2>3, <3>1
    <3>2. CASE u \in P
      <4>. DEFINE C == calls \ {c}
      <4>1. u \in Parties(c.got) /\ u \notin MixedWith(C, Parties(c.got))
        BY <2>1, <2>4, <3>2
      <4>. HIDE DEF C
      <4>2. \A e \in C : ~(Writes(e) /\ u \in Touched(e))
        BY <4>1, MixedIs
      <4>. QED
        BY <4>2 DEF Works, C
    <3>. QED
      BY <2>2, <2>3, <2>4, <3>1, <3>2
  <2>5. Grown /\ mixed \subseteq mixed'
    BY <2>1, SameMade
  <2>. QED
    BY <2>1, <2>4, <2>5, AloneTurns
<1>3. ASSUME NEW c \in calls, NEW d, MakesMatch(c, d) PROVE AloneAtWork'
  <2>1. /\ calls' = (calls \ {c}) \cup {d} /\ mixed \subseteq mixed' /\ d.op = c.op /\ d.id = c.id
        /\ d.at = "announce" /\ c.op \in {"accept", "acceptRematch"} /\ Grown
    BY <1>3, MakesMatchAdds DEF MakesMatch, Goes
  <2>2. c.op = "accept" => Touched(d)' \subseteq Touched(c)
    <3>1. Touched(d)' = Parties(c.id)'
      BY <2>1, DeletingStages DEF Touched
    <3>2. c.op = "accept" => Parties(c.id)' = Parties(c.id)
      BY <2>1, IdsKnown, GrownKeeps
    <3>. QED
      BY <3>1, <3>2 DEF Touched
  <2>3. \A u \in Users \ mixed' : Writes(d) /\ u \in Touched(d)' => Works(c, u)
    BY <2>1, <2>2 DEF Writes, Works
  <2>. QED
    BY <2>1, <2>3, AloneTurns
<1>4. ASSUME NEW c \in calls, NEW d, RematchStep(c, d) \/ IndexStep(c, d) PROVE AloneAtWork'
  <2>1. /\ calls' = (calls \ {c}) \cup {d} /\ mixed \subseteq mixed' /\ ~Writes(d) /\ Grown
    BY <1>4, SameMade DEF RematchStep, IndexStep, ActiveStep, ChatStep, Goes, AcceptsRematch, DeclinesRematch, LooksForRematch, Writes
  <2>. QED
    BY <2>1, AloneTurns
<1>5. ASSUME NEW c \in calls, NEW d, Writes1(c, d) PROVE AloneAtWork'
  <2>1. /\ calls' = (calls \ {c}) \cup {d} /\ mixed \subseteq mixed' /\ Grown
        /\ d.op = c.op /\ d.id = c.id /\ d.at = c.at /\ d.got = c.got
        /\ UNCHANGED <<made, expired>>
    BY <1>5, SameMade DEF Writes1, Is, ghosts
  <2>2. Touched(d)' = Touched(c)
    BY <2>1, SameMade DEF Touched, Deleting
  <2>3. \A u \in Users \ mixed' : Writes(d) /\ u \in Touched(d)' => Works(c, u)
    BY <2>1, <2>2 DEF Writes, Works
  <2>. QED
    BY <2>1, <2>3, AloneTurns
<1>6. ASSUME NEW c, Started(c) PROVE AloneAtWork'
  <2>. DEFINE C == {c}
  <2>1. calls' = calls \cup C /\ Grown
    BY <1>6, StartedFits DEF Joins
  <2>2. ASSUME NEW us, Writes(c) => mixed' = mixed \cup MixedWith(calls, us), mixed \subseteq mixed',
               Writes(c) => Touched(c)' \subseteq us
        PROVE  AloneAtWork'
    <3>1. ASSUME NEW u \in Users \ mixed', Writes(c), u \in Touched(c)' PROVE \A e \in calls : ~Works(e, u)
      <4>1. u \in us /\ u \notin MixedWith(calls, us)
        BY <2>2, <3>1
      <4>2. \A e \in calls : ~(Writes(e) /\ u \in Touched(e))
        BY <4>1, MixedIs
      <4>. QED
        BY <4>2 DEF Works
    <3>2. \A e \in C : \A u \in Users \ mixed' : Writes(e) /\ u \in Touched(e)' =>
               /\ \A a \in calls : ~Works(a, u)
               /\ \A a \in C : Writes(a) => a = e
      BY <3>1
    <3>. HIDE DEF C
    <3>. QED
      BY <2>1, <2>2, <3>2, AloneStarts
  <2>3. ASSUME NEW u \in Users, NEW v \in Users, AsksForMatch(c, u, v) PROVE AloneAtWork'
    <3>. DEFINE j == Len(offers) + 1
                o == [kind |-> "invite", from |-> u, to |-> v, match |-> 0]
    <3>1. /\ u # v /\ Len(offers) < MaxId /\ offers' = Append(offers, o)
          /\ UNCHANGED <<matches, expired>> /\ c.op = "create" /\ c.id = j /\ c.at = "begin"
          /\ mixed' = mixed \cup MixedWith(calls, {u, v})
      BY <2>3 DEF AsksForMatch, Begun
    <3>2. o \in Offer /\ o.from = u /\ o.to = v /\ o.kind # "rematch"
      BY DEF Offer
    <3>. HIDE DEF o
    <3>3. offers'[j] = o
      BY <3>1, <3>2, OfferAdded
    <3>4. Touched(c)' = Parties(c.id)'
      BY <3>1, DeletingStages DEF Touched
    <3>5. Parties(c.id)' = {u, v}
      BY <3>1, <3>2, <3>3 DEF Parties, From, To
    <3>. QED
      BY <2>2, <3>1, <3>4, <3>5
  <2>4. ASSUME NEW i \in DOMAIN offers, Answers(c, i) PROVE AloneAtWork'
    <3>1. /\ c.op \in {"accept", "decline"} /\ c.id = i /\ c.at = "begin" /\ i \in FriendOffers
          /\ mixed' = mixed \cup MixedWith(calls, Parties(i))
      BY <2>4 DEF Answers, Begun
    <3>2. Touched(c)' = Parties(i)'
      BY <3>1, DeletingStages DEF Touched
    <3>3. Parties(i)' = Parties(i)
      BY <2>1, <3>1, GrownKeeps
    <3>. QED
      BY <2>2, <3>1, <3>2, <3>3
  <2>5. CASE ~Writes(c) /\ mixed' = mixed
    BY <2>2, <2>5
  <2>. QED
    BY <1>6, <2>3, <2>4, <2>5
       DEF Started, RequestsRematch, AnswersRematch, Closes, Chats, AsksForActive, Begun, Writes, ghosts
<1>7. ASSUME NEW c, NEW d, Opens(c, d) PROVE AloneAtWork'
  <2>. DEFINE C == {c, d}
              us == {Me}
  <2>1. /\ calls' = calls \cup C /\ Grown /\ mixed' = mixed \cup MixedWith(calls, us)
        /\ c.op = "look" /\ c.at = "begin" /\ ~Writes(d)
    BY <1>7, SameMade DEF Opens, Joins, Begun, Writes
  <2>2. Touched(c)' \subseteq us
    BY <2>1, DeletingStages DEF Touched
  <2>3. ASSUME NEW u \in Users \ mixed', u \in Touched(c)' PROVE \A e \in calls : ~Works(e, u)
    <3>1. u \in us /\ u \notin MixedWith(calls, us)
      BY <2>1, <2>2, <2>3
    <3>. HIDE DEF us
    <3>2. \A e \in calls : ~(Writes(e) /\ u \in Touched(e))
      BY <3>1, MixedIs
    <3>. QED
      BY <3>2 DEF Works
  <2>4. \A e \in C : \A u \in Users \ mixed' : Writes(e) /\ u \in Touched(e)' =>
               /\ \A a \in calls : ~Works(a, u)
               /\ \A a \in C : Writes(a) => a = e
    BY <2>1, <2>3
  <2>. HIDE DEF C
  <2>. QED
    BY <2>1, <2>4, AloneStarts
<1>8. CASE Leaving
  <2>1. /\ calls' = { Blind(c) : c \in calls } /\ Grown /\ mixed' = mixed
    BY <1>8, SameMade DEF Leaving, ghosts
  <2>2. \A f \in calls : Twin(Blind(f), f)
    BY BlindIs DEF Twin
  <2>3. ASSUME NEW f \in calls, f.op = "look", f \in calls' PROVE f = Blind(f)
    <3>1. PICK g \in calls : f = Blind(g)
      BY <2>1, <2>3
    <3>2. f.by = None /\ f \in Job
      BY <2>3, <3>1, BlindIs
    <3>. QED
      BY <2>3, <3>2 DEF Blind, Job
  <2>. QED
    BY <2>1, <2>2, <2>3, AloneFewer
<1>9. CASE Passes \/ Watches
  <2>1. Grown /\ mixed' = mixed /\ calls' = calls
    BY <1>9 DEF Passes, Watches, made, ghosts, Grown
  <2>. QED
    BY <2>1, AloneLess
<1>10. ASSUME NEW i, NEW k, Drops(i, k) PROVE AloneAtWork'
  BY <1>10, AloneLess, SameMade DEF Drops, ghosts
<1>. QED
  BY <1>1, <1>2, <1>3, <1>4, <1>5, <1>6, <1>7, <1>8, <1>9, <1>10 DEF Step, Turned

------------------------------------------------------------------------------
(* The pointers: what is known where only one call works *)

LEMMA KeysApart ==
    \A i, u, side, k : /\ <<"invite", i>>[1] = "invite" /\ <<"invite", i>>[2] = i
                       /\ <<side, u>>[1] = side /\ <<side, u>>[2] = u
                       /\ side \in Sides => <<side, u>> # <<"invite", i>>
<1>1. "invite" \notin Sides
  BY DEF Sides
<1>2. \A i, u, side : /\ <<"invite", i>>[1] = "invite" /\ <<"invite", i>>[2] = i
                      /\ <<side, u>>[1] = side /\ <<side, u>>[2] = u
  OBVIOUS
<1>3. ASSUME NEW i, NEW u, NEW side \in Sides, <<side, u>> = <<"invite", i>> PROVE FALSE
  <2>1. <<side, u>>[1] = <<"invite", i>>[1]
    BY <1>3
  <2>. QED
    BY <1>1, <2>1
<1>. QED
  BY <1>2, <1>3

\* The keys of an invite are written by calls that work on the offers of the
\* users they belong to.
LEMMA WritersTouch ==
    ASSUME TypeOK, PointerWriters, NEW e \in calls, NEW w \in Writings(e.todo)
    PROVE  /\ \A side \in Sides : \A u : w.key = <<side, u>> => Works(e, u)
           /\ \A i : w.key = <<"invite", i>> => i \in FriendOffers /\ \A u \in Parties(i) : Works(e, u)
           /\ Saver(e) => /\ e.id \in FriendOffers
                          /\ w \in {Set(<<"invite", e.id>>, "pending"), Set(<<"pending", To(e.id)>>, e.id),
                                    Set(<<"outgoing", From(e.id)>>, e.id)}
           /\ ~Saver(e) /\ w.key[1] \in Sides \cup {"invite"} => w.value = None
<1>0. WritesOwn(e)
  BY DEF PointerWriters
<1>1. CASE Saver(e)
  <2>. DEFINE a == Set(<<"invite", e.id>>, "pending")
              b == Set(<<"pending", To(e.id)>>, e.id)
              z == Set(<<"outgoing", From(e.id)>>, e.id)
  <2>1. e.id \in FriendOffers /\ Writes(e) /\ Parties(e.id) \subseteq Touched(e)
    BY <1>1, IdsKnown, TouchedIs DEF Saver, Writes
  <2>2. e.todo \in {<<a, b, z>>, <<b, z>>, <<z>>, <<>>}
    BY <1>0, <1>1 DEF WritesOwn, SaveWrites
  <2>3. a.key = <<"invite", e.id>> /\ b.key = <<"pending", To(e.id)>> /\ z.key = <<"outgoing", From(e.id)>>
    BY DelIs
  <2>. HIDE DEF a, b, z
  <2>4. Writings(e.todo) \subseteq {a, b, z}
    BY <2>2 DEF Writings
  <2>5. w \in {a, b, z}
    BY <2>4
  <2>6. From(e.id) \in Parties(e.id) /\ To(e.id) \in Parties(e.id)
    BY DEF Parties
  <2>7. ASSUME NEW side \in Sides, NEW u, w.key = <<side, u>> PROVE Works(e, u)
    <3>1. w # a
      BY <2>3, <2>7, KeysApart
    <3>2. u \in {To(e.id), From(e.id)}
      <4>1. <<side, u>>[2] = u /\ <<"pending", To(e.id)>>[2] = To(e.id)
            /\ <<"outgoing", From(e.id)>>[2] = From(e.id)
        OBVIOUS
      <4>. QED
        BY <2>3, <2>5, <2>7, <3>1, <4>1
    <3>. QED
      BY <2>1, <2>6, <3>2 DEF Works
  <2>8. ASSUME NEW i, w.key = <<"invite", i>>
        PROVE  i \in FriendOffers /\ \A u \in Parties(i) : Works(e, u)
    <3>1. w = a
      BY <2>3, <2>5, <2>8, KeysApart DEF Sides
    <3>2. i = e.id
      BY <2>3, <2>8, <3>1
    <3>. QED
      BY <2>1, <3>2 DEF Works
  <2>. QED
    BY <1>1, <2>1, <2>5, <2>7, <2>8 DEF a, b, z
<1>2. CASE ~Saver(e)
  <2>1. w.key[1] \in Sides \cup {"invite"} => Deletes(e, w)
    BY <1>0, <1>2 DEF WritesOwn
  <2>2. ASSUME NEW side \in Sides, NEW u, w.key = <<side, u>> PROVE Works(e, u)
    <3>1. w.key[1] = side /\ w.key[2] = u
      BY <2>2
    <3>. QED
      BY <2>1, <3>1 DEF Deletes, Works
  <2>3. ASSUME NEW i, w.key = <<"invite", i>>
        PROVE  i \in FriendOffers /\ \A u \in Parties(i) : Works(e, u)
    <3>1. w.key[1] = "invite" /\ w.key[2] = i
      BY <2>3
    <3>. QED
      BY <2>1, <3>1 DEF Deletes, Works
  <2>. QED
    BY <1>2, <2>1, <2>2, <2>3 DEF Deletes
<1>. QED
  BY <1>1, <1>2

LEMMA AliveTypes ==
    ASSUME TypeOK
    PROVE  \A i : Alive(i) => /\ i \in FriendOffers /\ i \in Nat /\ i # None
                              /\ \A side \in Sides : PointedUser(side, i) \in Users
                                                     /\ PointedUser(side, i) \in Parties(i)
<1>1. \A i \in FriendOffers : i \in Nat /\ From(i) \in Users /\ To(i) \in Users /\ i # None
  BY OfferTypes, MaxIdIsFour, LobbyAssumption DEF FriendOffers
<1>. QED
  BY <1>1 DEF Alive, PointedUser, Parties

LEMMA OnlyOne ==
    ASSUME TypeOK, Findable, NEW c \in calls, NEW u \in Users \ mixed, Works(c, u), NEW e \in calls
    PROVE  /\ Works(e, u) => e = c
           /\ \A side \in Sides : \A w \in Writings(e.todo) : w.key = <<side, u>> => e = c
           /\ \A i : Dooms(e, i) /\ u \in Parties(i) => e = c
           /\ \A side \in Sides : Seeks(e) /\ Subject(e, side) = u => e = c
           /\ e.op = "create" /\ u \in Parties(e.id) => e = c
<1>1. \A d \in calls : Works(d, u) => d = c
  BY DEF Findable, AloneAtWork
<1>2. ASSUME NEW i, Dooms(e, i), u \in Parties(i) PROVE e = c
  <2>1. e.todo # <<>> /\ Head(e.todo) = Del(<<"invite", i>>)
    BY <1>2 DEF Dooms
  <2>2. Del(<<"invite", i>>) \in Writings(e.todo)
    BY <2>1, CallTypes, WritingsOfTail
  <2>3. Works(e, u)
    BY <1>2, <2>2, WritersTouch, DelIs DEF Findable
  <2>. QED
    BY <1>1, <2>3
<1>3. Seeks(e) => Writes(e) /\ \A side \in Sides : Subject(e, side) \in Touched(e)
  BY TouchedIs DEF Findable, Seeks, Writes
<1>4. e.op = "create" => Writes(e) /\ Parties(e.id) \subseteq Touched(e)
  BY TouchedIs DEF Findable, Writes
<1>5. \A side \in Sides : \A w \in Writings(e.todo) : w.key = <<side, u>> => e = c
  BY <1>1, WritersTouch DEF Findable
<1>6. /\ \A side \in Sides : Seeks(e) /\ Subject(e, side) = u => e = c
      /\ e.op = "create" /\ u \in Parties(e.id) => e = c
  BY <1>1, <1>3, <1>4 DEF Works
<1>. QED
  BY <1>1, <1>2, <1>5, <1>6

\* What a call at work alone finds while it has nothing to write.
LEMMA PointedAt ==
    ASSUME TypeOK, Findable, NEW c \in calls, c.todo = <<>>, NEW side \in Sides, NEW i, Alive(i),
           PointedUser(side, i) \notin mixed, Works(c, PointedUser(side, i))
    PROVE  redis[<<side, PointedUser(side, i)>>] = i
<1>. DEFINE u == PointedUser(side, i)
            k == <<side, u>>
<1>1. u \in Users \ mixed /\ i \in FriendOffers /\ Works(c, u) /\ u \in Parties(i)
  BY AliveTypes
<1>2. IsPointed(i, side)
  BY <1>1 DEF Findable, Pointed
<1>. HIDE DEF u
<1>3. \A e \in calls : ~Dooms(e, i)
  BY <1>1, OnlyOne DEF Dooms
<1>4. ASSUME NEW e \in calls, Set(k, i) \in Writings(e.todo) PROVE FALSE
  <2>1. e = c
    BY <1>1, <1>4, OnlyOne, DelIs
  <2>. QED
    BY <1>4, <2>1, WritingsOf
<1>. QED
  BY <1>2, <1>3, <1>4 DEF IsPointed, u

------------------------------------------------------------------------------
(* The pointers: steps that write nothing of invites *)

\* A call that has nothing to do with pointers, for now.
Idle(e) ==
    /\ \A w \in Writings(e.todo) : w.key[1] \notin Sides \cup {"invite"}
    /\ Seeks(e) => e.at = "begin"
    /\ ~Deleting(e)

\* What a pointer that goes away was not needed for.
Unpoints(k) == redis'[k] = None /\ \A i : Alive(i) => redis[k] # i

LEMMA WritesOwnKeeps ==
    ASSUME TypeOK, PointerWriters, Grown, NEW e, NEW f \in calls, Twin(e, f)
    PROVE  WritesOwn(e)'
<1>0. /\ e.op = f.op /\ e.at = f.at /\ e.id = f.id /\ e.got = f.got /\ e.todo = f.todo
      /\ WritesOwn(f)
  BY DEF Twin, PointerWriters
<1>1. (Saver(e) <=> Saver(f)) /\ (Seeks(e) <=> Seeks(f)) /\ (Deleting(e) <=> Deleting(f))
      /\ (Writes(e) <=> Writes(f))
  BY <1>0 DEF Saver, Seeks, Deleting, Writes
<1>2. Saver(e) => (e.todo \in SaveWrites(e.id))'
  <2>1. Saver(f) => f.todo \in SaveWrites(f.id) /\ f.id \in FriendOffers
    BY <1>0, IdsKnown DEF WritesOwn, Saver
  <2>2. f.id \in FriendOffers => From(f.id)' = From(f.id) /\ To(f.id)' = To(f.id)
    BY GrownKeeps
  <2>3. f.id \in FriendOffers => SaveWrites(f.id)' = SaveWrites(f.id)
    BY <2>2 DEF SaveWrites
  <2>. QED
    BY <1>0, <1>1, <2>1, <2>3
<1>3. ASSUME NEW w, Deletes(f, w) PROVE Deletes(e, w)'
  <2>1. Touched(e)' = Touched(f)
    <3>1. Touched(e)' = Touched(f)'
      BY <1>0, <1>1 DEF Touched
    <3>2. Touched(f)' = Touched(f)
      BY <1>3, TouchedIs DEF Deletes
    <3>. QED
      BY <3>1, <3>2
  <2>2. w.key[2] \in FriendOffers => w.key[2] \in FriendOffers' /\ Parties(w.key[2])' = Parties(w.key[2])
    BY GrownKeeps
  <2>. QED
    BY <1>1, <1>3, <2>1, <2>2 DEF Deletes
<1>. QED
  BY <1>0, <1>1, <1>2, <1>3 DEF WritesOwn

LEMMA WritesOwnIdle ==
    ASSUME NEW e, Idle(e)
    PROVE  WritesOwn(e)'
<1>1. ~Saver(e) /\ ~Deleting(e) /\ (Seeks(e) => e.at = "begin")
  BY DEF Idle, Saver, Seeks
<1>2. \A side \in Sides : "begin" \notin {Follow[side], Overdue[side]}
  BY StageNames DEF Sides
<1>. QED
  BY <1>1, <1>2 DEF WritesOwn, Idle

LEMMA FindableKeeps ==
    ASSUME TypeOK, Findable, Grown, mixed \subseteq mixed', AloneAtWork',
           \A i : Alive(i)' => Alive(i),
           \A side \in Sides : \A u \in Users :
               redis'[<<side, u>>] = redis[<<side, u>>] \/ Unpoints(<<side, u>>),
           \A e \in calls' : Idle(e) \/ \E f \in calls : Twin(e, f),
           \A f \in calls : f.todo = <<>> \/ \E e \in calls' : Twin(e, f)
    PROVE  Findable'
<1>1. ASSUME NEW i, NEW side \in Sides, Alive(i)'
      PROVE  /\ Alive(i) /\ i \in FriendOffers /\ PointedUser(side, i)' = PointedUser(side, i)
             /\ PointedUser(side, i) \in Users
  <2>1. Alive(i) /\ i \in FriendOffers
    BY <1>1 DEF Alive
  <2>2. From(i)' = From(i) /\ To(i)' = To(i)
    BY <2>1, GrownKeeps
  <2>. QED
    BY <2>1, <2>2, AliveTypes DEF PointedUser
<1>2. PointerWriters'
  BY WritesOwnKeeps, WritesOwnIdle DEF Findable, PointerWriters
<1>3. Pointed'
  <2>. SUFFICES ASSUME NEW i, NEW side \in Sides, Alive(i)', PointedUser(side, i)' \notin mixed'
                PROVE  IsPointed(i, side)'
    BY DEF Pointed
  <2>. DEFINE u == PointedUser(side, i)
              k == <<side, u>>
  <2>1. Alive(i) /\ i \in FriendOffers /\ PointedUser(side, i)' = u /\ u \in Users /\ u \notin mixed
    BY <1>1
  <2>2. IsPointed(i, side)
    BY <2>1 DEF Findable, Pointed
  <2>. HIDE DEF u
  <2>3. CASE \E e \in calls : Dooms(e, i)
    <3>1. PICK e \in calls : Dooms(e, i)
      BY <2>3
    <3>2. PICK f \in calls' : Twin(f, e)
      BY <3>1 DEF Dooms
    <3>3. Dooms(f, i)
      BY <3>1, <3>2 DEF Dooms, Twin
    <3>. QED
      BY <3>2, <3>3 DEF IsPointed, Dooms
  <2>4. CASE redis[k] = i /\ \A c \in calls : \A w \in Writings(c.todo) : w.key # k
    <3>1. redis'[k] = i
      BY <2>1, <2>4 DEF Unpoints
    <3>2. ASSUME NEW c \in calls', NEW w \in Writings(c.todo) PROVE w.key # k
      <4>1. CASE Idle(c)
        <5>1. w.key[1] \notin Sides
          BY <3>2, <4>1 DEF Idle
        <5>. QED
          BY <5>1
      <4>2. ASSUME NEW f \in calls, Twin(c, f) PROVE w.key # k
        BY <2>4, <3>2, <4>2 DEF Twin
      <4>. QED
        BY <4>1, <4>2
    <3>. QED
      BY <2>1, <3>1, <3>2 DEF IsPointed
  <2>5. CASE \E c \in calls : c.op = "create" /\ c.id = i /\ Set(k, i) \in Writings(c.todo)
    <3>1. PICK c \in calls : c.op = "create" /\ c.id = i /\ Set(k, i) \in Writings(c.todo)
      BY <2>5
    <3>2. c.todo # <<>>
      BY <3>1, WritingsOf
    <3>3. PICK f \in calls' : Twin(f, c)
      BY <3>2
    <3>4. f.op = "create" /\ f.id = i /\ Set(k, i) \in Writings(f.todo)
      BY <3>1, <3>3 DEF Twin
    <3>. QED
      BY <2>1, <3>3, <3>4 DEF IsPointed, Set
  <2>. QED
    BY <2>2, <2>3, <2>4, <2>5 DEF IsPointed, u
<1>s. ASSUME NEW e \in calls', Seeks(e), NEW f \in calls, Twin(e, f)
      PROVE  Seeks(f) /\ \A side \in Sides : Subject(e, side)' = Subject(f, side) /\ Subject(f, side) \in Users
  <2>1. Seeks(f)
    BY <1>s DEF Seeks, Twin
  <2>2. \A side : Subject(e, side)' = Subject(f, side)'
    BY <1>s DEF Subject, Twin
  <2>. QED
    BY <2>1, <2>2, TouchedIs DEF Findable
<1>4. LooksTrue'
  <2>. SUFFICES ASSUME NEW e \in calls', NEW side \in Sides, Seeks(e), Subject(e, side)' \notin mixed'
                PROVE  KnowsPointer(e, side)'
    BY DEF LooksTrue, Seeks
  <2>1. CASE Idle(e)
    <3>1. e.at \notin {Follow[side], Overdue[side], Gone[side]}
      BY <2>1, StageNames DEF Idle, Sides
    <3>. QED
      BY <3>1 DEF KnowsPointer
  <2>2. ASSUME NEW f \in calls, Twin(e, f) PROVE KnowsPointer(e, side)'
    <3>. DEFINE u == Subject(f, side)
    <3>1. Seeks(f) /\ Subject(e, side)' = u /\ u \in Users /\ u \notin mixed
      BY <1>s, <2>2
    <3>2. KnowsPointer(f, side)
      BY <3>1 DEF Findable, LooksTrue
    <3>. HIDE DEF u
    <3>3. e.at \in {Follow[side], Overdue[side]} => redis'[<<side, u>>] \in {e.got, None}
      BY <2>2, <3>1, <3>2 DEF KnowsPointer, Twin, Unpoints, u
    <3>4. ASSUME e.at = Gone[side], NEW i, Alive(i)', PointedUser(side, i)' = u PROVE Dooms(e, i)
      <4>1. Alive(i) /\ i \in FriendOffers /\ PointedUser(side, i) = u
        BY <1>1, <3>4
      <4>2. Dooms(f, i)
        BY <2>2, <3>2, <3>4, <4>1 DEF KnowsPointer, Twin, u
      <4>. QED
        BY <2>2, <4>2 DEF Dooms, Twin
    <3>. QED
      BY <3>1, <3>3, <3>4 DEF KnowsPointer, Dooms
  <2>. QED
    BY <2>1, <2>2
<1>5. RoomIsFree'
  <2>. SUFFICES ASSUME NEW e \in calls', e.op = "create" PROVE RoomFor(e)'
    BY DEF RoomIsFree
  <2>1. CASE Idle(e)
    <3>1. e.at = "begin"
      BY <2>1 DEF Idle, Seeks
    <3>2. e.at \notin PastPending /\ e.at # "save"
      BY <3>1, StageNames DEF PastPending
    <3>. QED
      BY <3>2 DEF RoomFor, PastPending
  <2>2. ASSUME NEW f \in calls, Twin(e, f) PROVE RoomFor(e)'
    <3>1. f.op = "create" /\ f.at = e.at /\ e.id = f.id /\ RoomFor(f) /\ f.id \in FriendOffers
      BY <2>2, IdsKnown DEF Twin, Findable, RoomIsFree
    <3>2. To(e.id)' = To(f.id) /\ From(e.id)' = From(f.id)
      BY <3>1, GrownKeeps
    <3>3. ASSUME NEW side \in Sides, NEW u, NoneOf(side, u) PROVE NoneOf(side, u)'
      BY <1>1, <3>3 DEF NoneOf
    <3>. QED
      BY <3>1, <3>2, <3>3 DEF RoomFor, PastPending, Sides
  <2>. QED
    BY <2>1, <2>2
<1>. QED
  BY <1>2, <1>3, <1>4, <1>5 DEF Findable

LEMMA AliveBefore ==
    ASSUME TypeOK, TypeOK', redis' = redis
    PROVE  \A i : Alive(i)' => Alive(i)
<1>1. ASSUME NEW i, Alive(i)' PROVE Alive(i)
  <2>1. i \in FriendOffers' /\ redis[<<"invite", i>>] # None
    BY <1>1 DEF Alive
  <2>2. FriendOffers' \subseteq 1 .. MaxId
    <3>1. /\ offers' \in Seq(Offer) /\ Len(offers') <= MaxId
      BY DEF TypeOK, MadeOK
    <3>2. DOMAIN offers' = 1 .. Len(offers') /\ Len(offers') \in Nat
      BY <3>1, LenProperties
    <3>. QED
      BY <3>1, <3>2, MaxIdIsFour DEF FriendOffers
  <2>3. Fits(<<"invite", i>>, redis[<<"invite", i>>])
    BY <2>1, <2>2, KeyTypes DEF TypeOK, StoreOK
  <2>4. i \in FriendOffers
    BY <2>1, <2>3 DEF Fits
  <2>. QED
    BY <2>1, <2>4 DEF Alive
<1>. QED
  BY <1>1

\* Calls end, begin or go on, and the store is as it was.
LEMMA FindableStays ==
    ASSUME TypeOK, TypeOK', Findable, Grown, mixed \subseteq mixed', AloneAtWork', redis' = redis,
           \A e \in calls' : Idle(e) \/ \E f \in calls : Twin(e, f),
           \A f \in calls : f.todo = <<>> \/ \E e \in calls' : Twin(e, f)
    PROVE  Findable'
<1>1. \A i : Alive(i)' => Alive(i)
  BY AliveBefore
<1>2. \A side \in Sides : \A u \in Users :
        redis'[<<side, u>>] = redis[<<side, u>>] \/ Unpoints(<<side, u>>)
  OBVIOUS
<1>. QED
  BY <1>1, <1>2, FindableKeeps

\* What calls leave to do that begin, make a match, or look after one.
LEMMA IdleSteps ==
    ASSUME TypeOK
    PROVE  /\ \A c \in calls : \A d : MakesMatch(c, d) \/ RematchStep(c, d) \/ IndexStep(c, d) => Idle(d)
           /\ \A c : Started(c) => Idle(c)
           /\ \A c, d : Opens(c, d) => Idle(c) /\ Idle(d)
<1>1. ASSUME NEW c \in calls, NEW d, MakesMatch(c, d) PROVE Idle(d)
  <2>. DEFINE m == Len(matches) + 1
              u == Seats(c)[1]
              v == Seats(c)[2]
  <2>1. /\ d.op = c.op /\ d.at = "announce" /\ c.op \in {"accept", "acceptRematch"}
        /\ d.todo = SaveState(m, "live", Seats(c))
    BY <1>1 DEF MakesMatch, Goes
  <2>2. m \in 1 .. MaxId
    BY <1>1, MakesMatchAdds
  <2>3. u \in Users /\ v \in Users /\ Seats(c) = <<u, v>>
    BY <2>1, SeatTypes
  <2>. HIDE DEF m, u, v
  <2>5. \A w \in Writings(d.todo) : w.key[1] \in {"session", "active"}
    BY <2>1, <2>2, <2>3, SavedKeys
  <2>. QED
    BY <2>1, <2>5, DeletingStages DEF Idle, Seeks, Sides
<1>2. ASSUME NEW c \in calls, NEW d, RematchStep(c, d) PROVE Idle(d)
  <2>1. d.op = c.op /\ c.op \in {"acceptRematch", "declineRematch", "lookRematch"}
        /\ d.at \in {"delete", "create", "told", "answered", "follow", "session"}
    BY <1>2 DEF RematchStep, Goes, AcceptsRematch, DeclinesRematch, LooksForRematch
  <2>2. \A w \in Writings(d.todo) : w.key[1] \in {"rematch", "rematchPending"}
    BY <1>2, RematchTodo
  <2>. QED
    BY <2>1, <2>2, DeletingStages DEF Idle, Seeks, Sides
<1>3. ASSUME NEW c \in calls, NEW d, IndexStep(c, d) PROVE Idle(d)
  BY <1>3, IndexTodo, DeletingStages DEF Idle, Seeks, Sides
<1>b. ASSUME NEW c, c.at = "begin", \A w \in Writings(c.todo) : w.key[1] \notin Sides \cup {"invite"}
      PROVE  Idle(c)
  BY <1>b, DeletingStages DEF Idle
<1>4. ASSUME NEW c, Started(c) PROVE Idle(c)
  <2>1. ASSUME NEW u \in Users, NEW v \in Users, NEW m \in DOMAIN matches, RequestsRematch(c, u, v, m)
        PROVE  Idle(c)
    <3>. DEFINE a == Set(<<"rematch", m>>, Len(offers) + 1)
                b == Set(<<"rematchPending", v>>, m)
    <3>1. c.todo = <<a, b>> /\ c.at = "begin"
      BY <2>1 DEF RequestsRematch, Begun
    <3>2. a.key[1] = "rematch" /\ b.key[1] = "rematchPending"
      BY DelIs
    <3>. HIDE DEF a, b
    <3>3. Writings(c.todo) = {a, b}
      BY <3>1 DEF Writings
    <3>. QED
      BY <1>b, <3>1, <3>2, <3>3 DEF Sides
  <2>2. ASSUME NEW u \in Users, NEW v \in Users, NEW m \in DOMAIN matches, Closes(c, m, u, v)
        PROVE  Idle(c)
    <3>1. c.todo = SaveState(m, "over", <<u, v>>) /\ c.at = "begin" /\ m \in 1 .. MaxId
      BY <2>2, OfferTypes DEF Closes, Begun
    <3>2. \A w \in Writings(c.todo) : w.key[1] \in {"session", "active"}
      BY <3>1, SavedKeys
    <3>. QED
      BY <1>b, <3>1, <3>2 DEF Sides
  <2>4. ASSUME NEW m \in DOMAIN matches, Chats(c, m) PROVE Idle(c)
    <3>1. c.op = "chat" /\ c.at \in {"live", "over"} /\ c.todo = <<>>
      BY <2>4 DEF Chats
    <3>. QED
      BY <3>1, WritingsOf, DeletingStages DEF Idle, Seeks
  <2>3. CASE c.at = "begin" /\ c.todo = <<>>
    BY <1>b, <2>3, WritingsOf
  <2>. QED
    BY <1>4, <2>1, <2>2, <2>3, <2>4 DEF Started, AsksForMatch, Answers, AnswersRematch, AsksForActive, Begun
<1>5. ASSUME NEW c, NEW d, Opens(c, d) PROVE Idle(c) /\ Idle(d)
  BY <1>5, <1>b, WritingsOf DEF Opens, Begun
<1>. QED
  BY <1>1, <1>2, <1>3, <1>4, <1>5

LEMMA FindableQuiet ==
    ASSUME TypeOK, TypeOK', Findable, AloneAtWork',
           \/ \E c \in calls : EndOfCall(c) \/ \E d : MakesMatch(c, d) \/ RematchStep(c, d) \/ IndexStep(c, d)
           \/ \E c : Started(c) \/ \E d : Opens(c, d)
           \/ Leaving \/ Passes \/ Watches
    PROVE  Findable'
<1>0. \A f \in calls : Twin(f, f)
  BY DEF Twin
<1>1. ASSUME NEW c \in calls, EndOfCall(c) PROVE Findable'
  <2>1. /\ calls' = calls \ {c} /\ c.todo = <<>> /\ redis' = redis /\ Grown /\ mixed' = mixed
    BY <1>1, SameMade DEF EndOfCall, Leaves
  <2>. QED
    BY <1>0, <2>1, FindableStays
<1>2. ASSUME NEW c \in calls, NEW d, MakesMatch(c, d) \/ RematchStep(c, d) \/ IndexStep(c, d)
      PROVE  Findable'
  <2>1. Idle(d)
    BY <1>2, IdleSteps
  <2>2. Grown
    BY <1>2, SameMade, MakesMatchAdds DEF RematchStep, IndexStep, ActiveStep, ChatStep
  <2>3. /\ calls' = (calls \ {c}) \cup {d} /\ c.todo = <<>> /\ redis' = redis /\ mixed' = mixed
    BY <1>2 DEF MakesMatch, RematchStep, IndexStep, ActiveStep, ChatStep, Goes
  <2>. QED
    BY <1>0, <2>1, <2>2, <2>3, FindableStays
<1>3. ASSUME NEW c, Started(c) PROVE Findable'
  <2>1. calls' = calls \cup {c} /\ redis' = redis /\ Grown /\ Idle(c)
    BY <1>3, StartedFits, IdleSteps DEF Joins
  <2>2. mixed \subseteq mixed'
    BY <1>3 DEF Started, AsksForMatch, Answers, RequestsRematch, AnswersRematch, Closes, Chats,
              AsksForActive, ghosts
  <2>. QED
    BY <1>0, <2>1, <2>2, FindableStays
<1>4. ASSUME NEW c, NEW d, Opens(c, d) PROVE Findable'
  <2>1. /\ calls' = calls \cup {c, d} /\ redis' = redis /\ Grown /\ Idle(c) /\ Idle(d)
        /\ mixed \subseteq mixed'
    BY <1>4, SameMade, IdleSteps DEF Opens, Joins
  <2>. QED
    BY <1>0, <2>1, FindableStays
<1>5. CASE Leaving
  <2>1. /\ calls' = { Blind(f) : f \in calls } /\ redis' = redis /\ Grown /\ mixed' = mixed
    BY <1>5, SameMade DEF Leaving, ghosts
  <2>2. \A f \in calls : Twin(Blind(f), f)
    BY BlindIs DEF Twin
  <2>. QED
    BY <2>1, <2>2, FindableStays
<1>6. CASE Passes \/ Watches
  <2>1. Grown /\ mixed' = mixed /\ calls' = calls /\ redis' = redis
    BY <1>6 DEF Passes, Watches, made, ghosts, Grown
  <2>. QED
    BY <1>0, <2>1, FindableStays
<1>. QED
  BY <1>1, <1>2, <1>3, <1>4, <1>5, <1>6

LEMMA FindableDrops ==
    ASSUME TypeOK, TypeOK', Findable, AloneAtWork', NEW j, NEW k, Drops(j, k)
    PROVE  Findable'
<1>1. /\ redis' = [redis EXCEPT ![k] = None] /\ k \in Keys /\ DOMAIN redis = Keys
      /\ calls' = calls /\ mixed' = mixed /\ Grown /\ FriendOffers' = FriendOffers /\ Lost(j, k)
  BY SameMade DEF Drops, ghosts, TypeOK, StoreOK
<1>2. ASSUME NEW i, Alive(i)' PROVE Alive(i)
  <2>1. i \in FriendOffers /\ <<"invite", i>> \in Keys
    BY <1>1, <1>2, OfferTypes, KeyTypes DEF Alive
  <2>. QED
    BY <1>1, <1>2, <2>1 DEF Alive
<1>3. ASSUME NEW side \in Sides, NEW u \in Users, redis'[<<side, u>>] # redis[<<side, u>>]
      PROVE  Unpoints(<<side, u>>)
  <2>1. <<side, u>> \in Keys
    BY PointerTypes
  <2>2. k = <<side, u>> /\ redis'[k] = None
    BY <1>1, <1>3, <2>1
  <2>3. k[1] = side /\ side \notin {"invite", "rematch", "rematchPending"}
    BY <2>2 DEF Sides
  <2>4. redis[<<"invite", j>>] = None /\ redis[k] = j
    BY <1>1, <2>3 DEF Lost, OfferKey
  <2>. QED
    BY <2>2, <2>4 DEF Unpoints, Alive
<1>4. \A f \in calls : Twin(f, f)
  BY DEF Twin
<1>. QED
  BY <1>1, <1>2, <1>3, <1>4, FindableKeeps

------------------------------------------------------------------------------
(* The pointers: steps of calls about invites *)

Seeking == {"follow pending", "follow outgoing", "expire pending", "expire outgoing",
            "expired pending", "expired outgoing"}
LEMMA SeekingStages ==
    \A side \in Sides : Follow[side] \in Seeking /\ Overdue[side] \in Seeking /\ Gone[side] \in Seeking
BY StageNames DEF Sides, Seeking

\* A step of a call that looks pointers up.
Finds(c, d, side) ==
    \E found \in {"refused", "second", "answered"} :
    \E none \in {"outgoing", "save", "second", "answered"} :
        /\ LooksUp(c, d, side, Subject(c, side), found, none)
        /\ c.op = "create" => found = "refused" /\ none = (IF side = "pending" THEN "outgoing" ELSE "save")
        /\ c.op = "look" => none \in {"second", "answered"}
SavesInvite(c, d) ==
    c.op = "create" /\ c.at = "save" /\ d.at = "told" /\ d.todo = SaveFriendInvite(c.id)
Moves(d) ==
    /\ d.todo = <<>> /\ d.at \notin Seeking
    /\ d.op = "create" => d.at \notin {"outgoing", "save", "told"}

LEMMA SeekRows ==
    ASSUME TypeOK, NEW c \in calls, NEW d, InviteStep(c, d), Seeks(c)
    PROVE  /\ \A side \in Sides : Subject(d, side) = Subject(c, side)
           /\ \/ Moves(d) \/ SavesInvite(c, d) \/ \E side \in Sides : Finds(c, d, side)
<1>1. /\ d.op = c.op /\ (c.op # "look" => d.id = c.id) /\ c.op \in {"create", "look"}
      /\ "pending" \in Sides /\ "outgoing" \in Sides
  BY InviteTodo DEF Seeks, Sides
<1>2. \A side \in Sides : Subject(d, side) = Subject(c, side)
  BY <1>1 DEF Subject
<1>3. CASE c.op = "create"
  <2>1. Creates(c, d)
    BY <1>3 DEF InviteStep, Accepts, Declines, Looks
  <2>2. Subject(c, "pending") = To(c.id) /\ Subject(c, "outgoing") = From(c.id)
    BY <1>3 DEF Subject, PointedUser
  <2>3. CASE LooksUp(c, d, "pending", To(c.id), "refused", "outgoing")
    <3>1. Finds(c, d, "pending")
      BY <1>3, <2>2, <2>3 DEF Finds
    <3>. QED
      BY <1>1, <1>2, <3>1
  <2>4. CASE LooksUp(c, d, "outgoing", From(c.id), "refused", "save")
    <3>1. Finds(c, d, "outgoing")
      BY <1>3, <2>2, <2>4 DEF Finds
    <3>. QED
      BY <1>1, <1>2, <3>1
  <2>5. CASE \/ Turns(c, d, "begin", "pending") \/ Turns(c, d, "begin", "failed")
             \/ Turns(c, d, "refused", "failed") \/ Turns(c, d, "told", "created")
    <3>1. Moves(d)
      BY <2>5 DEF Turns, Moves, Seeking
    <3>. QED
      BY <1>2, <3>1
  <2>6. CASE c.at = "save" /\ d.at = "told" /\ d.todo = SaveFriendInvite(c.id)
    BY <1>2, <1>3, <2>6 DEF SavesInvite
  <2>. QED
    BY <2>1, <2>3, <2>4, <2>5, <2>6 DEF Creates
<1>4. CASE c.op = "look"
  <2>1. Looks(c, d)
    BY <1>4 DEF InviteStep, Accepts, Declines, Creates
  <2>2. Subject(c, "pending") = Me /\ Subject(c, "outgoing") = Me
    BY <1>4 DEF Subject
  <2>3. CASE LooksUp(c, d, "pending", Me, "second", "second")
    <3>1. Finds(c, d, "pending")
      BY <1>4, <2>2, <2>3 DEF Finds
    <3>. QED
      BY <1>1, <1>2, <3>1
  <2>4. CASE LooksUp(c, d, "outgoing", Me, "answered", "answered")
    <3>1. Finds(c, d, "outgoing")
      BY <1>4, <2>2, <2>4 DEF Finds
    <3>. QED
      BY <1>1, <1>2, <3>1
  <2>5. CASE Turns(c, d, "begin", "pending") \/ (d.at = "outgoing" /\ d.todo = <<>>)
    <3>1. Moves(d)
      BY <1>1, <1>4, <2>5 DEF Turns, Moves, Seeking
    <3>. QED
      BY <1>2, <3>1
  <2>. QED
    BY <2>1, <2>3, <2>4, <2>5 DEF Looks
<1>. QED
  BY <1>1, <1>3, <1>4

\* The rows of a lookup, by the stage it comes to.
LEMMA FindRows ==
    ASSUME TypeOK, NEW c \in calls, NEW d, NEW side \in Sides, Finds(c, d, side), Seeks(c)
    PROVE  /\ d.at \in Seeking =>
                \/ d.at = Follow[side] /\ d.got = redis[<<side, Subject(c, side)>>] /\ d.todo = <<>>
                \/ /\ c.at = Follow[side] /\ d.at = Overdue[side] /\ d.got = c.got /\ d.todo = <<>>
                \/ /\ c.at = Overdue[side] /\ d.at = Gone[side] /\ d.got = c.got
                   /\ d.todo = DeleteFriendInvite(c.got)
           /\ d.at \notin Seeking =>
                \/ c.at \in {side, Gone[side], Follow[side]} /\ d.todo = <<>>
                \/ /\ c.at = Follow[side] /\ ~There(c, side, Subject(c, side))
                   /\ d.todo = <<Del(<<side, Subject(c, side)>>)>>
           /\ d.at \notin Seeking /\ c.op = "create" /\ d.at # "refused" =>
                  /\ d.at = (IF side = "pending" THEN "outgoing" ELSE "save")
                  /\ \/ c.at = side /\ redis[<<side, Subject(c, side)>>] = None
                     \/ c.at = Follow[side] /\ ~There(c, side, Subject(c, side))
                     \/ c.at = Gone[side]
<1>. DEFINE u == Subject(c, side)
<1>1. PICK found \in {"refused", "second", "answered"}, none \in {"outgoing", "save", "second", "answered"} :
        /\ LooksUp(c, d, side, u, found, none)
        /\ c.op = "create" => found = "refused" /\ none = (IF side = "pending" THEN "outgoing" ELSE "save")
  BY DEF Finds
<1>2. found \notin Seeking /\ none \notin Seeking /\ (c.op = "create" => none # "refused")
  BY <1>1 DEF Seeking
<1>3. Follow[side] \in Seeking /\ Overdue[side] \in Seeking /\ Gone[side] \in Seeking
  BY SeekingStages
<1>. HIDE DEF u
<1>4. d.at \in Seeking =>
                \/ d.at = Follow[side] /\ d.got = redis[<<side, u>>] /\ d.todo = <<>>
                \/ /\ c.at = Follow[side] /\ d.at = Overdue[side] /\ d.got = c.got /\ d.todo = <<>>
                \/ /\ c.at = Overdue[side] /\ d.at = Gone[side] /\ d.got = c.got
                   /\ d.todo = DeleteFriendInvite(c.got)
  BY <1>1, <1>2 DEF LooksUp, Turns
<1>5. d.at \notin Seeking =>
                \/ c.at \in {side, Gone[side], Follow[side]} /\ d.todo = <<>>
                \/ c.at = Follow[side] /\ ~There(c, side, u) /\ d.todo = <<Del(<<side, u>>)>>
  BY <1>1, <1>3 DEF LooksUp, Turns
<1>6. ASSUME d.at \notin Seeking, c.op = "create", d.at # "refused"
      PROVE  /\ d.at = (IF side = "pending" THEN "outgoing" ELSE "save")
             /\ \/ c.at = side /\ redis[<<side, u>>] = None
                \/ c.at = Follow[side] /\ ~There(c, side, u)
                \/ c.at = Gone[side]
  BY <1>1, <1>3, <1>6 DEF LooksUp, Turns
<1>. QED
  BY <1>4, <1>5, <1>6 DEF u

\* Who finds nothing finds that there is nothing.
LEMMA NothingThere ==
    ASSUME TypeOK, Findable, NEW c \in calls, c.todo = <<>>, Seeks(c), NEW side \in Sides,
           Subject(c, side) \notin mixed,
           \/ c.at = side /\ redis[<<side, Subject(c, side)>>] = None
           \/ c.at = Follow[side] /\ ~There(c, side, Subject(c, side))
           \/ c.at = Gone[side]
    PROVE  NoneOf(side, Subject(c, side))
<1>. DEFINE u == Subject(c, side)
<1>1. Works(c, u) /\ u \in Users /\ u \notin mixed /\ KnowsPointer(c, side)
  BY TouchedIs DEF Findable, Works, Writes, Seeks, LooksTrue
<1>2. ASSUME NEW i \in FriendOffers, Alive(i), PointedUser(side, i) = u PROVE FALSE
  <2>1. redis[<<side, u>>] = i /\ i # None /\ redis[<<"invite", i>>] # None
    BY <1>1, <1>2, PointedAt, AliveTypes DEF Alive
  <2>2. CASE c.at = Follow[side] /\ ~There(c, side, u)
    <3>1. redis[<<side, u>>] \in {c.got, None}
      BY <1>1, <2>2 DEF KnowsPointer
    <3>. QED
      BY <1>2, <2>1, <2>2, <3>1 DEF There
  <2>3. CASE c.at = Gone[side]
    BY <1>1, <1>2, <2>3 DEF KnowsPointer, Dooms
  <2>. QED
    BY <2>1, <2>2, <2>3
<1>. QED
  BY <1>2 DEF NoneOf

LEMMA InviteWrites ==
    ASSUME TypeOK, Findable, NEW c \in calls, NEW d, InviteStep(c, d)
    PROVE  /\ \/ d.todo = <<>> /\ ~Saver(d)
              \/ SavesInvite(c, d) /\ d.id = c.id
              \/ \E j \in FriendOffers :
                   /\ d.todo = DeleteFriendInvite(j) /\ ~Saver(d)
                   /\ Parties(j) \subseteq Touched(c) /\ Parties(j) \subseteq Touched(d)
              \/ \E side \in Sides :
                   /\ Seeks(c) /\ c.at = Follow[side] /\ ~There(c, side, Subject(c, side)) /\ ~Saver(d)
                   /\ d.todo = <<Del(<<side, Subject(c, side)>>)>> /\ Subject(c, side) \in Touched(d)
           /\ Seeks(d) /\ (\E side \in Sides : d.at \in {Follow[side], Overdue[side]}) => d.todo = <<>>
<1>0. /\ d.op = c.op /\ (c.op # "look" => d.id = c.id)
      /\ c.op \in {"create", "accept", "decline", "look"} /\ (Seeks(d) <=> Seeks(c))
  BY InviteTodo DEF Seeks
<1>1. CASE Seeks(c)
  <2>1. \A side \in Sides : Subject(d, side) = Subject(c, side)
    BY <1>1, SeekRows
  <2>2. \A side \in Sides : Subject(c, side) \in Touched(d)
    <3>1. ASSUME NEW side \in Sides PROVE Subject(c, side) \in Touched(d)
      <4>1. c.op = "look" => Subject(c, side) = Me /\ Me \in Touched(d)
        BY <1>0 DEF Subject, Touched
      <4>2. c.op = "create" => Subject(c, side) \in Parties(c.id) /\ Parties(c.id) \subseteq Touched(d)
        BY <1>0 DEF Subject, Touched, PointedUser, Parties
      <4>. QED
        BY <1>1, <4>1, <4>2 DEF Seeks
    <3>. QED
      BY <3>1
  <2>3. \A side \in Sides : Follow[side] \in Seeking /\ Overdue[side] \in Seeking /\ Gone[side] \in Seeking
    BY SeekingStages
  <2>4. CASE Moves(d)
    BY <2>4 DEF Moves, Saver
  <2>5. CASE SavesInvite(c, d)
    <3>1. d.at \notin Seeking
      BY <2>5 DEF SavesInvite, Seeking
    <3>. QED
      BY <1>0, <2>3, <2>5, <3>1 DEF SavesInvite
  <2>6. ASSUME NEW side \in Sides, Finds(c, d, side)
        PROVE  /\ \/ d.todo = <<>>
                  \/ \E j \in FriendOffers :
                       /\ d.todo = DeleteFriendInvite(j)
                       /\ Parties(j) \subseteq Touched(c) /\ Parties(j) \subseteq Touched(d)
                  \/ \E s \in Sides :
                       /\ Seeks(c) /\ c.at = Follow[s] /\ ~There(c, s, Subject(c, s))
                       /\ d.todo = <<Del(<<s, Subject(c, s)>>)>> /\ Subject(c, s) \in Touched(d)
               /\ (\E s \in Sides : d.at \in {Follow[s], Overdue[s]}) => d.todo = <<>>
               /\ ~Saver(d)
    <3>1. CASE d.at \in Seeking
      <4>1. ~Saver(d)
        BY <3>1 DEF Seeking, Saver
      <4>2. d.todo = <<>> \/ (/\ c.at = Overdue[side] /\ d.at = Gone[side] /\ d.got = c.got
                              /\ d.todo = DeleteFriendInvite(c.got))
        BY <1>1, <2>6, <3>1, FindRows
      <4>3. ASSUME c.at = Overdue[side], d.at = Gone[side], d.got = c.got, d.todo = DeleteFriendInvite(c.got)
            PROVE  /\ c.got \in FriendOffers /\ Parties(c.got) \subseteq Touched(c)
                   /\ Parties(c.got) \subseteq Touched(d)
                   /\ \A s \in Sides : d.at \notin {Follow[s], Overdue[s]}
        <5>1. Deleting(c) /\ Deleting(d)
          BY <4>3 DEF Deleting, Sides
        <5>2. c.got \in FriendOffers /\ Parties(c.got) \subseteq Touched(c)
          BY <5>1, TouchedIs DEF Findable
        <5>3. Parties(c.got) \subseteq Touched(d)
          BY <4>3, <5>1 DEF Touched
        <5>4. \A s \in Sides : d.at \notin {Follow[s], Overdue[s]}
          BY <4>3, StageNames DEF Sides
        <5>. QED
          BY <5>2, <5>3, <5>4
      <4>. QED
        BY <4>1, <4>2, <4>3
    <3>2. CASE d.at \notin Seeking
      <4>1. \/ d.todo = <<>>
            \/ /\ c.at = Follow[side] /\ ~There(c, side, Subject(c, side))
               /\ d.todo = <<Del(<<side, Subject(c, side)>>)>>
        BY <1>1, <2>6, <3>2, FindRows
      <4>2. ~Saver(d)
        <5>1. c.op = "create" /\ d.at # "refused" => d.at \in {"outgoing", "save"}
          BY <1>1, <2>6, <3>2, FindRows
        <5>. QED
          BY <1>0, <5>1 DEF Saver
      <4>. QED
        BY <1>1, <2>2, <2>3, <2>6, <3>2, <4>1, <4>2
    <3>. QED
      BY <3>1, <3>2
  <2>7. Moves(d) \/ SavesInvite(c, d) \/ \E side \in Sides : Finds(c, d, side)
    BY <1>1, SeekRows
  <2>. QED
    BY <2>4, <2>5, <2>6, <2>7
<1>2. CASE ~Seeks(c)
  <2>1. c.op \in {"accept", "decline"} /\ ~Seeks(d) /\ d.id = c.id
    BY <1>0, <1>2 DEF Seeks
  <2>2. Accepts(c, d) \/ Declines(c, d)
    BY <2>1 DEF InviteStep, Creates, Looks
  <2>3. d.todo = <<>> \/ d.todo = DeleteFriendInvite(c.id)
    BY <2>2 DEF Accepts, Declines, Turns
  <2>4. c.id \in FriendOffers /\ Parties(c.id) \subseteq Touched(c) /\ Parties(c.id) \subseteq Touched(d)
    BY <1>0, <2>1, IdsKnown DEF Touched
  <2>5. ~Saver(d)
    BY <2>1, <1>0 DEF Saver
  <2>. QED
    BY <2>1, <2>3, <2>4, <2>5
<1>. QED
  BY <1>1, <1>2

LEMMA InviteOwns ==
    ASSUME TypeOK, Findable, NEW c \in calls, NEW d, InviteStep(c, d)
    PROVE  WritesOwn(d)'
<1>0. /\ FriendOffers' = FriendOffers /\ \A i : From(i)' = From(i) /\ To(i)' = To(i) /\ Parties(i)' = Parties(i)
      /\ Writes(d) /\ (Deleting(d) => Seeks(d))
  BY SameMade, InviteTouches DEF InviteStep
<1>1. Touched(d)' = Touched(d)
  BY <1>0 DEF Touched, Deleting
<1>2. SaveWrites(d.id)' = SaveWrites(d.id)
  BY <1>0 DEF SaveWrites
<1>3. Seeks(d) /\ (\E side \in Sides : d.at \in {Follow[side], Overdue[side]}) => d.todo = <<>>
  BY InviteWrites
<1>4. Saver(d) => d.todo \in SaveWrites(d.id)
  <2>1. Saver(d) => SavesInvite(c, d) /\ d.id = c.id
    BY InviteWrites
  <2>2. Saver(d) => d.todo = SaveFriendInvite(d.id)
    BY <2>1 DEF SavesInvite
  <2>. QED
    BY <2>2 DEF SaveWrites, SaveFriendInvite
<1>5. ASSUME ~Saver(d), NEW w \in Writings(d.todo), w.key[1] \in Sides \cup {"invite"} PROVE Deletes(d, w)
  <2>0. ~SavesInvite(c, d)
    BY <1>5, InviteTodo DEF Saver, SavesInvite
  <2>1. d.todo # <<>>
    BY <1>5, WritingsOf
  <2>2. ASSUME NEW j \in FriendOffers, d.todo = DeleteFriendInvite(j), Parties(j) \subseteq Touched(d)
        PROVE  Deletes(d, w)
    <3>. DEFINE a == Del(<<"invite", j>>)
                b == Del(<<"pending", To(j)>>)
                z == Del(<<"outgoing", From(j)>>)
    <3>1. w \in {a, b, z}
      BY <1>5, <2>2, DeletesAre
    <3>2. /\ a.key = <<"invite", j>> /\ b.key = <<"pending", To(j)>> /\ z.key = <<"outgoing", From(j)>>
          /\ a.value = None /\ b.value = None /\ z.value = None
      BY DelIs
    <3>. HIDE DEF a, b, z
    <3>3. \/ w.key[1] = "invite" /\ w.key[2] = j
          \/ w.key[1] \in Sides /\ w.key[2] \in Parties(j)
      BY <3>1, <3>2 DEF Sides, Parties
    <3>4. w.value = None
      BY <3>1, <3>2
    <3>5. "invite" \notin Sides
      BY DEF Sides
    <3>. QED
      BY <1>0, <2>2, <3>3, <3>4, <3>5 DEF Deletes
  <2>3. ASSUME NEW side \in Sides, d.todo = <<Del(<<side, Subject(c, side)>>)>>,
               Subject(c, side) \in Touched(d)
        PROVE  Deletes(d, w)
    <3>1. w = Del(<<side, Subject(c, side)>>)
      <4>. DEFINE a == Del(<<side, Subject(c, side)>>)
      <4>1. d.todo = <<a>> /\ w \in Writings(d.todo)
        BY <1>5, <2>3
      <4>. HIDE DEF a
      <4>2. Writings(<<a>>) = {a}
        BY WritingsOf
      <4>3. w = a
        BY <4>1, <4>2
      <4>. QED
        BY <4>3 DEF a
    <3>2. w.value = None /\ w.key[1] = side /\ w.key[2] = Subject(c, side) /\ side # "invite"
      BY <3>1, DelIs DEF Sides
    <3>. QED
      BY <1>0, <2>3, <3>2 DEF Deletes
  <2>. QED
    BY <2>0, <2>1, <2>2, <2>3, InviteWrites
<1>6. \A w : Deletes(d, w) => Deletes(d, w)'
  BY <1>0, <1>1 DEF Deletes
<1>. QED
  BY <1>0, <1>2, <1>3, <1>4, <1>5, <1>6 DEF WritesOwn

LEMMA FindsFrom ==
    ASSUME NEW c, NEW d, NEW side \in Sides, Finds(c, d, side), d.at \in Seeking
    PROVE  \/ d.at = Follow[side] /\ c.at = side
           \/ c.at = Follow[side] /\ d.at = Overdue[side]
           \/ c.at = Overdue[side] /\ d.at = Gone[side]
<1>1. PICK found \in {"refused", "second", "answered"}, none \in {"outgoing", "save", "second", "answered"} :
        LooksUp(c, d, side, Subject(c, side), found, none)
  BY DEF Finds
<1>2. found \notin Seeking /\ none \notin Seeking
  BY <1>1 DEF Seeking
<1>. QED
  BY <1>1, <1>2 DEF LooksUp, Turns

LEMMA FindableInvites ==
    ASSUME TypeOK, Findable, AloneAtWork', NEW c \in calls, NEW d, InviteStep(c, d)
    PROVE  Findable'
<1>0. /\ redis' = redis /\ FriendOffers' = FriendOffers /\ c.todo = <<>>
      /\ \A i : From(i)' = From(i) /\ To(i)' = To(i)
      /\ \A e \in calls' : e = d \/ e \in calls
      /\ d \in calls' /\ \A e \in calls : e = c \/ e \in calls'
      /\ mixed \subseteq mixed' /\ Grown /\ d.op = c.op /\ (c.op # "look" => d.id = c.id)
  BY SameMade, InviteTodo DEF InviteStep, Goes
<1>1. /\ \A i : Alive(i)' <=> Alive(i)
      /\ \A side, i : PointedUser(side, i)' = PointedUser(side, i)
      /\ \A e, side : Subject(e, side)' = Subject(e, side)
      /\ \A side, u : NoneOf(side, u)' <=> NoneOf(side, u)
  <2>1. /\ \A i : Alive(i)' <=> Alive(i)
        /\ \A side, i : PointedUser(side, i)' = PointedUser(side, i)
    BY <1>0 DEF Alive, PointedUser
  <2>. QED
    BY <1>0, <2>1 DEF Subject, NoneOf
<1>2. PointerWriters'
  <2>1. WritesOwn(d)'
    BY InviteOwns
  <2>2. \A e \in calls : WritesOwn(e)'
    BY <1>0, WritesOwnKeeps DEF Twin, Findable
  <2>. QED
    BY <1>0, <2>1, <2>2 DEF PointerWriters
<1>3. Pointed'
  <2>. SUFFICES ASSUME NEW i \in FriendOffers, NEW side \in Sides, Alive(i), PointedUser(side, i) \notin mixed
                PROVE  IsPointed(i, side)'
    BY <1>0, <1>1 DEF Pointed
  <2>. DEFINE u == PointedUser(side, i)
              k == <<side, u>>
  <2>1. IsPointed(i, side) /\ u \in Users \ mixed
    BY AliveTypes DEF Findable, Pointed
  <2>u. PointedUser(side, i)' = u
    BY <1>1
  <2>. HIDE DEF u
  <2>2. ASSUME NEW e \in calls', Dooms(e, i) PROVE IsPointed(i, side)'
    BY <2>2 DEF IsPointed, Dooms
  <2>3. CASE \E e \in calls : Dooms(e, i)
    <3>1. PICK e \in calls : Dooms(e, i)
      BY <2>3
    <3>2. e # c
      BY <1>0, <3>1 DEF Dooms
    <3>. QED
      BY <1>0, <2>2, <3>1, <3>2
  <2>4. CASE \E e \in calls : e.op = "create" /\ e.id = i /\ Set(k, i) \in Writings(e.todo)
    <3>1. PICK e \in calls : e.op = "create" /\ e.id = i /\ Set(k, i) \in Writings(e.todo)
      BY <2>4
    <3>2. e # c
      BY <1>0, <3>1, WritingsOf
    <3>3. e \in calls'
      BY <1>0, <3>2
    <3>. QED
      BY <2>u, <3>1, <3>3 DEF IsPointed, Set
  <2>5. CASE redis[k] = i /\ \A e \in calls : \A w \in Writings(e.todo) : w.key # k
    <3>1. CASE \A w \in Writings(d.todo) : w.key # k
      <4>1. \A e \in calls' : \A w \in Writings(e.todo) : w.key # k
        BY <1>0, <2>5, <3>1
      <4>. QED
        BY <1>0, <2>u, <2>5, <4>1 DEF IsPointed
    <3>2. ASSUME NEW w \in Writings(d.todo), w.key = k PROVE IsPointed(i, side)'
      <4>1. CASE SavesInvite(c, d)
        <5>1. c.op = "create" /\ c.at = "save" /\ d.todo = SaveFriendInvite(c.id) /\ c.id \in FriendOffers
          BY <4>1, IdsKnown DEF SavesInvite
        <5>2. w \in {Set(<<"invite", c.id>>, "pending"), Set(<<"pending", To(c.id)>>, c.id),
                     Set(<<"outgoing", From(c.id)>>, c.id)}
          BY <3>2, <5>1, SavesAre
        <5>3. \/ side = "pending" /\ u = To(c.id)
              \/ side = "outgoing" /\ u = From(c.id)
          <6>1. k \in {<<"invite", c.id>>, <<"pending", To(c.id)>>, <<"outgoing", From(c.id)>>}
            BY <3>2, <5>2, DelIs
          <6>2. k # <<"invite", c.id>>
            BY KeysApart
          <6>. QED
            BY <6>1, <6>2
        <5>4. RoomFor(c)
          BY <5>1 DEF Findable, RoomIsFree
        <5>5. NoneOf(side, u)
          BY <2>1, <5>1, <5>3, <5>4 DEF RoomFor, PastPending
        <5>. QED
          BY <5>5 DEF NoneOf, u
      <4>2. ASSUME NEW j \in FriendOffers, d.todo = DeleteFriendInvite(j), Parties(j) \subseteq Touched(c)
            PROVE  IsPointed(i, side)'
        <5>. DEFINE a == Del(<<"invite", j>>)
                    b == Del(<<"pending", To(j)>>)
                    z == Del(<<"outgoing", From(j)>>)
        <5>1. /\ d.todo # <<>> /\ Head(d.todo) = a
              /\ IF redis[<<"invite", j>>] = None THEN w = a ELSE w \in {a, b, z}
          BY <3>2, <4>2, DeletesAre
        <5>2. a.key = <<"invite", j>> /\ b.key = <<"pending", To(j)>> /\ z.key = <<"outgoing", From(j)>>
          BY DelIs
        <5>. HIDE DEF a, b, z
        <5>3. k # <<"invite", j>>
          BY KeysApart
        <5>4. redis[<<"invite", j>>] # None /\ (w = b \/ w = z)
          BY <3>2, <5>1, <5>2, <5>3
        <5>5. Alive(j) /\ PointedUser(side, j) = u
          <6>1. k = <<"pending", To(j)>> \/ k = <<"outgoing", From(j)>>
            BY <3>2, <5>2, <5>4
          <6>2. (side = "pending" /\ u = To(j)) \/ (side = "outgoing" /\ u = From(j))
            BY <6>1
          <6>. QED
            BY <5>4, <6>2 DEF Alive, PointedUser
        <5>6. Works(c, u)
          BY <4>2, <5>5, AliveTypes, InviteTouches DEF Works
        <5>7. redis[k] = j
          BY <1>0, <2>1, <5>5, <5>6, PointedAt
        <5>8. Dooms(d, i)
          BY <2>5, <5>1, <5>7 DEF Dooms, a
        <5>. QED
          BY <1>0, <2>2, <5>8
      <4>3. ASSUME NEW s \in Sides, Seeks(c), c.at = Follow[s], ~There(c, s, Subject(c, s)),
                   d.todo = <<Del(<<s, Subject(c, s)>>)>>
            PROVE  FALSE
        <5>. DEFINE a == Del(<<s, Subject(c, s)>>)
        <5>1. a.key = <<s, Subject(c, s)>> /\ d.todo = <<a>>
          BY <4>3, DelIs
        <5>. HIDE DEF a
        <5>2. w = a
          <6>1. Writings(<<a>>) = {a}
            BY WritingsOf
          <6>. QED
            BY <3>2, <5>1, <6>1
        <5>3. s = side /\ u = Subject(c, s)
          BY <3>2, <5>1, <5>2, KeysApart
        <5>4. KnowsPointer(c, s)
          BY <2>1, <4>3, <5>3 DEF Findable, LooksTrue
        <5>5. redis[k] \in {c.got, None}
          BY <4>3, <5>3, <5>4 DEF KnowsPointer
        <5>6. c.got = i
          BY <2>5, <5>5, AliveTypes
        <5>. QED
          BY <4>3, <5>3, <5>6 DEF There, u, Alive
      <4>4. d.todo # <<>>
        BY <3>2, WritingsOf
      <4>. QED
        BY <4>1, <4>2, <4>3, <4>4, InviteWrites
    <3>. QED
      BY <3>1, <3>2
  <2>. QED
    BY <2>1, <2>3, <2>4, <2>5 DEF IsPointed, u
<1>4. LooksTrue'
  <2>. SUFFICES ASSUME NEW e \in calls', NEW side \in Sides, Seeks(e), Subject(e, side)' \notin mixed'
                PROVE  KnowsPointer(e, side)'
    BY DEF LooksTrue, Seeks
  <2>. DEFINE u == Subject(e, side)
  <2>0. u \notin mixed /\ Subject(e, side)' = u
    BY <1>0, <1>1
  <2>1. CASE e \in calls
    <3>1. KnowsPointer(e, side)
      BY <2>0, <2>1 DEF Findable, LooksTrue
    <3>. QED
      BY <1>0, <1>1, <3>1 DEF KnowsPointer, Dooms
  <2>2. CASE e = d
    <3>1. Seeks(c) /\ u = Subject(c, side)
      BY <2>2, SeekRows, InviteTouches
    <3>2. KnowsPointer(c, side) /\ Works(c, u) /\ u \in Users
      BY <2>0, <3>1, TouchedIs, InviteTouches DEF Findable, LooksTrue, Works
    <3>. HIDE DEF u
    <3>3. Follow[side] \in Seeking /\ Overdue[side] \in Seeking /\ Gone[side] \in Seeking
      BY SeekingStages
    <3>4. CASE d.at \in Seeking
      <4>1. ~Moves(d) /\ ~SavesInvite(c, d)
        BY <3>4 DEF Moves, SavesInvite, Seeking
      <4>2. PICK s \in Sides : Finds(c, d, s)
        BY <3>1, <4>1, SeekRows
      <4>3. CASE s # side
        <5>1. d.at \in {Follow[s], Overdue[s], Gone[s]}
          BY <3>1, <3>4, <4>2, FindRows
        <5>2. d.at \notin {Follow[side], Overdue[side], Gone[side]}
          BY <4>3, <5>1, StageNames DEF Sides
        <5>. QED
          BY <2>2, <5>2 DEF KnowsPointer
      <4>4. CASE s = side
        <5>1. \/ d.at = Follow[side] /\ d.got = redis[<<side, u>>] /\ d.todo = <<>>
              \/ /\ c.at = Follow[side] /\ d.at = Overdue[side] /\ d.got = c.got /\ d.todo = <<>>
              \/ /\ c.at = Overdue[side] /\ d.at = Gone[side] /\ d.got = c.got
                 /\ d.todo = DeleteFriendInvite(c.got)
          BY <3>1, <3>4, <4>2, <4>4, FindRows
        <5>2. d.at \in {Follow[side], Overdue[side]} => redis[<<side, u>>] \in {d.got, None}
          <6>1. Gone[side] \notin {Follow[side], Overdue[side]}
            BY StageNames DEF Sides
          <6>. QED
            BY <3>1, <3>2, <5>1, <6>1 DEF KnowsPointer
        <5>3. ASSUME d.at = Gone[side], NEW i \in FriendOffers, Alive(i), PointedUser(side, i) = u
              PROVE  Dooms(d, i)
          <6>1. c.at = Overdue[side] /\ d.todo = DeleteFriendInvite(c.got)
            <7>1. Gone[side] \notin {Follow[side], Overdue[side]}
              BY StageNames DEF Sides
            <7>. QED
              BY <5>1, <5>3, <7>1
          <6>2. redis[<<side, u>>] \in {c.got, None}
            BY <3>1, <3>2, <6>1 DEF KnowsPointer
          <6>3. redis[<<side, u>>] = i
            BY <1>0, <2>0, <3>2, <5>3, PointedAt DEF u
          <6>4. c.got = i
            BY <5>3, <6>2, <6>3, AliveTypes
          <6>5. d.todo # <<>> /\ Head(d.todo) = Del(<<"invite", i>>)
            BY <6>1, <6>4, DeletesAre
          <6>. QED
            BY <6>5 DEF Dooms
        <5>4. \A i \in FriendOffers : d.at = Gone[side] /\ Alive(i) /\ PointedUser(side, i) = u => Dooms(d, i)
          BY <5>3
        <5>5. \A i : Dooms(d, i)' <=> Dooms(d, i)
          BY DEF Dooms
        <5>. QED
          BY <1>0, <1>1, <2>0, <2>2, <5>2, <5>4, <5>5 DEF KnowsPointer
      <4>. QED
        BY <4>3, <4>4
    <3>5. CASE d.at \notin Seeking
      BY <2>2, <3>3, <3>5 DEF KnowsPointer
    <3>. QED
      BY <3>4, <3>5
  <2>. QED
    BY <1>0, <2>1, <2>2
<1>5. RoomIsFree'
  <2>. SUFFICES ASSUME NEW e \in calls', e.op = "create" PROVE RoomFor(e)'
    BY DEF RoomIsFree
  <2>1. CASE e \in calls
    <3>1. RoomFor(e)
      BY <2>1 DEF Findable, RoomIsFree
    <3>. QED
      BY <1>0, <1>1, <3>1 DEF RoomFor, PastPending
  <2>2. CASE e = d
    <3>0. /\ c.op = "create" /\ d.id = c.id /\ Seeks(c) /\ RoomFor(c)
          /\ Subject(c, "pending") = To(c.id) /\ Subject(c, "outgoing") = From(c.id)
      BY <1>0, <2>2 DEF Seeks, Findable, RoomIsFree, Subject, PointedUser
    <3>1. ASSUME d.at \in PastPending, To(c.id) \notin mixed PROVE NoneOf("pending", To(c.id))
      <4>1. CASE c.at \in PastPending
        BY <3>0, <3>1, <4>1 DEF RoomFor
      <4>2. CASE c.at \notin PastPending
        <5>1. ~Moves(d) /\ ~SavesInvite(c, d)
          BY <1>0, <3>0, <3>1, <4>2, StageNames DEF Moves, SavesInvite, PastPending, Seeking
        <5>2. PICK s \in Sides : Finds(c, d, s)
          BY <3>0, <5>1, SeekRows
        <5>3. CASE d.at \in Seeking
          <6>1. \/ d.at = Follow[s] /\ c.at = s
                \/ c.at = Follow[s] /\ d.at = Overdue[s]
                \/ c.at = Overdue[s] /\ d.at = Gone[s]
            BY <5>2, <5>3, FindsFrom
          <6>2. CASE s = "pending"
            BY <3>1, <6>1, <6>2, StageNames DEF PastPending
          <6>3. CASE s = "outgoing"
            BY <4>2, <6>1, <6>3, StageNames DEF PastPending
          <6>. QED
            BY <6>2, <6>3 DEF Sides
        <5>4. CASE d.at \notin Seeking
          <6>1. d.at # "refused"
            BY <3>1, StageNames DEF PastPending
          <6>2. /\ d.at = (IF s = "pending" THEN "outgoing" ELSE "save")
                /\ \/ c.at = s /\ redis[<<s, Subject(c, s)>>] = None
                   \/ c.at = Follow[s] /\ ~There(c, s, Subject(c, s))
                   \/ c.at = Gone[s]
            BY <3>0, <5>2, <5>4, <6>1, FindRows
          <6>3. s = "pending"
            BY <4>2, <6>2 DEF PastPending, Sides
          <6>. QED
            BY <1>0, <3>0, <3>1, <6>2, <6>3, NothingThere
        <5>. QED
          BY <5>3, <5>4
      <4>. QED
        BY <4>1, <4>2
    <3>2. ASSUME d.at = "save", From(c.id) \notin mixed PROVE NoneOf("outgoing", From(c.id))
      <4>1. ~Moves(d) /\ ~SavesInvite(c, d) /\ d.at \notin Seeking /\ d.at # "refused"
        BY <1>0, <3>0, <3>2 DEF Moves, SavesInvite, Seeking
      <4>2. PICK s \in Sides : Finds(c, d, s)
        BY <3>0, <4>1, SeekRows
      <4>3. /\ d.at = (IF s = "pending" THEN "outgoing" ELSE "save")
            /\ \/ c.at = s /\ redis[<<s, Subject(c, s)>>] = None
               \/ c.at = Follow[s] /\ ~There(c, s, Subject(c, s))
               \/ c.at = Gone[s]
        BY <3>0, <4>1, <4>2, FindRows
      <4>4. s = "outgoing"
        BY <3>2, <4>3 DEF Sides
      <4>. QED
        BY <1>0, <3>0, <3>2, <4>3, <4>4, NothingThere
    <3>. QED
      BY <1>0, <1>1, <2>2, <3>0, <3>1, <3>2 DEF RoomFor, PastPending
  <2>. QED
    BY <1>0, <2>1, <2>2
<1>. QED
  BY <1>2, <1>3, <1>4, <1>5 DEF Findable

------------------------------------------------------------------------------
(* The pointers: one command *)

\* What is left of what a call has to write of the invite it saves.
LEMMA SavesLess ==
    ASSUME TypeOK, NEW i \in FriendOffers, NEW s \in SaveWrites(i), s # <<>>
    PROVE  /\ Tail(s) \in SaveWrites(i)
           /\ Head(s).key[1] = "invite" =>
                \A side \in Sides : Set(<<side, PointedUser(side, i)>>, i) \in Writings(Tail(s))
           /\ \A w \in Writings(Tail(s)) : w.key # Head(s).key
<1>. DEFINE a == Set(<<"invite", i>>, "pending")
            b == Set(<<"pending", To(i)>>, i)
            z == Set(<<"outgoing", From(i)>>, i)
<1>1. /\ a.key = <<"invite", i>> /\ b.key = <<"pending", To(i)>> /\ z.key = <<"outgoing", From(i)>>
      /\ \A side \in Sides : Set(<<side, PointedUser(side, i)>>, i) \in {b, z}
  BY DelIs DEF Sides, PointedUser
<1>2. s \in {<<a, b, z>>, <<b, z>>, <<z>>, <<>>} /\ SaveWrites(i) = {<<a, b, z>>, <<b, z>>, <<z>>, <<>>}
  BY DEF SaveWrites
<1>3. a.key[1] = "invite" /\ b.key[1] = "pending" /\ z.key[1] = "outgoing"
  BY <1>1
<1>. HIDE DEF a, b, z
<1>4. /\ Tail(<<a, b, z>>) = <<b, z>> /\ Tail(<<b, z>>) = <<z>> /\ Tail(<<z>>) = <<>>
      /\ Head(<<a, b, z>>) = a /\ Head(<<b, z>>) = b /\ Head(<<z>>) = z
  OBVIOUS
<1>5. Writings(<<b, z>>) = {b, z} /\ Writings(<<z>>) = {z} /\ Writings(<<>>) = {}
  BY DEF Writings
<1>6. a.key # b.key /\ a.key # z.key /\ b.key # z.key
  BY <1>3
<1>7. CASE s = <<a, b, z>>
  BY <1>1, <1>2, <1>4, <1>5, <1>6, <1>7
<1>8. CASE s = <<b, z>>
  BY <1>2, <1>3, <1>4, <1>5, <1>6, <1>8
<1>9. CASE s = <<z>>
  BY <1>2, <1>3, <1>4, <1>5, <1>9
<1>. QED
  BY <1>2, <1>7, <1>8, <1>9

\* What a command changes of an invite.
LEMMA WriteChanges ==
    ASSUME TypeOK, Findable, NEW c \in calls, NEW d, Writes1(c, d)
    PROVE  LET w == Head(c.todo) IN
           /\ w \in Writings(c.todo) /\ Writings(d.todo) \subseteq Writings(c.todo)
           /\ Writings(c.todo) \subseteq Writings(d.todo) \cup {w}
           /\ \A i : Alive(i) /\ Alive(i)' => w # Del(<<"invite", i>>)
           /\ \A i : Alive(i)' /\ ~Alive(i) =>
                /\ Saver(c) /\ c.id = i /\ i \in FriendOffers
                /\ \A side \in Sides : Works(c, PointedUser(side, i))
                                       /\ Set(<<side, PointedUser(side, i)>>, i) \in Writings(d.todo)
           /\ \A side \in Sides : \A u \in Users :
                /\ w.key # <<side, u>> => redis'[<<side, u>>] = redis[<<side, u>>]
                /\ w.key = <<side, u>> => redis'[<<side, u>>] = w.value
<1>. DEFINE w == Head(c.todo)
<1>0. /\ c.todo # <<>> /\ redis' = [redis EXCEPT ![w.key] = w.value] /\ d.todo = Tail(c.todo)
      /\ DOMAIN redis = Keys /\ c.todo \in Seq(Writing) /\ offers' = offers /\ FriendOffers' = FriendOffers
  BY CallTypes, SameMade DEF Writes1, Is, TypeOK, StoreOK, made
<1>1. /\ w \in Writings(c.todo) /\ Writings(d.todo) \subseteq Writings(c.todo)
      /\ Writings(c.todo) \subseteq Writings(d.todo) \cup {w} /\ w \in Writing
  BY <1>0, WritingsOfTail
<1>2. \A i \in FriendOffers : <<"invite", i>> \in Keys
  BY OfferTypes, KeyTypes
<1>3. \A side \in Sides : \A u \in Users : <<side, u>> \in Keys
  BY PointerTypes
<1>. HIDE DEF w
<1>4. ASSUME NEW i, Alive(i)', w = Del(<<"invite", i>>) PROVE FALSE
  <2>1. i \in FriendOffers /\ redis'[<<"invite", i>>] # None
    BY <1>0, <1>4 DEF Alive
  <2>. QED
    BY <1>0, <1>2, <1>4, <2>1, DelIs
<1>5. ASSUME NEW i, Alive(i)', ~Alive(i)
      PROVE  /\ Saver(c) /\ c.id = i /\ i \in FriendOffers
             /\ \A side \in Sides : Works(c, PointedUser(side, i))
                                    /\ Set(<<side, PointedUser(side, i)>>, i) \in Writings(d.todo)
  <2>1. i \in FriendOffers /\ redis'[<<"invite", i>>] # None /\ redis[<<"invite", i>>] = None
    BY <1>0, <1>5 DEF Alive
  <2>2. w.key = <<"invite", i>> /\ w.value # None
    BY <1>0, <1>2, <2>1
  <2>3. w.key[1] = "invite" /\ w.key[2] = i
    BY <2>2
  <2>4. Saver(c) /\ \A u \in Parties(i) : Works(c, u)
    BY <1>1, <2>2, <2>3, WritersTouch DEF Findable
  <2>5. c.id = i /\ c.id \in FriendOffers
    <3>1. c.id \in FriendOffers
          /\ w \in {Set(<<"invite", c.id>>, "pending"), Set(<<"pending", To(c.id)>>, c.id),
                    Set(<<"outgoing", From(c.id)>>, c.id)}
      BY <1>1, <2>4, WritersTouch DEF Findable
    <3>2. w.key \in {<<"invite", c.id>>, <<"pending", To(c.id)>>, <<"outgoing", From(c.id)>>}
      BY <3>1, DelIs
    <3>3. w.key = <<"invite", c.id>>
      BY <2>3, <3>2
    <3>. QED
      BY <2>3, <3>1, <3>3
  <2>6. c.todo \in SaveWrites(i)
    BY <2>4, <2>5 DEF Findable, PointerWriters, WritesOwn
  <2>7. \A side \in Sides : Set(<<side, PointedUser(side, i)>>, i) \in Writings(d.todo)
    BY <1>0, <2>1, <2>3, <2>6, SavesLess DEF w
  <2>8. \A side \in Sides : PointedUser(side, i) \in Parties(i)
    BY DEF PointedUser, Parties
  <2>. QED
    BY <2>4, <2>5, <2>7, <2>8
<1>6. ASSUME NEW side \in Sides, NEW u \in Users
      PROVE  /\ w.key # <<side, u>> => redis'[<<side, u>>] = redis[<<side, u>>]
             /\ w.key = <<side, u>> => redis'[<<side, u>>] = w.value
  BY <1>0, <1>3
<1>. QED
  BY <1>1, <1>4, <1>5, <1>6 DEF w

LEMMA FindableWrites ==
    ASSUME TypeOK, Findable, AloneAtWork', NEW c \in calls, NEW d, Writes1(c, d)
    PROVE  Findable'
<1>. DEFINE w == Head(c.todo)
<1>0. /\ FriendOffers' = FriendOffers /\ c.todo # <<>> /\ d.todo = Tail(c.todo)
      /\ \A i : From(i)' = From(i) /\ To(i)' = To(i)
      /\ \A e \in calls' : e = d \/ (e \in calls /\ e # c)
      /\ d \in calls' /\ \A e \in calls : e = c \/ e \in calls'
      /\ mixed' = mixed /\ Grown
      /\ d.op = c.op /\ d.id = c.id /\ d.at = c.at /\ d.got = c.got
  <2>1. UNCHANGED <<made, expired>> /\ mixed' = mixed
    BY DEF Writes1, ghosts
  <2>. QED
    BY <2>1, Replaced, SameMade
<1>1. /\ w \in Writings(c.todo) /\ Writings(d.todo) \subseteq Writings(c.todo)
      /\ Writings(c.todo) \subseteq Writings(d.todo) \cup {w}
      /\ \A i : Alive(i) /\ Alive(i)' => w # Del(<<"invite", i>>)
      /\ \A i : Alive(i)' /\ ~Alive(i) =>
           /\ Saver(c) /\ c.id = i /\ i \in FriendOffers
           /\ \A side \in Sides : Works(c, PointedUser(side, i))
                                  /\ Set(<<side, PointedUser(side, i)>>, i) \in Writings(d.todo)
      /\ \A side \in Sides : \A u \in Users :
           /\ w.key # <<side, u>> => redis'[<<side, u>>] = redis[<<side, u>>]
           /\ w.key = <<side, u>> => redis'[<<side, u>>] = w.value
  BY WriteChanges
<1>2. /\ \A side, i : PointedUser(side, i)' = PointedUser(side, i)
      /\ \A e, side : Subject(e, side)' = Subject(e, side)
      /\ \A e, i : Dooms(c, i) => w = Del(<<"invite", i>>)
      /\ \A e, i : Dooms(e, i)' <=> Dooms(e, i)
  BY <1>0 DEF PointedUser, Subject, Dooms
<1>t. /\ \A i : Alive(i)' => \A side \in Sides : PointedUser(side, i) \in Users
      /\ \A i \in FriendOffers : i # None
  <2>1. \A i \in FriendOffers : From(i) \in Users /\ To(i) \in Users /\ i # None
    BY OfferTypes, MaxIdIsFour, LobbyAssumption DEF FriendOffers
  <2>. QED
    BY <1>0, <2>1 DEF Alive, PointedUser
<1>. HIDE DEF w
<1>3. PointerWriters'
  <2>1. \A e \in calls : WritesOwn(e)'
    BY <1>0, WritesOwnKeeps DEF Twin, Findable
  <2>2. WritesOwn(d)'
    <3>1. WritesOwn(c)'
      BY <2>1
    <3>2. (Saver(d) <=> Saver(c)) /\ (Deleting(d) <=> Deleting(c)) /\ (Seeks(d) <=> Seeks(c))
      BY <1>0 DEF Saver, Deleting, Seeks
    <3>3. \A x : Deletes(c, x)' => Deletes(d, x)'
      <4>1. Touched(d)' = Touched(c)' /\ (Writes(d) <=> Writes(c))
        BY <1>0 DEF Touched, Deleting, Writes
      <4>. QED
        BY <4>1 DEF Deletes
    <3>4. Saver(c) => (d.todo \in SaveWrites(d.id))'
      <4>1. Saver(c) => c.id \in FriendOffers /\ c.todo \in SaveWrites(c.id)
        BY <1>0, IdsKnown DEF Saver, Findable, PointerWriters, WritesOwn
      <4>2. Saver(c) => d.todo \in SaveWrites(d.id)
        BY <1>0, <4>1, SavesLess
      <4>3. SaveWrites(d.id)' = SaveWrites(d.id)
        BY <1>0 DEF SaveWrites
      <4>. QED
        BY <4>2, <4>3
    <3>5. Seeks(d) => \A side \in Sides : d.at \notin {Follow[side], Overdue[side]}
      BY <1>0, <3>1, <3>2 DEF WritesOwn
    <3>. QED
      BY <1>1, <3>1, <3>2, <3>3, <3>4, <3>5 DEF WritesOwn
  <2>. QED
    BY <1>0, <2>1, <2>2 DEF PointerWriters
<1>4. Pointed'
  <2>. SUFFICES ASSUME NEW i \in FriendOffers, NEW side \in Sides, Alive(i)',
                       PointedUser(side, i) \notin mixed
                PROVE  IsPointed(i, side)'
    BY <1>0, <1>2 DEF Pointed
  <2>. DEFINE u == PointedUser(side, i)
              k == <<side, u>>
              x == Set(k, i)
  <2>1. PointedUser(side, i)' = u /\ u \in Users \ mixed /\ x.key = k /\ x.value = i /\ i # None
    BY <1>2, <1>t, DelIs
  <2>u. PointedUser(side, i)' = u /\ PointedUser(side, i) = u
    BY <1>2
  <2>. HIDE DEF u
  <2>2. ASSUME NEW e \in calls', e.op = "create", e.id = i, x \in Writings(e.todo)
        PROVE  IsPointed(i, side)'
    BY <2>u, <2>2 DEF IsPointed, Set
  <2>3. ASSUME redis'[k] = i, \A e \in calls' : \A y \in Writings(e.todo) : y.key # k
        PROVE  IsPointed(i, side)'
    BY <2>u, <2>3 DEF IsPointed
  <2>4. CASE ~Alive(i)
    <3>1. Saver(c) /\ c.id = i /\ Set(<<side, u>>, i) \in Writings(d.todo)
      BY <1>1, <2>u, <2>4
    <3>. QED
      BY <1>0, <2>2, <3>1 DEF Saver
  <2>5. CASE Alive(i)
    <3>0. IsPointed(i, side)
      BY <2>1, <2>5 DEF Findable, Pointed
    <3>1. CASE \E e \in calls : Dooms(e, i)
      <4>1. PICK e \in calls : Dooms(e, i)
        BY <3>1
      <4>2. e \in calls'
        BY <1>0, <1>1, <1>2, <2>5, <4>1
      <4>. QED
        BY <1>2, <4>1, <4>2 DEF IsPointed
    <3>2. CASE redis[k] = i /\ \A e \in calls : \A y \in Writings(e.todo) : y.key # k
      <4>1. redis'[k] = i
        BY <1>1, <2>1, <3>2
      <4>2. \A e \in calls' : \A y \in Writings(e.todo) : y.key # k
        BY <1>0, <1>1, <3>2
      <4>. QED
        BY <2>3, <4>1, <4>2
    <3>3. ASSUME NEW e \in calls, e.op = "create", e.id = i, x \in Writings(e.todo)
          PROVE  IsPointed(i, side)'
      <4>1. CASE e # c
        BY <1>0, <2>2, <3>3, <4>1
      <4>2. CASE x \in Writings(d.todo) /\ e = c
        BY <1>0, <2>2, <3>3, <4>2
      <4>3. CASE x = w /\ e = c
        <5>1. w.key = k /\ w.value = i /\ w.key[1] = side
          BY <2>1, <4>3
        <5>2. Saver(c) /\ Works(c, u)
          <6>1. w \in Writings(c.todo) /\ PointerWriters
            BY <1>1 DEF Findable
          <6>2. Works(c, u)
            BY <5>1, <6>1, WritersTouch
          <6>3. ~Saver(c) => w.value = None
            BY <5>1, <6>1, WritersTouch
          <6>. QED
            BY <2>1, <5>1, <6>2, <6>3
        <5>3. c.todo \in SaveWrites(i)
          BY <3>3, <4>3, <5>2 DEF Findable, PointerWriters, WritesOwn
        <5>4. \A y \in Writings(d.todo) : y.key # k
          BY <1>0, <5>1, <5>3, SavesLess DEF w
        <5>5. \A a \in calls : \A y \in Writings(a.todo) : y.key = k => a = c
          BY <2>1, <5>2, OnlyOne
        <5>6. redis'[k] = i
          BY <1>1, <2>1, <5>1
        <5>. QED
          BY <1>0, <2>3, <5>4, <5>5, <5>6
      <4>. QED
        BY <1>1, <3>3, <4>1, <4>2, <4>3
    <3>. QED
      BY <2>u, <3>0, <3>1, <3>2, <3>3 DEF IsPointed
  <2>. QED
    BY <2>4, <2>5
\* The call a call of the next state was before the command.
<1>5. ASSUME NEW e \in calls', NEW side \in Sides, Seeks(e), Subject(e, side) \notin mixed
      PROVE  \E f \in calls : /\ (f = c /\ e = d) \/ (f = e /\ e # d)
                              /\ Seeks(f) /\ Subject(f, side) = Subject(e, side) /\ Subject(f, side) \in Users
                              /\ f.at = e.at /\ f.op = e.op /\ f.id = e.id /\ f.got = e.got
                              /\ Works(f, Subject(f, side))
                              /\ (Works(c, Subject(f, side)) => f = c)
  <2>1. PICK f \in calls : (f = c /\ e = d) \/ (f = e /\ e # d)
    BY <1>0, <1>5
  <2>2. f.at = e.at /\ f.op = e.op /\ f.id = e.id /\ f.got = e.got
    BY <1>0, <2>1
  <2>3. Seeks(f) /\ Subject(f, side) = Subject(e, side)
    BY <1>5, <2>2 DEF Seeks, Subject
  <2>4. Works(f, Subject(f, side)) /\ Subject(f, side) \in Users
    BY <2>3, TouchedIs DEF Findable, Works, Writes, Seeks
  <2>5. Works(c, Subject(f, side)) => f = c
    BY <1>5, <2>3, <2>4, OnlyOne
  <2>. QED
    BY <2>1, <2>2, <2>3, <2>4, <2>5
<1>6. LooksTrue'
  <2>. SUFFICES ASSUME NEW e \in calls', NEW side \in Sides, Seeks(e), Subject(e, side) \notin mixed
                PROVE  KnowsPointer(e, side)'
    BY <1>0, <1>2 DEF LooksTrue, Seeks
  <2>. DEFINE u == Subject(e, side)
  <2>1. PICK f \in calls : /\ (f = c /\ e = d) \/ (f = e /\ e # d)
                           /\ Seeks(f) /\ Subject(f, side) = u /\ u \in Users
                           /\ f.at = e.at /\ f.got = e.got
                           /\ Works(c, u) => f = c
    BY <1>5
  <2>2. KnowsPointer(f, side) /\ WritesOwn(f)
    BY <2>1 DEF Findable, LooksTrue, PointerWriters
  <2>. HIDE DEF u
  <2>3. ASSUME e.at \in {Follow[side], Overdue[side]} PROVE redis'[<<side, u>>] \in {e.got, None}
    <3>1. f.todo = <<>> /\ redis[<<side, u>>] \in {e.got, None}
      BY <2>1, <2>2, <2>3 DEF WritesOwn, KnowsPointer
    <3>2. w.key # <<side, u>>
      BY <1>0, <1>1, <2>1, <3>1, WritersTouch DEF Findable
    <3>. QED
      BY <1>1, <2>1, <3>1, <3>2
  <2>4. ASSUME e.at = Gone[side], NEW i \in FriendOffers, Alive(i)', PointedUser(side, i) = u
        PROVE  Dooms(e, i)
    <3>1. CASE Alive(i)
      <4>1. Dooms(f, i)
        BY <2>1, <2>2, <2>4, <3>1 DEF KnowsPointer
      <4>2. f # c
        BY <1>1, <1>2, <2>4, <3>1, <4>1
      <4>. QED
        BY <2>1, <4>1, <4>2
    <3>2. CASE ~Alive(i)
      <4>1. Saver(c) /\ Works(c, u)
        BY <1>1, <2>4, <3>2
      <4>2. f = c /\ c.at = "told"
        BY <2>1, <4>1 DEF Saver
      <4>. QED
        BY <2>1, <2>4, <4>2, StageNames DEF Sides
    <3>. QED
      BY <3>1, <3>2
  <2>. QED
    BY <1>0, <1>2, <2>3, <2>4 DEF KnowsPointer, u
<1>7. RoomIsFree'
  <2>. SUFFICES ASSUME NEW e \in calls', e.op = "create" PROVE RoomFor(e)'
    BY DEF RoomIsFree
  <2>1. ASSUME NEW side \in Sides, Subject(e, side) \notin mixed, e.at \in PastPending,
               NoneOf(side, Subject(e, side))
        PROVE  NoneOf(side, Subject(e, side))'
    <3>. DEFINE u == Subject(e, side)
    <3>1. PICK f \in calls : f.at = e.at /\ (Works(c, u) => f = c)
      BY <1>5, <2>1 DEF Seeks
    <3>2. ASSUME NEW i \in FriendOffers, Alive(i)', PointedUser(side, i) = u PROVE FALSE
      <4>1. ~Alive(i)
        BY <2>1, <3>2 DEF NoneOf
      <4>2. Saver(c) /\ Works(c, u)
        BY <1>1, <3>2, <4>1
      <4>3. e.at = "told"
        BY <3>1, <4>2 DEF Saver
      <4>. QED
        BY <2>1, <4>3, StageNames DEF PastPending
    <3>. QED
      BY <1>0, <1>2, <3>2 DEF NoneOf
  <2>2. /\ Subject(e, "pending") = To(e.id) /\ Subject(e, "outgoing") = From(e.id)
        /\ "pending" \in Sides /\ "outgoing" \in Sides /\ "save" \in PastPending
    BY DEF Subject, PointedUser, Sides, PastPending
  <2>3. \A f \in calls : f.op = "create" => RoomFor(f)
    BY DEF Findable, RoomIsFree
  <2>4. RoomFor(e)
    BY <1>0, <2>3 DEF RoomFor
  <2>5. To(e.id)' = To(e.id) /\ From(e.id)' = From(e.id)
    BY <1>0
  <2>6. e.at \in PastPending /\ To(e.id) \notin mixed => NoneOf("pending", To(e.id))'
    BY <1>2, <2>1, <2>2, <2>4, <2>5 DEF RoomFor
  <2>7. e.at = "save" /\ From(e.id) \notin mixed => NoneOf("outgoing", From(e.id))'
    BY <1>2, <2>1, <2>2, <2>4, <2>5 DEF RoomFor
  <2>. QED
    BY <1>0, <2>6, <2>7 DEF RoomFor, PastPending
<1>. QED
  BY <1>3, <1>4, <1>6, <1>7 DEF Findable

LEMMA FindableStep ==
    ASSUME TypeOK, TypeOK', Findable, Step
    PROVE  Findable'
<1>1. AloneAtWork'
  BY AloneStep
<1>. QED
  BY <1>1, FindableQuiet, FindableInvites, FindableWrites, FindableDrops DEF Step, Turned

LEMMA FindableInit == Init => Findable
<1>. SUFFICES ASSUME Init PROVE Findable
  OBVIOUS
<1>1. calls = {} /\ offers = <<>>
  BY DEF Init
<1>2. FriendOffers = {}
  BY <1>1 DEF FriendOffers
<1>. QED
  BY <1>1, <1>2 DEF Findable, AloneAtWork, PointerWriters, Pointed, LooksTrue, RoomIsFree

\* An invite that can be answered can be found by both (saveFriendInvite,
\* deleteFriendInvite, getPendingFriendInviteForUser and its like), unless calls
\* worked on the offers of one of them at once.
THEOREM InvitesAreFound == Spec => []InviteIsFindable
<1>1. Init => TypeOK /\ Findable
  BY TypeInit, FindableInit
<1>2. TypeOK /\ Findable /\ [Next]_vars => TypeOK' /\ Findable'
  BY StepTable, TypeStep, FindableStep
<1>3. TypeOK /\ Findable => InviteIsFindable
  <2>. SUFFICES ASSUME TypeOK, Findable, calls = {}, NEW i \in DOMAIN offers \ expired,
                       offers[i].kind = "invite", redis[<<"invite", i>>] # None,
                       Parties(i) \cap mixed = {}
                PROVE  redis[<<"pending", To(i)>>] = i /\ redis[<<"outgoing", From(i)>>] = i
    BY DEF InviteIsFindable
  <2>1. Alive(i) /\ i \in FriendOffers
    BY DEF Alive, FriendOffers
  <2>2. /\ "pending" \in Sides /\ "outgoing" \in Sides
        /\ PointedUser("pending", i) = To(i) /\ PointedUser("outgoing", i) = From(i)
        /\ To(i) \notin mixed /\ From(i) \notin mixed
    BY DEF Sides, PointedUser, Parties
  <2>3. IsPointed(i, "pending") /\ IsPointed(i, "outgoing")
    BY <2>1, <2>2 DEF Findable, Pointed
  <2>. QED
    BY <2>2, <2>3 DEF IsPointed
<1>. QED
  BY <1>1, <1>2, <1>3, PTL DEF Spec------------------------------------------------------------------------------
(* The invites the page shows *)

Mine(side, i) == i \in FriendOffers /\ PointedUser(side, i) = Me
Dead(i) == redis[<<"invite", i>>] = None /\ i \notin expired

EventKinds == {"invited", "sent", "ready", "declined", "cancelled", "expired",
               "rematchRequested", "rematchReady", "rematchDeclined"}
Event == [kind : EventKinds, id : Nat]
Page == [on : BOOLEAN, joined : BOOLEAN, pending : Nat \cup {None}, outgoing : Nat \cup {None},
         rematch : Nat \cup {None}, ready : Nat \cup {None}]

\* What takes an invite of Me off the page: an event, or a call that has
\* deleted the invite and goes on to send such an event or to answer the page.
Clears(e, i) ==
    \/ e.kind = "ready"
    \/ e.kind = "expired" /\ e.id = i
    \/ e.kind = "declined" /\ e.id = i /\ From(i) = Me
    \/ e.kind = "cancelled" /\ e.id = i /\ To(i) = Me
Answered(c) ==
    \/ c.op = "accept" /\ c.at \in {"create", "announce"}
    \/ c.op = "decline" /\ c.at \in {"told", "done"}
Coming(i) == \E c \in calls : Answered(c) /\ c.id = i
Comes(i, p) == Coming(i) \/ \E q \in DOMAIN events : q > p /\ Clears(events[q], i)
Promised(i, p) == Dead(i) => Comes(i, p)

\* What calls know of invites.
Overdues(c) ==
    /\ c.at \in {"expire pending", "expire outgoing"} => c.got \in expired
    /\ c.at = "expire accept" => c.id \in expired
DeletesKnown(c) ==
    \A i : Del(<<"invite", i>>) \in Writings(c.todo) => i \in expired \/ (Answered(c) /\ c.id = i)
CreatedStays(c) ==
    /\ ~overtaken /\ c.op = "create"
    /\ \/ c.at = "told" /\ Len(c.todo) < 3
       \/ c.at = "created"
    => ~Dead(c.id)
SeatsParties(c) ==
    c.op = "accept" /\ c.at = "announce" => matches[c.got].players = Parties(c.id)
LooksAfresh(c) == c.op = "look" =>
    /\ c.by \in {Me, None}
    /\ c.at \in {"begin", "pending", "outgoing"} => c.got = None
Backs(c) ==
    Overdues(c) /\ DeletesKnown(c) /\ CreatedStays(c) /\ SeatsParties(c) /\ LooksAfresh(c)
Backed == \A c \in calls : Backs(c)
\* An invite that is still being made has not been answered.
NoneAnswered == ~overtaken => \A c, d \in calls :
    c.op = "create" /\ d.op \in {"accept", "decline"} => c.id # d.id

------------------------------------------------------------------------------
(* What calls know of invites: the steps *)

\* Calls that do not move know what they knew.
LEMMA BacksStays ==
    ASSUME TypeOK, Grown, expired \subseteq expired', NEW c \in calls, Backs(c),
           overtaken => overtaken',
           ~overtaken /\ c.op = "create" /\ ~Dead(c.id) => ~Dead(c.id)'
    PROVE  Backs(c)'
<1>1. Overdues(c)' /\ DeletesKnown(c)' /\ LooksAfresh(c)' /\ CreatedStays(c)'
  BY DEF Backs, Overdues, DeletesKnown, LooksAfresh, CreatedStays
<1>2. SeatsParties(c)'
  <2>. SUFFICES ASSUME c.op = "accept", c.at = "announce"
                PROVE  (matches[c.got].players = Parties(c.id))'
    BY DEF SeatsParties
  <2>1. c.got \in DOMAIN matches /\ c.id \in FriendOffers
    BY CallTypes DEF IdFits
  <2>2. matches'[c.got] = matches[c.got] /\ Parties(c.id)' = Parties(c.id)
    BY <2>1, GrownKeeps DEF Grown
  <2>3. matches[c.got].players = Parties(c.id)
    BY DEF Backs, SeatsParties
  <2>. QED
    BY <2>2, <2>3
<1>. QED
  BY <1>1, <1>2 DEF Backs

\* What stays in the store does not die.
LEMMA SameDead ==
    ASSUME redis' = redis, expired \subseteq expired'
    PROVE  \A i : ~Dead(i) => ~Dead(i)'
BY DEF Dead

\* A call that has nothing to write.
LEMMA NothingDeleted ==
    ASSUME NEW d, \A w \in Writings(d.todo) : w.value # None \/ w.key[1] # "invite"
    PROVE  DeletesKnown(d)
<1>. SUFFICES ASSUME NEW i, Del(<<"invite", i>>) \in Writings(d.todo) PROVE FALSE
  BY DEF DeletesKnown
<1>1. Del(<<"invite", i>>).value = None /\ Del(<<"invite", i>>).key = <<"invite", i>>
  BY DelIs
<1>. QED
  BY <1>1

\* deleteFriendInvite deletes one invite.
LEMMA OneDeleted ==
    ASSUME TypeOK, NEW i \in FriendOffers, NEW d, d.todo = DeleteFriendInvite(i),
           i \in expired \/ (Answered(d) /\ d.id = i)
    PROVE  DeletesKnown(d)
<1>. SUFFICES ASSUME NEW j, Del(<<"invite", j>>) \in Writings(d.todo) PROVE j = i
  BY DEF DeletesKnown
<1>1. Del(<<"invite", j>>) \in {Del(<<"invite", i>>), Del(<<"pending", To(i)>>), Del(<<"outgoing", From(i)>>)}
  BY DeletesAre
<1>2. Del(<<"invite", j>>).key \in {<<"invite", i>>, <<"pending", To(i)>>, <<"outgoing", From(i)>>}
  BY <1>1, DelIs
<1>3. <<"invite", j>> \in {<<"invite", i>>, <<"pending", To(i)>>, <<"outgoing", From(i)>>}
  BY <1>2, DelIs
<1>. QED
  BY <1>3

LEMMA LooksUpBacks ==
    ASSUME TypeOK, NEW c \in calls, Backs(c), NEW d, d.op = c.op, d.by = c.by, c.op \in {"create", "look"},
           NEW side \in Sides, NEW u, NEW found, NEW none,
           found \in {"refused", "second", "answered"},
           none \in {"outgoing", "save", "second", "answered"},
           c.op = "look" => none # "outgoing",
           LooksUp(c, d, side, u, found, none)
    PROVE  Backs(d)
<1>0. /\ Follow[side] \in {"follow pending", "follow outgoing"}
      /\ Overdue[side] \in {"expire pending", "expire outgoing"}
      /\ Gone[side] \in {"expired pending", "expired outgoing"}
  BY StageNames DEF Sides
<1>1. d.at \in {found, none, Follow[side], Overdue[side], Gone[side]}
  BY DEF LooksUp, Turns
<1>2. d.at = Overdue[side] => c.got \in expired /\ d.got = c.got
  BY <1>0 DEF LooksUp, Turns
<1>3. Overdues(d)
  BY <1>0, <1>1, <1>2 DEF Overdues
<1>4. CreatedStays(d) /\ SeatsParties(d) /\ LooksAfresh(d)
  BY <1>0, <1>1 DEF CreatedStays, SeatsParties, Backs, LooksAfresh
<1>5. \/ d.todo = <<>> \/ d.todo = <<Del(<<side, u>>)>>
      \/ c.at = Overdue[side] /\ d.todo = DeleteFriendInvite(c.got)
  BY DEF LooksUp, Turns
<1>6. DeletesKnown(d)
  <2>1. CASE d.todo = <<>>
    BY <2>1, WritingsOf, NothingDeleted
  <2>2. CASE d.todo = <<Del(<<side, u>>)>>
    <3>1. Writings(d.todo) = {Del(<<side, u>>)}
      BY <2>2, WritingsOf
    <3>2. Del(<<side, u>>).key = <<side, u>> /\ side # "invite"
      BY DelIs DEF Sides
    <3>. QED
      BY <3>1, <3>2, NothingDeleted
  <2>3. CASE c.at = Overdue[side] /\ d.todo = DeleteFriendInvite(c.got)
    <3>1. c.got \in FriendOffers
      BY <2>3, CallTypes DEF IdFits, Sides
    <3>2. c.got \in expired
      BY <1>0, <2>3 DEF Backs, Overdues
    <3>. QED
      BY <2>3, <3>1, <3>2, OneDeleted
  <2>. QED
    BY <1>5, <2>1, <2>2, <2>3
<1>. QED
  BY <1>3, <1>4, <1>6 DEF Backs

LEMMA InviteStepBacks ==
    ASSUME TypeOK, NEW c \in calls, Backs(c), NEW d, InviteStep(c, d)
    PROVE  Backs(d)
<1>0. d.op = c.op /\ d.by = c.by /\ (c.op \in {"create", "accept", "decline"} => c.id \in FriendOffers)
  BY IdsKnown DEF InviteStep, Goes
<1>s. "pending" \in Sides /\ "outgoing" \in Sides
  BY DEF Sides
<1>q. d.todo = <<>> => DeletesKnown(d)
  BY WritingsOf, NothingDeleted
<1>1. CASE Creates(c, d)
  <2>0. c.op = "create" /\ d.op = "create" /\ SeatsParties(d) /\ LooksAfresh(d)
    BY <1>0, <1>1 DEF Creates, SeatsParties, LooksAfresh
  <2>1. CASE LooksUp(c, d, "pending", To(c.id), "refused", "outgoing")
    BY <1>0, <1>s, <2>0, <2>1, LooksUpBacks
  <2>2. CASE LooksUp(c, d, "outgoing", From(c.id), "refused", "save")
    BY <1>0, <1>s, <2>0, <2>2, LooksUpBacks
  <2>3. CASE Turns(c, d, "begin", "pending") \/ Turns(c, d, "begin", "failed") \/ Turns(c, d, "refused", "failed")
    BY <1>q, <2>0, <2>3 DEF Turns, Backs, Overdues, CreatedStays
  <2>4. CASE c.at = "save" /\ d.at = "told" /\ d.todo = SaveFriendInvite(c.id)
    <3>. DEFINE a == Set(<<"invite", c.id>>, "pending")
                b == Set(<<"pending", To(c.id)>>, c.id)
                e == Set(<<"outgoing", From(c.id)>>, c.id)
    <3>1. /\ d.todo = <<a, b, e>> /\ Writings(d.todo) = {a, b, e}
          /\ a.value = "pending" /\ b.key[1] = "pending" /\ e.key[1] = "outgoing"
      BY <1>0, <2>0, <2>4, SavesAre, DelIs
    <3>. HIDE DEF a, b, e
    <3>2. Len(d.todo) = 3
      BY <3>1
    <3>3. DeletesKnown(d)
      BY <3>1, LobbyAssumption, NothingDeleted
    <3>. QED
      BY <2>0, <2>4, <3>2, <3>3 DEF Backs, Overdues, CreatedStays
  <2>5. CASE Turns(c, d, "told", "created")
    <3>1. c.todo = <<>>
      BY DEF InviteStep, Goes
    <3>2. (~overtaken => ~Dead(c.id)) /\ d.id = c.id /\ d.at = "created" /\ d.todo = <<>>
      <4>1. Len(c.todo) < 3
        BY <3>1
      <4>. QED
        BY <2>0, <2>5, <4>1 DEF Backs, CreatedStays, Turns
    <3>. QED
      BY <1>q, <2>0, <3>2 DEF Backs, Overdues, CreatedStays
  <2>. QED
    BY <1>1, <2>1, <2>2, <2>3, <2>4, <2>5 DEF Creates
<1>2. CASE Accepts(c, d)
  <2>0. /\ c.op = "accept" /\ d.op = "accept" /\ CreatedStays(d) /\ LooksAfresh(d)
        /\ Overdue.accept = "expire accept" /\ Gone.accept = "expired accept"
        /\ c.id \in FriendOffers
    BY <1>0, <1>2, StageNames DEF Accepts, CreatedStays, LooksAfresh
  <2>1. d.at # "announce" /\ d.id = c.id
    BY <1>2, <2>0 DEF Accepts, Turns
  <2>2. Overdues(d)
    BY <1>2, <2>0 DEF Accepts, Turns, Overdues
  <2>3. \/ d.todo = <<>>
        \/ d.todo = DeleteFriendInvite(c.id) /\ (c.at = "expire accept" \/ d.at = "create")
    BY <1>2, <2>0 DEF Accepts, Turns
  <2>4. d.todo = DeleteFriendInvite(c.id) /\ (c.at = "expire accept" \/ d.at = "create")
           => DeletesKnown(d)
    <3>1. c.at = "expire accept" => c.id \in expired
      BY DEF Backs, Overdues
    <3>. QED
      BY <2>0, <2>1, <3>1, OneDeleted DEF Answered
  <2>. QED
    BY <1>q, <2>0, <2>1, <2>2, <2>3, <2>4 DEF Backs, SeatsParties
<1>3. CASE Declines(c, d)
  <2>0. /\ c.op = "decline" /\ d.op = "decline" /\ c.id \in FriendOffers /\ d.id = c.id
        /\ d.at \in {"done", "delete", "told"}
        /\ d.todo = <<>> \/ (d.todo = DeleteFriendInvite(c.id) /\ d.at = "told")
    BY <1>0, <1>3 DEF Declines, Turns
  <2>1. d.todo = DeleteFriendInvite(c.id) /\ d.at = "told" => DeletesKnown(d)
    BY <2>0, OneDeleted DEF Answered
  <2>. QED
    BY <1>q, <2>0, <2>1 DEF Backs, Overdues, CreatedStays, SeatsParties, LooksAfresh
<1>4. CASE Looks(c, d)
  <2>0. c.op = "look" /\ d.op = "look" /\ CreatedStays(d) /\ SeatsParties(d)
    BY <1>0, <1>4 DEF Looks, CreatedStays, SeatsParties
  <2>1. CASE LooksUp(c, d, "pending", Me, "second", "second")
    BY <1>0, <1>s, <2>0, <2>1, LooksUpBacks
  <2>2. CASE LooksUp(c, d, "outgoing", Me, "answered", "answered")
    BY <1>0, <1>s, <2>0, <2>2, LooksUpBacks
  <2>3. CASE Turns(c, d, "begin", "pending")
    <3>1. c.got = None /\ d.got = None /\ d.at = "pending" /\ d.todo = <<>>
      BY <2>0, <2>3 DEF Turns, Backs, LooksAfresh
    <3>. QED
      BY <1>0, <1>q, <2>0, <3>1 DEF Backs, Overdues, LooksAfresh
  <2>4. CASE c.at = "second" /\ d.at = "outgoing" /\ d.got = None /\ d.todo = <<>>
    BY <1>0, <1>q, <2>0, <2>4 DEF Backs, Overdues, LooksAfresh
  <2>. QED
    BY <1>4, <2>1, <2>2, <2>3, <2>4 DEF Looks
<1>. QED
  BY <1>1, <1>2, <1>3, <1>4 DEF InviteStep

\* Nothing that was made is lost, and what has expired stays so.
LEMMA StepGrows ==
    ASSUME TypeOK, Step
    PROVE  Grown /\ expired \subseteq expired'
<1>1. ASSUME UNCHANGED made, expired \subseteq expired' PROVE Grown
  BY <1>1 DEF made, Grown
<1>2. ASSUME NEW c \in calls, EndOfCall(c) PROVE Grown /\ expired \subseteq expired'
  BY <1>1, <1>2 DEF EndOfCall
<1>3. ASSUME NEW c \in calls, NEW d, InviteStep(c, d) \/ RematchStep(c, d) \/ IndexStep(c, d)
      PROVE  Grown /\ expired \subseteq expired'
  BY <1>1, <1>3 DEF InviteStep, RematchStep, IndexStep, ActiveStep, ChatStep
<1>4. ASSUME NEW c \in calls, NEW d, MakesMatch(c, d) PROVE Grown /\ expired \subseteq expired'
  <2>1. expired' = expired
    BY <1>4 DEF MakesMatch
  <2>. QED
    BY <1>4, <2>1, MakesMatchAdds
<1>5. ASSUME NEW c \in calls, NEW d, Writes1(c, d) PROVE Grown /\ expired \subseteq expired'
  BY <1>1, <1>5 DEF Writes1
<1>6. ASSUME NEW c, Started(c) PROVE Grown /\ expired \subseteq expired'
  <2>1. Grown
    BY <1>6, StartedFits
  <2>2. expired' = expired
    BY <1>6 DEF Started, AsksForMatch, RequestsRematch, Answers, AnswersRematch, Closes, Chats,
                     AsksForActive, made
  <2>. QED
    BY <2>1, <2>2
<1>7. ASSUME NEW c, NEW d, Opens(c, d) PROVE Grown /\ expired \subseteq expired'
  BY <1>1, <1>7 DEF Opens
<1>8. CASE Leaving \/ Watches
  BY <1>1, <1>8 DEF Leaving, Watches
<1>9. CASE Passes
  BY <1>1, <1>9 DEF Passes
<1>10. ASSUME NEW i, NEW k, Drops(i, k) PROVE Grown /\ expired \subseteq expired'
  BY <1>1, <1>10 DEF Drops
<1>. QED
  BY <1>2, <1>3, <1>4, <1>5, <1>6, <1>7, <1>8, <1>9, <1>10 DEF Step, Turned

\* A call that begins has no invite to delete.
LEMMA StartsFresh ==
    ASSUME TypeOK, NEW c, Started(c)
    PROVE  /\ c.at \in {"begin", "live", "over"} /\ c.op # "look" /\ c.got = None
           /\ \A w \in Writings(c.todo) : w.key[1] # "invite"
<1>0. Writings(<<>>) = {}
  BY WritingsOf
<1>1. ASSUME NEW u \in Users, NEW v \in Users, NEW m \in DOMAIN matches, RequestsRematch(c, u, v, m)
      PROVE  /\ c.at = "begin" /\ c.op # "look" /\ c.got = None
             /\ \A w \in Writings(c.todo) : w.key[1] # "invite"
  <2>. DEFINE a == Set(<<"rematch", m>>, Len(offers) + 1)
              b == Set(<<"rematchPending", v>>, m)
  <2>1. c.todo = <<a, b>> /\ c.op = "requestRematch" /\ c.at = "begin" /\ c.got = None
    BY <1>1 DEF RequestsRematch, Begun
  <2>2. a.key[1] = "rematch" /\ b.key[1] = "rematchPending"
    BY DelIs
  <2>. HIDE DEF a, b
  <2>3. Writings(c.todo) = {a, b}
    BY <2>1 DEF Writings
  <2>. QED
    BY <2>1, <2>2, <2>3
<1>2. ASSUME NEW m \in DOMAIN matches, NEW u \in Users, NEW v \in Users, Closes(c, m, u, v)
      PROVE  /\ c.at = "begin" /\ c.op # "look" /\ c.got = None
             /\ \A w \in Writings(c.todo) : w.key[1] # "invite"
  <2>1. c.todo = SaveState(m, "over", <<u, v>>) /\ c.op = "end" /\ c.at = "begin" /\ c.got = None
    BY <1>2 DEF Closes, Begun
  <2>2. m \in 1 .. MaxId
    BY OfferTypes
  <2>3. \A w \in Writings(c.todo) : w.key[1] \in {"session", "active"}
    BY <2>1, <2>2, SavedKeys
  <2>. QED
    BY <2>1, <2>3
<1>3. ASSUME NEW u \in Users, NEW v \in Users, AsksForMatch(c, u, v)
      PROVE  c.at = "begin" /\ c.op # "look" /\ c.got = None /\ c.todo = <<>>
  BY <1>3 DEF AsksForMatch, Begun
<1>4. ASSUME NEW i \in DOMAIN offers, Answers(c, i) \/ AnswersRematch(c, i)
      PROVE  c.at = "begin" /\ c.op # "look" /\ c.got = None /\ c.todo = <<>>
  BY <1>4 DEF Answers, AnswersRematch, Begun
<1>5. AsksForActive(c) => c.at = "begin" /\ c.op # "look" /\ c.got = None /\ c.todo = <<>>
  BY DEF AsksForActive, Begun
<1>6. ASSUME NEW m \in DOMAIN matches, Chats(c, m)
      PROVE  c.at \in {"live", "over"} /\ c.op # "look" /\ c.got = None /\ c.todo = <<>>
  BY <1>6 DEF Chats
<1>. QED
  BY <1>0, <1>1, <1>2, <1>3, <1>4, <1>5, <1>6 DEF Started

LEMMA MatchBacks ==
    ASSUME TypeOK, NEW c \in calls, NEW d, MakesMatch(c, d)
    PROVE  Backs(d)'
<1>. DEFINE m == Len(matches) + 1
            u == Seats(c)[1]
            v == Seats(c)[2]
<1>0. /\ d.op = c.op /\ c.op \in {"accept", "acceptRematch"} /\ d.at = "announce" /\ d.id = c.id
      /\ d.got = m /\ d.todo = SaveState(m, "live", Seats(c))
  BY DEF MakesMatch, Goes
<1>1. u \in Users /\ v \in Users /\ Seats(c) = <<u, v>> /\ (c.op = "accept" => {u, v} = Parties(c.id))
  BY <1>0, SeatTypes
<1>2. m \in 1 .. MaxId /\ matches'[m].players = {u, v} /\ Grown
  BY MakesMatchAdds
<1>. HIDE DEF u, v
<1>4. \A w \in Writings(d.todo) : w.key[1] \in {"session", "active"}
  BY <1>0, <1>1, <1>2, SavedKeys
<1>. HIDE DEF m
<1>5. DeletesKnown(d)
  BY <1>4, NothingDeleted
<1>6. expired' = expired
  BY DEF MakesMatch
<1>7. DeletesKnown(d)'
  BY <1>5, <1>6 DEF DeletesKnown
<1>8. SeatsParties(d)'
  <2>. SUFFICES ASSUME d.op = "accept" PROVE matches'[m].players = Parties(c.id)'
    BY <1>0 DEF SeatsParties
  <2>1. c.id \in FriendOffers
    BY <1>0, IdsKnown
  <2>. QED
    BY <1>0, <1>1, <1>2, <2>1, GrownKeeps
<1>9. Overdues(d)' /\ CreatedStays(d)' /\ LooksAfresh(d)'
  BY <1>0 DEF Overdues, CreatedStays, LooksAfresh
<1>. QED
  BY <1>7, <1>8, <1>9 DEF Backs

\* Calls that have no part in invites.
LEMMA OthersBack ==
    ASSUME TypeOK, NEW c \in calls, NEW d, RematchStep(c, d) \/ IndexStep(c, d)
    PROVE  Backs(d)
<1>1. /\ d.op \in {"acceptRematch", "declineRematch", "lookRematch", "active", "chat"}
      /\ d.at \in {"delete", "create", "told", "answered", "follow", "session", "answer", "done"}
  BY IndexTodo DEF RematchStep, Goes, AcceptsRematch, DeclinesRematch, LooksForRematch
<1>2. \A w \in Writings(d.todo) : w.key[1] # "invite"
  <2>1. CASE RematchStep(c, d)
    BY <2>1, RematchTodo
  <2>2. CASE IndexStep(c, d)
    BY <2>2, IndexTodo
  <2>. QED
    BY <2>1, <2>2
<1>3. DeletesKnown(d)
  BY <1>2, NothingDeleted
<1>. QED
  BY <1>1, <1>3 DEF Backs, Overdues, CreatedStays, SeatsParties, LooksAfresh

\* One command: an invite goes only when it has expired, or when the call that
\* deletes it was asked to.
LEMMA WriteKills ==
    ASSUME TypeOK, NEW c \in calls, Backs(c), NEW d, Writes1(c, d), NEW i, i \in 1 .. MaxId,
           ~Dead(i), Dead(i)'
    PROVE  Answered(c) /\ c.id = i /\ Answered(d) /\ d.id = i
<1>. DEFINE w == Head(c.todo)
<1>0. /\ c.todo # <<>> /\ redis' = [redis EXCEPT ![w.key] = w.value] /\ expired' = expired
      /\ d.op = c.op /\ d.at = c.at /\ d.id = c.id
  BY DEF Writes1, Is
<1>1. w \in Writings(c.todo) /\ w \in Writing
  BY <1>0, CallTypes, WritingsOfTail
<1>. HIDE DEF w
<1>2. /\ <<"invite", i>> \in Keys /\ DOMAIN redis = Keys /\ i \notin expired
      /\ redis[<<"invite", i>>] # None /\ redis'[<<"invite", i>>] = None
  BY <1>0, KeyTypes DEF Dead, TypeOK, StoreOK
<1>3. w.key = <<"invite", i>> /\ w.value = None
  BY <1>0, <1>2
<1>4. w = Del(<<"invite", i>>)
  BY <1>1, <1>3 DEF Writing, Del, Set
<1>5. Answered(c) /\ c.id = i
  BY <1>1, <1>2, <1>4 DEF Backs, DeletesKnown
<1>. QED
  BY <1>0, <1>5 DEF Answered

LEMMA WriteBacks ==
    ASSUME TypeOK, NoneAnswered, Findable, NEW c \in calls, Backs(c), NEW d, Writes1(c, d),
           overtaken => overtaken'
    PROVE  /\ Backs(d)'
           /\ ~overtaken => \A e \in calls : e.op = "create" /\ ~Dead(e.id) => ~Dead(e.id)'
<1>0. /\ d.op = c.op /\ d.by = c.by /\ d.at = c.at /\ d.id = c.id /\ d.got = c.got /\ d.todo = Tail(c.todo)
      /\ c.todo # <<>> /\ UNCHANGED <<made, expired>>
  BY DEF Writes1, Is
<1>1. Writings(d.todo) \subseteq Writings(c.todo) /\ Len(d.todo) = Len(c.todo) - 1 /\ Len(c.todo) \in Nat
  BY <1>0, CallTypes, WritingsOfTail, LenProperties
<1>2. ~overtaken => \A e \in calls : e.op = "create" /\ ~Dead(e.id) => ~Dead(e.id)'
  <2>. SUFFICES ASSUME ~overtaken, NEW e \in calls, e.op = "create", ~Dead(e.id), Dead(e.id)'
                PROVE  FALSE
    OBVIOUS
  <2>1. e.id \in 1 .. MaxId
    BY IdsKnown, OfferTypes
  <2>2. Answered(c) /\ c.id = e.id
    BY <2>1, WriteKills
  <2>3. c.op \in {"accept", "decline"}
    BY <2>2 DEF Answered
  <2>. QED
    BY <2>2, <2>3 DEF NoneAnswered
<1>3. CreatedStays(d)'
  <2>. SUFFICES ASSUME ~overtaken, c.op = "create", (c.at = "told" /\ Len(c.todo) < 4) \/ c.at = "created"
                PROVE  ~Dead(c.id)'
    BY <1>0, <1>1 DEF CreatedStays
  <2>0. c.id \in FriendOffers
    BY IdsKnown
  <2>1. CASE (c.at = "told" /\ Len(c.todo) < 3) \/ c.at = "created"
    BY <1>2, <2>1 DEF Backs, CreatedStays
  <2>2. CASE c.at = "told" /\ Len(c.todo) = 3
    <3>. DEFINE w == Head(c.todo)
                k == <<"invite", c.id>>
    <3>1. c.todo \in SaveWrites(c.id)
      BY <2>2 DEF Findable, PointerWriters, WritesOwn, Saver
    <3>. DEFINE a == Set(k, "pending")
                b == Set(<<"pending", To(c.id)>>, c.id)
                z == Set(<<"outgoing", From(c.id)>>, c.id)
    <3>2. c.todo \in {<<a, b, z>>, <<b, z>>, <<z>>, <<>>}
      BY <3>1 DEF SaveWrites
    <3>3. a.key = k /\ a.value = "pending"
      BY DelIs
    <3>. HIDE DEF a, b, z
    <3>4. c.todo = <<a, b, z>>
      <4>1. Len(<<b, z>>) = 2 /\ Len(<<z>>) = 1 /\ Len(<<>>) = 0
        OBVIOUS
      <4>2. Len(c.todo) = 3
        BY <2>2
      <4>. QED
        BY ONLY <3>2, <4>1, <4>2
    <3>5. w = a
      BY <3>4
    <3>6. redis' = [redis EXCEPT ![k] = "pending"]
      BY <3>3, <3>5 DEF Writes1
    <3>7. k \in Keys /\ DOMAIN redis = Keys
      BY <2>0, OfferTypes, KeyTypes DEF TypeOK, StoreOK
    <3>8. redis'[k] = "pending"
      BY <3>6, <3>7
    <3>. QED
      BY <3>8, LobbyAssumption DEF Dead
  <2>3. Len(c.todo) < 4 => Len(c.todo) < 3 \/ Len(c.todo) = 3
    <3>1. \A n \in Nat : n < 4 => n < 3 \/ n = 3
      OBVIOUS
    <3>. QED
      BY ONLY <1>1, <3>1
  <2>. QED
    BY ONLY <2>1, <2>2, <2>3, (c.at = "told" /\ Len(c.todo) < 4) \/ c.at = "created"
<1>4. Overdues(d)' /\ LooksAfresh(d)'
  BY <1>0 DEF Backs, Overdues, LooksAfresh
<1>5. DeletesKnown(d)'
  BY <1>0, <1>1 DEF Backs, DeletesKnown, Answered
<1>6. SeatsParties(d)'
  BY <1>0, SameMade DEF Backs, SeatsParties
<1>. QED
  BY <1>2, <1>3, <1>4, <1>5, <1>6 DEF Backs

LEMMA BackedStep ==
    ASSUME TypeOK, NoneAnswered, Findable, Backed, Step, overtaken => overtaken'
    PROVE  Backed'
<1>0. Grown /\ expired \subseteq expired'
  BY StepGrows
<1>a. ASSUME NEW c \in calls, redis' = redis PROVE Backs(c)'
  BY <1>0, <1>a, BacksStays, SameDead DEF Backed
<1>b. ASSUME UNCHANGED <<redis, made, expired>>, NEW d, Backs(d) PROVE Backs(d)'
  BY <1>b, SameMade DEF Backs, Overdues, DeletesKnown, CreatedStays, SeatsParties, LooksAfresh, Dead
<1>1. ASSUME NEW c \in calls, EndOfCall(c) PROVE Backed'
  BY <1>1, <1>a DEF EndOfCall, Leaves, Backed
<1>2. ASSUME NEW c \in calls, NEW d, InviteStep(c, d) \/ RematchStep(c, d) \/ IndexStep(c, d)
      PROVE  Backed'
  <2>1. Backs(d)
    BY <1>2, InviteStepBacks, OthersBack DEF Backed
  <2>2. UNCHANGED <<redis, made, expired>> /\ calls' \subseteq calls \cup {d}
    BY <1>2 DEF InviteStep, RematchStep, IndexStep, ActiveStep, ChatStep, Goes
  <2>3. Backs(d)'
    BY <1>b, <2>1, <2>2
  <2>. QED
    BY <1>a, <2>2, <2>3 DEF Backed
<1>3. ASSUME NEW c \in calls, NEW d, MakesMatch(c, d) PROVE Backed'
  <2>1. redis' = redis /\ calls' \subseteq calls \cup {d}
    BY <1>3 DEF MakesMatch, Goes
  <2>. QED
    BY <1>3, <1>a, <2>1, MatchBacks DEF Backed
<1>4. ASSUME NEW c \in calls, NEW d, Writes1(c, d) PROVE Backed'
  <2>1. /\ Backs(d)'
        /\ ~overtaken => \A e \in calls : e.op = "create" /\ ~Dead(e.id) => ~Dead(e.id)'
    BY <1>4, WriteBacks DEF Backed
  <2>2. \A e \in calls : Backs(e)'
    BY <1>0, <2>1, BacksStays DEF Backed
  <2>. QED
    BY <1>4, <2>1, <2>2 DEF Writes1, Backed
<1>5. ASSUME NEW c, Started(c) PROVE Backed'
  <2>1. redis' = redis /\ calls' = calls \cup {c}
    BY <1>5, StartedFits DEF Joins
  <2>2. /\ c.at \in {"begin", "live", "over"} /\ c.op # "look"
        /\ \A w \in Writings(c.todo) : w.key[1] # "invite"
    BY <1>5, StartsFresh
  <2>3. DeletesKnown(c)
    BY <2>2, NothingDeleted
  <2>4. DeletesKnown(c)'
    BY <1>0, <2>3 DEF DeletesKnown
  <2>5. Backs(c)'
    BY <2>2, <2>4 DEF Backs, Overdues, CreatedStays, SeatsParties, LooksAfresh
  <2>. QED
    BY <1>a, <2>1, <2>5 DEF Backed
<1>6. ASSUME NEW c, NEW d, Opens(c, d) PROVE Backed'
  <2>1. redis' = redis /\ calls' = calls \cup {c, d}
    BY <1>6 DEF Opens, Joins
  <2>2. \A e \in {c, d} : /\ e.by = Me /\ e.op \in {"look", "lookRematch"} /\ e.at = "begin" /\ e.got = None
                          /\ e.todo = <<>>
    BY <1>6 DEF Opens, Begun
  <2>3. \A e \in {c, d} : DeletesKnown(e)'
    BY <2>2, WritingsOf DEF DeletesKnown
  <2>4. \A e \in {c, d} : Backs(e)'
    BY <2>2, <2>3 DEF Backs, Overdues, CreatedStays, SeatsParties, LooksAfresh
  <2>. QED
    BY <1>a, <2>1, <2>4 DEF Backed
<1>7. CASE Leaving
  <2>1. UNCHANGED <<redis, made, expired>>
    BY <1>7 DEF Leaving
  <2>. SUFFICES ASSUME NEW e \in calls' PROVE Backs(e)'
    BY DEF Backed
  <2>2. PICK c \in calls : e = Blind(c)
    BY <1>7 DEF Leaving
  <2>3. /\ e.op = c.op /\ e.at = c.at /\ e.id = c.id /\ e.got = c.got /\ e.todo = c.todo
        /\ e.by \in {c.by, None}
    BY <2>2, BlindIs
  <2>4. Backs(c)'
    BY <1>a, <2>1
  <2>. QED
    BY <2>3, <2>4 DEF Backs, Overdues, DeletesKnown, CreatedStays, SeatsParties, LooksAfresh, Answered
<1>8. CASE Passes \/ Watches
  <2>1. redis' = redis /\ calls' = calls
    BY <1>8 DEF Passes, Watches
  <2>. QED
    BY <1>a, <2>1 DEF Backed
<1>9. ASSUME NEW i, NEW k, Drops(i, k) PROVE Backed'
  <2>1. /\ calls' = calls /\ i \in expired /\ k \in Keys /\ Lost(i, k) /\ UNCHANGED <<made, expired>>
        /\ redis' = [redis EXCEPT ![k] = None] /\ DOMAIN redis = Keys
    BY <1>9 DEF Drops, TypeOK, StoreOK
  <2>2. ASSUME NEW j, j \in 1 .. MaxId, ~Dead(j) PROVE ~Dead(j)'
    <3>1. CASE k = <<"invite", j>>
      <4>1. k = OfferKey(i)
        BY <2>1, <3>1 DEF Lost, Sides
      <4>2. j = i
        BY <3>1, <4>1 DEF OfferKey
      <4>. QED
        BY <2>1, <4>2 DEF Dead
    <3>2. CASE k # <<"invite", j>>
      <4>1. <<"invite", j>> \in Keys
        BY <2>2, KeyTypes
      <4>. QED
        BY <2>1, <2>2, <3>2, <4>1 DEF Dead
    <3>. QED
      BY <3>1, <3>2
  <2>3. \A c \in calls : c.op = "create" => c.id \in 1 .. MaxId
    BY IdsKnown, OfferTypes
  <2>4. \A c \in calls : Backs(c)'
    BY <1>0, <2>2, <2>3, BacksStays DEF Backed
  <2>. QED
    BY <2>1, <2>4 DEF Backed
<1>. QED
  BY <1>1, <1>2, <1>3, <1>4, <1>5, <1>6, <1>7, <1>8, <1>9 DEF Step, Turned

\* Calls that go on, or end, answer what they answered.
LEMMA NoneAnsweredKeeps ==
    ASSUME NoneAnswered, overtaken => overtaken',
           \A e \in calls' : \E c \in calls : e.op = c.op
               /\ (c.op \in {"create", "accept", "decline"} => e.id = c.id)
    PROVE  NoneAnswered'
<1>. SUFFICES ASSUME ~overtaken', NEW e \in calls', NEW f \in calls',
                     e.op = "create", f.op \in {"accept", "decline"}
              PROVE  e.id # f.id
  BY DEF NoneAnswered
<1>1. PICK c \in calls : c.op = "create" /\ e.id = c.id
  OBVIOUS
<1>2. PICK d \in calls : d.op \in {"accept", "decline"} /\ f.id = d.id
  OBVIOUS
<1>. QED
  BY <1>1, <1>2 DEF NoneAnswered

\* A new call is for an invite of its own, or is an answer that is counted.
LEMMA NoneAnsweredStarts ==
    ASSUME TypeOK, NoneAnswered, overtaken => overtaken', NEW c, Started(c)
    PROVE  NoneAnswered'
<1>0. calls' = calls \cup {c}
  BY StartedFits DEF Joins
<1>1. CASE c.op \notin {"create", "accept", "decline"}
  BY <1>0, <1>1 DEF NoneAnswered
<1>2. ASSUME NEW u \in Users, NEW v \in Users, AsksForMatch(c, u, v) PROVE NoneAnswered'
  <2>1. c.op = "create" /\ c.id = Len(offers) + 1
    BY <1>2 DEF AsksForMatch, Begun
  <2>2. \A d \in calls : d.op \in {"accept", "decline"} => d.id # c.id
    <3>1. Len(offers) \in Nat /\ DOMAIN offers = 1 .. Len(offers)
      BY LenProperties DEF TypeOK, MadeOK
    <3>2. \A d \in calls : d.op \in {"accept", "decline"} => d.id \in DOMAIN offers
      BY IdsKnown DEF FriendOffers
    <3>. QED
      BY <2>1, <3>1, <3>2
  <2>. QED
    BY <1>0, <2>1, <2>2 DEF NoneAnswered
<1>3. ASSUME NEW i \in DOMAIN offers, Answers(c, i) PROVE NoneAnswered'
  <2>1. c.op \in {"accept", "decline"} /\ c.id = i
    BY <1>3 DEF Answers, Begun
  <2>2. ~overtaken' => \A d \in calls : d.op = "create" => d.id # i
    BY <1>3 DEF Answers
  <2>. QED
    BY <1>0, <2>1, <2>2 DEF NoneAnswered
<1>4. \/ c.op \notin {"create", "accept", "decline"}
      \/ \E u, v \in Users : AsksForMatch(c, u, v)
      \/ \E i \in DOMAIN offers : Answers(c, i)
  BY DEF Started, RequestsRematch, AnswersRematch, Closes, Chats, AsksForActive, Begun
<1>. QED
  BY <1>1, <1>2, <1>3, <1>4

LEMMA NoneAnsweredStep ==
    ASSUME TypeOK, NoneAnswered, Step, overtaken => overtaken'
    PROVE  NoneAnswered'
<1>1. ASSUME NEW c \in calls, EndOfCall(c) PROVE NoneAnswered'
  BY <1>1, NoneAnsweredKeeps DEF EndOfCall, Leaves
<1>2. ASSUME NEW c \in calls, NEW d, Turned(c, d) PROVE NoneAnswered'
  <2>1. calls' = (calls \ {c}) \cup {d} /\ d.op = c.op
    BY <1>2 DEF Turned, InviteStep, MakesMatch, RematchStep, IndexStep, ActiveStep, ChatStep, Goes
  <2>2. c.op \in {"create", "accept", "decline"} => d.id = c.id
    <3>1. CASE InviteStep(c, d)
      BY <3>1, InviteTodo
    <3>2. CASE MakesMatch(c, d)
      BY <3>2 DEF MakesMatch
    <3>3. CASE RematchStep(c, d) \/ IndexStep(c, d)
      BY <3>3 DEF RematchStep, AcceptsRematch, DeclinesRematch, LooksForRematch, IndexStep, ActiveStep, ChatStep
    <3>. QED
      BY <1>2, <3>1, <3>2, <3>3 DEF Turned
  <2>. QED
    BY <2>1, <2>2, NoneAnsweredKeeps
<1>3. ASSUME NEW c \in calls, NEW d, Writes1(c, d) PROVE NoneAnswered'
  BY <1>3, NoneAnsweredKeeps DEF Writes1, Is
<1>4. ASSUME NEW c, Started(c) PROVE NoneAnswered'
  BY <1>4, NoneAnsweredStarts
<1>5. ASSUME NEW c, NEW d, Opens(c, d) PROVE NoneAnswered'
  BY <1>5 DEF Opens, Joins, Begun, NoneAnswered
<1>6. CASE Leaving
  <2>1. \A e \in calls' : \E c \in calls : e = Blind(c)
    BY <1>6 DEF Leaving
  <2>2. \A c \in calls : Blind(c).op = c.op /\ Blind(c).id = c.id
    BY BlindIs
  <2>. QED
    BY <2>1, <2>2, NoneAnsweredKeeps
<1>7. CASE Passes \/ Watches
  BY <1>7, NoneAnsweredKeeps DEF Passes, Watches
<1>8. ASSUME NEW i, NEW k, Drops(i, k) PROVE NoneAnswered'
  BY <1>8, NoneAnsweredKeeps DEF Drops
<1>. QED
  BY <1>1, <1>2, <1>3, <1>4, <1>5, <1>6, <1>7, <1>8 DEF Step

------------------------------------------------------------------------------
(* The page and its events: what holds whatever has been overtaken *)

LooksMine(c) == c.op = "look" /\ c.by = Me
ClientTypes == events \in Seq(Event) /\ page \in Page
Asleep ==
    /\ page.pending = None /\ page.outgoing = None /\ events = <<>>
    /\ \A c \in calls : ~LooksMine(c)
Awake == (page.joined => page.on) /\ (~page.on => Asleep)

\* What the calls of the page or others tell it, and how the others go on.
Tells(c) ==
    /\ UNCHANGED page
    /\ \/ c.op = "create" /\ c.at = "told"
          /\ Emit(Parties(c.id), IF Me = To(c.id) THEN "invited" ELSE "sent", c.id)
       \/ c.op \in {"create", "look"} /\ c.at \in {"expired pending", "expired outgoing"}
          /\ Emit(Parties(c.got), "expired", c.got)
       \/ c.op = "accept" /\ c.at = "expired accept" /\ Emit(Parties(c.id), "expired", c.id)
       \/ c.op = "accept" /\ c.at = "announce" /\ Emit(matches[c.got].players, "ready", c.got)
       \/ /\ c.op = "decline" /\ c.at = "told" /\ Reply(c, "done")
          /\ Emit({Other(c)}, IF c.by = From(c.id) THEN "cancelled" ELSE "declined", c.id)
       \/ /\ c.op \in {"requestRematch", "acceptRematch", "declineRematch"}
          /\ \E us, id : \E kind \in {"rematchRequested", "rematchReady", "rematchDeclined"} :
               id \in Nat /\ Emit(us, kind, id)
Hushes(c) == UNCHANGED client /\ (Answered(c) => c.op = "accept" /\ CreateSession(c))

LEMMA ActsTable ==
    ASSUME TypeOK, NEW c \in calls, Acts(c)
    PROVE  \/ Hushes(c) \/ Tells(c) \/ InvitesLoaded(c) \/ RematchLoaded(c)
           \/ HandleLocalSent(c) \/ InviteAnswered(c)
<1>0. /\ Gone["pending"] = "expired pending" /\ Gone["outgoing"] = "expired outgoing"
      /\ Gone["accept"] = "expired accept" /\ Gone.accept = "expired accept"
  BY StageNames
<1>1. ASSUME NEW side \in Sides, NEW u, NEW found, NEW none, Lookup(c, side, u, found, none),
             c.op \in {"create", "look"}
      PROVE  Hushes(c) \/ Tells(c)
  <2>1. CASE \/ FindPointer(c, side, u, none) \/ FollowPointer(c, side, u, found, none)
             \/ ExpireFriendInvite(c, side, c.got)
    BY <1>1, <2>1 DEF FindPointer, FollowPointer, ExpireFriendInvite, client, Hushes, Answered
  <2>2. CASE ExpiryTold(c, side, c.got, none)
    BY <1>0, <1>1, <2>2 DEF ExpiryTold, Sides, Tells
  <2>. QED
    BY <1>1, <2>1, <2>2 DEF Lookup
<1>2. CASE FriendshipChecked(c) \/ CreateRefused(c) \/ CreateFriendInvite(c) \/ Failed(c)
  BY <1>2 DEF FriendshipChecked, CreateRefused, CreateFriendInvite, Failed, At, Hushes, Answered
<1>3. CASE CreateLooks(c) \/ LookAtInvites(c)
  <2>1. "pending" \in Sides /\ "outgoing" \in Sides
    BY DEF Sides
  <2>2. CASE CreateLooks(c)
    BY <1>1, <2>1, <2>2 DEF CreateLooks
  <2>3. CASE LookAtInvites(c)
    BY <1>1, <2>1, <2>3 DEF LookAtInvites, Hushes, Answered
  <2>. QED
    BY <1>3, <2>2, <2>3
<1>4. CASE InviteTold(c)
  BY <1>4 DEF InviteTold, At, Tells
<1>5. CASE AcceptFriendInvite(c) \/ AcceptDeletes(c) \/ DeclineFriendInvite(c) \/ DeclineDeletes(c)
  BY <1>5 DEF AcceptFriendInvite, AcceptDeletes, DeclineFriendInvite, DeclineDeletes, At, Hushes, Answered
<1>6. CASE AcceptTooLate(c)
  <2>1. CASE ExpireFriendInvite(c, "accept", c.id)
    <3>1. c.op = "accept" /\ c.at = "expire accept" /\ UNCHANGED client
      BY <1>6, <2>1, StageNames DEF AcceptTooLate, ExpireFriendInvite
    <3>. QED
      BY <3>1 DEF Hushes, Answered
  <2>2. CASE ExpiryTold(c, "accept", c.id, "failed")
    BY <1>0, <1>6, <2>2 DEF AcceptTooLate, ExpiryTold, Tells
  <2>. QED
    BY <1>6, <2>1, <2>2 DEF AcceptTooLate
<1>7. CASE DeclineTold(c)
  BY <1>7 DEF DeclineTold, Notified, At, Tells
<1>8. CASE CreateSession(c)
  BY <1>8 DEF CreateSession, Hushes, Answered, client
<1>9. CASE MatchReady(c)
  <2>1. CASE c.op = "accept"
    BY <1>9, <2>1 DEF MatchReady, Tells
  <2>2. CASE c.op = "acceptRematch"
    <3>1. Emit(matches[c.got].players, "rematchReady", c.got) /\ UNCHANGED page /\ c.at = "announce"
      BY <1>9, <2>2 DEF MatchReady
    <3>2. c.got \in Nat
      BY <2>2, <3>1, CallTypes, OfferTypes DEF IdFits
    <3>. QED
      BY <2>2, <3>1, <3>2 DEF Tells
  <2>. QED
    BY <1>9, <2>1, <2>2 DEF MatchReady
<1>10. CASE \/ MatchEnded(c) \/ AddChatMessage(c) \/ ChatSaved(c)
            \/ ActiveIndex(c) \/ GetActiveSessionForUser(c) \/ ActiveAnswered(c)
  BY <1>10 DEF MatchEnded, AddChatMessage, ChatSaved, ActiveIndex, GetActiveSessionForUser,
               ActiveAnswered, At, Hushes, Answered
<1>11. CASE RematchRequested(c) \/ RematchDeclined(c)
  <2>1. /\ c.op \in {"requestRematch", "declineRematch"} /\ UNCHANGED page
        /\ \E us : \E kind \in {"rematchRequested", "rematchReady", "rematchDeclined"} :
             Emit(us, kind, offers[c.id].match)
    BY <1>11 DEF RematchRequested, RematchDeclined, At
  <2>2. offers[c.id].match \in Nat
    BY <2>1, IdsKnown, OfferTypes
  <2>. QED
    BY <2>1, <2>2 DEF Tells
<1>12. CASE \/ AcceptRematch(c) \/ DeclineRematch(c) \/ RematchDeletes(c) \/ FindRematch(c)
            \/ FollowRematch(c) \/ GetPendingRematchForUser(c)
  <2>1. /\ c.op \in {"acceptRematch", "declineRematch", "lookRematch"} /\ UNCHANGED client
    BY <1>12 DEF AcceptRematch, DeclineRematch, RematchDeletes, FindRematch,
                 FollowRematch, GetPendingRematchForUser, At, client
  <2>. QED
    BY <2>1 DEF Hushes, Answered
<1>. QED
  BY <1>2, <1>3, <1>4, <1>5, <1>6, <1>7, <1>8, <1>9, <1>10, <1>11, <1>12
     DEF Acts, Invites, MatchSteps, Rematches

\* Events are only added, each after those on their way.
Extends == \A q \in DOMAIN events : q \in DOMAIN events' /\ events'[q] = events[q]
Added == DOMAIN events' \ DOMAIN events

LEMMA EmitIs ==
    ASSUME ClientTypes, NEW us, NEW kind \in EventKinds, NEW id \in Nat, Emit(us, kind, id)
    PROVE  /\ events' \in Seq(Event) /\ Extends /\ (overtaken => overtaken')
           /\ \A q \in Added : events'[q].kind = kind /\ events'[q].id = id
                               /\ Me \in us /\ page.joined
           /\ Me \in us /\ page.joined => \E q \in Added : events'[q].kind = kind /\ events'[q].id = id
           /\ ~page.joined => events' = events
           /\ Me \in us /\ page.on /\ ~page.joined => overtaken'
<1>. DEFINE e == [kind |-> kind, id |-> id]
            n == Len(events)
<1>1. e \in Event /\ e.kind = kind /\ e.id = id
  BY DEF Event
<1>. HIDE DEF e
<1>2. events \in Seq(Event) /\ n \in Nat /\ DOMAIN events = 1 .. n
  BY LenProperties DEF ClientTypes
<1>3. /\ events' = IF Me \in us /\ page.joined THEN Append(events, e) ELSE events
      /\ overtaken' = (overtaken \/ (Me \in us /\ page.on /\ ~page.joined))
  BY DEF Emit, e
<1>4. CASE Me \in us /\ page.joined
  <2>1. /\ events' \in Seq(Event) /\ DOMAIN events' = 1 .. n + 1 /\ events'[n + 1] = e
        /\ \A q \in 1 .. n : events'[q] = events[q]
    BY <1>1, <1>2, <1>3, <1>4, AppendProperties, LenProperties
  <2>2. Extends
    BY <1>2, <2>1 DEF Extends
  <2>3. Added = {n + 1}
    BY <1>2, <2>1 DEF Added
  <2>. QED
    BY <1>1, <1>3, <1>4, <2>1, <2>2, <2>3
<1>5. CASE ~(Me \in us /\ page.joined)
  <2>1. events' = events
    BY <1>3, <1>5
  <2>2. Extends /\ Added = {}
    BY <2>1 DEF Extends, Added
  <2>. QED
    BY <1>2, <1>3, <1>5, <2>1, <2>2
<1>. QED
  BY <1>4, <1>5

SentAs(side) == IF side = "pending" THEN "invited" ELSE "sent"
\* An event that leaves the invite i where it is shown.
Spares(e, side, i) ==
    /\ e.kind # "ready" /\ (e.kind = "expired" => e.id # i)
    /\ e.kind = (IF side = "pending" THEN "cancelled" ELSE "declined") => e.id # i

\* What an event makes of the page.
LEMMA PageAfterIs ==
    ASSUME page \in Page, NEW e \in Event, NEW P, P = PageAfter(e)
    PROVE  /\ P \in Page /\ P.on = page.on /\ P.joined = page.joined
           /\ \A side \in Sides :
                 \/ P[side] = None \/ (P[side] = e.id /\ e.kind = SentAs(side))
                 \/ P[side] = page[side] /\ Spares(e, side, P[side])
<1>. DEFINE Right == /\ P \in Page /\ P.on = page.on /\ P.joined = page.joined
                     /\ \/ P.pending = None \/ (P.pending = e.id /\ e.kind = "invited")
                        \/ /\ P.pending = page.pending /\ e.kind # "ready"
                           /\ e.kind \in {"expired", "cancelled"} => e.id # P.pending
                     /\ \/ P.outgoing = None \/ (P.outgoing = e.id /\ e.kind = "sent")
                        \/ /\ P.outgoing = page.outgoing /\ e.kind # "ready"
                           /\ e.kind \in {"expired", "declined"} => e.id # P.outgoing
<1>. SUFFICES Right
  BY DEF Sides, Spares, SentAs
<1>0. e.id \in Nat /\ e.kind \in EventKinds
  BY DEF Event
<1>a. \A side \in {"pending", "outgoing", "rematch"} :
         /\ page[side] \in Nat \cup {None}
         /\ Clear(side, e.id) \in {None, page[side]} /\ Clear(side, e.id) # e.id
  BY <1>0, LobbyAssumption DEF Page, Clear
<1>1. CASE e.kind = "invited"
  <2>1. P = [page EXCEPT !.pending = e.id]
    BY <1>1 DEF PageAfter
  <2>. QED
    BY <1>0, <1>1, <2>1 DEF Page
<1>2. CASE e.kind = "sent"
  <2>1. P = [page EXCEPT !.outgoing = e.id]
    BY <1>2 DEF PageAfter
  <2>. QED
    BY <1>0, <1>2, <2>1 DEF Page
<1>3. CASE e.kind = "ready"
  <2>1. P = [page EXCEPT !.pending = None, !.outgoing = None, !.ready = e.id]
    BY <1>3 DEF PageAfter
  <2>. QED
    BY <1>0, <1>3, <2>1 DEF Page
<1>4. CASE e.kind = "declined"
  <2>1. P = [page EXCEPT !.outgoing = Clear("outgoing", e.id)]
    BY <1>4 DEF PageAfter
  <2>. QED
    BY <1>0, <1>a, <1>4, <2>1 DEF Page
<1>5. CASE e.kind = "cancelled"
  <2>1. P = [page EXCEPT !.pending = Clear("pending", e.id)]
    BY <1>5 DEF PageAfter
  <2>. QED
    BY <1>0, <1>a, <1>5, <2>1 DEF Page
<1>6. CASE e.kind = "expired"
  <2>1. P = [page EXCEPT !.pending = Clear("pending", e.id), !.outgoing = Clear("outgoing", e.id)]
    BY <1>6 DEF PageAfter
  <2>. QED
    BY <1>0, <1>a, <1>6, <2>1 DEF Page
<1>7. CASE e.kind = "rematchRequested"
  <2>1. P = [page EXCEPT !.rematch = e.id]
    BY <1>7 DEF PageAfter
  <2>. QED
    BY <1>0, <1>7, <2>1 DEF Page
<1>8. CASE e.kind = "rematchReady"
  <2>1. P = [page EXCEPT !.rematch = None, !.ready = e.id]
    BY <1>8 DEF PageAfter
  <2>. QED
    BY <1>0, <1>8, <2>1 DEF Page
<1>9. CASE e.kind = "rematchDeclined"
  <2>1. P = [page EXCEPT !.rematch = Clear("rematch", e.id)]
    BY <1>9 DEF PageAfter
  <2>. QED
    BY <1>0, <1>a, <1>9, <2>1 DEF Page
<1>. QED
  BY <1>0, <1>1, <1>2, <1>3, <1>4, <1>5, <1>6, <1>7, <1>8, <1>9 DEF EventKinds

\* What Tells emits is an event.
LEMMA TellsIs ==
    ASSUME TypeOK, NEW c \in calls, Tells(c)
    PROVE  /\ page' = page
           /\ \E us, id : \E kind \in EventKinds : id \in Nat /\ Emit(us, kind, id)
<1>1. CASE \/ c.op = "create" /\ c.at = "told"
              /\ Emit(Parties(c.id), IF Me = To(c.id) THEN "invited" ELSE "sent", c.id)
           \/ c.op = "accept" /\ c.at = "expired accept" /\ Emit(Parties(c.id), "expired", c.id)
           \/ /\ c.op = "decline" /\ c.at = "told" /\ Reply(c, "done")
              /\ Emit({Other(c)}, IF c.by = From(c.id) THEN "cancelled" ELSE "declined", c.id)
  <2>1. c.id \in Nat
    BY CallTypes
  <2>2. \E us : \E kind \in EventKinds : Emit(us, kind, c.id)
    <3>1. /\ (IF Me = To(c.id) THEN "invited" ELSE "sent") \in EventKinds
          /\ (IF c.by = From(c.id) THEN "cancelled" ELSE "declined") \in EventKinds
          /\ "expired" \in EventKinds
      BY DEF EventKinds
    <3>. QED
      BY <1>1, <3>1
  <2>. QED
    BY <2>1, <2>2 DEF Tells
<1>2. CASE c.op \in {"create", "look"} /\ c.at \in {"expired pending", "expired outgoing"}
           /\ Emit(Parties(c.got), "expired", c.got)
  <2>1. \E side \in {"pending", "outgoing"} : c.at \in {Follow[side], Overdue[side], Gone[side]}
    BY <1>2, StageNames
  <2>2. c.got \in FriendOffers
    BY <1>2, <2>1, CallTypes DEF IdFits
  <2>3. c.got \in Nat /\ "expired" \in EventKinds
    BY <2>2, OfferTypes, MaxIdIsFour DEF EventKinds
  <2>. QED
    BY <1>2, <2>3 DEF Tells
<1>3. CASE c.op = "accept" /\ c.at = "announce" /\ Emit(matches[c.got].players, "ready", c.got)
  <2>1. c.got \in Nat /\ "ready" \in EventKinds
    BY <1>3, CallTypes, OfferTypes DEF IdFits, EventKinds
  <2>. QED
    BY <1>3, <2>1 DEF Tells
<1>4. CASE \E us, id : \E kind \in {"rematchRequested", "rematchReady", "rematchDeclined"} :
             id \in Nat /\ Emit(us, kind, id)
  BY <1>4 DEF Tells, EventKinds
<1>. QED
  BY <1>1, <1>2, <1>3, <1>4 DEF Tells

------------------------------------------------------------------------------
(* What is shown, what a GET brings to the page and what an event will show is *)
(* an invite of Me that is not gone, unless something will take it away again. *)

Holds(c, side, i) ==
    /\ LooksMine(c) /\ i \notin {0, None}
    /\ \/ side = "pending" /\ (i = c.id \/ (c.at = "second" /\ i = c.got))
       \/ side = "outgoing" /\ c.at = "answered" /\ i = c.got

Shown == \A side \in Sides : page[side] # None => Mine(side, page[side]) /\ Promised(page[side], 0)
Held == \A c \in calls : \A side \in Sides : \A i :
            Holds(c, side, i) => Mine(side, i) /\ Promised(i, 0)
Sent == \A q \in DOMAIN events : \A side \in Sides : \A i :
            events[q].kind = SentAs(side) /\ events[q].id = i => Mine(side, i) /\ Promised(i, q)
Truthful == Shown /\ Held /\ Sent
Honest == ClientTypes /\ Awake /\ (~overtaken => Truthful)

\* What a step does to promises.
Told(i) == \E q \in Added : Clears(events'[q], i)
Keeps(i) ==
    /\ Dead(i)' => Dead(i) \/ Coming(i)'
    /\ Coming(i) => Coming(i)' \/ Told(i)
Keeping == \A i \in FriendOffers : Me \in Parties(i) => Keeps(i)
Appears(side, i) == Mine(side, i) /\ ~Dead(i)'
Fetched(side, i) == \E c \in calls : Holds(c, side, i)
HoldsOn == \A d \in calls' : \A side \in Sides : \A i :
               Holds(d, side, i) => Fetched(side, i) \/ Appears(side, i)
Announces == \A q \in Added : \A side \in Sides : \A i :
                 events'[q].kind = SentAs(side) /\ events'[q].id = i => Appears(side, i)
ShowsOn == \A side \in Sides : \A i : page'[side] = i =>
               i \in {page[side], None} \/ Fetched(side, i) \/ Appears(side, i)

LEMMA MineIs ==
    ASSUME TypeOK, NEW side \in Sides, NEW i, Mine(side, i)
    PROVE  i \in FriendOffers /\ i \in Nat /\ Me \in Parties(i) /\ i \notin {0, None}
<1>1. i \in FriendOffers /\ Me \in Parties(i)
  BY DEF Mine, PointedUser, Parties, Sides
<1>2. i \in 1 .. 4
  BY <1>1, OfferTypes, MaxIdIsFour
<1>. QED
  BY <1>1, <1>2, LobbyAssumption

LEMMA MineStays ==
    ASSUME Grown, NEW side, NEW i, Mine(side, i)
    PROVE  Mine(side, i)'
BY GrownKeeps DEF Mine, PointedUser

LEMMA PromiseKept ==
    ASSUME ClientTypes, events' \in Seq(Event), Grown, Extends, NEW i \in FriendOffers, NEW p \in 0 .. Len(events),
           Keeps(i), Promised(i, p)
    PROVE  Promised(i, p)'
<1>0. ASSUME NEW q, Clears(events'[q], i) PROVE Clears(events[q], i)'
  BY <1>0, GrownKeeps DEF Clears
<1>. SUFFICES ASSUME Dead(i)', ~Coming(i)'
              PROVE  \E q \in DOMAIN events' : q > p /\ Clears(events[q], i)'
  BY DEF Promised, Comes
<1>1. Comes(i, p)
  BY DEF Keeps, Promised
<1>2. CASE Coming(i)
  <2>1. PICK q \in Added : Clears(events'[q], i)
    BY <1>2 DEF Keeps, Told
  <2>2. q \in DOMAIN events' /\ q \notin DOMAIN events
    BY <2>1 DEF Added
  <2>3. /\ DOMAIN events = 1 .. Len(events) /\ Len(events) \in Nat
        /\ DOMAIN events' = 1 .. Len(events') /\ Len(events') \in Nat
    BY LenProperties DEF ClientTypes
  <2>4. q > p
    BY <2>2, <2>3
  <2>. QED
    BY <1>0, <2>1, <2>2, <2>4
<1>3. CASE \E q \in DOMAIN events : q > p /\ Clears(events[q], i)
  <2>1. PICK q \in DOMAIN events : q > p /\ Clears(events[q], i)
    BY <1>3
  <2>2. q \in DOMAIN events' /\ events'[q] = events[q]
    BY DEF Extends
  <2>. QED
    BY <1>0, <2>1, <2>2
<1>. QED
  BY <1>1, <1>2, <1>3 DEF Comes

LEMMA HonestKept ==
    ASSUME TypeOK, Honest, Grown, Extends, events' \in Seq(Event), page' \in Page,
           page'.on = page.on, page'.joined => page'.on, overtaken => overtaken',
           ~page.on => /\ events' = events /\ \A side \in Sides : page'[side] = None
                       /\ \A d \in calls' : ~LooksMine(d),
           page.on /\ ~overtaken' => Keeping /\ HoldsOn /\ Announces /\ ShowsOn
    PROVE  Honest'
<1>1. ClientTypes'
  BY DEF ClientTypes
<1>2. Awake'
  BY DEF Honest, Awake, Asleep, Sides
<1>3. ASSUME ~page.on PROVE Truthful'
  <2>1. /\ events' = <<>> /\ \A side \in Sides : page'[side] = None
        /\ \A d \in calls' : ~LooksMine(d)
    BY <1>3 DEF Honest, Awake, Asleep
  <2>. QED
    BY <2>1 DEF Truthful, Shown, Held, Sent, Holds
<1>4. ASSUME page.on, ~overtaken' PROVE Truthful'
  <2>0. Keeping /\ HoldsOn /\ Announces /\ ShowsOn /\ Truthful /\ ClientTypes
    BY <1>4 DEF Honest
  <2>n. Len(events) \in Nat /\ DOMAIN events = 1 .. Len(events)
    BY <2>0, LenProperties DEF ClientTypes
  <2>1. ASSUME NEW side, NEW i, NEW p, Appears(side, i) PROVE Mine(side, i)' /\ Promised(i, p)'
    BY <2>1, MineStays DEF Appears, Promised
  <2>2. ASSUME NEW side \in Sides, NEW i, NEW p \in 0 .. Len(events), Mine(side, i), Promised(i, p)
        PROVE  Mine(side, i)' /\ Promised(i, p)'
    BY <2>0, <2>2, MineIs, MineStays, PromiseKept DEF Keeping
  <2>3. 0 \in 0 .. Len(events) /\ \A q \in DOMAIN events : q \in 0 .. Len(events)
    BY <2>n
  <2>4. ASSUME NEW side \in Sides, NEW i, Fetched(side, i) PROVE Mine(side, i)' /\ Promised(i, 0)'
    BY <2>0, <2>2, <2>3, <2>4 DEF Truthful, Held, Fetched
  <2>5. Held'
    BY <2>0, <2>1, <2>4 DEF HoldsOn, Held
  <2>6. Shown'
    <3>. SUFFICES ASSUME NEW side \in Sides, NEW i, i = page'[side], i # None
                  PROVE  Mine(side, i)' /\ Promised(i, 0)'
      BY DEF Shown
    <3>1. CASE i = page[side]
      BY <2>0, <2>2, <2>3, <3>1 DEF Truthful, Shown
    <3>. QED
      BY <2>0, <2>1, <2>4, <3>1 DEF ShowsOn
  <2>7. Sent'
    <3>. SUFFICES ASSUME NEW q \in DOMAIN events', NEW side \in Sides, NEW i,
                         events'[q].kind = SentAs(side), events'[q].id = i
                  PROVE  Mine(side, i)' /\ Promised(i, q)'
      BY DEF Sent
    <3>1. CASE q \in DOMAIN events
      BY <2>0, <2>2, <2>3, <3>1 DEF Truthful, Sent, Extends
    <3>2. CASE q \in Added
      BY <2>0, <2>1, <3>2 DEF Announces
    <3>. QED
      BY <3>1, <3>2 DEF Added
  <2>. QED
    BY <2>5, <2>6, <2>7 DEF Truthful
<1>. QED
  BY <1>1, <1>2, <1>3, <1>4 DEF Honest

------------------------------------------------------------------------------
(* What is shown: the steps *)

\* Steps that send the page nothing.
LEMMA HonestQuiet ==
    ASSUME TypeOK, Honest, Grown, events' = events, overtaken => overtaken', page' \in Page,
           page'.on = page.on, page'.joined => page'.on,
           \A side \in Sides : page'[side] \in {page[side], None},
           page.on /\ ~overtaken' => Keeping, HoldsOn,
           \A d \in calls' : LooksMine(d) => \E c \in calls : LooksMine(c)
    PROVE  Honest'
<1>1. Extends /\ Added = {} /\ events' \in Seq(Event)
  BY DEF Extends, Added, Honest, ClientTypes
<1>2. Announces /\ ShowsOn
  BY <1>1 DEF Announces, ShowsOn
<1>3. ~page.on => /\ events' = events /\ \A side \in Sides : page'[side] = None
                  /\ \A d \in calls' : ~LooksMine(d)
  BY DEF Honest, Awake, Asleep, Sides
<1>. QED
  BY <1>1, <1>2, <1>3, HonestKept

\* Calls that stay hold what they held.
LEMMA SameHolds ==
    ASSUME \A d \in calls' : LooksMine(d) =>
               \E c \in calls : /\ d.op = c.op /\ d.by = c.by /\ d.id = c.id /\ d.at = c.at
                                /\ d.got = c.got
    PROVE  HoldsOn /\ \A d \in calls' : LooksMine(d) => \E c \in calls : LooksMine(c)
<1>1. ASSUME NEW d \in calls', LooksMine(d)
      PROVE  \E c \in calls : LooksMine(c) /\ \A side, i : Holds(d, side, i) => Holds(c, side, i)
  <2>1. PICK c \in calls : /\ d.op = c.op /\ d.by = c.by /\ d.id = c.id /\ d.at = c.at /\ d.got = c.got
    BY <1>1
  <2>. QED
    BY <1>1, <2>1 DEF LooksMine, Holds
<1>2. HoldsOn
  <2>. SUFFICES ASSUME NEW d \in calls', NEW side \in Sides, NEW i, Holds(d, side, i)
                PROVE  Fetched(side, i)
    BY DEF HoldsOn
  <2>1. LooksMine(d)
    BY DEF Holds
  <2>. QED
    BY <1>1, <2>1 DEF Fetched
<1>. QED
  BY <1>1, <1>2

\* An invite that dies is announced by the call that deletes it.
LEMMA HonestWrites ==
    ASSUME TypeOK, Honest, Backed, NEW c \in calls, Command(c)
    PROVE  Honest'
<1>1. PICK d : Writes1(c, d)
  BY CommandTable
<1>2. /\ d.op = c.op /\ d.by = c.by /\ d.at = c.at /\ d.id = c.id /\ d.got = c.got
      /\ calls' = (calls \ {c}) \cup {d} /\ UNCHANGED <<made, expired>>
  BY <1>1 DEF Writes1, Is
<1>3. UNCHANGED <<page, events, overtaken>>
  BY DEF Command, client
<1>4. Grown
  BY <1>2, SameMade
<1>5. Keeping
  <2>. SUFFICES ASSUME NEW i \in FriendOffers PROVE Keeps(i)
    BY DEF Keeping
  <2>1. i \in 1 .. MaxId
    BY OfferTypes
  <2>2. Dead(i)' => Dead(i) \/ Coming(i)'
    <3>1. Dead(i)' /\ ~Dead(i) => Answered(d) /\ d.id = i
      BY <1>1, <2>1, WriteKills DEF Backed
    <3>. QED
      BY <1>2, <3>1 DEF Coming
  <2>3. Coming(i) => Coming(i)'
    <3>1. Answered(c) => Answered(d)
      BY <1>2 DEF Answered
    <3>. QED
      BY <1>2, <3>1 DEF Coming
  <2>. QED
    BY <2>2, <2>3 DEF Keeps
<1>6. \A e \in calls' : \E a \in calls : /\ e.op = a.op /\ e.by = a.by /\ e.id = a.id /\ e.at = a.at
                                        /\ e.got = a.got
  BY <1>2
<1>7. HoldsOn /\ \A e \in calls' : LooksMine(e) => \E a \in calls : LooksMine(a)
  BY <1>6, SameHolds
<1>8. page \in Page /\ (page.joined => page.on)
  BY DEF Honest, ClientTypes, Awake
<1>. QED
  BY <1>3, <1>4, <1>5, <1>7, <1>8, HonestQuiet

\* Steps of neither calls nor the page: invites do not die of them.
LEMMA HonestAside ==
    ASSUME TypeOK, Honest, Grown, events' = events, overtaken => overtaken', page' \in Page,
           page'.on = page.on, page'.joined => page'.on,
           \A side \in Sides : page'[side] \in {page[side], None},
           \A i \in FriendOffers : ~Dead(i) => ~Dead(i)',
           calls \subseteq calls', \A d \in calls' : d \in calls \/ d.op # "look"
    PROVE  Honest'
<1>1. Keeping
  BY DEF Keeping, Keeps, Coming
<1>2. \A d \in calls' : LooksMine(d) => d \in calls
  BY DEF LooksMine
<1>3. HoldsOn /\ \A d \in calls' : LooksMine(d) => \E c \in calls : LooksMine(c)
  BY <1>2, SameHolds
<1>. QED
  BY <1>1, <1>3, HonestQuiet

Begins ==
    /\ UNCHANGED <<redis, expired, events>> /\ (overtaken => overtaken')
    /\ \E c : calls' = calls \cup {c} /\ c.op # "look"

LEMMA BeginTable ==
    ASSUME \/ AskForMatch \/ RequestRematch \/ MatchEnds \/ SpeakUp \/ AskForActive
           \/ \E op \in {"accept", "decline"} : Answer(op)
           \/ \E op \in {"acceptRematch", "declineRematch"} : AnswerRematch(op)
    PROVE  /\ Begins
           /\ \/ page' = page
              \/ \E m : page' = [page EXCEPT !.rematch = Clear("rematch", m)]
<1>0. \A op, u, id, s : /\ Call(op, u, id).op = op /\ [Call(op, u, id) EXCEPT !.todo = s].op = op
                        /\ [Call(op, u, id) EXCEPT !.at = s].op = op
  BY DEF Call
<1>1. ASSUME NEW c, Begin({c}), c.op # "look" PROVE \E e : calls' = calls \cup {e} /\ e.op # "look"
  BY <1>1 DEF Begin
<1>2. CASE AskForMatch
  <2>1. /\ \E u, v \in Users : Begin({Call("create", u, Len(offers) + 1)})
        /\ UNCHANGED <<redis, expired, client>>
    BY <1>2 DEF AskForMatch
  <2>. QED
    BY <1>0, <1>1, <2>1 DEF Begins, client
<1>3. CASE RequestRematch
  <2>1. /\ \E u, r, s : Begin({[Call("requestRematch", u, r) EXCEPT !.todo = s]})
        /\ UNCHANGED <<redis, expired, client>>
    BY <1>3 DEF RequestRematch
  <2>2. PICK u, r, s : Begin({[Call("requestRematch", u, r) EXCEPT !.todo = s]})
    BY <2>1
  <2>3. [Call("requestRematch", u, r) EXCEPT !.todo = s].op # "look"
    BY <1>0
  <2>. QED
    BY <1>1, <2>1, <2>2, <2>3 DEF Begins, client
<1>4. CASE MatchEnds
  <2>1. /\ \E u, r, s : Begin({[Call("end", u, r) EXCEPT !.todo = s]})
        /\ UNCHANGED <<redis, expired, client>>
    BY <1>4 DEF MatchEnds, server
  <2>2. PICK u, r, s : Begin({[Call("end", u, r) EXCEPT !.todo = s]})
    BY <2>1
  <2>3. [Call("end", u, r) EXCEPT !.todo = s].op # "look"
    BY <1>0
  <2>. QED
    BY <1>1, <2>1, <2>2, <2>3 DEF Begins, client
<1>5. CASE AskForActive
  BY <1>0, <1>1, <1>5 DEF AskForActive, Begins, client, server
<1>6. ASSUME NEW op \in {"accept", "decline"}, Answer(op)
      PROVE  Begins /\ page' = page
  <2>1. /\ \E u, i : Begin({Call(op, u, i)})
        /\ UNCHANGED <<redis, expired, page, events>> /\ (overtaken => overtaken')
    BY <1>6 DEF Answer
  <2>. QED
    BY <1>0, <1>1, <2>1 DEF Begins
<1>8. CASE SpeakUp
  <2>1. /\ \E u, r, s : Begin({[Call("chat", u, r) EXCEPT !.at = s]})
        /\ UNCHANGED <<redis, expired, client>>
    BY <1>8 DEF SpeakUp
  <2>2. PICK u, r, s : Begin({[Call("chat", u, r) EXCEPT !.at = s]})
    BY <2>1
  <2>3. [Call("chat", u, r) EXCEPT !.at = s].op # "look"
    BY <1>0
  <2>. QED
    BY <1>1, <2>1, <2>2, <2>3 DEF Begins, client
<1>7. ASSUME NEW op \in {"acceptRematch", "declineRematch"}, AnswerRematch(op)
      PROVE  Begins /\ (page' = page \/ \E m : page' = [page EXCEPT !.rematch = Clear("rematch", m)])
  <2>1. /\ \E u, i : Begin({Call(op, u, i)})
        /\ UNCHANGED <<redis, expired, events, overtaken>>
        /\ page' = page \/ \E m : page' = [page EXCEPT !.rematch = Clear("rematch", m)]
    BY <1>7 DEF AnswerRematch, server
  <2>. QED
    BY <1>0, <1>1, <2>1 DEF Begins
<1>. QED
  BY <1>2, <1>3, <1>4, <1>5, <1>6, <1>7, <1>8 DEF Begins, client

LEMMA HonestBegins ==
    ASSUME TypeOK, Honest, Grown, Begins,
           page' = page \/ \E m : page' = [page EXCEPT !.rematch = Clear("rematch", m)]
    PROVE  Honest'
<1>0. page \in Page /\ (page.joined => page.on)
  BY DEF Honest, ClientTypes, Awake
<1>1. /\ page' \in Page /\ page'.on = page.on /\ page'.joined = page.joined
      /\ \A side \in Sides : page'[side] = page[side]
  <2>1. CASE page' = page
    BY <1>0, <2>1
  <2>2. ASSUME NEW m, page' = [page EXCEPT !.rematch = Clear("rematch", m)]
        PROVE  /\ page' \in Page /\ page'.on = page.on /\ page'.joined = page.joined
               /\ page'.pending = page.pending /\ page'.outgoing = page.outgoing
    <3>1. Clear("rematch", m) \in Nat \cup {None}
      BY <1>0 DEF Page, Clear
    <3>. QED
      BY <1>0, <2>2, <3>1 DEF Page
  <2>. QED
    BY <2>1, <2>2 DEF Sides
<1>2. \A i \in FriendOffers : ~Dead(i) => ~Dead(i)'
  BY DEF Begins, Dead
<1>3. calls \subseteq calls' /\ \A d \in calls' : d \in calls \/ d.op # "look"
  BY DEF Begins
<1>4. events' = events /\ (overtaken => overtaken')
  BY DEF Begins
<1>. QED
  BY <1>0, <1>1, <1>2, <1>3, <1>4, HonestAside

LEMMA HonestTime ==
    ASSUME TypeOK, Honest, Grown, Expire \/ TimeToLive
    PROVE  Honest'
<1>0. page \in Page /\ (page.joined => page.on)
  BY DEF Honest, ClientTypes, Awake
<1>1. UNCHANGED <<page, events, overtaken, calls>>
  BY DEF Expire, TimeToLive, client
<1>2. \A i \in FriendOffers : ~Dead(i) => ~Dead(i)'
  <2>. SUFFICES ASSUME NEW j \in FriendOffers, ~Dead(j), Dead(j)' PROVE FALSE
    OBVIOUS
  <2>1. CASE Expire
    BY <2>1 DEF Expire, Dead
  <2>2. CASE TimeToLive
    <3>0. \E i \in expired : \E k : /\ redis' = [redis EXCEPT ![k] = None]
                                    /\ (k[1] # "invite" \/ k = <<"invite", i>>)
      BY <2>2 DEF TimeToLive
    <3>1. PICK i \in expired : \E k : /\ redis' = [redis EXCEPT ![k] = None]
                                     /\ (k[1] # "invite" \/ k = <<"invite", i>>)
      BY <3>0
    <3>k. PICK k : redis' = [redis EXCEPT ![k] = None] /\ (k[1] # "invite" \/ k = <<"invite", i>>)
      BY <3>1
    <3>2. expired' = expired
      BY <2>2 DEF TimeToLive
    <3>3. <<"invite", j>> \in Keys /\ DOMAIN redis = Keys
      BY OfferTypes, KeyTypes DEF TypeOK, StoreOK
    <3>4. k = <<"invite", j>>
      BY <3>k, <3>2, <3>3 DEF Dead
    <3>5. i = j
      BY <3>k, <3>4
    <3>. QED
      BY <3>2, <3>5 DEF Dead
  <2>. QED
    BY <2>1, <2>2
<1>3. \A side \in Sides : page'[side] \in {page[side], None}
  BY <1>1
<1>. QED
  BY <1>0, <1>1, <1>2, <1>3, HonestAside

LEMMA NotYetFound ==
    ASSUME NEW side \in Sides, NEW at, at \in {Follow[side], Overdue[side], Gone[side]}
    PROVE  at # "second" /\ at # "answered"
<1>1. /\ Follow[side] \in {"follow pending", "follow outgoing"}
      /\ Overdue[side] \in {"expire pending", "expire outgoing"}
      /\ Gone[side] \in {"expired pending", "expired outgoing"}
  BY StageNames DEF Sides
<1>. QED
  BY <1>1

\* What a GET goes on with it found just now, or had already.
LEMMA LooksHold ==
    ASSUME TypeOK, NEW c \in calls, Backs(c), NEW d, Looks(c, d), redis' = redis,
           d.op = c.op, d.by = c.by, NEW side \in Sides, NEW i, Holds(d, side, i)
    PROVE  Holds(c, side, i) \/ Appears(side, i)
<1>0. /\ LooksMine(c) /\ i \notin {0, None}
      /\ \/ side = "pending" /\ (i = d.id \/ (d.at = "second" /\ i = d.got))
         \/ side = "outgoing" /\ d.at = "answered" /\ i = d.got
  BY DEF Holds, LooksMine
<1>1. c.at \in {"begin", "pending", "outgoing"} => c.got = None
  BY <1>0 DEF Backs, LooksAfresh, LooksMine
<1>2. ASSUME NEW s \in Sides, c.at = Follow[s], There(c, s, Me) PROVE Appears(s, c.got)
  <2>1. c.got \in FriendOffers
    BY <1>0, <1>2, CallTypes DEF IdFits, Sides, LooksMine
  <2>. QED
    BY <1>2, <2>1 DEF There, Appears, Mine, Dead
<1>3. CASE Turns(c, d, "begin", "pending")
  BY <1>0, <1>3 DEF Turns, Holds
<1>4. CASE LooksUp(c, d, "pending", Me, "second", "second")
  <2>1. CASE d.id = c.id /\ d.got = None
    BY <1>0, <1>4, <2>1 DEF LooksUp, Turns, Holds
  <2>2. CASE d.id = c.id /\ d.at \in {Follow["pending"], Overdue["pending"], Gone["pending"]}
    <3>1. d.at # "second" /\ d.at # "answered"
      BY <2>2, NotYetFound DEF Sides
    <3>. QED
      BY <1>0, <2>2, <3>1 DEF Holds
  <2>3. CASE d.id = c.id /\ d.got = c.got /\ c.at = "pending"
    BY <1>0, <1>1, <2>3 DEF Holds
  <2>4. CASE d.id = c.id /\ d.got = c.got /\ c.at = Follow["pending"] /\ There(c, "pending", Me)
             /\ d.at = "second"
    BY <1>0, <1>2, <2>4 DEF Holds
  <2>. QED
    BY <1>4, <2>1, <2>2, <2>3, <2>4 DEF LooksUp, Turns
<1>5. CASE c.at = "second" /\ d.at = "outgoing" /\ d.got = None /\ d.id = (IF c.got = None THEN 0 ELSE c.got)
  BY <1>0, <1>5 DEF Holds
<1>6. CASE LooksUp(c, d, "outgoing", Me, "answered", "answered")
  <2>1. CASE d.id = c.id /\ d.got = None
    BY <1>0, <1>6, <2>1 DEF LooksUp, Turns, Holds
  <2>2. CASE d.id = c.id /\ d.at \in {Follow["outgoing"], Overdue["outgoing"], Gone["outgoing"]}
    <3>1. d.at # "second" /\ d.at # "answered"
      BY <2>2, NotYetFound DEF Sides
    <3>. QED
      BY <1>0, <2>2, <3>1 DEF Holds
  <2>3. CASE d.id = c.id /\ d.got = c.got /\ c.at = "outgoing" /\ d.at = "answered"
    BY <1>0, <1>1, <2>3 DEF Holds
  <2>4. CASE d.id = c.id /\ d.got = c.got /\ c.at = Follow["outgoing"] /\ There(c, "outgoing", Me)
             /\ d.at = "answered"
    BY <1>0, <1>2, <2>4 DEF Holds
  <2>. QED
    BY <1>6, <2>1, <2>2, <2>3, <2>4 DEF LooksUp, Turns
<1>. QED
  BY <1>3, <1>4, <1>5, <1>6 DEF Looks

\* What a call does besides what it tells the page.
LEMMA ActsGoOn ==
    ASSUME TypeOK, Backed, NEW c \in calls, Acts(c)
    PROVE  /\ Grown /\ UNCHANGED <<redis, expired>> /\ calls \ {c} \subseteq calls'
           /\ HoldsOn /\ \A d \in calls' : LooksMine(d) => \E e \in calls : LooksMine(e)
           /\ ~Answered(c) => Keeping
<1>1. Grown
  BY CallTable, StepGrows
<1>2. CASE EndOfCall(c)
  <2>1. UNCHANGED <<redis, expired>> /\ calls' = calls \ {c}
    BY <1>2 DEF EndOfCall, Leaves
  <2>2. HoldsOn /\ \A d \in calls' : LooksMine(d) => \E e \in calls : LooksMine(e)
    BY <2>1, SameHolds
  <2>3. ~Answered(c) => Keeping
    BY <2>1 DEF Keeping, Keeps, Coming, Dead
  <2>. QED
    BY <1>1, <2>1, <2>2, <2>3
<1>3. ASSUME NEW d, Turned(c, d)
      PROVE  /\ UNCHANGED <<redis, expired>> /\ calls \ {c} \subseteq calls'
             /\ HoldsOn /\ \A e \in calls' : LooksMine(e) => \E a \in calls : LooksMine(a)
             /\ ~Answered(c) => Keeping
  <2>1. /\ UNCHANGED <<redis, expired>> /\ calls' = (calls \ {c}) \cup {d}
        /\ d.op = c.op /\ d.by = c.by
    BY <1>3 DEF Turned, InviteStep, MakesMatch, RematchStep, IndexStep, ActiveStep, ChatStep, Goes
  <2>2. LooksMine(d) => LooksMine(c) /\ Looks(c, d)
    BY <1>3, <2>1 DEF Turned, InviteStep, MakesMatch, RematchStep, IndexStep, ActiveStep, ChatStep, LooksMine, Creates,
                      Accepts, Declines, AcceptsRematch, DeclinesRematch, LooksForRematch
  <2>3. HoldsOn
    <3>. SUFFICES ASSUME NEW e \in calls', NEW side \in Sides, NEW i, Holds(e, side, i)
                  PROVE  Fetched(side, i) \/ Appears(side, i)
      BY DEF HoldsOn
    <3>1. CASE e \in calls
      BY <3>1 DEF Fetched
    <3>2. CASE e = d
      <4>1. Looks(c, d) /\ Backs(c)
        BY <2>2, <3>2 DEF Holds, Backed
      <4>2. Holds(c, side, i) \/ Appears(side, i)
        BY <2>1, <3>2, <4>1, LooksHold
      <4>. QED
        BY <4>2 DEF Fetched
    <3>. QED
      BY <2>1, <3>1, <3>2
  <2>4. \A e \in calls' : LooksMine(e) => \E a \in calls : LooksMine(a)
    BY <2>1, <2>2
  <2>5. ~Answered(c) => Keeping
    BY <2>1 DEF Keeping, Keeps, Coming, Dead
  <2>. QED
    BY <2>1, <2>3, <2>4, <2>5
<1>. QED
  BY <1>1, <1>2, <1>3, CallTurns

\* What a call announces, and whether it announces what it deleted.
LEMMA TellsKeeps ==
    ASSUME TypeOK, ClientTypes, Backed, NEW c \in calls, Acts(c), Tells(c), page.on, ~overtaken'
    PROVE  Keeping
<1>0. UNCHANGED <<redis, expired>> /\ calls \ {c} \subseteq calls' /\ (~Answered(c) => Keeping)
  BY ActsGoOn
<1>. SUFFICES ASSUME Answered(c), Me \in Parties(c.id), ~Coming(c.id)' PROVE Told(c.id)
  BY <1>0 DEF Keeping, Keeps, Coming, Dead
<1>1. c.id \in FriendOffers /\ c.id \in Nat
  BY IdsKnown, CallTypes DEF Answered
<1>2. CASE c.op = "accept" /\ c.at = "announce" /\ Emit(matches[c.got].players, "ready", c.got)
  <2>1. matches[c.got].players = Parties(c.id)
    BY <1>2 DEF Backed, Backs, SeatsParties
  <2>2. c.got \in Nat /\ "ready" \in EventKinds
    BY <1>2, CallTypes, OfferTypes DEF IdFits, EventKinds
  <2>3. \E q \in Added : events'[q].kind = "ready"
    BY <1>2, <2>1, <2>2, EmitIs
  <2>. QED
    BY <2>3 DEF Told, Clears
<1>3. CASE /\ c.op = "decline" /\ c.at = "told" /\ Reply(c, "done")
           /\ Emit({Other(c)}, IF c.by = From(c.id) THEN "cancelled" ELSE "declined", c.id)
  <2>1. CASE c.by = Me
    <3>1. calls' = (calls \ {c}) \cup {[c EXCEPT !.at = "done"]} /\ c \in Job
      BY <1>3, <2>1, CallTypes DEF Reply, Goto, Become
    <3>2. [c EXCEPT !.at = "done"].op = "decline" /\ [c EXCEPT !.at = "done"].at = "done"
          /\ [c EXCEPT !.at = "done"].id = c.id
      BY <1>3, <3>1 DEF Job
    <3>. QED
      BY <3>1, <3>2 DEF Coming, Answered
  <2>2. CASE c.by # Me
    <3>1. c.by \in Parties(c.id)
      BY <1>3, CallTypes DEF IdFits
    <3>2. Other(c) = Me /\ (IF c.by = From(c.id) THEN To(c.id) = Me ELSE From(c.id) = Me)
      BY <2>2, <3>1 DEF Other, Parties
    <3>3. CASE c.by = From(c.id)
      <4>1. Emit({Me}, "cancelled", c.id) /\ "cancelled" \in EventKinds
        BY <1>3, <3>2, <3>3 DEF EventKinds
      <4>2. \E q \in Added : events'[q].kind = "cancelled" /\ events'[q].id = c.id
        BY <1>1, <4>1, EmitIs
      <4>. QED
        BY <3>2, <3>3, <4>2 DEF Told, Clears
    <3>4. CASE c.by # From(c.id)
      <4>1. Emit({Me}, "declined", c.id) /\ "declined" \in EventKinds
        BY <1>3, <3>2, <3>4 DEF EventKinds
      <4>2. \E q \in Added : events'[q].kind = "declined" /\ events'[q].id = c.id
        BY <1>1, <4>1, EmitIs
      <4>. QED
        BY <3>2, <3>4, <4>2 DEF Told, Clears
    <3>. QED
      BY <3>3, <3>4
  <2>. QED
    BY <2>1, <2>2
<1>4. CASE c.op = "accept" /\ c.at \in {"create", "announce"}
  BY <1>2, <1>4 DEF Tells
<1>5. CASE c.op = "decline"
  BY <1>3, <1>5 DEF Tells
<1>. QED
  BY <1>4, <1>5 DEF Answered

\* Only an invite that stands is announced as one.
LEMMA TellsTruly ==
    ASSUME TypeOK, ClientTypes, Backed, ~overtaken, NEW c \in calls, Acts(c), Tells(c)
    PROVE  Announces
<1>0. UNCHANGED <<redis, expired>>
  BY ActsGoOn
<1>1. ASSUME NEW us, NEW kind \in {"ready", "declined", "cancelled", "expired", "rematchRequested",
                                     "rematchReady", "rematchDeclined"},
             NEW id \in Nat, Emit(us, kind, id)
      PROVE  Announces
  <2>1. kind \in EventKinds /\ kind # "invited" /\ kind # "sent"
    BY DEF EventKinds
  <2>2. \A q \in Added : events'[q].kind = kind
    BY <1>1, <2>1, EmitIs
  <2>. QED
    BY <2>1, <2>2 DEF Announces, SentAs
<1>2. CASE c.op = "create" /\ c.at = "told"
           /\ Emit(Parties(c.id), IF Me = To(c.id) THEN "invited" ELSE "sent", c.id)
  <2>. SUFFICES ASSUME NEW q \in Added, NEW side \in Sides, events'[q].kind = SentAs(side)
                PROVE  events'[q].id = c.id /\ Appears(side, c.id)
    BY DEF Announces
  <2>1. c.id \in FriendOffers /\ c.id \in Nat
    BY <1>2, IdsKnown, CallTypes
  <2>2. PICK kind \in EventKinds : kind = IF Me = To(c.id) THEN "invited" ELSE "sent"
    BY DEF EventKinds
  <2>3. PICK us \in {Parties(c.id)}, id \in Nat : us = Parties(c.id) /\ id = c.id
    BY <2>1
  <2>4. Emit(us, kind, id)
    BY <1>2, <2>2, <2>3
  <2>5. \A r \in Added : events'[r].kind = kind /\ events'[r].id = id /\ Me \in us
    BY <2>4, EmitIs
  <2>6. events'[q].kind = kind /\ events'[q].id = c.id /\ Me \in Parties(c.id)
    BY <2>3, <2>5
  <2>7. Mine(side, c.id)
    BY <2>1, <2>2, <2>6 DEF Mine, PointedUser, SentAs, Sides, Parties
  <2>8. c.todo = <<>>
    BY <1>2, CallTurns DEF EndOfCall, Leaves, Turned, InviteStep, MakesMatch, RematchStep, IndexStep, ActiveStep, ChatStep, Goes
  <2>9. Len(c.todo) < 3
    BY <2>8
  <2>10. ~Dead(c.id)
    BY <1>2, <2>9 DEF Backed, Backs, CreatedStays
  <2>. QED
    BY <1>0, <2>6, <2>7, <2>10 DEF Appears, Dead
<1>3. CASE c.op \in {"create", "look"} /\ c.at \in {"expired pending", "expired outgoing"}
           /\ Emit(Parties(c.got), "expired", c.got)
  <2>1. \E side \in {"pending", "outgoing"} : c.at \in {Follow[side], Overdue[side], Gone[side]}
    BY <1>3, StageNames
  <2>2. c.got \in FriendOffers
    BY <1>3, <2>1, CallTypes DEF IdFits
  <2>3. c.got \in Nat
    BY <2>2, OfferTypes, MaxIdIsFour
  <2>. QED
    BY <1>1, <1>3, <2>3
<1>4. CASE \/ c.op = "accept" /\ c.at = "expired accept" /\ Emit(Parties(c.id), "expired", c.id)
           \/ /\ c.op = "decline" /\ c.at = "told" /\ Reply(c, "done")
              /\ Emit({Other(c)}, IF c.by = From(c.id) THEN "cancelled" ELSE "declined", c.id)
  <2>1. c.id \in Nat
    BY CallTypes
  <2>. QED
    BY <1>1, <1>4, <2>1
<1>5. CASE c.op = "accept" /\ c.at = "announce" /\ Emit(matches[c.got].players, "ready", c.got)
  <2>1. c.got \in Nat
    BY <1>5, CallTypes, OfferTypes DEF IdFits
  <2>. QED
    BY <1>1, <1>5, <2>1
<1>6. CASE \E us, id : \E kind \in {"rematchRequested", "rematchReady", "rematchDeclined"} :
             id \in Nat /\ Emit(us, kind, id)
  BY <1>1, <1>6
<1>. QED
  BY <1>2, <1>3, <1>4, <1>5, <1>6 DEF Tells

LEMMA HonestTells ==
    ASSUME TypeOK, Honest, Backed, NEW c \in calls, Acts(c), Tells(c)
    PROVE  Honest'
<1>0. ClientTypes /\ page \in Page /\ (page.joined => page.on)
  BY DEF Honest, ClientTypes, Awake
<1>1. Grown /\ HoldsOn /\ \A d \in calls' : LooksMine(d) => \E e \in calls : LooksMine(e)
  BY ActsGoOn
<1>2. page' = page /\ \E us, id : \E kind \in EventKinds : id \in Nat /\ Emit(us, kind, id)
  BY TellsIs
<1>3. Extends /\ events' \in Seq(Event) /\ (overtaken => overtaken') /\ (~page.joined => events' = events)
  BY <1>0, <1>2, EmitIs
<1>4. ~page.on => /\ events' = events /\ \A side \in Sides : page'[side] = None
                  /\ \A d \in calls' : ~LooksMine(d)
  BY <1>0, <1>1, <1>2, <1>3 DEF Honest, Awake, Asleep, Sides
<1>5. page.on /\ ~overtaken' => Keeping
  BY <1>0, TellsKeeps
<1>6. (~overtaken => Announces) /\ ShowsOn
  BY <1>0, <1>2, TellsTruly DEF ShowsOn
<1>. QED
  BY <1>0, <1>1, <1>2, <1>3, <1>4, <1>5, <1>6, HonestKept

LEMMA HonestHushes ==
    ASSUME TypeOK, Honest, Backed, NEW c \in calls, Acts(c), Hushes(c)
    PROVE  Honest'
<1>0. page \in Page /\ (page.joined => page.on) /\ UNCHANGED <<page, events, overtaken>>
  BY DEF Honest, ClientTypes, Awake, Hushes, client
<1>1. /\ Grown /\ HoldsOn /\ \A d \in calls' : LooksMine(d) => \E e \in calls : LooksMine(e)
      /\ ~Answered(c) => Keeping
  BY ActsGoOn
<1>2. ASSUME Answered(c) PROVE Keeping
  <2>1. c.op = "accept" /\ CreateSession(c)
    BY <1>2 DEF Hushes
  <2>2. PICK d : MakesMatch(c, d)
    BY <2>1, SessionTable
  <2>3. /\ d.op = "accept" /\ d.at = "announce" /\ d.id = c.id /\ calls' = (calls \ {c}) \cup {d}
        /\ UNCHANGED <<redis, expired>>
    BY <2>1, <2>2 DEF MakesMatch, Goes
  <2>4. Answered(d)
    BY <2>3 DEF Answered
  <2>. QED
    BY <2>3, <2>4 DEF Keeping, Keeps, Coming, Dead
<1>. QED
  BY <1>0, <1>1, <1>2, HonestQuiet

\* The answer of a GET brings what it held.
LEMMA HonestLoads ==
    ASSUME TypeOK, Honest, Backed, NEW c \in calls, Acts(c), InvitesLoaded(c)
    PROVE  Honest'
<1>0. ClientTypes /\ page \in Page /\ (page.joined => page.on)
  BY DEF Honest, ClientTypes, Awake
<1>1. /\ c.op = "look" /\ c.at = "answered" /\ UNCHANGED <<events, overtaken>>
      /\ page' = IF c.by = None THEN page
                 ELSE [page EXCEPT !.pending = IF c.id = 0 THEN None ELSE c.id, !.outgoing = c.got]
  BY DEF InvitesLoaded, At
<1>2. ~Answered(c)
  BY <1>1 DEF Answered
<1>3. /\ Grown /\ HoldsOn /\ Keeping
      /\ \A d \in calls' : LooksMine(d) => \E e \in calls : LooksMine(e)
  BY <1>2, ActsGoOn
<1>4. Extends /\ Added = {} /\ events' \in Seq(Event)
  BY <1>0, <1>1 DEF Extends, Added, ClientTypes
<1>5. CASE c.by = None
  BY <1>0, <1>1, <1>3, <1>5, HonestQuiet
<1>6. CASE c.by # None
  <2>1. c.by = Me /\ LooksMine(c) /\ page.on
    BY <1>1, <1>6 DEF Backed, Backs, LooksAfresh, LooksMine, Honest, Awake, Asleep
  <2>2. c.id \in Nat /\ c.got \in Nat \cup {None}
    BY CallTypes
  <2>3. /\ page' \in Page /\ page'.on = page.on /\ page'.joined = page.joined
        /\ page'.pending = (IF c.id = 0 THEN None ELSE c.id) /\ page'.outgoing = c.got
    BY <1>0, <1>1, <1>6, <2>2 DEF Page
  <2>4. ShowsOn
    <3>0. c.got # 0
      BY <1>1, CallTypes, OfferTypes, MaxIdIsFour, LobbyAssumption DEF IdFits
    <3>1. ASSUME NEW i, page'.pending = i, i # None PROVE Fetched("pending", i)
      BY <2>1, <2>3, <3>1 DEF Fetched, Holds
    <3>2. ASSUME NEW i, page'.outgoing = i, i # None PROVE Fetched("outgoing", i)
      BY <1>1, <2>1, <2>3, <3>0, <3>2 DEF Fetched, Holds
    <3>. QED
      BY <3>1, <3>2 DEF ShowsOn, Sides
  <2>5. Announces
    BY <1>4 DEF Announces
  <2>. QED
    BY <1>0, <1>1, <1>3, <1>4, <2>1, <2>3, <2>4, <2>5, HonestKept
<1>. QED
  BY <1>5, <1>6

LEMMA HonestRematch ==
    ASSUME TypeOK, Honest, Backed, NEW c \in calls, Acts(c), RematchLoaded(c)
    PROVE  Honest'
<1>0. page \in Page /\ (page.joined => page.on)
  BY DEF Honest, ClientTypes, Awake
<1>1. /\ c.op = "lookRematch" /\ UNCHANGED <<events, overtaken>>
      /\ page' = IF c.by = None THEN page ELSE [page EXCEPT !.rematch = c.got]
  BY DEF RematchLoaded, At
<1>2. ~Answered(c)
  BY <1>1 DEF Answered
<1>3. /\ Grown /\ HoldsOn /\ Keeping
      /\ \A d \in calls' : LooksMine(d) => \E e \in calls : LooksMine(e)
  BY <1>2, ActsGoOn
<1>4. c.got \in Nat \cup {None}
  BY CallTypes
<1>5. /\ page' \in Page /\ page'.on = page.on /\ page'.joined = page.joined
      /\ page'.pending = page.pending /\ page'.outgoing = page.outgoing
  BY <1>0, <1>1, <1>4 DEF Page
<1>6. \A side \in Sides : page'[side] \in {page[side], None}
  BY <1>5 DEF Sides
<1>. QED
  BY <1>0, <1>1, <1>3, <1>5, <1>6, HonestQuiet

\* friend-match:sent-local shows an invite that stands.
LEMMA HonestLocalSent ==
    ASSUME TypeOK, Honest, Backed, NEW c \in calls, Acts(c), HandleLocalSent(c)
    PROVE  Honest'
<1>0. ClientTypes /\ page \in Page /\ (page.joined => page.on)
  BY DEF Honest, ClientTypes, Awake
<1>1. /\ c.op = "create" /\ c.at = "created" /\ events' = events
      /\ page' = IF page.on THEN [page EXCEPT !.outgoing = c.id] ELSE page
      /\ overtaken' = (overtaken \/ OnTheWay # {c})
  BY DEF HandleLocalSent, At
<1>2. ~Answered(c)
  BY <1>1 DEF Answered
<1>3. /\ Grown /\ HoldsOn /\ Keeping /\ UNCHANGED <<redis, expired>>
      /\ \A d \in calls' : LooksMine(d) => \E e \in calls : LooksMine(e)
  BY <1>2, ActsGoOn
<1>4. Extends /\ Added = {} /\ events' \in Seq(Event)
  BY <1>0, <1>1 DEF Extends, Added, ClientTypes
<1>5. CASE ~page.on
  BY <1>0, <1>1, <1>3, <1>5, HonestQuiet
<1>6. CASE page.on
  <2>1. c.id \in Nat /\ c.id \in FriendOffers /\ (c.by = From(c.id))
    BY <1>1, CallTypes DEF IdFits
  <2>2. /\ page' \in Page /\ page'.on = page.on /\ page'.joined = page.joined
        /\ page'.pending = page.pending /\ page'.outgoing = c.id
    BY <1>0, <1>1, <1>6, <2>1 DEF Page
  <2>3. ASSUME ~overtaken' PROVE ShowsOn
    <3>1. c \in OnTheWay
      BY <1>1, <2>3
    <3>2. Mine("outgoing", c.id)
      BY <2>1, <3>1 DEF OnTheWay, Mine, PointedUser
    <3>3. ~Dead(c.id)
      BY <1>1, <2>3 DEF Backed, Backs, CreatedStays
    <3>4. Appears("outgoing", c.id)
      BY <1>3, <3>2, <3>3 DEF Appears, Dead
    <3>. QED
      BY <2>2, <3>4 DEF ShowsOn, Sides
  <2>4. Announces
    BY <1>4 DEF Announces
  <2>. QED
    BY <1>0, <1>1, <1>3, <1>4, <1>6, <2>2, <2>3, <2>4, HonestKept
<1>. QED
  BY <1>5, <1>6

\* The answer to the answer of Me: nothing else is on its way.
LEMMA HonestAnswered ==
    ASSUME TypeOK, Honest, Backed, NEW c \in calls, Acts(c), InviteAnswered(c)
    PROVE  Honest'
<1>0. ClientTypes /\ page \in Page /\ (page.joined => page.on)
  BY DEF Honest, ClientTypes, Awake
<1>1. Grown /\ UNCHANGED <<redis, expired>>
  BY ActsGoOn
<1>2. /\ calls' = calls \ {c} /\ events' = events
      /\ overtaken' = (overtaken \/ OnTheWay # {} \/ events # <<>>)
  BY DEF InviteAnswered, Finish
<1>3. CASE c.op = "accept" /\ c.at = "ready"
  <2>1. page' = [page EXCEPT !.pending = None, !.outgoing = None, !.ready = c.got]
    BY <1>3 DEF InviteAnswered
  <2>2. c.got \in Nat \cup {None}
    BY CallTypes
  <2>3. /\ page' \in Page /\ page'.on = page.on /\ page'.joined = page.joined
        /\ page'.pending = None /\ page'.outgoing = None
    BY <1>0, <2>1, <2>2 DEF Page
  <2>4. Keeping
    <3>1. ~Answered(c)
      BY <1>3 DEF Answered
    <3>. QED
      BY <3>1, ActsGoOn
  <2>5. HoldsOn /\ \A d \in calls' : LooksMine(d) => \E e \in calls : LooksMine(e)
    BY ActsGoOn
  <2>6. \A side \in Sides : page'[side] \in {page[side], None}
    BY <2>3 DEF Sides
  <2>. QED
    BY <1>0, <1>1, <1>2, <2>3, <2>4, <2>5, <2>6, HonestQuiet
<1>4. CASE c.op = "decline" /\ c.at = "done"
  <2>0. c.id \in FriendOffers /\ From(c.id) # To(c.id)
    BY <1>4, IdsKnown DEF TypeOK, MadeOK
  <2>1. page' = IF Me = To(c.id) THEN [page EXCEPT !.pending = None] ELSE [page EXCEPT !.outgoing = None]
    BY <1>4 DEF InviteAnswered
  <2>2. /\ page' \in Page /\ page'.on = page.on /\ page'.joined = page.joined
        /\ page'.pending = (IF Me = To(c.id) THEN None ELSE page.pending)
        /\ page'.outgoing = (IF Me = To(c.id) THEN page.outgoing ELSE None)
    BY <1>0, <2>1 DEF Page
  <2>3. ClientTypes'
    BY <1>0, <1>2, <2>2 DEF ClientTypes
  <2>4. Awake'
    BY <1>0, <1>2, <2>2 DEF Honest, Awake, Asleep
  <2>5. ASSUME ~overtaken' PROVE Truthful'
    <3>1. events = <<>> /\ OnTheWay = {} /\ Shown
      BY <1>2, <2>5 DEF Honest, Truthful
    <3>2. \A d \in calls' : ~LooksMine(d)
      BY <1>2, <3>1 DEF OnTheWay, LooksMine
    <3>3. Held' /\ Sent'
      BY <1>2, <3>1, <3>2 DEF Held, Holds, Sent
    <3>4. ASSUME NEW side \in Sides, NEW i, page'[side] = i, i # None
          PROVE  Mine(side, i)' /\ Promised(i, 0)'
      <4>1. page[side] = i /\ side = (IF Me = To(c.id) THEN "outgoing" ELSE "pending")
        BY <2>2, <3>4 DEF Sides
      <4>2. Mine(side, i) /\ Promised(i, 0)
        BY <3>1, <3>4, <4>1 DEF Shown
      <4>3. i # c.id
        BY <2>0, <4>1, <4>2 DEF Mine, PointedUser
      <4>4. Coming(i) => Coming(i)'
        BY <1>2, <4>3 DEF Coming
      <4>5. Promised(i, 0)'
        BY <1>1, <3>1, <4>2, <4>4 DEF Promised, Comes, Dead
      <4>. QED
        BY <1>1, <4>2, <4>5, MineStays
    <3>5. Shown'
      BY <3>4 DEF Shown
    <3>. QED
      BY <3>3, <3>5 DEF Truthful
  <2>. QED
    BY <2>3, <2>4, <2>5 DEF Honest
<1>. QED
  BY <1>3, <1>4 DEF InviteAnswered

------------------------------------------------------------------------------
(* The hooks *)

\* The first event arrives, the others move up.
LEMMA Shifted ==
    ASSUME TypeOK, events \in Seq(Event), events # <<>>, events' = Tail(events),
           UNCHANGED <<redis, expired, calls, made>>
    PROVE  /\ \A q \in DOMAIN events' : q + 1 \in DOMAIN events /\ events'[q] = events[q + 1] /\ q \in Nat
           /\ 1 \in DOMAIN events /\ Head(events) = events[1] /\ Head(events) \in Event
           /\ events' \in Seq(Event)
           /\ \A i \in FriendOffers : \A p \in Nat : Promised(i, p + 1) => Promised(i, p)'
<1>1. /\ events' \in Seq(Event) /\ Len(events') = Len(events) - 1 /\ Len(events) \in Nat
      /\ Len(events) # 0 /\ \A q \in 1 .. Len(events') : events'[q] = events[q + 1]
      /\ Head(events) = events[1] /\ Head(events) \in Event
      /\ DOMAIN events = 1 .. Len(events) /\ DOMAIN events' = 1 .. Len(events')
  BY HeadTailProperties, EmptySeq, LenProperties
<1>2. \A q \in DOMAIN events' : q + 1 \in DOMAIN events /\ events'[q] = events[q + 1] /\ q \in Nat
  BY <1>1
<1>3. \A r \in DOMAIN events : r > 1 => r - 1 \in DOMAIN events' /\ events'[r - 1] = events[r]
  <2>. SUFFICES ASSUME NEW r \in DOMAIN events, r > 1
                PROVE  r - 1 \in DOMAIN events' /\ events'[r - 1] = events[r]
    OBVIOUS
  <2>1. r - 1 \in 1 .. Len(events') /\ (r - 1) + 1 = r
    BY <1>1
  <2>. QED
    BY <1>1, <2>1
<1>4. ASSUME NEW i \in FriendOffers, NEW p \in Nat, Promised(i, p + 1) PROVE Promised(i, p)'
  <2>. SUFFICES ASSUME Dead(i), ~Coming(i)
                PROVE  \E q \in DOMAIN events' : q > p /\ Clears(events[q], i)'
    BY DEF Promised, Comes, Dead, Coming
  <2>1. PICK r \in DOMAIN events : r > p + 1 /\ Clears(events[r], i)
    BY <1>4 DEF Promised, Comes
  <2>2. r \in Nat /\ r > 1 /\ r - 1 > p
    BY <1>1, <2>1
  <2>3. r - 1 \in DOMAIN events' /\ events'[r - 1] = events[r]
    BY <1>3, <2>2
  <2>4. PICK q \in DOMAIN events' : q > p /\ events'[q] = events[r]
    BY <2>2, <2>3
  <2>5. Clears(events[q], i)'
    BY <2>1, <2>4, SameMade DEF Clears
  <2>. QED
    BY <2>4, <2>5
<1>. QED
  BY <1>1, <1>2, <1>4

\* An event shows what it tells of, and what it takes away is not shown.
LEMMA HonestArrives ==
    ASSUME TypeOK, Honest, EventArrives
    PROVE  Honest'
<1>0. ClientTypes /\ page \in Page /\ (page.joined => page.on) /\ events \in Seq(Event)
  BY DEF Honest, ClientTypes, Awake
<1>1. /\ events # <<>> /\ events' = Tail(events) /\ UNCHANGED <<redis, expired, calls, made>>
      /\ page' = PageAfter(Head(events)) /\ overtaken' = (overtaken \/ OnTheWay # {})
  BY DEF EventArrives, server
<1>2. /\ \A q \in DOMAIN events' : q + 1 \in DOMAIN events /\ events'[q] = events[q + 1] /\ q \in Nat
      /\ 1 \in DOMAIN events /\ Head(events) = events[1] /\ Head(events) \in Event
      /\ events' \in Seq(Event)
      /\ \A i \in FriendOffers : \A p \in Nat : Promised(i, p + 1) => Promised(i, p)'
  BY <1>0, <1>1, Shifted
<1>3. PICK e \in Event : e = Head(events) /\ e = events[1]
  BY <1>2
<1>4. /\ page' \in Page /\ page'.on = page.on /\ page'.joined = page.joined
      /\ \A side \in Sides :
            \/ page'[side] = None \/ (page'[side] = e.id /\ e.kind = SentAs(side))
            \/ page'[side] = page[side] /\ Spares(e, side, page'[side])
  <2>1. PICK P \in {page'} : P = page' /\ P = PageAfter(e)
    BY <1>1, <1>3
  <2>2. /\ P \in Page /\ P.on = page.on /\ P.joined = page.joined
        /\ \A side \in Sides :
              \/ P[side] = None \/ (P[side] = e.id /\ e.kind = SentAs(side))
              \/ P[side] = page[side] /\ Spares(e, side, P[side])
    BY <1>0, <2>1, PageAfterIs
  <2>. QED
    BY <2>1, <2>2
<1>5. ClientTypes'
  BY <1>2, <1>4 DEF ClientTypes
<1>6. page.on
  BY <1>1 DEF Honest, Awake, Asleep
<1>7. Awake'
  BY <1>0, <1>4, <1>6 DEF Awake
<1>8. ASSUME ~overtaken' PROVE Truthful'
  <2>0. OnTheWay = {} /\ Shown /\ Sent
    BY <1>1, <1>8 DEF Honest, Truthful
  <2>g. Grown
    BY <1>1, SameMade
  <2>1. \A d \in calls' : ~LooksMine(d)
    BY <1>1, <2>0 DEF OnTheWay, LooksMine
  <2>2. Held'
    BY <2>1 DEF Held, Holds
  <2>3. ASSUME NEW side \in Sides, NEW i, NEW p \in Nat, Mine(side, i), Promised(i, p + 1)
        PROVE  Mine(side, i)' /\ Promised(i, p)'
    BY <1>2, <2>3, <2>g, MineStays DEF Mine
  <2>4. ASSUME NEW q \in DOMAIN events', NEW side \in Sides, NEW i,
               events'[q].kind = SentAs(side), events'[q].id = i
        PROVE  Mine(side, i)' /\ Promised(i, q)'
    BY <1>2, <2>0, <2>3, <2>4 DEF Sent
  <2>5. Sent'
    BY <2>4 DEF Sent
  <2>6. ASSUME NEW side \in Sides, NEW i, page'[side] = i, i # None
        PROVE  Mine(side, i)' /\ Promised(i, 0)'
    <3>1. CASE i = e.id /\ e.kind = SentAs(side)
      <4>1. Mine(side, i) /\ Promised(i, 1)
        BY <1>2, <1>3, <2>0, <3>1 DEF Sent
      <4>. QED
        BY <2>3, <4>1
    <3>2. CASE i = page[side] /\ Spares(e, side, i)
      <4>1. Mine(side, i) /\ Promised(i, 0)
        BY <2>0, <2>6, <3>2 DEF Shown
      <4>2. i \in FriendOffers /\ From(i) # To(i) /\ PointedUser(side, i) = Me
        BY <4>1, IdsKnown DEF Mine, TypeOK, MadeOK
      <4>3. ~Clears(e, i)
        BY <3>2, <4>2 DEF Clears, Spares, PointedUser, Sides
      <4>4. Promised(i, 1)
        <5>. SUFFICES ASSUME NEW q \in DOMAIN events, q > 0, Clears(events[q], i)
                      PROVE  q > 1
          BY <4>1 DEF Promised, Comes
        <5>1. q # 1
          BY <1>3, <4>3
        <5>2. q \in Nat
          BY <1>0, LenProperties
        <5>. QED
          BY <5>1, <5>2
      <4>. QED
        BY <2>3, <4>1, <4>4
    <3>. QED
      BY <1>4, <2>6, <3>1, <3>2
  <2>7. Shown'
    BY <2>6 DEF Shown
  <2>. QED
    BY <2>2, <2>5, <2>7 DEF Truthful
<1>. QED
  BY <1>5, <1>7, <1>8 DEF Honest

LEMMA HonestOpens ==
    ASSUME TypeOK, Honest, EnableHooks
    PROVE  Honest'
<1>. DEFINE a == Call("look", Me, 0)
            b == [Call("lookRematch", Me, 0) EXCEPT !.n = started + 2]
<1>1. /\ ~page.on /\ page' = [Off EXCEPT !.on = TRUE] /\ calls' = calls \cup {a, b}
      /\ events' = events /\ overtaken' = overtaken
  BY DEF EnableHooks, Begin
<1>2. a.id = 0 /\ a.at = "begin" /\ b.op = "lookRematch"
  BY DEF Call
<1>. HIDE DEF a, b
<1>3. /\ page' \in Page /\ page'.on /\ ~page'.joined /\ page'.pending = None /\ page'.outgoing = None
  BY <1>1 DEF Off, Page
<1>4. events = <<>> /\ events \in Seq(Event) /\ \A c \in calls : ~LooksMine(c)
  BY <1>1 DEF Honest, Awake, Asleep, ClientTypes
<1>5. ClientTypes' /\ Awake'
  BY <1>1, <1>3, <1>4 DEF ClientTypes, Awake
<1>6. \A d \in calls' : LooksMine(d) => d = a
  BY <1>1, <1>2, <1>4 DEF LooksMine
<1>7. Held'
  BY <1>2, <1>6 DEF Held, Holds
<1>8. Shown' /\ Sent'
  BY <1>1, <1>3, <1>4 DEF Shown, Sent, Sides
<1>. QED
  BY <1>5, <1>7, <1>8 DEF Honest, Truthful

LEMMA HonestLeaves ==
    ASSUME TypeOK, Honest, DisableHooks
    PROVE  Honest'
<1>1. /\ page' = Off /\ events' = <<>>
      /\ calls' = { Blind(c) : c \in calls }
  BY DEF DisableHooks, Blind
<1>2. page' \in Page /\ ~page'.on /\ ~page'.joined /\ page'.pending = None /\ page'.outgoing = None
  BY <1>1 DEF Off, Page
<1>3. \A d \in calls' : ~LooksMine(d)
  <2>. SUFFICES ASSUME NEW c \in calls PROVE ~LooksMine(Blind(c))
    BY <1>1
  <2>1. Me # None
    BY LobbyAssumption
  <2>. QED
    BY <2>1, BlindIs DEF LooksMine
<1>4. ClientTypes' /\ Awake'
  BY <1>1, <1>2, <1>3 DEF ClientTypes, Awake, Asleep
<1>5. Truthful'
  BY <1>1, <1>2, <1>3 DEF Truthful, Shown, Held, Sent, Holds, Sides
<1>. QED
  BY <1>4, <1>5 DEF Honest

LEMMA HonestWatches ==
    ASSUME TypeOK, Honest, Connected \/ Disconnected \/ ExpiryTimer \/ UNCHANGED vars
    PROVE  Honest'
<1>0. page \in Page /\ (page.joined => page.on)
  BY DEF Honest, ClientTypes, Awake
<1>1. UNCHANGED <<redis, made, expired, calls>>
  BY DEF Connected, Disconnected, ExpiryTimer, server, client, vars
<1>2. CASE Connected
  <2>1. page.on /\ page' = [page EXCEPT !.joined = TRUE]
    BY <1>2 DEF Connected
  <2>2. /\ page' \in Page /\ page'.on = page.on /\ page.on
        /\ page'.pending = page.pending /\ page'.outgoing = page.outgoing
    BY <1>0, <2>1 DEF Page
  <2>3. UNCHANGED <<events, overtaken>>
    BY <1>2 DEF Connected
  <2>. QED
    BY <1>1, <2>2, <2>3, SameMade, HonestAside DEF Sides, Dead
<1>3. CASE ExpiryTimer
  <2>1. page' = [page EXCEPT !.pending = IF @ \in expired THEN None ELSE @,
                             !.outgoing = IF @ \in expired THEN None ELSE @]
    BY <1>3 DEF ExpiryTimer
  <2>2. /\ page' \in Page /\ page'.on = page.on /\ page'.joined = page.joined
        /\ page'.pending \in {page.pending, None} /\ page'.outgoing \in {page.outgoing, None}
    BY <1>0, <2>1 DEF Page
  <2>3. UNCHANGED <<events, overtaken>>
    BY <1>3 DEF ExpiryTimer
  <2>. QED
    BY <1>0, <1>1, <2>2, <2>3, SameMade, HonestAside DEF Sides, Dead
<1>4. CASE UNCHANGED vars
  <2>1. UNCHANGED <<page, events, overtaken>>
    BY <1>4 DEF vars, client
  <2>. QED
    BY <1>0, <1>1, <2>1, SameMade, HonestAside DEF Sides, Dead
<1>5. CASE Disconnected
  <2>1. /\ page.joined /\ page' = [page EXCEPT !.joined = FALSE] /\ events' = <<>>
        /\ (overtaken => overtaken') /\ (events # <<>> => overtaken')
    BY <1>5 DEF Disconnected
  <2>2. /\ page' \in Page /\ page'.on = page.on /\ page.on /\ ~page'.joined
        /\ page'.pending = page.pending /\ page'.outgoing = page.outgoing
    BY <1>0, <2>1 DEF Page
  <2>3. CASE events = <<>>
    BY <1>1, <2>1, <2>2, <2>3, SameMade, HonestAside DEF Sides, Dead
  <2>4. CASE events # <<>>
    BY <2>1, <2>2, <2>4 DEF Honest, ClientTypes, Awake
  <2>. QED
    BY <2>3, <2>4
<1>. QED
  BY <1>2, <1>3, <1>4, <1>5

LEMMA HonestStep ==
    ASSUME TypeOK, Honest, Backed, [Next]_vars
    PROVE  Honest'
<1>1. Grown
  BY StepTable, StepGrows
<1>2. ASSUME NEW c \in calls, Acts(c) PROVE Honest'
  BY <1>2, ActsTable, HonestHushes, HonestTells, HonestLoads, HonestRematch, HonestLocalSent,
     HonestAnswered
<1>3. CASE \/ AskForMatch \/ RequestRematch \/ MatchEnds \/ SpeakUp \/ AskForActive
           \/ \E op \in {"accept", "decline"} : Answer(op)
           \/ \E op \in {"acceptRematch", "declineRematch"} : AnswerRematch(op)
  BY <1>1, <1>3, BeginTable, HonestBegins
<1>4. CASE Expire \/ TimeToLive
  BY <1>1, <1>4, HonestTime
<1>5. CASE \/ EnableHooks \/ DisableHooks \/ EventArrives \/ Connected \/ Disconnected
           \/ ExpiryTimer \/ UNCHANGED vars
  BY <1>5, HonestOpens, HonestLeaves, HonestArrives, HonestWatches
<1>6. ASSUME NEW c \in calls, Command(c) PROVE Honest'
  BY <1>6, HonestWrites
<1>. QED
  BY <1>2, <1>3, <1>4, <1>5, <1>6 DEF Next, Hooks, Acts

\* What has been overtaken stays so.
LEMMA OvertakenStays ==
    ASSUME TypeOK, [Next]_vars
    PROVE  overtaken => overtaken'
<1>1. ASSUME NEW us, NEW kind, NEW id, Emit(us, kind, id) PROVE overtaken => overtaken'
  BY <1>1 DEF Emit
<1>2. ASSUME NEW c \in calls, Acts(c) PROVE overtaken => overtaken'
  <2>1. CASE Hushes(c)
    BY <2>1 DEF Hushes, client
  <2>2. CASE Tells(c)
    BY <1>1, <2>2 DEF Tells
  <2>3. CASE InvitesLoaded(c) \/ RematchLoaded(c) \/ HandleLocalSent(c) \/ InviteAnswered(c)
    BY <2>3 DEF InvitesLoaded, RematchLoaded, HandleLocalSent, InviteAnswered
  <2>. QED
    BY <1>2, <2>1, <2>2, <2>3, ActsTable
<1>3. CASE \/ AskForMatch \/ RequestRematch \/ MatchEnds \/ SpeakUp \/ AskForActive
           \/ \E op \in {"accept", "decline"} : Answer(op)
           \/ \E op \in {"acceptRematch", "declineRematch"} : AnswerRematch(op)
  BY <1>3, BeginTable DEF Begins
<1>4. CASE Expire \/ TimeToLive \/ UNCHANGED vars
  BY <1>4 DEF Expire, TimeToLive, client, vars
<1>5. CASE \/ EnableHooks \/ DisableHooks \/ EventArrives \/ Connected \/ Disconnected
           \/ ExpiryTimer
  BY <1>5 DEF EnableHooks, DisableHooks, EventArrives, Connected, Disconnected, ExpiryTimer
<1>6. ASSUME NEW c \in calls, Command(c) PROVE overtaken => overtaken'
  BY <1>6 DEF Command, client
<1>. QED
  BY <1>2, <1>3, <1>4, <1>5, <1>6 DEF Next, Hooks, Acts

LEMMA HonestInit == Init => Backed /\ NoneAnswered /\ Honest
<1>. SUFFICES ASSUME Init PROVE Backed /\ NoneAnswered /\ Honest
  OBVIOUS
<1>1. calls = {} /\ events = <<>> /\ page = Off
  BY DEF Init
<1>2. page \in Page /\ ~page.on /\ ~page.joined /\ page.pending = None /\ page.outgoing = None
  BY <1>1 DEF Off, Page
<1>3. ClientTypes /\ Awake
  BY <1>1, <1>2 DEF ClientTypes, Awake, Asleep
<1>4. Truthful
  BY <1>1, <1>2 DEF Truthful, Shown, Held, Sent, Sides
<1>. QED
  BY <1>1, <1>3, <1>4 DEF Backed, NoneAnswered, Honest

\* When everything has arrived, the notification of useFriendMatchInvites shows
\* no invite that Redis does not hold: the event of a call that deletes an
\* invite reaches the page after whatever the page had learned of the invite,
\* unless an answer of the server passed an event, an event missed the page
\* because it had not joined its room or had lost the connection, or an invite
\* was answered before the call that makes it.
THEOREM NoGhostsAreShown == Spec => []NoGhostInvite
<1>1. Init => TypeOK /\ Once /\ Findable /\ Backed /\ NoneAnswered /\ Honest
  BY TypeInit, OnceInit, FindableInit, HonestInit
<1>2. TypeOK /\ Once /\ Findable /\ Backed /\ NoneAnswered /\ Honest /\ [Next]_vars
      => TypeOK' /\ Once' /\ Findable' /\ Backed' /\ NoneAnswered' /\ Honest'
  BY StepTable, OvertakenStays, TypeStep, OnceStep, FindableStep, BackedStep, NoneAnsweredStep,
     HonestStep
<1>3. TypeOK /\ Honest => NoGhostInvite
  <2>. SUFFICES ASSUME TypeOK, Honest, Quiet, ~overtaken,
                       NEW i \in {page.pending, page.outgoing} \ {None}, redis[<<"invite", i>>] = None
                PROVE  FALSE
    BY DEF NoGhostInvite
  <2>1. Shown
    BY DEF Honest, Truthful
  <2>2. \E side \in Sides : page[side] = i
    BY DEF Sides
  <2>3. Promised(i, 0)
    BY <2>1, <2>2 DEF Shown
  <2>4. calls = {} /\ events = <<>> /\ i \notin expired
    BY DEF Quiet
  <2>. QED
    BY <2>3, <2>4 DEF Promised, Comes, Coming, Dead
<1>. QED
  BY <1>1, <1>2, <1>3, PTL DEF Spec
====================
