------------------------- MODULE OnlineClientProofs -------------------------
(***************************************************************************)
(* What a player can rely on once everything on its way has arrived, for   *)
(* any number of pages, lost connections, moves and matches.  Each promise *)
(* is about a quiet moment; the invariants here say what must still be on  *)
(* its way when it does not hold yet: a cancel that follows every join, a  *)
(* join of the match, an event or a snapshot with the newest board.        *)
(***************************************************************************)
EXTENDS OnlineClientProps, TLAPS

State == [v : Nat, moves : Nat, over : BOOLEAN]
Requests == {"queue:join", "queue:cancel", "match:join", "move:play", "turn:timeout"}
Answers == {"session:state", "VERSION_CONFLICT", "refused", "matchmaking:matched"}
Request == [kind : Requests, v : Nat]
Answer == [kind : Answers, state : State \cup {None}]

Socket == [n : Nat \ {0}, up : BOOLEAN]
View == [visit : Nat, state : State \cup {None}, error : Answers \cup {None},
         joined : BOOLEAN, onConnect : BOOLEAN, timer : BOOLEAN]
Match == [live : BOOLEAN, over : BOOLEAN, v : Nat, moves : Nat, away : BOOLEAN,
          lapsed : BOOLEAN, room : Nat, seat : Nat]

WireType ==
    /\ sock \in Socket /\ closing \subseteq 1 .. sock.n - 1
    /\ out \in Seq(Request) /\ inbox \in Seq(Answer) /\ (~sock.up => inbox = <<>>)
BrowserType ==
    /\ screen \in {"lobby", "queue", "game", "bot"} /\ leaks \in Nat /\ view \in View
    /\ \A g \in gets : g \in [visit : 0 .. view.visit, got : State \cup {None}]
ServerType ==
    /\ queue \in [in : BOOLEAN, joining : BOOLEAN]
    /\ match \in Match /\ match.room <= sock.n /\ (~sock.up => match.room # sock.n)
    /\ left \in [Kinds -> Nat]

TypeOK == WireType /\ BrowserType /\ ServerType

Has(s, kind) == \E i \in DOMAIN s : s[i].kind = kind

\* There is a cancel, and no join of the queue after it.
CancelLast(s) ==
    \E i \in DOMAIN s : /\ s[i].kind = "queue:cancel"
                        /\ \A j \in DOMAIN s : j > i => s[j].kind # "queue:join"

\* The user is in the queue of the server, or will be.
Coming == queue.in \/ queue.joining \/ Has(out, "queue:join")

\* Away from the page that joined, a user who is in the queue, or will be, has
\* the cancel that follows every join on its way.
QueueOK ==
    /\ (view.joined \/ view.onConnect) => screen = "queue"
    /\ screen = "queue" => leaks > 0
    /\ leaks = 0 => ~Coming
    /\ ~slipped /\ ~view.joined /\ Coming => CancelLast(out)

\* A connected board is in the room and counted as present, or has its join of
\* the match on its way.
Seated ==
    screen = "game" /\ sock.up /\ ~match.over /\ ~match.lapsed /\ ~late
        => Has(out, "match:join") \/ (match.room = sock.n /\ ~match.away)

Fresh(s, m) == s # None /\ s.moves = m.moves /\ s.over = m.over

\* The last board among these events is that of match m.
Newest(s, m) ==
    \A i \in DOMAIN s :
        /\ s[i].kind = "session:state"
        /\ \A j \in DOMAIN s : j > i => s[j].kind # "session:state"
        => Fresh(s[i].state, m)

\* Of the events on their way to the room the last board is the newest one.
Latest == match.room = sock.n => Newest(inbox, match)

\* With no board on its way, the one that is shown, or every snapshot still to
\* come, is the newest one.
Shown ==
    screen = "game" /\ match.room = sock.n /\ ~crossed /\ ~Has(inbox, "session:state") =>
        /\ \A g \in gets : g.visit = view.visit /\ g.got # None => Fresh(g.got, match)
        /\ Fresh(view.state, match) \/ \E g \in gets : g.visit = view.visit

IInv == TypeOK /\ QueueOK /\ Seated /\ Latest /\ Shown

------------------------------------------------------------------------------
(* Sequences of requests and events *)

LEMMA Tails ==
    ASSUME NEW X, NEW s \in Seq(X), s # <<>>
    PROVE  /\ Tail(s) \in Seq(X) /\ Len(s) \in Nat \ {0} /\ DOMAIN s = 1 .. Len(s)
           /\ DOMAIN Tail(s) = 1 .. Len(s) - 1 /\ Head(s) = s[1] /\ Head(s) \in X
           /\ \A i \in 1 .. Len(s) - 1 : Tail(s)[i] = s[i + 1]
OBVIOUS

LEMMA Concats ==
    ASSUME NEW X, NEW s \in Seq(X), NEW t \in Seq(X)
    PROVE  /\ s \o t \in Seq(X) /\ Len(s) \in Nat /\ Len(t) \in Nat
           /\ DOMAIN s = 1 .. Len(s) /\ DOMAIN t = 1 .. Len(t)
           /\ DOMAIN (s \o t) = 1 .. Len(s) + Len(t)
           /\ \A i \in 1 .. Len(s) : (s \o t)[i] = s[i]
           /\ \A i \in 1 .. Len(t) : (s \o t)[Len(s) + i] = t[i]
OBVIOUS

LEMMA AppendIs ==
    ASSUME NEW X, NEW s \in Seq(X), NEW x \in X
    PROVE  Append(s, x) = s \o <<x>> /\ <<x>> \in Seq(X)
OBVIOUS

\* Every place of the whole is one of its parts.
LEMMA Places ==
    ASSUME NEW X, NEW s \in Seq(X), NEW t \in Seq(X), NEW i \in DOMAIN (s \o t)
    PROVE  \/ i \in DOMAIN s /\ (s \o t)[i] = s[i]
           \/ \E j \in DOMAIN t : i = Len(s) + j /\ (s \o t)[i] = t[j]
<1>1. i \in 1 .. Len(s) + Len(t) /\ Len(s) \in Nat /\ Len(t) \in Nat
  BY Concats
<1>2. CASE i <= Len(s)
  BY <1>1, <1>2, Concats
<1>3. CASE i > Len(s)
  <2>. DEFINE j == i - Len(s)
  <2>1. j \in 1 .. Len(t) /\ i = Len(s) + j
    BY <1>1, <1>3
  <2>. HIDE DEF j
  <2>. QED
    BY <2>1, Concats
<1>. QED
  BY <1>1, <1>2, <1>3

LEMMA HasTail ==
    ASSUME NEW X, NEW s \in Seq(X), s # <<>>, NEW kind
    PROVE  /\ Has(Tail(s), kind) => Has(s, kind)
           /\ Has(s, kind) /\ Head(s).kind # kind => Has(Tail(s), kind)
<1>1. /\ Len(s) \in Nat \ {0} /\ DOMAIN s = 1 .. Len(s)
      /\ DOMAIN Tail(s) = 1 .. Len(s) - 1 /\ Head(s) = s[1]
      /\ \A i \in 1 .. Len(s) - 1 : Tail(s)[i] = s[i + 1]
  BY Tails
<1>2. ASSUME NEW i \in DOMAIN Tail(s)
      PROVE  i + 1 \in DOMAIN s /\ s[i + 1] = Tail(s)[i]
  BY <1>1
<1>3. ASSUME NEW i \in DOMAIN s, i # 1
      PROVE  i - 1 \in DOMAIN Tail(s) /\ s[i] = Tail(s)[i - 1]
  <2>1. i - 1 \in 1 .. Len(s) - 1 /\ (i - 1) + 1 = i
    BY <1>1, <1>3
  <2>. QED
    BY <1>1, <2>1
<1>4. ASSUME Has(s, kind), Head(s).kind # kind
      PROVE  Has(Tail(s), kind)
  <2>1. PICK i \in DOMAIN s : s[i].kind = kind
    BY <1>4 DEF Has
  <2>2. i # 1
    BY <1>1, <1>4, <2>1
  <2>. QED
    BY <1>3, <2>1, <2>2 DEF Has
<1>5. ASSUME Has(Tail(s), kind)
      PROVE  Has(s, kind)
  BY <1>2, <1>5 DEF Has
<1>. QED
  BY <1>4, <1>5

LEMMA HasConcat ==
    ASSUME NEW X, NEW s \in Seq(X), NEW t \in Seq(X), NEW kind
    PROVE  Has(s \o t, kind) <=> Has(s, kind) \/ Has(t, kind)
<1>1. ASSUME Has(s \o t, kind)
      PROVE  Has(s, kind) \/ Has(t, kind)
  BY <1>1, Places DEF Has
<1>2. ASSUME NEW i \in DOMAIN s
      PROVE  i \in DOMAIN (s \o t) /\ (s \o t)[i] = s[i]
  BY Concats
<1>3. ASSUME NEW i \in DOMAIN t
      PROVE  Len(s) + i \in DOMAIN (s \o t) /\ (s \o t)[Len(s) + i] = t[i]
  BY Concats
<1>. QED
  BY <1>1, <1>2, <1>3 DEF Has

LEMMA HasOne ==
    ASSUME NEW e, NEW kind
    PROVE  /\ Has(<<e>>, kind) <=> e.kind = kind
           /\ ~Has(<<>>, kind)
BY DEF Has

\* The cancel stays behind every join.
LEMMA CancelTail ==
    ASSUME NEW X, NEW s \in Seq(X), s # <<>>, CancelLast(s),
           Head(s).kind # "queue:cancel" \/ Has(Tail(s), "queue:join")
    PROVE  CancelLast(Tail(s))
<1>1. /\ Len(s) \in Nat \ {0} /\ DOMAIN s = 1 .. Len(s)
      /\ DOMAIN Tail(s) = 1 .. Len(s) - 1 /\ Head(s) = s[1]
      /\ \A i \in 1 .. Len(s) - 1 : Tail(s)[i] = s[i + 1]
  BY Tails
<1>2. PICK i \in DOMAIN s : /\ s[i].kind = "queue:cancel"
                            /\ \A j \in DOMAIN s : j > i => s[j].kind # "queue:join"
  BY DEF CancelLast
<1>3. i # 1
  <2>1. CASE Head(s).kind # "queue:cancel"
    BY <1>1, <1>2, <2>1
  <2>2. CASE Has(Tail(s), "queue:join")
    <3>1. PICK j \in DOMAIN Tail(s) : Tail(s)[j].kind = "queue:join"
      BY <2>2 DEF Has
    <3>2. j + 1 \in DOMAIN s /\ s[j + 1].kind = "queue:join" /\ j + 1 > 1
      BY <1>1, <3>1
    <3>. QED
      BY <1>2, <3>2
  <2>. QED
    BY <2>1, <2>2
<1>. DEFINE k == i - 1
<1>4. k \in 1 .. Len(s) - 1 /\ k + 1 = i
  BY <1>1, <1>3
<1>. HIDE DEF k
<1>5. ASSUME NEW j \in DOMAIN Tail(s), j > k
      PROVE  Tail(s)[j].kind # "queue:join"
  <2>1. j + 1 \in DOMAIN s /\ j + 1 > i /\ Tail(s)[j] = s[j + 1]
    BY <1>1, <1>4, <1>5
  <2>. QED
    BY <1>2, <2>1
<1>. QED
  BY <1>1, <1>2, <1>4, <1>5 DEF CancelLast

LEMMA CancelConcat ==
    ASSUME NEW X, NEW s \in Seq(X), NEW t \in Seq(X),
           \/ CancelLast(s) /\ ~Has(t, "queue:join")
           \/ CancelLast(t)
    PROVE  CancelLast(s \o t)
<1>1. CASE CancelLast(s) /\ ~Has(t, "queue:join")
  <2>1. PICK i \in DOMAIN s : /\ s[i].kind = "queue:cancel"
                              /\ \A j \in DOMAIN s : j > i => s[j].kind # "queue:join"
    BY <1>1 DEF CancelLast
  <2>2. i \in DOMAIN (s \o t) /\ (s \o t)[i].kind = "queue:cancel"
    BY <2>1, Concats
  <2>3. ASSUME NEW j \in DOMAIN (s \o t), j > i
        PROVE  (s \o t)[j].kind # "queue:join"
    BY <1>1, <2>1, <2>3, Places DEF Has
  <2>. QED
    BY <2>2, <2>3 DEF CancelLast
<1>2. CASE CancelLast(t)
  <2>1. PICK i \in DOMAIN t : /\ t[i].kind = "queue:cancel"
                              /\ \A j \in DOMAIN t : j > i => t[j].kind # "queue:join"
    BY <1>2 DEF CancelLast
  <2>2. Len(s) + i \in DOMAIN (s \o t) /\ (s \o t)[Len(s) + i].kind = "queue:cancel"
    BY <2>1, Concats
  <2>3. ASSUME NEW j \in DOMAIN (s \o t), j > Len(s) + i
        PROVE  (s \o t)[j].kind # "queue:join"
    <3>1. Len(s) \in Nat /\ DOMAIN s = 1 .. Len(s) /\ DOMAIN t = 1 .. Len(t) /\ Len(t) \in Nat
      BY Concats
    <3>2. j \notin DOMAIN s
      BY <2>3, <3>1
    <3>3. PICK k \in DOMAIN t : j = Len(s) + k /\ (s \o t)[j] = t[k]
      BY <3>2, Places
    <3>4. k > i
      BY <2>3, <3>1, <3>3
    <3>. QED
      BY <2>1, <3>3, <3>4
  <2>. QED
    BY <2>2, <2>3 DEF CancelLast
<1>. QED
  BY <1>1, <1>2

\* The last board of a sequence is that of its rest.
LEMMA NewestTail ==
    ASSUME NEW X, NEW s \in Seq(X), s # <<>>, NEW m, Newest(s, m)
    PROVE  /\ Newest(Tail(s), m)
           /\ Head(s).kind = "session:state" /\ ~Has(Tail(s), "session:state")
                => Fresh(Head(s).state, m)
<1>1. /\ Len(s) \in Nat \ {0} /\ DOMAIN s = 1 .. Len(s)
      /\ DOMAIN Tail(s) = 1 .. Len(s) - 1 /\ Head(s) = s[1]
      /\ \A i \in 1 .. Len(s) - 1 : Tail(s)[i] = s[i + 1]
  BY Tails
<1>2. ASSUME NEW i \in DOMAIN s, i # 1
      PROVE  i - 1 \in DOMAIN Tail(s) /\ s[i] = Tail(s)[i - 1]
  <2>1. i - 1 \in 1 .. Len(s) - 1 /\ (i - 1) + 1 = i
    BY <1>1, <1>2
  <2>. QED
    BY <1>1, <2>1
<1>3. ASSUME NEW i \in DOMAIN Tail(s), Tail(s)[i].kind = "session:state",
             \A j \in DOMAIN Tail(s) : j > i => Tail(s)[j].kind # "session:state"
      PROVE  Fresh(Tail(s)[i].state, m)
  <2>1. i + 1 \in DOMAIN s /\ s[i + 1] = Tail(s)[i]
    BY <1>1
  <2>2. ASSUME NEW j \in DOMAIN s, j > i + 1
        PROVE  s[j].kind # "session:state"
    <3>1. j # 1 /\ j - 1 > i
      BY <1>1, <2>2
    <3>. QED
      BY <1>2, <1>3, <3>1
  <2>. QED
    BY <1>3, <2>1, <2>2 DEF Newest
<1>4. ASSUME Head(s).kind = "session:state", ~Has(Tail(s), "session:state")
      PROVE  Fresh(Head(s).state, m)
  <2>1. 1 \in DOMAIN s /\ s[1].kind = "session:state"
    BY <1>1, <1>4
  <2>2. \A j \in DOMAIN s : j > 1 => s[j].kind # "session:state"
    <3>1. \A j \in DOMAIN s : j > 1 => j # 1
      BY <1>1
    <3>. QED
      BY <1>2, <1>4, <3>1 DEF Has
  <2>. QED
    BY <1>1, <2>1, <2>2 DEF Newest
<1>. QED
  BY <1>3, <1>4 DEF Newest

\* What is told last counts.
LEMMA NewestConcat ==
    ASSUME NEW X, NEW s \in Seq(X), NEW t \in Seq(X), NEW m, Newest(t, m),
           Newest(s, m) \/ Has(t, "session:state")
    PROVE  Newest(s \o t, m)
<1>1. Len(s) \in Nat /\ DOMAIN s = 1 .. Len(s) /\ DOMAIN t = 1 .. Len(t) /\ Len(t) \in Nat
  BY Concats
<1>. SUFFICES ASSUME NEW i \in DOMAIN (s \o t), (s \o t)[i].kind = "session:state",
                     \A j \in DOMAIN (s \o t) : j > i => (s \o t)[j].kind # "session:state"
              PROVE  Fresh((s \o t)[i].state, m)
  BY DEF Newest
<1>2. ASSUME NEW k \in DOMAIN t
      PROVE  Len(s) + k \in DOMAIN (s \o t) /\ (s \o t)[Len(s) + k] = t[k]
  BY Concats
<1>3. CASE i \in DOMAIN s
  <2>1. (s \o t)[i] = s[i]
    BY <1>3, Concats
  <2>2. ~Has(t, "session:state")
    <3>1. \A k \in DOMAIN t : Len(s) + k > i
      BY <1>1, <1>3
    <3>. QED
      BY <1>2, <3>1 DEF Has
  <2>3. \A j \in DOMAIN s : j > i => s[j].kind # "session:state"
    BY Concats
  <2>. QED
    BY <1>3, <2>1, <2>2, <2>3 DEF Newest
<1>4. CASE i \notin DOMAIN s
  <2>1. PICK k \in DOMAIN t : i = Len(s) + k /\ (s \o t)[i] = t[k]
    BY <1>4, Places
  <2>2. ASSUME NEW j \in DOMAIN t, j > k
        PROVE  t[j].kind # "session:state"
    <3>1. Len(s) + j > i
      BY <1>1, <2>1, <2>2
    <3>. QED
      BY <1>2, <3>1
  <2>. QED
    BY <2>1, <2>2 DEF Newest
<1>. QED
  BY <1>3, <1>4

LEMMA NewestOne ==
    ASSUME NEW e, NEW m
    PROVE  /\ Newest(<<>>, m)
           /\ e.kind # "session:state" \/ Fresh(e.state, m) => Newest(<<e>>, m)
BY DEF Newest

------------------------------------------------------------------------------
(* What a step may leave alone *)

LEMMA CmdType ==
    ASSUME NEW kind \in Requests, NEW v \in Nat
    PROVE  /\ Cmd(kind, v) \in Request /\ Cmd(kind, v).kind = kind
           /\ <<Cmd(kind, v)>> \in Seq(Request)
<1>1. Cmd(kind, v) \in Request /\ Cmd(kind, v).kind = kind
  BY DEF Cmd, Request
<1>. QED
  BY <1>1

LEMMA EventType ==
    ASSUME NEW kind \in Answers, NEW state \in State \cup {None}
    PROVE  /\ Event(kind, state) \in Answer /\ Event(kind, state).kind = kind
           /\ Event(kind, state).state = state
           /\ <<Event(kind, state)>> \in Seq(Answer)
<1>1. /\ Event(kind, state) \in Answer /\ Event(kind, state).kind = kind
      /\ Event(kind, state).state = state
  BY DEF Event, Answer
<1>. QED
  BY <1>1

\* A page that has just been opened.
LEMMA BlankType ==
    ASSUME NEW n \in Nat
    PROVE  /\ [Blank EXCEPT !.visit = n] \in View /\ [Blank EXCEPT !.visit = n].visit = n
           /\ ~[Blank EXCEPT !.visit = n].joined /\ ~[Blank EXCEPT !.visit = n].onConnect
<1>1. [Blank EXCEPT !.visit = n] \in View
  BY DEF Blank, View
<1>2. /\ [Blank EXCEPT !.visit = n].visit = n
      /\ ~[Blank EXCEPT !.visit = n].joined /\ ~[Blank EXCEPT !.visit = n].onConnect
  BY DEF Blank
<1>. QED
  BY <1>1, <1>2

LEMMA NoneIsNoState == None \notin State
BY ClientAssumption DEF State

LEMMA SnapshotType ==
    ASSUME match \in Match
    PROVE  Snapshot \in State /\ Fresh(Snapshot, match)
<1>1. Snapshot \in State
  BY DEF Match, State, Snapshot
<1>. QED
  BY <1>1, NoneIsNoState DEF Fresh, Snapshot

LEMMA SpendType ==
    ASSUME left \in [Kinds -> Nat], NEW kind \in Kinds, Spend(kind)
    PROVE  left' \in [Kinds -> Nat]
BY DEF Spend

\* The fields of a match that are set, and those that are not.
LEMMA MatchWith ==
    ASSUME NEW m \in Match, NEW v \in Nat, NEW moves \in Nat, NEW room \in Nat, NEW b \in BOOLEAN
    PROVE  /\ [m EXCEPT !.v = v] \in Match /\ [m EXCEPT !.away = b, !.v = v] \in Match
           /\ [m EXCEPT !.moves = moves, !.v = v] \in Match
           /\ [m EXCEPT !.away = b, !.v = v, !.room = room] \in Match
           /\ [m EXCEPT !.over = b, !.v = v] \in Match
           /\ [m EXCEPT !.over = b] \in Match /\ [m EXCEPT !.lapsed = b] \in Match
<1>1. [m EXCEPT !.v = v] \in Match /\ [m EXCEPT !.away = b, !.v = v] \in Match
  BY DEF Match
<1>2. [m EXCEPT !.moves = moves, !.v = v] \in Match
  BY DEF Match
<1>3. [m EXCEPT !.away = b, !.v = v, !.room = room] \in Match
  BY DEF Match
<1>4. [m EXCEPT !.over = b, !.v = v] \in Match
  BY DEF Match
<1>5. [m EXCEPT !.over = b] \in Match /\ [m EXCEPT !.lapsed = b] \in Match
  BY DEF Match
<1>. QED
  BY <1>1, <1>2, <1>3, <1>4, <1>5

LEMMA StateWith ==
    ASSUME NEW s \in State, NEW v \in Nat, NEW moves \in Nat, NEW b \in BOOLEAN
    PROVE  /\ [s EXCEPT !.v = v] \in State /\ [s EXCEPT !.moves = moves, !.v = v] \in State
           /\ [s EXCEPT !.over = b, !.v = v] \in State /\ [s EXCEPT !.over = b] \in State
<1>1. [s EXCEPT !.v = v] \in State /\ [s EXCEPT !.moves = moves, !.v = v] \in State
  BY DEF State
<1>2. [s EXCEPT !.over = b, !.v = v] \in State /\ [s EXCEPT !.over = b] \in State
  BY DEF State
<1>. QED
  BY <1>1, <1>2

LEMMA Counts ==
    /\ \A m \in Match : m.v + 1 \in Nat /\ m.moves + 1 \in Nat /\ m.over \in BOOLEAN
    /\ \A s \in State : s.v + 1 \in Nat /\ s.moves + 1 \in Nat
BY DEF Match, State

LEMMA PresentType ==
    ASSUME NEW m \in Match
    PROVE  /\ [m EXCEPT !.away = FALSE, !.v = @ + 1] \in Match
           /\ [m EXCEPT !.away = FALSE, !.v = @ + 1].room = m.room
           /\ [m EXCEPT !.away = FALSE, !.v = @ + 1].moves = m.moves
           /\ [m EXCEPT !.away = FALSE, !.v = @ + 1].over = m.over
<1>. DEFINE n == [m EXCEPT !.away = FALSE, !.v = @ + 1]
<1>1. n \in Match
  BY Counts, MatchWith
<1>2. n.room = m.room /\ n.moves = m.moves
  BY DEF Match
<1>3. n.over = m.over
  BY DEF Match
<1>. QED
  BY <1>1, <1>2, <1>3

LEMMA RoomType ==
    ASSUME NEW m \in Match, NEW room \in Nat, NEW away \in BOOLEAN
    PROVE  /\ [m EXCEPT !.away = away, !.v = @ + 1, !.room = room] \in Match
           /\ [m EXCEPT !.away = away, !.v = @ + 1, !.room = room].room = room
           /\ [m EXCEPT !.away = away, !.v = @ + 1, !.room = room].moves = m.moves
           /\ [m EXCEPT !.away = away, !.v = @ + 1, !.room = room].over = m.over
           /\ [m EXCEPT !.away = away, !.v = @ + 1, !.room = room].lapsed = m.lapsed
           /\ [m EXCEPT !.away = away, !.v = @ + 1, !.room = room].away = away
<1>. DEFINE n == [m EXCEPT !.away = away, !.v = @ + 1, !.room = room]
<1>1. n \in Match
  BY Counts, MatchWith
<1>2. n.room = room /\ n.moves = m.moves
  BY DEF Match
<1>3. n.over = m.over
  BY DEF Match
<1>4. n.lapsed = m.lapsed
  BY DEF Match
<1>5. n.away = away
  BY DEF Match
<1>. QED
  BY <1>1, <1>2, <1>3, <1>4, <1>5

\* A stone of either player.
LEMMA MovedType ==
    ASSUME match \in Match, NEW over \in BOOLEAN
    PROVE  /\ Moved \in Match /\ Moved.room = match.room /\ Moved.over = match.over
           /\ Moved.lapsed = match.lapsed /\ Moved.away = match.away
           /\ AfterMove \in State /\ Fresh(AfterMove, Moved)
           /\ [Moved EXCEPT !.over = over] \in Match
           /\ [Moved EXCEPT !.over = over].room = match.room
           /\ [Moved EXCEPT !.over = over].over = over
           /\ [Moved EXCEPT !.over = over].lapsed = match.lapsed
           /\ [Moved EXCEPT !.over = over].away = match.away
           /\ [AfterMove EXCEPT !.over = over] \in State
           /\ Fresh([AfterMove EXCEPT !.over = over], [Moved EXCEPT !.over = over])
<1>0. Snapshot \in State /\ Snapshot.moves = match.moves /\ Snapshot.over = match.over
  BY SnapshotType DEF Fresh
<1>. HIDE DEF Snapshot
<1>1. Moved \in Match
  BY Counts, MatchWith DEF Moved
<1>2. Moved.room = match.room /\ Moved.moves = match.moves + 1
  BY DEF Moved, Match
<1>3. Moved.over = match.over
  BY DEF Moved, Match
<1>4. Moved.lapsed = match.lapsed
  BY DEF Moved, Match
<1>5. Moved.away = match.away
  BY DEF Moved, Match
<1>6. AfterMove \in State
  BY <1>0, Counts, StateWith DEF AfterMove
<1>7. AfterMove.moves = match.moves + 1
  BY <1>0 DEF AfterMove, State
<1>8. AfterMove.over = match.over
  BY <1>0 DEF AfterMove, State
<1>. DEFINE n == [Moved EXCEPT !.over = over]
            z == [AfterMove EXCEPT !.over = over]
<1>9. n \in Match /\ z \in State
  BY <1>1, <1>6, MatchWith, StateWith, Counts
<1>10. n.room = Moved.room /\ n.moves = Moved.moves /\ z.moves = AfterMove.moves
  BY <1>1, <1>6 DEF Match, State
<1>11. n.over = over
  BY <1>1 DEF Match
<1>12. z.over = over
  BY <1>6 DEF State
<1>13. n.lapsed = Moved.lapsed
  BY <1>1 DEF Match
<1>14. n.away = Moved.away
  BY <1>1 DEF Match
<1>. HIDE DEF n, z
<1>15. Fresh(AfterMove, Moved)
  BY <1>2, <1>3, <1>6, <1>7, <1>8, NoneIsNoState DEF Fresh
<1>16. Fresh(z, n)
  BY <1>2, <1>7, <1>9, <1>10, <1>11, <1>12, NoneIsNoState DEF Fresh
<1>. QED
  BY <1>1, <1>2, <1>3, <1>4, <1>5, <1>6, <1>9, <1>10, <1>11, <1>13, <1>14, <1>15, <1>16 DEF n, z

LEMMA EndedType ==
    ASSUME match \in Match, NEW n, n = [match EXCEPT !.over = TRUE, !.v = @ + 1],
           NEW s, s = [Snapshot EXCEPT !.over = TRUE, !.v = @ + 1]
    PROVE  /\ n \in Match /\ n.room = match.room /\ n.over = TRUE
           /\ s \in State /\ Fresh(s, n)
<1>1. Snapshot \in State /\ Snapshot.moves = match.moves
  BY SnapshotType DEF Fresh
<1>. HIDE DEF Snapshot
<1>2. n \in Match /\ s \in State
  BY <1>1, Counts, MatchWith, StateWith
<1>3. n.room = match.room /\ n.moves = match.moves /\ s.moves = Snapshot.moves
  BY <1>1 DEF Match, State
<1>4. n.over = TRUE
  BY DEF Match
<1>5. s.over = TRUE
  BY <1>1 DEF State
<1>. QED
  BY <1>1, <1>2, <1>3, <1>4, <1>5, NoneIsNoState DEF Fresh

\* No new join of the queue, and a cancel that stays behind those there are.
LEMMA QueueStays ==
    ASSUME QueueOK, UNCHANGED <<screen, leaks>>, view'.joined = view.joined,
           view'.onConnect = view.onConnect, slipped => slipped',
           Coming' => Coming,
           ~slipped' /\ ~view.joined /\ Coming' /\ CancelLast(out) => CancelLast(out')
    PROVE  QueueOK'
BY DEF QueueOK

LEMMA SeatedStays ==
    ASSUME Seated, UNCHANGED <<screen, sock>>, ~match'.over => ~match.over,
           ~match'.lapsed => ~match.lapsed, ~late' => ~late,
           Has(out, "match:join") => Has(out', "match:join"),
           match'.room = match.room, match'.away => match.away
    PROVE  Seated'
BY DEF Seated

\* The server tells the browser.
LEMMA Told ==
    ASSUME WireType, match \in Match, Latest, Shown, NEW es \in Seq(Answer), Tell(es),
           UNCHANGED <<sock, screen, gets, view, crossed>>,
           match'.room = sock.n =>
             /\ sock.up /\ Newest(es, match')
             /\ \/ Has(es, "session:state")
                \/ /\ match'.room = match.room /\ match'.moves = match.moves
                   /\ match'.over = match.over
    PROVE  Latest' /\ Shown'
<1>1. CASE match'.room # sock.n
  BY <1>1 DEF Latest, Shown
<1>2. CASE match'.room = sock.n
  <2>1. inbox' = inbox \o es /\ inbox \in Seq(Answer)
    BY <1>2 DEF Tell, WireType
  <2>2. \A kind : Has(inbox', kind) <=> Has(inbox, kind) \/ Has(es, kind)
    BY <2>1, HasConcat
  <2>3. CASE Has(es, "session:state")
    <3>1. Newest(inbox', match')
      BY <1>2, <2>1, <2>3, NewestConcat
    <3>. QED
      BY <2>2, <2>3, <3>1 DEF Latest, Shown
  <2>4. CASE ~Has(es, "session:state")
    <3>1. /\ match'.room = match.room /\ match'.moves = match.moves /\ match'.over = match.over
          /\ match.room = sock.n
      BY <1>2, <2>4
    <3>2. \A s : Fresh(s, match') <=> Fresh(s, match)
      BY <3>1 DEF Fresh
    <3>3. Newest(inbox, match')
      BY <3>1, <3>2 DEF Latest, Newest
    <3>4. Newest(inbox', match')
      BY <1>2, <2>1, <3>3, NewestConcat
    <3>. QED
      BY <2>2, <3>1, <3>2, <3>4 DEF Latest, Shown
  <2>. QED
    BY <2>3, <2>4
<1>. QED
  BY <1>1, <1>2

\* Nothing is told.
LEMMA Untold ==
    ASSUME Latest, Shown, UNCHANGED <<inbox, sock, screen, gets, view, crossed>>,
           match'.room = sock.n =>
             /\ match'.room = match.room /\ match'.moves = match.moves
             /\ match'.over = match.over
    PROVE  Latest' /\ Shown'
<1>1. CASE match'.room # sock.n
  BY <1>1 DEF Latest, Shown
<1>2. CASE match'.room = sock.n
  <2>1. /\ match.room = sock.n /\ match'.moves = match.moves /\ match'.over = match.over
    BY <1>2
  <2>2. \A s : Fresh(s, match') <=> Fresh(s, match)
    BY <2>1 DEF Fresh
  <2>. QED
    BY <1>2, <2>1, <2>2 DEF Latest, Shown, Newest
<1>. QED
  BY <1>1, <1>2

------------------------------------------------------------------------------
(* The browser *)

\* Leaving a page: a page that has joined the queue says goodbye to it.
LEMMA GoKeeps ==
    ASSUME IInv, NEW to \in {"lobby", "game", "bot"},
           NEW goodbye \in {<<>>, <<Cmd("queue:cancel", 0)>>}, Go(to, goodbye),
           view.joined => goodbye = <<Cmd("queue:cancel", 0)>>,
           UNCHANGED <<leaks, queue, ghosts>>, match' \in Match,
           match'.room = match.room, match'.moves = match.moves, match'.over = match.over,
           left' \in [Kinds -> Nat]
    PROVE  IInv'
<1>. DEFINE hello == IF to = "game" /\ sock.up THEN <<Cmd("match:join", 0)>> ELSE <<>>
<1>1. /\ WireType /\ BrowserType /\ ServerType /\ QueueOK /\ Latest
  BY DEF IInv, TypeOK
<1>2. /\ screen' = to /\ leaks' = leaks /\ queue' = queue /\ slipped' = slipped
      /\ late' = late /\ crossed' = crossed
      /\ view' = [Blank EXCEPT !.visit = view.visit + 1]
      /\ gets' = IF to = "game" THEN gets \cup {[visit |-> view.visit + 1, got |-> None]} ELSE gets
  BY DEF Go, ghosts
<1>3. /\ view' \in View /\ view'.visit = view.visit + 1 /\ ~view'.joined /\ ~view'.onConnect
      /\ view.visit \in Nat
  <2>1. view.visit \in Nat
    BY <1>1 DEF BrowserType, View
  <2>2. view.visit + 1 \in Nat
    BY <2>1
  <2>. QED
    BY <1>2, <2>1, <2>2, BlankType
<1>4. CASE Reopens(to)
  <2>1. /\ sock' = [n |-> sock.n + 1, up |-> FALSE] /\ closing' = Gone(sock.n)
        /\ out' = <<>> /\ inbox' = <<>> /\ leaks = 0
    BY <1>4 DEF Go, Reopens
  <2>2. sock.n \in Nat \ {0} /\ sock'.n = sock.n + 1 /\ ~sock'.up /\ sock' \in Socket
    BY <1>1, <2>1 DEF WireType, Socket
  <2>3. WireType'
    <3>1. closing' \subseteq 1 .. sock'.n - 1
      <4>1. \A k \in closing' : k \in closing \/ k = sock.n
        BY <2>1 DEF Gone
      <4>2. \A k \in closing : k \in 1 .. sock.n - 1
        BY <1>1 DEF WireType
      <4>3. \A k \in closing' : k \in 1 .. sock.n
        BY <2>2, <4>1, <4>2
      <4>4. sock'.n - 1 = sock.n
        BY <2>2
      <4>. QED
        BY <4>3, <4>4
    <3>. QED
      BY <2>1, <2>2, <3>1 DEF WireType
  <2>4. match'.room <= sock'.n /\ match'.room # sock'.n
    BY <1>1, <2>2 DEF ServerType, Match
  <2>5. ~Coming'
    <3>1. ~Coming
      BY <1>1, <2>1 DEF QueueOK
    <3>2. ~Has(out', "queue:join")
      BY <2>1, HasOne
    <3>. QED
      BY <1>2, <3>1, <3>2 DEF Coming
  <2>6. QueueOK'
    BY <1>2, <1>3, <2>5 DEF QueueOK
  <2>7. Seated' /\ Latest' /\ Shown'
    BY <2>2, <2>4 DEF Seated, Latest, Shown
  <2>8. BrowserType'
    <3>1. \A g \in gets' : g \in [visit : 0 .. view'.visit, got : State \cup {None}]
      BY <1>1, <1>2, <1>3 DEF BrowserType
    <3>. QED
      BY <1>1, <1>2, <1>3, <3>1 DEF BrowserType
  <2>9. ServerType'
    BY <1>1, <1>2, <2>4 DEF ServerType
  <2>. QED
    BY <2>3, <2>6, <2>7, <2>8, <2>9 DEF IInv, TypeOK
<1>5. CASE ~Reopens(to)
  <2>1. UNCHANGED <<sock, closing, inbox>> /\ out' = (out \o goodbye) \o hello
    BY <1>5 DEF Go
  <2>2. /\ goodbye \in Seq(Request) /\ hello \in Seq(Request) /\ ~Has(goodbye, "queue:join")
        /\ ~Has(hello, "queue:join") /\ (to = "game" /\ sock.up => Has(hello, "match:join"))
    <3>1. Cmd("queue:cancel", 0).kind = "queue:cancel" /\ <<Cmd("queue:cancel", 0)>> \in Seq(Request)
      BY CmdType DEF Requests
    <3>2. Cmd("match:join", 0).kind = "match:join" /\ <<Cmd("match:join", 0)>> \in Seq(Request)
      BY CmdType DEF Requests
    <3>3. /\ ~Has(<<Cmd("queue:cancel", 0)>>, "queue:join") /\ ~Has(<<>>, "queue:join")
          /\ ~Has(<<Cmd("match:join", 0)>>, "queue:join")
          /\ Has(<<Cmd("match:join", 0)>>, "match:join")
      BY <3>1, <3>2, HasOne
    <3>4. <<>> \in Seq(Request)
      OBVIOUS
    <3>. QED
      BY <3>1, <3>2, <3>3, <3>4
  <2>. HIDE DEF hello
  <2>3. /\ out \in Seq(Request) /\ out \o goodbye \in Seq(Request) /\ out' \in Seq(Request)
    BY <1>1, <2>1, <2>2, Concats DEF WireType
  <2>4. WireType'
    BY <1>1, <2>1, <2>3 DEF WireType
  <2>5. BrowserType'
    <3>1. \A g \in gets' : g \in [visit : 0 .. view'.visit, got : State \cup {None}]
      BY <1>1, <1>2, <1>3 DEF BrowserType
    <3>2. screen' \in {"lobby", "queue", "game", "bot"}
      BY <1>1, <1>2, <1>3 DEF BrowserType
    <3>3. leaks' \in Nat
      BY <1>1, <1>2, <1>3 DEF BrowserType
    <3>4. view' \in View
      BY <1>1, <1>2, <1>3 DEF BrowserType
    <3>. QED
      BY <3>1, <3>2, <3>3, <3>4 DEF BrowserType
  <2>6. ServerType'
    BY <1>1, <1>2, <2>1 DEF ServerType
  <2>7. Has(out', "queue:join") => Has(out, "queue:join")
    <3>1. Has(out', "queue:join") => Has(out \o goodbye, "queue:join")
      <4>. DEFINE said == out \o goodbye
      <4>1. said \in Seq(Request) /\ out' = said \o hello
        BY <2>1, <2>3
      <4>. HIDE DEF said
      <4>2. Has(said \o hello, "queue:join") => Has(said, "queue:join") \/ Has(hello, "queue:join")
        BY <2>2, <4>1, HasConcat
      <4>3. Has(out', "queue:join") => Has(said, "queue:join")
        BY <2>2, <4>1, <4>2
      <4>. QED
        BY <4>3 DEF said
    <3>2. Has(out \o goodbye, "queue:join") => Has(out, "queue:join")
      BY <2>2, <2>3, HasConcat
    <3>. QED
      BY <3>1, <3>2
  <2>8. Coming' => Coming
    BY <1>2, <2>7 DEF Coming
  <2>9. ~slipped /\ Coming' => CancelLast(out')
    <3>1. CASE goodbye = <<Cmd("queue:cancel", 0)>>
      <4>1. CancelLast(goodbye)
        <5>1. Cmd("queue:cancel", 0).kind = "queue:cancel"
          BY CmdType DEF Requests
        <5>. QED
          BY <3>1, <5>1 DEF CancelLast
      <4>. QED
        BY <2>1, <2>2, <2>3, <4>1, CancelConcat
    <3>2. CASE ~view.joined
      <4>1. ~slipped /\ Coming => CancelLast(out)
        BY <1>1, <3>2 DEF QueueOK
      <4>. QED
        BY <2>1, <2>2, <2>3, <2>8, <4>1, CancelConcat
    <3>. QED
      BY <3>1, <3>2
  <2>10. QueueOK'
    BY <1>1, <1>2, <1>3, <2>8, <2>9 DEF QueueOK
  <2>11. Seated'
    <3>1. to = "game" /\ sock.up => Has(out', "match:join")
      BY <2>1, <2>2, <2>3, HasConcat
    <3>. QED
      BY <1>2, <2>1, <3>1 DEF Seated
  <2>12. Latest'
    BY <1>1, <2>1 DEF Latest, Newest, Fresh
  <2>13. Shown'
    <3>1. CASE to # "game"
      BY <1>2, <3>1 DEF Shown
    <3>2. CASE to = "game"
      <4>1. gets' = gets \cup {[visit |-> view.visit + 1, got |-> None]}
        BY <1>2, <3>2
      <4>2. \A g \in gets : g.visit # view.visit + 1
        BY <1>1, <1>3 DEF BrowserType
      <4>3. \A g \in gets' : g.visit = view'.visit => g.got = None
        BY <1>3, <4>1, <4>2
      <4>4. \E g \in gets' : g.visit = view'.visit
        <5>. DEFINE g == [visit |-> view.visit + 1, got |-> None]
        <5>1. g \in gets' /\ g.visit = view'.visit
          BY <1>3, <4>1
        <5>. HIDE DEF g
        <5>. QED
          BY <5>1
      <4>. QED
        BY <4>3, <4>4 DEF Shown
    <3>. QED
      BY <3>1, <3>2
  <2>. QED
    BY <2>4, <2>5, <2>6, <2>10, <2>11, <2>12, <2>13 DEF IInv, TypeOK
<1>. QED
  BY <1>4, <1>5

\* The pages that are left for another.
LEMMA LeavingKeeps ==
    ASSUME IInv, CancelQueue \/ LeaveQueue \/ BotFallback \/ HandleReconnect \/ LeaveBoard
    PROVE  IInv'
<1>1. /\ left \in [Kinds -> Nat] /\ match \in Match
      /\ view.joined \/ view.onConnect => screen = "queue"
  BY DEF IInv, TypeOK, ServerType, QueueOK
<1>2. left' \in [Kinds -> Nat]
  <2>1. Spend("go") \/ Spend("fallback")
    BY DEF CancelQueue, LeaveQueue, BotFallback, HandleReconnect, LeaveBoard
  <2>. QED
    BY <1>1, <2>1, SpendType DEF Kinds
<1>3. UNCHANGED <<leaks, queue, ghosts>>
  BY DEF CancelQueue, LeaveQueue, BotFallback, HandleReconnect, LeaveBoard, server
<1>4. /\ match' \in Match /\ match'.room = match.room /\ match'.moves = match.moves
      /\ match'.over = match.over
  <2>1. CASE HandleReconnect
    <3>1. match' = [match EXCEPT !.away = FALSE, !.v = @ + 1]
      BY <2>1 DEF HandleReconnect
    <3>2. match \in Match
      BY <1>1
    <3>. QED
      BY <3>1, <3>2, PresentType
  <2>2. CASE ~HandleReconnect
    <3>1. match' = match
      BY <2>2 DEF CancelQueue, LeaveQueue, BotFallback, LeaveBoard, server
    <3>. QED
      BY <1>1, <3>1
  <2>. QED
    BY <2>1, <2>2
<1>5. CASE CancelQueue
  BY <1>2, <1>3, <1>4, <1>5, GoKeeps DEF CancelQueue
<1>6. CASE LeaveQueue
  <2>1. CASE view.joined
    <3>1. Go("lobby", <<Cmd("queue:cancel", 0)>>)
      BY <1>6, <2>1 DEF LeaveQueue
    <3>. QED
      BY <1>2, <1>3, <1>4, <3>1, GoKeeps
  <2>2. CASE ~view.joined
    <3>1. Go("lobby", <<>>)
      BY <1>6, <2>2 DEF LeaveQueue
    <3>. QED
      BY <1>2, <1>3, <1>4, <2>2, <3>1, GoKeeps
  <2>. QED
    BY <2>1, <2>2
<1>7. CASE BotFallback
  BY <1>2, <1>3, <1>4, <1>7, GoKeeps DEF BotFallback, FallbackEmits
<1>8. CASE HandleReconnect
  <2>1. Go("game", <<>>) /\ ~view.joined
    BY <1>1, <1>8 DEF HandleReconnect
  <2>. QED
    BY <1>2, <1>3, <1>4, <2>1, GoKeeps
<1>9. CASE LeaveBoard
  <2>1. Go("lobby", <<>>) /\ ~view.joined
    BY <1>1, <1>9 DEF LeaveBoard, OnBoard
  <2>. QED
    BY <1>2, <1>3, <1>4, <2>1, GoKeeps
<1>. QED
  BY <1>5, <1>6, <1>7, <1>8, <1>9

\* A connection: a board joins its match, a page of the queue its queue.
LEMMA ConnectKeeps ==
    ASSUME IInv, Connect
    PROVE  IInv'
<1>. DEFINE hello == HandleConnect(screen)
            join == IF view.onConnect THEN <<Cmd("queue:join", 0)>> ELSE <<>>
<1>1. /\ ~sock.up /\ sock' = [sock EXCEPT !.up = TRUE] /\ out' = (out \o hello) \o join
      /\ view' = IF view.onConnect THEN EmitJoin(view) ELSE view
      /\ UNCHANGED <<screen, leaks, gets, inbox, closing, queue, match, left, slipped, late, crossed>>
  BY DEF Connect, server, ghosts
<1>2. /\ WireType /\ BrowserType /\ ServerType /\ QueueOK /\ inbox = <<>>
      /\ sock \in Socket /\ view \in View /\ out \in Seq(Request) /\ match.room # sock.n
  BY <1>1 DEF IInv, TypeOK, WireType, BrowserType, ServerType
<1>3. sock' \in Socket /\ sock'.n = sock.n /\ sock'.up
  BY <1>1, <1>2 DEF Socket
<1>4. /\ hello \in Seq(Request) /\ ~Has(hello, "queue:join")
      /\ (screen = "game" => Has(hello, "match:join")) /\ join \in Seq(Request)
      /\ (~view.onConnect => join = <<>>)
  <2>1. Cmd("match:join", 0).kind = "match:join" /\ <<Cmd("match:join", 0)>> \in Seq(Request)
    BY CmdType DEF Requests
  <2>2. <<Cmd("queue:join", 0)>> \in Seq(Request) /\ <<>> \in Seq(Request)
    BY CmdType DEF Requests
  <2>3. ~Has(<<Cmd("match:join", 0)>>, "queue:join") /\ Has(<<Cmd("match:join", 0)>>, "match:join")
    BY <2>1, HasOne
  <2>4. ~Has(<<>>, "queue:join")
    BY HasOne
  <2>. QED
    BY <2>1, <2>2, <2>3, <2>4 DEF HandleConnect, Rejoins
<1>. HIDE DEF hello, join
<1>5. out \o hello \in Seq(Request) /\ out' \in Seq(Request)
  BY <1>1, <1>2, <1>4, Concats
<1>6. WireType'
  BY <1>1, <1>2, <1>3, <1>5 DEF WireType
<1>7. /\ view' \in View /\ view'.visit = view.visit /\ view'.state = view.state
      /\ (view'.joined \/ view'.onConnect => view.joined \/ view.onConnect)
      /\ (view.onConnect => view'.joined) /\ (~view.onConnect => view' = view)
  BY <1>1, <1>2 DEF EmitJoin, View
<1>8. BrowserType'
  BY <1>1, <1>2, <1>7 DEF BrowserType
<1>9. ServerType'
  BY <1>1, <1>2, <1>3 DEF ServerType
<1>10. QueueOK'
  <2>1. CASE view.onConnect
    <3>1. leaks > 0 /\ screen = "queue" /\ leaks \in Nat
      BY <1>2, <2>1 DEF QueueOK, BrowserType
    <3>. QED
      BY <1>1, <1>7, <2>1, <3>1 DEF QueueOK
  <2>2. CASE ~view.onConnect
    <3>1. view' = view /\ join = <<>> /\ ~Has(join, "queue:join")
      BY <1>4, <1>7, <2>2, HasOne
    <3>2. Has(out', "queue:join") => Has(out, "queue:join")
      BY <1>1, <1>2, <1>4, <1>5, <3>1, HasConcat
    <3>3. Coming' => Coming
      BY <1>1, <3>2 DEF Coming
    <3>4. CancelLast(out) => CancelLast(out')
      BY <1>1, <1>2, <1>4, <1>5, <3>1, CancelConcat
    <3>. QED
      BY <1>1, <1>2, <3>1, <3>3, <3>4, QueueStays
  <2>. QED
    BY <2>1, <2>2
<1>11. Seated'
  <2>1. screen = "game" => Has(out', "match:join")
    BY <1>1, <1>2, <1>4, <1>5, HasConcat
  <2>. QED
    BY <1>1, <2>1 DEF Seated
<1>12. Latest' /\ Shown'
  BY <1>1, <1>2, <1>3 DEF Latest, Shown
<1>. QED
  BY <1>6, <1>8, <1>9, <1>10, <1>11, <1>12 DEF IInv, TypeOK

\* A lost connection, with all that was on its way.
LEMMA DropKeeps ==
    ASSUME IInv, Drop
    PROVE  IInv'
<1>1. /\ sock.up /\ sock' = [n |-> sock.n + 1, up |-> FALSE] /\ closing' = closing \cup {sock.n}
      /\ out' = <<>> /\ inbox' = <<>>
      /\ slipped' = (slipped \/ \E i \in DOMAIN out : out[i].kind = "queue:cancel")
      /\ UNCHANGED <<screen, leaks, view, gets, queue, match, late, crossed>> /\ Spend("drop")
  BY DEF Drop, server, browser
<1>2. WireType /\ BrowserType /\ ServerType /\ QueueOK /\ sock \in Socket /\ match \in Match
  BY DEF IInv, TypeOK, WireType, ServerType
<1>3. sock' \in Socket /\ sock'.n = sock.n + 1 /\ ~sock'.up /\ sock.n \in Nat \ {0}
  BY <1>1, <1>2 DEF Socket
<1>4. WireType'
  <2>1. \A k \in closing' : k \in 1 .. sock.n
    BY <1>1, <1>2, <1>3 DEF WireType
  <2>2. sock'.n - 1 = sock.n
    BY <1>3
  <2>. QED
    BY <1>1, <1>3, <2>1, <2>2 DEF WireType
<1>5. match'.room <= sock'.n /\ match'.room # sock'.n
  BY <1>1, <1>2, <1>3 DEF ServerType, Match
<1>6. BrowserType' /\ ServerType'
  <2>1. left' \in [Kinds -> Nat]
    BY <1>1, <1>2, SpendType DEF Kinds, ServerType
  <2>. QED
    BY <1>1, <1>2, <1>5, <2>1 DEF BrowserType, ServerType
<1>7. QueueOK'
  <2>1. ~Has(out', "queue:join")
    BY <1>1, HasOne
  <2>2. ~slipped' => ~slipped /\ ~CancelLast(out)
    BY <1>1 DEF CancelLast
  <2>. QED
    BY <1>1, <1>2, <2>1, <2>2 DEF QueueOK, Coming
<1>8. Seated' /\ Latest' /\ Shown'
  BY <1>3, <1>5 DEF Seated, Latest, Shown
<1>. QED
  BY <1>4, <1>6, <1>7, <1>8 DEF IInv, TypeOK

\* The page of the queue is opened.
LEMMA OpenQueueKeeps ==
    ASSUME IInv, OpenQueue
    PROVE  IInv'
<1>. DEFINE w == [Blank EXCEPT !.visit = view.visit + 1]
<1>1. /\ screen = "lobby" /\ screen' = "queue" /\ leaks' = leaks + 1 /\ Spend("go")
      /\ IF sock.up THEN view' = EmitJoin(w) /\ out' = Append(out, Cmd("queue:join", 0))
         ELSE view' = [w EXCEPT !.onConnect = TRUE] /\ out' = out
      /\ UNCHANGED <<gets, sock, inbox, closing, queue, match, slipped, late, crossed>>
  BY DEF OpenQueue, server, ghosts
<1>2. /\ WireType /\ BrowserType /\ ServerType /\ QueueOK /\ out \in Seq(Request)
      /\ view.visit \in Nat /\ leaks \in Nat
  BY DEF IInv, TypeOK, WireType, BrowserType, View
<1>3. w \in View /\ w.visit = view.visit + 1 /\ ~w.joined
  <2>1. view.visit + 1 \in Nat
    BY <1>2
  <2>. QED
    BY <2>1, BlankType
<1>. HIDE DEF w
<1>4. /\ view' \in View /\ view'.visit = view.visit + 1 /\ (sock.up => view'.joined)
      /\ (~sock.up => ~view'.joined)
  <2>1. CASE sock.up
    <3>1. view' = EmitJoin(w)
      BY <1>1, <2>1
    <3>2. view' \in View /\ view'.visit = w.visit
      BY <1>3, <3>1 DEF View, EmitJoin
    <3>3. view'.joined
      BY <1>3, <3>1 DEF View, EmitJoin
    <3>. QED
      BY <1>3, <2>1, <3>2, <3>3
  <2>2. CASE ~sock.up
    <3>1. view' = [w EXCEPT !.onConnect = TRUE]
      BY <1>1, <2>2
    <3>2. view' \in View /\ view'.visit = w.visit
      BY <1>3, <3>1 DEF View
    <3>3. ~view'.joined
      BY <1>3, <3>1 DEF View
    <3>. QED
      BY <1>3, <2>2, <3>2, <3>3
  <2>. QED
    BY <2>1, <2>2
<1>5. WireType'
  <2>. DEFINE join == Cmd("queue:join", 0)
  <2>1. join \in Request
    BY CmdType DEF Requests
  <2>. HIDE DEF join
  <2>2. Append(out, join) \in Seq(Request)
    BY <1>2, <2>1
  <2>3. out' = Append(out, join) \/ out' = out
    BY <1>1 DEF join
  <2>4. out' \in Seq(Request)
    BY <1>2, <2>2, <2>3
  <2>. QED
    BY <1>1, <1>2, <2>4 DEF WireType
<1>6. BrowserType' /\ ServerType'
  <2>1. left' \in [Kinds -> Nat]
    BY <1>1, <1>2, SpendType DEF Kinds, ServerType
  <2>2. \A g \in gets' : g \in [visit : 0 .. view'.visit, got : State \cup {None}]
    BY <1>1, <1>2, <1>4 DEF BrowserType
  <2>3. BrowserType'
    BY <1>1, <1>2, <1>4, <2>2 DEF BrowserType
  <2>. QED
    BY <1>1, <1>2, <2>1, <2>3 DEF ServerType
<1>7. QueueOK'
  <2>1. leaks' > 0
    BY <1>1, <1>2
  <2>2. ~view'.joined => ~view.joined /\ UNCHANGED <<queue, out>>
    BY <1>1, <1>2, <1>4 DEF QueueOK
  <2>3. ~slipped' /\ ~view'.joined /\ Coming' => CancelLast(out')
    BY <1>1, <1>2, <2>2 DEF QueueOK, Coming
  <2>. QED
    BY <1>1, <1>2, <2>1, <2>3 DEF QueueOK
<1>8. Seated' /\ Shown'
  BY <1>1 DEF Seated, Shown
<1>9. Latest'
  BY <1>1 DEF IInv, Latest
<1>. QED
  BY <1>5, <1>6, <1>7, <1>8, <1>9 DEF IInv, TypeOK

\* A move or a timeout is sent with the version that is shown.
LEMMA PlayKeeps ==
    ASSUME IInv, NEW kind \in {"move:play", "turn:timeout"}, Play(kind)
    PROVE  IInv'
<1>1. /\ view.state # None /\ out' = Append(out, Cmd(kind, view.state.v)) /\ Spend("play")
      /\ UNCHANGED <<screen, leaks, view, gets, sock, inbox, closing, queue, match, slipped, late, crossed>>
  BY DEF Play, browser, server, ghosts
<1>2. /\ WireType /\ BrowserType /\ ServerType /\ QueueOK /\ out \in Seq(Request) /\ Seated
      /\ Latest /\ Shown /\ view.state \in State
  BY <1>1 DEF IInv, TypeOK, WireType, BrowserType, View
<1>. DEFINE e == Cmd(kind, view.state.v)
<1>3. e \in Request /\ e.kind = kind /\ <<e>> \in Seq(Request)
  BY <1>2, CmdType DEF State, Requests
<1>. HIDE DEF e
<1>4. out' = out \o <<e>> /\ out' \in Seq(Request)
  <2>1. out' = Append(out, e)
    BY <1>1 DEF e
  <2>. QED
    BY <1>2, <1>3, <2>1
<1>5. \A k \in {"queue:join", "match:join"} : Has(out', k) <=> Has(out, k)
  BY <1>2, <1>3, <1>4, HasConcat, HasOne
<1>6. CancelLast(out) => CancelLast(out')
  <2>1. ~Has(<<e>>, "queue:join")
    BY <1>3, HasOne
  <2>. QED
    BY <1>2, <1>3, <1>4, <2>1, CancelConcat
<1>7. TypeOK'
  <2>1. left' \in [Kinds -> Nat]
    BY <1>1, <1>2, SpendType DEF Kinds, ServerType
  <2>. QED
    BY <1>1, <1>2, <1>4, <2>1 DEF TypeOK, WireType, BrowserType, ServerType
<1>8. QueueOK'
  <2>1. Coming' => Coming
    BY <1>1, <1>5 DEF Coming
  <2>. QED
    BY <1>1, <1>2, <1>6, <2>1, QueueStays
<1>9. Seated'
  BY <1>1, <1>2, <1>5 DEF Seated
<1>10. Latest' /\ Shown'
  BY <1>1, <1>2, Untold
<1>. QED
  BY <1>7, <1>8, <1>9, <1>10 DEF IInv, TypeOK

------------------------------------------------------------------------------
(* Snapshots and events *)

\* A snapshot is the board of the moment it is taken.
LEMMA GetSnapshotKeeps ==
    ASSUME IInv, NEW g \in gets, GetSnapshot(g)
    PROVE  IInv'
<1>. DEFINE h == [g EXCEPT !.got = Snapshot]
<1>1. /\ gets' = (gets \ {g}) \cup {h}
      /\ UNCHANGED <<screen, leaks, view, sock, out, inbox, closing, queue, match, left,
                     slipped, late, crossed>>
  BY DEF GetSnapshot, wire, server, ghosts
<1>2. /\ WireType /\ BrowserType /\ ServerType /\ match \in Match /\ view.visit \in Nat
      /\ g \in [visit : 0 .. view.visit, got : State \cup {None}]
  BY DEF IInv, TypeOK, BrowserType, ServerType, View
<1>3. Snapshot \in State /\ Fresh(Snapshot, match)
  BY <1>2, SnapshotType
<1>4. /\ h \in [visit : 0 .. view.visit, got : State \cup {None}]
      /\ h.visit = g.visit /\ h.got = Snapshot
  BY <1>2, <1>3
<1>. HIDE DEF h
<1>5. TypeOK'
  <2>1. \A f \in gets' : f \in [visit : 0 .. view'.visit, got : State \cup {None}]
    BY <1>1, <1>2, <1>4 DEF BrowserType
  <2>. QED
    BY <1>1, <1>2, <2>1 DEF TypeOK, WireType, BrowserType, ServerType
<1>6. QueueOK' /\ Seated' /\ Latest'
  BY <1>1 DEF IInv, QueueOK, Coming, CancelLast, Has, Seated, Latest, Newest, Fresh
<1>7. Shown'
  <2>. SUFFICES ASSUME screen = "game", match.room = sock.n, ~crossed, ~Has(inbox, "session:state")
                PROVE  /\ \A f \in gets' : f.visit = view.visit /\ f.got # None => Fresh(f.got, match)
                       /\ Fresh(view.state, match) \/ \E f \in gets' : f.visit = view.visit
    BY <1>1 DEF Shown, Fresh
  <2>1. /\ \A f \in gets : f.visit = view.visit /\ f.got # None => Fresh(f.got, match)
        /\ Fresh(view.state, match) \/ \E f \in gets : f.visit = view.visit
    BY DEF IInv, Shown
  <2>. QED
    BY <1>1, <1>3, <1>4, <2>1
<1>. QED
  BY <1>5, <1>6, <1>7 DEF IInv, TypeOK

\* A snapshot that is shown, if it is still that of the page.
LEMMA LoadSnapshotKeeps ==
    ASSUME IInv, NEW g \in gets, LoadSnapshot(g)
    PROVE  IInv'
<1>. DEFINE w == [view EXCEPT !.state = g.got, !.error = None]
<1>1. /\ g.got # None /\ gets' = gets \ {g}
      /\ view' = IF g.visit # view.visit THEN view ELSE w
      /\ UNCHANGED <<screen, leaks, sock, out, inbox, closing, queue, match, left,
                     slipped, late, crossed>>
  BY DEF LoadSnapshot, wire, server, ghosts
<1>2. /\ WireType /\ BrowserType /\ ServerType /\ view \in View
      /\ g \in [visit : 0 .. view.visit, got : State \cup {None}]
  BY DEF IInv, TypeOK, BrowserType
<1>3. w \in View /\ w.visit = view.visit /\ w.state = g.got
  BY <1>2 DEF View
<1>4. (w.joined <=> view.joined) /\ (w.onConnect <=> view.onConnect)
  BY <1>2 DEF View
<1>. HIDE DEF w
<1>5. view' \in View /\ view'.visit = view.visit
  BY <1>1, <1>2, <1>3
<1>6. (view'.joined <=> view.joined) /\ (view'.onConnect <=> view.onConnect)
  BY <1>1, <1>4
<1>7. TypeOK'
  BY <1>1, <1>2, <1>5 DEF TypeOK, WireType, BrowserType, ServerType
<1>8. QueueOK'
  BY <1>1, <1>6 DEF IInv, QueueOK, Coming, CancelLast, Has
<1>9. Seated' /\ Latest'
  BY <1>1 DEF IInv, Has, Seated, Latest, Newest, Fresh
<1>10. Shown'
  <2>. SUFFICES ASSUME screen = "game", match.room = sock.n, ~crossed, ~Has(inbox, "session:state")
                PROVE  /\ \A f \in gets' : f.visit = view.visit /\ f.got # None => Fresh(f.got, match)
                       /\ Fresh(view'.state, match) \/ \E f \in gets' : f.visit = view.visit
    BY <1>1, <1>5 DEF Shown, Fresh
  <2>1. /\ \A f \in gets : f.visit = view.visit /\ f.got # None => Fresh(f.got, match)
        /\ Fresh(view.state, match) \/ \E f \in gets : f.visit = view.visit
    BY DEF IInv, Shown
  <2>. QED
    BY <1>1, <1>3, <2>1
<1>. QED
  BY <1>7, <1>8, <1>9, <1>10 DEF IInv, TypeOK

\* An event takes its place at the head of the rest.
LEMMA RestOfInbox ==
    ASSUME IInv, inbox # <<>>, inbox' = Tail(inbox), sock' = sock
    PROVE  /\ sock.up /\ inbox' \in Seq(Answer) /\ Head(inbox) \in Answer
           /\ (Newest(inbox, match) => Newest(inbox', match))
           /\ (Newest(inbox, match) /\ Head(inbox).kind = "session:state"
                /\ ~Has(inbox', "session:state") => Fresh(Head(inbox).state, match))
           /\ (Head(inbox).kind # "session:state" /\ ~Has(inbox', "session:state")
                => ~Has(inbox, "session:state"))
<1>1. inbox \in Seq(Answer) /\ sock.up /\ sock \in Socket
  BY DEF IInv, TypeOK, WireType, Socket
<1>. QED
  BY <1>1, Tails, NewestTail, HasTail

\* A board that arrives.
LEMMA SessionStateKeeps ==
    ASSUME IInv, inbox # <<>>, SessionState(Head(inbox))
    PROVE  IInv'
<1>. DEFINE e == Head(inbox)
            w == [view EXCEPT !.state = e.state, !.error = None]
<1>1. /\ e.kind = "session:state" /\ inbox' = Tail(inbox)
      /\ IF screen = "game"
         THEN view' = w /\ crossed' = (\E g \in gets : g.visit = view.visit /\ g.got # None)
         ELSE UNCHANGED <<view, crossed>>
      /\ UNCHANGED <<screen, leaks, gets, sock, out, closing, queue, match, left, slipped, late>>
  BY DEF SessionState, server
<1>2. /\ WireType /\ BrowserType /\ ServerType /\ view \in View /\ e \in Answer
      /\ inbox' \in Seq(Answer) /\ sock.up
  BY <1>1, RestOfInbox DEF IInv, TypeOK, BrowserType
<1>3. w \in View /\ w.visit = view.visit /\ w.state = e.state
  BY <1>2 DEF View, Answer
<1>4. (w.joined <=> view.joined) /\ (w.onConnect <=> view.onConnect)
  BY <1>2 DEF View
<1>. HIDE DEF w, e
<1>5. view' \in View /\ view'.visit = view.visit
  BY <1>1, <1>2, <1>3
<1>6. (view'.joined <=> view.joined) /\ (view'.onConnect <=> view.onConnect)
  BY <1>1, <1>4
<1>7. TypeOK'
  BY <1>1, <1>2, <1>5 DEF TypeOK, WireType, BrowserType, ServerType
<1>8. QueueOK'
  BY <1>1, <1>6 DEF IInv, QueueOK, Coming, CancelLast, Has
<1>9. Seated'
  BY <1>1 DEF IInv, Has, Seated
<1>10. Latest'
  BY <1>1, RestOfInbox DEF IInv, Latest
<1>11. Shown'
  <2>. SUFFICES ASSUME screen = "game", match.room = sock.n, ~crossed', ~Has(inbox', "session:state")
                PROVE  /\ \A f \in gets : f.visit = view.visit /\ f.got # None => Fresh(f.got, match)
                       /\ Fresh(view'.state, match)
    BY <1>1, <1>5 DEF Shown, Fresh
  <2>1. Newest(inbox, match)
    BY DEF IInv, Latest
  <2>2. Fresh(e.state, match)
    BY <1>1, <2>1, RestOfInbox DEF e
  <2>. QED
    BY <1>1, <1>3, <2>2
<1>. QED
  BY <1>7, <1>8, <1>9, <1>10, <1>11 DEF IInv, TypeOK

\* A refusal, and a conflict, which asks for the snapshot again.
LEMMA SessionErrorKeeps ==
    ASSUME IInv, inbox # <<>>, SessionError(Head(inbox))
    PROVE  IInv'
<1>. DEFINE e == Head(inbox)
            w == [view EXCEPT !.error = e.kind]
            g == [visit |-> view.visit, got |-> None]
<1>1. /\ e.kind # "session:state" /\ inbox' = Tail(inbox)
      /\ UNCHANGED <<screen, leaks, sock, out, closing, queue, match, left, slipped, late, crossed>>
  BY DEF SessionError, server, ghosts
<1>2. /\ WireType /\ BrowserType /\ ServerType /\ view \in View /\ e \in Answer
      /\ inbox' \in Seq(Answer) /\ sock.up
  BY <1>1, RestOfInbox DEF IInv, TypeOK, BrowserType
<1>3. w \in View /\ w.visit = view.visit /\ w.state = view.state
  BY <1>2 DEF View, Answer
<1>4. (w.joined <=> view.joined) /\ (w.onConnect <=> view.onConnect)
  BY <1>2 DEF View
<1>12. view.visit \in 0 .. view.visit
  BY <1>2 DEF View
<1>13. g \in [visit : 0 .. view.visit, got : State \cup {None}] /\ g.got = None
  BY <1>12
<1>. HIDE DEF w, e, g
<1>5. view' = w \/ view' = view
  BY DEF SessionError, w, e
<1>14. gets' = gets \/ gets' = gets \cup {g}
  BY DEF SessionError, g
<1>15. view' \in View /\ view'.visit = view.visit /\ view'.state = view.state
  BY <1>2, <1>3, <1>5
<1>6. (view'.joined <=> view.joined) /\ (view'.onConnect <=> view.onConnect)
  BY <1>4, <1>5
<1>7. TypeOK'
  <2>1. \A f \in gets' : f \in [visit : 0 .. view'.visit, got : State \cup {None}]
    BY <1>2, <1>13, <1>14, <1>15 DEF BrowserType
  <2>. QED
    BY <1>1, <1>2, <1>15, <2>1 DEF TypeOK, WireType, BrowserType, ServerType
<1>8. QueueOK'
  BY <1>1, <1>6 DEF IInv, QueueOK, Coming, CancelLast, Has
<1>9. Seated'
  BY <1>1 DEF IInv, Has, Seated
<1>10. Latest'
  BY <1>1, RestOfInbox DEF IInv, Latest
<1>11. Shown'
  <2>. SUFFICES ASSUME screen = "game", match.room = sock.n, ~crossed, ~Has(inbox', "session:state")
                PROVE  /\ \A f \in gets' : f.visit = view.visit /\ f.got # None => Fresh(f.got, match)
                       /\ Fresh(view.state, match) \/ \E f \in gets' : f.visit = view.visit
    BY <1>1, <1>15 DEF Shown, Fresh
  <2>1. ~Has(inbox, "session:state")
    BY <1>1, RestOfInbox DEF e
  <2>2. /\ \A f \in gets : f.visit = view.visit /\ f.got # None => Fresh(f.got, match)
        /\ Fresh(view.state, match) \/ \E f \in gets : f.visit = view.visit
    BY <2>1 DEF IInv, Shown
  <2>. QED
    BY <1>13, <1>14, <2>2
<1>. QED
  BY <1>7, <1>8, <1>9, <1>10, <1>11 DEF IInv, TypeOK

\* A pairing opens the board, if the page of the queue is still there.
LEMMA MatchedKeeps ==
    ASSUME IInv, inbox # <<>>, Matched(Head(inbox))
    PROVE  IInv'
<1>. DEFINE e == Head(inbox)
            g == [visit |-> view.visit + 1, got |-> None]
            hello == <<Cmd("match:join", 0)>>
<1>1. /\ e.kind = "matchmaking:matched" /\ inbox' = Tail(inbox)
      /\ UNCHANGED <<leaks, sock, closing, queue, match, left, late, crossed>>
  BY DEF Matched, server
<1>2. /\ WireType /\ BrowserType /\ ServerType /\ QueueOK /\ view \in View /\ e \in Answer
      /\ inbox' \in Seq(Answer) /\ sock.up /\ view.visit \in Nat /\ out \in Seq(Request)
      /\ Newest(inbox, match) \/ match.room # sock.n
  BY <1>1, RestOfInbox DEF IInv, TypeOK, BrowserType, View, WireType, Latest
<1>3. Latest'
  BY <1>1, RestOfInbox DEF IInv, Latest
<1>4. CASE screen # "queue"
  <2>1. UNCHANGED <<screen, out, view, gets, slipped>>
    BY <1>4 DEF Matched
  <2>2. TypeOK'
    BY <1>1, <1>2, <2>1 DEF TypeOK, WireType, BrowserType, ServerType
  <2>3. QueueOK' /\ Seated'
    BY <1>1, <2>1 DEF IInv, QueueOK, Coming, CancelLast, Has, Seated
  <2>4. ~Has(inbox', "session:state") => ~Has(inbox, "session:state")
    BY <1>1, RestOfInbox DEF e
  <2>5. Shown'
    BY <1>1, <2>1, <2>4 DEF IInv, Shown, Fresh
  <2>. QED
    BY <1>3, <2>2, <2>3, <2>5 DEF IInv, TypeOK
<1>5. CASE screen = "queue"
  <2>1. /\ screen' = "game" /\ view' = [Blank EXCEPT !.visit = view.visit + 1]
        /\ gets' = gets \cup {g} /\ out' = Append(out, Cmd("match:join", 0))
        /\ slipped' = (slipped \/ queue.joining \/ queue.in
                        \/ \E i \in DOMAIN out : out[i].kind = "queue:join")
    BY <1>2, <1>5 DEF Matched
  <2>2. view' \in View /\ view'.visit = view.visit + 1 /\ ~view'.joined /\ ~view'.onConnect
    <3>1. view.visit + 1 \in Nat
      BY <1>2
    <3>. QED
      BY <2>1, <3>1, BlankType
  <2>3. /\ hello \in Seq(Request) /\ out' = out \o hello /\ out' \in Seq(Request)
        /\ Has(hello, "match:join") /\ ~Has(hello, "queue:join")
    <3>1. Cmd("match:join", 0) \in Request /\ Cmd("match:join", 0).kind = "match:join"
      BY CmdType DEF Requests
    <3>2. Has(hello, "match:join") /\ ~Has(hello, "queue:join")
      BY <3>1, HasOne
    <3>3. hello \in Seq(Request) /\ out' = out \o hello
      BY <1>2, <2>1, <3>1, AppendIs
    <3>. QED
      BY <1>2, <3>2, <3>3, Concats
  <2>. HIDE DEF hello
  <2>4. g.visit = view'.visit /\ g.got = None /\ \A f \in gets : f.visit # view'.visit
    BY <1>2, <2>2 DEF BrowserType
  <2>5. TypeOK'
    <3>1. \A f \in gets' : f \in [visit : 0 .. view'.visit, got : State \cup {None}]
      BY <1>2, <2>1, <2>2 DEF BrowserType
    <3>. QED
      BY <1>1, <1>2, <2>1, <2>2, <2>3, <3>1 DEF TypeOK, WireType, BrowserType, ServerType
  <2>. HIDE DEF g
  <2>6. QueueOK'
    <3>1. Has(out', "queue:join") => Has(out, "queue:join")
      BY <1>2, <2>3, HasConcat
    <3>2. Coming' => Coming
      BY <1>1, <3>1 DEF Coming
    <3>3. ~slipped' => ~Coming
      BY <2>1 DEF Coming, Has
    <3>. QED
      BY <1>1, <1>2, <2>1, <2>2, <3>2, <3>3 DEF QueueOK
  <2>7. Seated'
    <3>1. Has(out', "match:join")
      BY <1>2, <2>3, HasConcat
    <3>. QED
      BY <3>1 DEF Seated
  <2>8. Shown'
    BY <2>1, <2>4 DEF Shown
  <2>. QED
    BY <1>3, <2>5, <2>6, <2>7, <2>8 DEF IInv, TypeOK
<1>. QED
  BY <1>4, <1>5

------------------------------------------------------------------------------
(* The socket server *)

\* A command is taken from the wire.
LEMMA Served ==
    ASSUME out \in Seq(Request), NEW kind, Serves(kind)
    PROVE  /\ sock.up /\ out' \in Seq(Request)
           /\ \A k : Has(out', k) => Has(out, k)
           /\ \A k : k # kind /\ Has(out, k) => Has(out', k)
           /\ Has(out, kind)
           /\ CancelLast(out) /\ (kind # "queue:cancel" \/ Has(out', "queue:join"))
                => CancelLast(out')
<1>1. out # <<>> /\ Head(out).kind = kind /\ out' = Tail(out) /\ sock.up
  BY DEF Serves
<1>2. Head(out) = out[1] /\ 1 \in DOMAIN out /\ out' \in Seq(Request)
  BY <1>1, Tails
<1>3. \A k : (Has(out', k) => Has(out, k)) /\ (k # kind /\ Has(out, k) => Has(out', k))
  BY <1>1, HasTail
<1>4. Has(out, kind)
  BY <1>1, <1>2 DEF Has
<1>. QED
  BY <1>1, <1>2, <1>3, <1>4, CancelTail

\* What the server tells keeps the wire well formed.
LEMMA TellType ==
    ASSUME WireType, NEW es \in Seq(Answer), Tell(es), out' \in Seq(Request), sock' = sock,
           closing' \subseteq closing
    PROVE  WireType'
<1>1. inbox' \in Seq(Answer)
  BY Concats DEF Tell, WireType
<1>2. ~sock.up => inbox' = <<>>
  BY DEF Tell, WireType
<1>. QED
  BY <1>1, <1>2 DEF WireType

\* The commands of the queue.
LEMMA QueueCommandKeeps ==
    ASSUME IInv, QueueJoin \/ JoinStored \/ QueueCancel
    PROVE  IInv'
<1>1. /\ WireType /\ BrowserType /\ ServerType /\ QueueOK /\ Seated /\ Latest /\ Shown
      /\ out \in Seq(Request) /\ queue \in [in : BOOLEAN, joining : BOOLEAN]
  BY DEF IInv, TypeOK, WireType, ServerType
<1>2. UNCHANGED <<screen, leaks, view, gets, sock, inbox, closing, match, left, late, crossed>>
  BY DEF QueueJoin, JoinStored, QueueCancel, browser, wire, ghosts
<1>3. Latest' /\ Shown'
  BY <1>1, <1>2, Untold
<1>4. CASE QueueJoin
  <2>1. Serves("queue:join") /\ queue' = [queue EXCEPT !.joining = TRUE] /\ slipped' = slipped
    BY <1>4 DEF QueueJoin, ghosts
  <2>2. queue' \in [in : BOOLEAN, joining : BOOLEAN]
    BY <1>1, <2>1
  <2>3. /\ out' \in Seq(Request) /\ (Has(out, "match:join") => Has(out', "match:join"))
        /\ Has(out, "queue:join") /\ (CancelLast(out) => CancelLast(out'))
    BY <1>1, <2>1, Served
  <2>4. Coming
    BY <2>3 DEF Coming
  <2>5. QueueOK'
    BY <1>1, <1>2, <2>1, <2>3, <2>4, QueueStays
  <2>6. Seated'
    BY <1>1, <1>2, <2>3 DEF Seated
  <2>7. TypeOK'
    BY <1>1, <1>2, <2>2, <2>3 DEF TypeOK, WireType, BrowserType, ServerType
  <2>. QED
    BY <1>3, <2>5, <2>6, <2>7 DEF IInv
<1>5. CASE JoinStored
  <2>1. /\ queue.joining /\ queue' = [in |-> TRUE, joining |-> FALSE] /\ slipped' = slipped
        /\ out' = out
    BY <1>5 DEF JoinStored, ghosts, wire
  <2>2. queue' \in [in : BOOLEAN, joining : BOOLEAN]
    BY <2>1
  <2>3. Coming
    BY <2>1 DEF Coming
  <2>4. QueueOK'
    BY <1>1, <1>2, <2>1, <2>3, QueueStays
  <2>5. Seated'
    BY <1>1, <1>2, <2>1 DEF Seated
  <2>6. TypeOK'
    BY <1>1, <1>2, <2>1, <2>2 DEF TypeOK, WireType, BrowserType, ServerType
  <2>. QED
    BY <1>3, <2>4, <2>5, <2>6 DEF IInv
<1>6. CASE QueueCancel
  <2>1. Serves("queue:cancel") /\ queue' = [queue EXCEPT !.in = FALSE]
        /\ slipped' = (slipped \/ queue.joining)
    BY <1>6 DEF QueueCancel
  <2>2. queue' \in [in : BOOLEAN, joining : BOOLEAN]
    BY <1>1, <2>1
  <2>8. ~queue'.in /\ (queue'.joining => queue.joining)
    BY <1>1, <2>1
  <2>3. /\ out' \in Seq(Request) /\ (Has(out, "match:join") => Has(out', "match:join"))
        /\ (Has(out', "queue:join") => Has(out, "queue:join"))
        /\ (CancelLast(out) /\ Has(out', "queue:join") => CancelLast(out'))
    BY <1>1, <2>1, Served
  <2>4. Coming' => Coming
    BY <2>3, <2>8 DEF Coming
  <2>9. ~slipped' /\ Coming' => Has(out', "queue:join")
    BY <2>1, <2>8 DEF Coming
  <2>5. QueueOK'
    BY <1>1, <1>2, <2>1, <2>3, <2>4, <2>9, QueueStays
  <2>6. Seated'
    BY <1>1, <1>2, <2>3 DEF Seated
  <2>7. TypeOK'
    BY <1>1, <1>2, <2>2, <2>3 DEF TypeOK, WireType, BrowserType, ServerType
  <2>. QED
    BY <1>3, <2>5, <2>6, <2>7 DEF IInv
<1>. QED
  BY <1>4, <1>5, <1>6

\* The worker pairs the user.
LEMMA PairKeeps ==
    ASSUME IInv, Pair
    PROVE  IInv'
<1>. DEFINE es == <<Event("matchmaking:matched", None)>>
<1>1. /\ WireType /\ BrowserType /\ ServerType /\ QueueOK /\ Seated /\ Latest /\ Shown
      /\ match \in Match /\ queue \in [in : BOOLEAN, joining : BOOLEAN]
  BY DEF IInv, TypeOK, ServerType
<1>2. /\ queue' = [queue EXCEPT !.in = FALSE] /\ match' = [match EXCEPT !.live = TRUE] /\ Tell(es)
      /\ UNCHANGED <<screen, leaks, view, gets, sock, out, closing, left, slipped, late, crossed>>
  BY DEF Pair, browser, ghosts
<1>3. queue' \in [in : BOOLEAN, joining : BOOLEAN] /\ ~queue'.in /\ (queue'.joining => queue.joining)
  BY <1>1, <1>2
<1>4. match' \in Match /\ match'.room = match.room /\ match'.moves = match.moves
  BY <1>1, <1>2 DEF Match
<1>5. match'.over = match.over
  BY <1>1, <1>2 DEF Match
<1>6. match'.lapsed = match.lapsed
  BY <1>1, <1>2 DEF Match
<1>7. match'.away = match.away
  BY <1>1, <1>2 DEF Match
<1>8. es \in Seq(Answer) /\ Newest(es, match')
  <2>1. "matchmaking:matched" \in Answers
    BY DEF Answers
  <2>2. /\ Event("matchmaking:matched", None).kind = "matchmaking:matched"
        /\ es \in Seq(Answer)
    BY <2>1, EventType
  <2>. QED
    BY <2>2, NewestOne
<1>. HIDE DEF es
<1>9. match'.room = sock.n => sock.up
  BY <1>1, <1>4 DEF ServerType
<1>10. Latest' /\ Shown'
  BY <1>1, <1>2, <1>4, <1>5, <1>8, <1>9, Told
<1>11. WireType'
  <2>1. out' \in Seq(Request)
    BY <1>1, <1>2 DEF WireType
  <2>. QED
    BY <1>1, <1>2, <1>8, <2>1, TellType
<1>12. BrowserType' /\ ServerType'
  BY <1>1, <1>2, <1>3, <1>4 DEF BrowserType, ServerType
<1>13. QueueOK'
  <2>1. Coming' => Coming
    BY <1>2, <1>3 DEF Coming
  <2>. QED
    BY <1>1, <1>2, <2>1, QueueStays
<1>14. Seated'
  BY <1>1, <1>2, <1>4, <1>5, <1>6, <1>7, SeatedStays
<1>. QED
  BY <1>10, <1>11, <1>12, <1>13, <1>14 DEF IInv, TypeOK

\* A step of the match about which the room is told, unless it changes nothing
\* that is shown.
LEMMA MatchStepKeeps ==
    ASSUME IInv, NEW es \in Seq(Answer), Tell(es),
           UNCHANGED <<screen, leaks, view, gets, sock, closing, queue, slipped, late, crossed>>,
           left' \in [Kinds -> Nat], match' \in Match, match'.room = match.room,
           match.over => match'.over, match.lapsed => match'.lapsed, match'.away => match.away,
           out' \in Seq(Request), Has(out', "queue:join") => Has(out, "queue:join"),
           Has(out, "match:join") => Has(out', "match:join"), CancelLast(out) => CancelLast(out'),
           InRoom => /\ Newest(es, match')
                     /\ \/ Has(es, "session:state")
                        \/ match'.moves = match.moves /\ match'.over = match.over
    PROVE  IInv'
<1>1. WireType /\ BrowserType /\ ServerType /\ QueueOK /\ Seated /\ Latest /\ Shown /\ match \in Match
  BY DEF IInv, TypeOK, ServerType
<1>2. match'.room = sock.n => InRoom
  BY <1>1 DEF ServerType, InRoom
<1>3. InRoom => sock.up
  BY DEF InRoom
<1>4. Latest' /\ Shown'
  BY <1>1, <1>2, <1>3, Told
<1>5. WireType'
  BY <1>1, TellType
<1>6. BrowserType' /\ ServerType'
  BY <1>1 DEF BrowserType, ServerType
<1>7. QueueOK'
  <2>1. Coming' => Coming
    BY DEF Coming
  <2>. QED
    BY <1>1, <2>1, QueueStays
<1>8. Seated'
  BY <1>1, SeatedStays
<1>. QED
  BY <1>4, <1>5, <1>6, <1>7, <1>8 DEF IInv, TypeOK

\* The same when nobody is told.
LEMMA QuietStepKeeps ==
    ASSUME IInv,
           UNCHANGED <<screen, leaks, view, gets, sock, inbox, closing, queue, slipped, late, crossed>>,
           left' \in [Kinds -> Nat], match' \in Match, match'.room = match.room,
           match'.over = match.over, match'.moves = match.moves,
           match.lapsed => match'.lapsed, match'.away => match.away,
           out' \in Seq(Request), Has(out', "queue:join") => Has(out, "queue:join"),
           Has(out, "match:join") => Has(out', "match:join"), CancelLast(out) => CancelLast(out')
    PROVE  IInv'
<1>1. WireType /\ BrowserType /\ ServerType /\ QueueOK /\ Seated /\ Latest /\ Shown /\ match \in Match
  BY DEF IInv, TypeOK, ServerType
<1>2. Latest' /\ Shown'
  BY <1>1, Untold
<1>3. WireType' /\ BrowserType' /\ ServerType'
  BY <1>1 DEF WireType, BrowserType, ServerType
<1>4. QueueOK'
  <2>1. Coming' => Coming
    BY DEF Coming
  <2>. QED
    BY <1>1, <2>1, QueueStays
<1>5. Seated'
  BY <1>1, SeatedStays
<1>. QED
  BY <1>2, <1>3, <1>4, <1>5 DEF IInv, TypeOK

\* What the room is told is the board of the match.
LEMMA ToRoomType ==
    ASSUME NEW s \in State, NEW m, Fresh(s, m)
    PROVE  /\ ToRoom(s) \in Seq(Answer) /\ Newest(ToRoom(s), m)
           /\ InRoom => Has(ToRoom(s), "session:state")
<1>1. "session:state" \in Answers /\ s \in State \cup {None}
  BY DEF Answers
<1>. DEFINE e == Event("session:state", s)
<1>2. e \in Answer /\ e.kind = "session:state" /\ e.state = s /\ <<e>> \in Seq(Answer)
  BY <1>1, EventType
<1>. HIDE DEF e
<1>3. Newest(<<e>>, m) /\ Newest(<<>>, m) /\ Has(<<e>>, "session:state")
  BY <1>2, NewestOne, HasOne
<1>4. ToRoom(s) = IF InRoom THEN <<e>> ELSE <<>>
  BY DEF ToRoom, e
<1>. QED
  BY <1>2, <1>3, <1>4

\* A refusal says nothing about the board.
LEMMA RefuseType ==
    ASSUME NEW kind \in {"VERSION_CONFLICT", "refused"}, NEW m
    PROVE  /\ <<Event(kind, None), Event(kind, None)>> \in Seq(Answer)
           /\ <<Event(kind, None)>> \in Seq(Answer) /\ Newest(<<Event(kind, None)>>, m)
           /\ Newest(<<Event(kind, None), Event(kind, None)>>, m)
<1>. DEFINE e == Event(kind, None)
<1>1. e \in Answer /\ e.kind # "session:state"
  <2>1. kind \in Answers
    BY DEF Answers
  <2>. QED
    BY <2>1, EventType
<1>. HIDE DEF e
<1>2. <<e, e>> \in Seq(Answer) /\ <<e>> \in Seq(Answer)
  BY <1>1
<1>3. Newest(<<e>>, m) /\ Newest(<<e, e>>, m)
  BY <1>1 DEF Newest
<1>. QED
  BY <1>2, <1>3 DEF e

\* Joining the match: the room, and the board it has.
LEMMA MatchJoinKeeps ==
    ASSUME IInv, MatchJoin
    PROVE  IInv'
<1>1. /\ WireType /\ BrowserType /\ ServerType /\ QueueOK /\ Seated /\ Latest /\ Shown
      /\ match \in Match /\ out \in Seq(Request) /\ sock \in Socket /\ sock.n \in Nat
  BY DEF IInv, TypeOK, ServerType, WireType, Socket
<1>2. /\ Serves("match:join")
      /\ UNCHANGED <<screen, leaks, view, gets, sock, closing, queue, left, slipped, crossed>>
  BY DEF MatchJoin, browser
<1>3. /\ sock.up /\ out' \in Seq(Request) /\ (Has(out', "queue:join") => Has(out, "queue:join"))
      /\ (CancelLast(out) => CancelLast(out'))
  BY <1>1, <1>2, Served
<1>4. QueueOK'
  <2>1. Coming' => Coming
    BY <1>2, <1>3 DEF Coming
  <2>. QED
    BY <1>1, <1>2, <1>3, <2>1, QueueStays
<1>5. CASE match.over \/ match.lapsed
  <2>. DEFINE es == <<Event("refused", None), Event("refused", None)>>
  <2>1. Tell(es) /\ match' = match /\ late' = late
    BY <1>5 DEF MatchJoin, Refuse
  <2>2. es \in Seq(Answer) /\ Newest(es, match')
    BY RefuseType
  <2>. HIDE DEF es
  <2>3. Latest' /\ Shown'
    BY <1>1, <1>2, <1>3, <2>1, <2>2, Told
  <2>4. WireType'
    BY <1>1, <1>2, <1>3, <2>1, <2>2, TellType
  <2>5. BrowserType' /\ ServerType' /\ Seated'
    BY <1>1, <1>2, <1>5, <2>1 DEF BrowserType, ServerType, Seated
  <2>. QED
    BY <1>4, <2>3, <2>4, <2>5 DEF IInv, TypeOK
<1>6. CASE ~(match.over \/ match.lapsed)
  <2>. DEFINE s == [Snapshot EXCEPT !.v = @ + 1]
              e == Event("session:state", s)
  <2>1. match' = [match EXCEPT !.away = FALSE, !.v = @ + 1, !.room = sock.n] /\ Tell(<<e>>)
    BY <1>6 DEF MatchJoin, JoinAnswer
  <2>2. /\ match' \in Match /\ match'.room = sock.n /\ match'.moves = match.moves
        /\ match'.over = match.over
    BY <1>1, <2>1, RoomType
  <2>3. match'.away = FALSE
    BY <1>1, <2>1, RoomType
  <2>4. s \in State /\ Fresh(s, match')
    <3>1. Snapshot \in State /\ Snapshot.moves = match.moves /\ Snapshot.over = match.over
      BY <1>1, SnapshotType DEF Fresh
    <3>. HIDE DEF Snapshot
    <3>2. s \in State
      BY <3>1, Counts, StateWith
    <3>3. s.moves = match.moves
      BY <3>1 DEF State
    <3>4. s.over = match.over
      BY <3>1 DEF State
    <3>. HIDE DEF s
    <3>. QED
      BY <2>2, <3>2, <3>3, <3>4, NoneIsNoState DEF Fresh
  <2>. HIDE DEF s
  <2>5. e \in Answer /\ e.kind = "session:state" /\ e.state = s /\ <<e>> \in Seq(Answer)
    <3>1. "session:state" \in Answers /\ s \in State \cup {None}
      BY <2>4 DEF Answers
    <3>. QED
      BY <3>1, EventType
  <2>. HIDE DEF e
  <2>6. Newest(<<e>>, match') /\ Has(<<e>>, "session:state")
    BY <2>4, <2>5, NewestOne, HasOne
  <2>7. Latest' /\ Shown'
    BY <1>1, <1>2, <1>3, <2>1, <2>5, <2>6, Told
  <2>8. WireType'
    BY <1>1, <1>2, <1>3, <2>1, <2>5, TellType
  <2>9. BrowserType' /\ ServerType' /\ Seated'
    BY <1>1, <1>2, <1>3, <2>2, <2>3 DEF BrowserType, ServerType, Seated
  <2>. QED
    BY <1>4, <2>7, <2>8, <2>9 DEF IInv, TypeOK
<1>. QED
  BY <1>5, <1>6

\* A move, or a timeout, of this player.
LEMMA CommandKeeps ==
    ASSUME IInv, MovePlay \/ TurnTimeout
    PROVE  IInv'
<1>1. match \in Match /\ out \in Seq(Request) /\ left \in [Kinds -> Nat]
  BY DEF IInv, TypeOK, ServerType, WireType
<1>2. /\ UNCHANGED <<screen, leaks, view, gets, sock, closing, queue, left, slipped, late, crossed>>
      /\ Serves("move:play") \/ Serves("turn:timeout")
  BY DEF MovePlay, TurnTimeout, browser, ghosts
<1>3. /\ out' \in Seq(Request) /\ (Has(out', "queue:join") => Has(out, "queue:join"))
      /\ (Has(out, "match:join") => Has(out', "match:join"))
      /\ (CancelLast(out) => CancelLast(out'))
  BY <1>1, <1>2, Served
<1>4. ASSUME NEW es \in Seq(Answer), Tell(es), match' = match, Newest(es, match)
      PROVE  IInv'
  BY <1>1, <1>2, <1>3, <1>4, MatchStepKeeps
<1>5. ASSUME match' = Moved, Tell(ToRoom(AfterMove))
      PROVE  IInv'
  <2>1. /\ Moved \in Match /\ Moved.room = match.room /\ Moved.over = match.over
        /\ Moved.lapsed = match.lapsed /\ Moved.away = match.away
        /\ AfterMove \in State /\ Fresh(AfterMove, Moved)
    BY <1>1, MovedType
  <2>. DEFINE es == ToRoom(AfterMove)
  <2>2. es \in Seq(Answer) /\ Newest(es, match') /\ (InRoom => Has(es, "session:state"))
    BY <1>5, <2>1, ToRoomType
  <2>. HIDE DEF es
  <2>3. Tell(es)
    BY <1>5 DEF es
  <2>. QED
    BY <1>1, <1>2, <1>3, <1>5, <2>1, <2>2, <2>3, MatchStepKeeps
<1>6. CASE MovePlay
  <2>1. \/ Refuse("refused") /\ match' = match
        \/ /\ Tell(<<Event("VERSION_CONFLICT", None)>> \o ToRoom(Snapshot)
                    \o <<Event("VERSION_CONFLICT", None)>>)
           /\ match' = match
        \/ match' = Moved /\ Tell(ToRoom(AfterMove))
    BY <1>6 DEF MovePlay
  <2>2. CASE Refuse("refused") /\ match' = match
    <3>. DEFINE es == <<Event("refused", None), Event("refused", None)>>
    <3>1. es \in Seq(Answer) /\ Newest(es, match) /\ Tell(es)
      BY <2>2, RefuseType DEF Refuse
    <3>. HIDE DEF es
    <3>. QED
      BY <1>4, <2>2, <3>1
  <2>3. CASE /\ Tell(<<Event("VERSION_CONFLICT", None)>> \o ToRoom(Snapshot)
                      \o <<Event("VERSION_CONFLICT", None)>>)
             /\ match' = match
    <3>. DEFINE c == <<Event("VERSION_CONFLICT", None)>>
                r == ToRoom(Snapshot)
    <3>1. c \in Seq(Answer) /\ Newest(c, match)
      BY RefuseType
    <3>2. r \in Seq(Answer) /\ Newest(r, match)
      BY <1>1, SnapshotType, ToRoomType
    <3>3. Tell((c \o r) \o c)
      BY <2>3
    <3>. HIDE DEF c, r
    <3>4. c \o r \in Seq(Answer) /\ (c \o r) \o c \in Seq(Answer)
      BY <3>1, <3>2, Concats
    <3>5. Newest(c \o r, match)
      BY <3>1, <3>2, NewestConcat
    <3>6. Newest((c \o r) \o c, match)
      BY <3>1, <3>4, <3>5, NewestConcat
    <3>. QED
      BY <1>4, <2>3, <3>3, <3>4, <3>6
  <2>. QED
    BY <1>5, <2>1, <2>2, <2>3
<1>7. CASE TurnTimeout
  <2>1. \/ match' = match /\ inbox' = inbox
        \/ match' = Moved /\ Tell(ToRoom(AfterMove))
    BY <1>7 DEF TurnTimeout
  <2>2. CASE match' = match /\ inbox' = inbox
    BY <1>1, <1>2, <1>3, <2>2, QuietStepKeeps
  <2>. QED
    BY <1>5, <2>1, <2>2
<1>. QED
  BY <1>6, <1>7

\* The opponent, the deadline and the sweep.
LEMMA OthersKeep ==
    ASSUME IInv, OpponentMoves \/ OpponentConnection \/ GraceRunsOut \/ ExpireGrace
    PROVE  IInv'
<1>1. match \in Match /\ out \in Seq(Request) /\ left \in [Kinds -> Nat]
  BY DEF IInv, TypeOK, ServerType, WireType
<1>2. UNCHANGED <<screen, leaks, view, gets, sock, out, closing, queue, slipped, late, crossed>>
  BY DEF OpponentMoves, OpponentConnection, GraceRunsOut, ExpireGrace, browser, wire, ghosts
<1>3. left' \in [Kinds -> Nat]
  <2>1. Spend("opponent") \/ Spend("grace") \/ left' = left
    BY DEF OpponentMoves, OpponentConnection, GraceRunsOut, ExpireGrace
  <2>. QED
    BY <1>1, <2>1, SpendType DEF Kinds
<1>4. CASE OpponentMoves
  <2>1. PICK over \in BOOLEAN :
          /\ match' = [Moved EXCEPT !.over = over] /\ Tell(ToRoom([AfterMove EXCEPT !.over = over]))
    BY <1>4 DEF OpponentMoves
  <2>. DEFINE s == [AfterMove EXCEPT !.over = over]
              es == ToRoom(s)
  <2>2. /\ match' \in Match /\ match'.room = match.room /\ match'.lapsed = match.lapsed
        /\ match'.away = match.away /\ ~match.over
    BY <1>1, <1>4, <2>1, MovedType DEF OpponentMoves
  <2>3. s \in State /\ Fresh(s, match')
    BY <1>1, <2>1, MovedType
  <2>4. Tell(es)
    BY <2>1
  <2>. HIDE DEF s
  <2>5. es \in Seq(Answer) /\ Newest(es, match') /\ (InRoom => Has(es, "session:state"))
    BY <2>3, ToRoomType
  <2>. HIDE DEF es
  <2>. QED
    BY <1>1, <1>2, <1>3, <2>2, <2>4, <2>5, MatchStepKeeps
<1>5. CASE OpponentConnection
  <2>. DEFINE m == [match EXCEPT !.v = @ + 1]
  <2>1. match' = m /\ inbox' = inbox
    BY <1>5 DEF OpponentConnection, wire
  <2>2. m \in Match
    BY <1>1, Counts, MatchWith
  <2>3. m.room = match.room /\ m.moves = match.moves
    BY <1>1 DEF Match
  <2>4. m.over = match.over
    BY <1>1 DEF Match
  <2>5. m.lapsed = match.lapsed
    BY <1>1 DEF Match
  <2>6. m.away = match.away
    BY <1>1 DEF Match
  <2>. HIDE DEF m
  <2>. QED
    BY <1>1, <1>2, <1>3, <2>1, <2>2, <2>3, <2>4, <2>5, <2>6, QuietStepKeeps
<1>6. CASE GraceRunsOut
  <2>. DEFINE m == [match EXCEPT !.lapsed = TRUE]
  <2>1. match' = m /\ inbox' = inbox
    BY <1>6 DEF GraceRunsOut, wire
  <2>2. m \in Match
    <3>1. 0 \in Nat /\ TRUE \in BOOLEAN
      OBVIOUS
    <3>. QED
      BY <1>1, <3>1, MatchWith
  <2>3. m.room = match.room /\ m.moves = match.moves
    BY <1>1 DEF Match
  <2>4. m.over = match.over
    BY <1>1 DEF Match
  <2>5. m.lapsed
    BY <1>1 DEF Match
  <2>6. m.away = match.away
    BY <1>1 DEF Match
  <2>. HIDE DEF m
  <2>. QED
    BY <1>1, <1>2, <1>3, <2>1, <2>2, <2>3, <2>4, <2>5, <2>6, QuietStepKeeps
<1>7. CASE ExpireGrace
  <2>. DEFINE m == [match EXCEPT !.over = TRUE, !.v = @ + 1]
              s == [Snapshot EXCEPT !.over = TRUE, !.v = @ + 1]
              es == ToRoom(s)
  <2>1. match' = m /\ Tell(es)
    BY <1>7 DEF ExpireGrace
  <2>2. m \in Match /\ m.room = match.room /\ m.over = TRUE /\ s \in State /\ Fresh(s, m)
    BY <1>1, EndedType
  <2>3. m.lapsed = match.lapsed
    BY <1>1 DEF Match
  <2>4. m.away = match.away
    BY <1>1 DEF Match
  <2>. HIDE DEF m, s
  <2>5. es \in Seq(Answer) /\ Newest(es, match') /\ (InRoom => Has(es, "session:state"))
    BY <2>1, <2>2, ToRoomType
  <2>. HIDE DEF es
  <2>. QED
    BY <1>1, <1>2, <1>3, <2>1, <2>2, <2>3, <2>4, <2>5, MatchStepKeeps
<1>. QED
  BY <1>4, <1>5, <1>6, <1>7

\* The server notices that a socket is gone: of an older one after the newer
\* one has joined, it is late.
LEMMA DisconnectKeeps ==
    ASSUME IInv, NEW k \in closing, Disconnect(k)
    PROVE  IInv'
<1>1. /\ WireType /\ BrowserType /\ ServerType /\ QueueOK /\ Seated /\ Latest /\ Shown
      /\ match \in Match /\ sock \in Socket /\ queue \in [in : BOOLEAN, joining : BOOLEAN]
  BY DEF IInv, TypeOK, ServerType, WireType
<1>2. /\ closing' = closing \ {k}
      /\ UNCHANGED <<screen, leaks, view, gets, sock, out, inbox, left, slipped, crossed>>
      /\ \E in \in {queue.in, FALSE} : queue' = [queue EXCEPT !.in = in]
  BY DEF Disconnect, browser
<1>3. k \in Nat \ {0} /\ k # sock.n /\ sock.n \in Nat \ {0}
  BY <1>1 DEF WireType, Socket
<1>4. /\ queue' \in [in : BOOLEAN, joining : BOOLEAN]
      /\ (queue'.in => queue.in) /\ (queue'.joining => queue.joining)
  BY <1>1, <1>2
<1>5. QueueOK'
  <2>1. Coming' => Coming
    BY <1>2, <1>4 DEF Coming
  <2>. QED
    BY <1>1, <1>2, <2>1, QueueStays
<1>6. WireType' /\ BrowserType'
  BY <1>1, <1>2 DEF WireType, BrowserType
<1>7. CASE match.live /\ ~match.over
  <2>. DEFINE room == IF match.room = k THEN 0 ELSE match.room
  <2>1. /\ match' = [match EXCEPT !.away = TRUE, !.v = @ + 1, !.room = room]
        /\ late' = (late \/ (match.room # 0 /\ match.room # k))
    BY <1>7 DEF Disconnect
  <2>2. room \in Nat /\ (room = sock.n => match.room = sock.n) /\ room <= sock.n
        /\ (~sock.up => room # sock.n)
    <3>1. match.room \in Nat /\ match.room <= sock.n /\ (~sock.up => match.room # sock.n)
      BY <1>1 DEF Match, ServerType
    <3>2. CASE match.room = k
      BY <1>3, <3>2
    <3>3. CASE match.room # k
      BY <3>1, <3>3
    <3>. QED
      BY <3>2, <3>3
  <2>. HIDE DEF room
  <2>8. match \in Match
    BY <1>1
  <2>9. /\ [match EXCEPT !.away = TRUE, !.v = @ + 1, !.room = room] \in Match
        /\ [match EXCEPT !.away = TRUE, !.v = @ + 1, !.room = room].room = room
        /\ [match EXCEPT !.away = TRUE, !.v = @ + 1, !.room = room].moves = match.moves
        /\ [match EXCEPT !.away = TRUE, !.v = @ + 1, !.room = room].over = match.over
        /\ [match EXCEPT !.away = TRUE, !.v = @ + 1, !.room = room].lapsed = match.lapsed
    BY <2>2, <2>8, RoomType
  <2>3. /\ match' \in Match /\ match'.room = room /\ match'.moves = match.moves
        /\ match'.over = match.over
    BY <2>1, <2>9
  <2>4. match'.lapsed = match.lapsed
    BY <2>1, <2>9
  <2>5. Latest' /\ Shown'
    BY <1>1, <1>2, <2>2, <2>3, Untold
  <2>6. ServerType'
    BY <1>1, <1>2, <1>4, <2>2, <2>3 DEF ServerType
  <2>7. Seated'
    <3>1. ~late' => ~late /\ match.room # sock.n
      BY <1>3, <2>1
    <3>. QED
      BY <1>1, <1>2, <2>3, <2>4, <3>1 DEF Seated
  <2>. QED
    BY <1>5, <1>6, <2>5, <2>6, <2>7 DEF IInv, TypeOK
<1>8. CASE ~(match.live /\ ~match.over)
  <2>1. match' = match /\ late' = late
    BY <1>8 DEF Disconnect
  <2>2. Latest' /\ Shown'
    BY <1>1, <1>2, <2>1, Untold
  <2>3. ServerType' /\ Seated'
    BY <1>1, <1>2, <1>4, <2>1 DEF ServerType, Seated
  <2>. QED
    BY <1>5, <1>6, <2>2, <2>3 DEF IInv, TypeOK
<1>. QED
  BY <1>7, <1>8

------------------------------------------------------------------------------
(* The theorems *)

LEMMA InitIInv == Init => IInv
<1>. SUFFICES ASSUME Init PROVE IInv
  OBVIOUS
<1>1. left \in [Kinds -> Nat]
  BY ClientAssumption DEF Init
<1>2. /\ screen = "lobby" /\ leaks = 0 /\ view = Blank /\ gets = {}
      /\ sock = [n |-> 1, up |-> TRUE] /\ out = <<>> /\ inbox = <<>> /\ closing = {}
      /\ queue = [in |-> FALSE, joining |-> FALSE]
      /\ match = [NoMatch EXCEPT !.live = left.made > 0, !.seat = left.seat]
  BY DEF Init
<1>3. sock \in Socket /\ sock.n = 1 /\ sock.up
  BY <1>2 DEF Socket
<1>4. WireType
  BY <1>2, <1>3 DEF WireType
<1>5. view \in View /\ ~view.joined /\ ~view.onConnect
  <2>1. Blank \in View
    BY DEF Blank, View
  <2>2. ~Blank.joined /\ ~Blank.onConnect
    BY DEF Blank
  <2>. QED
    BY <1>2, <2>1, <2>2
<1>6. BrowserType
  BY <1>2, <1>5 DEF BrowserType
<1>7. match \in Match /\ match.room = 0
  <2>. DEFINE live == left.made > 0
              seat == left.seat
  <2>1. live \in BOOLEAN /\ seat \in Nat
    BY <1>1 DEF Kinds
  <2>2. match = [NoMatch EXCEPT !.live = live, !.seat = seat]
    BY <1>2
  <2>. HIDE DEF live, seat
  <2>. QED
    BY <2>1, <2>2 DEF NoMatch, Match
<1>8. queue \in [in : BOOLEAN, joining : BOOLEAN] /\ ~queue.in /\ ~queue.joining
  BY <1>2
<1>9. ServerType
  BY <1>1, <1>3, <1>7, <1>8 DEF ServerType
<1>10. ~Coming
  <2>1. ~Has(out, "queue:join")
    BY <1>2, HasOne
  <2>. QED
    BY <1>8, <2>1 DEF Coming
<1>11. QueueOK
  BY <1>2, <1>5, <1>10 DEF QueueOK
<1>12. Seated /\ Latest /\ Shown
  BY <1>2, <1>3, <1>7 DEF Seated, Latest, Shown
<1>. QED
  BY <1>4, <1>6, <1>9, <1>11, <1>12 DEF IInv, TypeOK

LEMMA StepIInv == IInv /\ [Next]_vars => IInv'
<1>. SUFFICES ASSUME IInv, [Next]_vars PROVE IInv'
  OBVIOUS
<1>1. CASE Browser
  <2>1. CASE CancelQueue \/ LeaveQueue \/ BotFallback \/ HandleReconnect \/ LeaveBoard
    BY <2>1, LeavingKeeps
  <2>2. CASE EventArrives
    BY <2>2, SessionStateKeeps, SessionErrorKeeps, MatchedKeeps DEF EventArrives
  <2>. QED
    BY <1>1, <2>1, <2>2, ConnectKeeps, DropKeeps, OpenQueueKeeps, PlayKeeps,
       GetSnapshotKeeps, LoadSnapshotKeeps DEF Browser
<1>2. CASE Server
  <2>1. CASE QueueJoin \/ JoinStored \/ QueueCancel
    BY <2>1, QueueCommandKeeps
  <2>2. CASE MovePlay \/ TurnTimeout
    BY <2>2, CommandKeeps
  <2>3. CASE OpponentMoves \/ OpponentConnection \/ GraceRunsOut \/ ExpireGrace
    BY <2>3, OthersKeep
  <2>. QED
    BY <1>2, <2>1, <2>2, <2>3, PairKeeps, MatchJoinKeeps, DisconnectKeeps DEF Server
<1>3. CASE UNCHANGED vars
  <2>1. UNCHANGED <<screen, leaks, view, gets, sock, out, inbox, closing, queue, match, left,
                    slipped, late, crossed>>
    BY <1>3 DEF vars, browser, wire, server, ghosts
  <2>2. match \in Match /\ out \in Seq(Request) /\ left \in [Kinds -> Nat]
    BY DEF IInv, TypeOK, ServerType, WireType
  <2>. QED
    BY <2>1, <2>2, QuietStepKeeps
<1>. QED
  BY <1>1, <1>2, <1>3 DEF Next

\* Types, and what must still be on its way in an unquiet moment.
THEOREM OnItsWay == Spec => []IInv
<1>. QED
  BY InitIInv, StepIInv, PTL DEF Spec

\* Whoever sits at the board with a connection counts as connected
\* (handleConnect of useOnlineSession, match:join, markDisconnected).
THEOREM BoardsAreSeated == Spec => []SeenAsConnected
<1>1. IInv => SeenAsConnected
  <2>1. ASSUME out = <<>>
        PROVE  ~Has(out, "match:join")
    BY <2>1, HasOne
  <2>. QED
    BY <2>1 DEF IInv, Seated, SeenAsConnected, Settled
<1>. QED
  BY <1>1, OnItsWay, PTL

\* The board that is shown is that of the server (session:state, loadSnapshot).
THEOREM BoardsAreNew == Spec => []ShowsTheBoard
<1>1. IInv => ShowsTheBoard
  <2>1. ASSUME inbox = <<>>
        PROVE  ~Has(inbox, "session:state")
    BY <2>1, HasOne
  <2>. QED
    BY <2>1 DEF IInv, Shown, ShowsTheBoard, Settled, Fresh
<1>. QED
  BY <1>1, OnItsWay, PTL

\* Nobody who has left the page of the queue is in the queue (cancelQueue,
\* queue:cancel).
THEOREM QueuesAreLeft == Spec => []QueueIsLeft
<1>1. IInv => QueueIsLeft
  <2>. SUFFICES ASSUME IInv, Settled, screen # "queue", ~slipped, queue.in PROVE FALSE
    BY DEF QueueIsLeft
  <2>1. Coming /\ ~view.joined
    BY DEF IInv, QueueOK, Coming
  <2>2. CancelLast(out)
    BY <2>1 DEF IInv, QueueOK
  <2>. QED
    BY <2>2 DEF Settled, CancelLast
<1>. QED
  BY <1>1, OnItsWay, PTL
=============================================================================
