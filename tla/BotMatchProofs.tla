--------------------------- MODULE BotMatchProofs ---------------------------
(***************************************************************************)
(* What a game at one screen, its record and its rating promise, for any   *)
(* board, any number of clicks, new games, crashes and results elsewhere.  *)
(***************************************************************************)
EXTENDS BotMatchProps, FiniteSetTheorems, SequenceTheorems, TLAPS

Rating == [elo : Int, games : Nat, peak : Int]
Row == [mode : {"BOT", "LOCAL_2P", "ONLINE"}, ranked : BOOLEAN, status : {"ONGOING", "FINISHED"},
        winner : {"USER", "BOT", None}]
RequestType ==
    [kind : {"move", "finish"}, match : Nat, by : {"USER", "BOT"}, number : Nat,
     waiter : Nat \cup {None}, at : {"sent", "checked", "rating", "writing"},
     read : Rating \cup {None}, after : Nat]
Change == [match : Nat, before : Int, after : Int, seen : Nat]
Layout == [Cells -> {".", "B", "R"}]
CallBot == [id : Nat, board : Layout, mid : Nat, game : Nat,
            at : {"asked", "moving", "finishing"}]

ScreenType ==
    /\ mode \in {"BOT", "LOCAL_2P"} /\ board \in Layout /\ turn \in 0 .. 1
    /\ gameOver \in BOOLEAN /\ loading \in BOOLEAN /\ mid \in DOMAIN matches
    /\ creating \in Seq(Nat \cup {None})
    /\ \A i \in DOMAIN creating : creating[i] # None => creating[i] \in DOMAIN matches
    /\ calls \subseteq CallBot /\ \A k \in calls : k.mid \in DOMAIN matches
    /\ game \in Nat \ {0} /\ mixed \subseteq 1 .. game /\ clicks \in Nat

\* What a request may be at each of its steps.
RequestOK(r) ==
    /\ r \in RequestType /\ r.match \in DOMAIN matches
    /\ r.kind = "move" => r.at \in {"sent", "checked"}
    /\ r.at = "writing" => r.read \in Rating

IsList(s) == s \in Seq({ s[i] : i \in DOMAIN s })
BotOK(b) == "match" \in DOMAIN b /\ b.match \in DOMAIN matches

ServerType ==
    /\ matches \in Seq(Row) /\ IsList(moves) /\ DOMAIN moves = DOMAIN matches
    /\ IsABag(posts) /\ \A r \in InFlight : RequestOK(r)
    /\ \A b \in bots : BotOK(b)
    /\ rating \in Rating
    /\ history \in Seq(Change)
    /\ \A i \in DOMAIN history : history[i].match \in DOMAIN matches

TypeOK == ScreenType /\ ServerType

\* The finish requests of a match that have passed their check.
Ending(m) == { r \in InFlight : r.kind = "finish" /\ r.match = m /\ r.at # "sent" }
NotRated(m) == \A i \in DOMAIN history : history[i].match # m

\* Of a match that no two finish requests have found ongoing, one request at
\* most may still write a rating, and none once there is one.
EndsAt(m) ==
    /\ \A r, q \in Ending(m) : r = q
    /\ \A r \in Ending(m) : posts[r] = 1
    /\ Ending(m) # {} => NotRated(m)
    /\ Ongoing(m) => NotRated(m) /\ \A r \in Ending(m) : r.at = "checked"
    /\ \A i, j \in DOMAIN history : history[i].match = m /\ history[j].match = m => i = j
EndsOnce == \A m \in DOMAIN matches \ doubled : EndsAt(m)

\* What a request has read is what was stored then.
Writing == { r \in InFlight : r.at = "writing" }
ReadIsCurrent ==
    /\ ChainBreaksOnlyInRaces
    /\ \A r \in Writing :
         r.after <= Len(history) /\ r.read.elo = EloAfter(r.after)

\* In a game that did not start with a question under way there is one at
\* most, no click while it is, and it knows the board that is shown.
BoardIsKnown == game \notin mixed =>
    /\ \A k, l \in calls : k = l
    /\ calls # {} => loading
    /\ \A k \in calls : k.board = board

IInv == TypeOK /\ EndsOnce /\ ReadIsCurrent /\ BoardIsKnown

------------------------------------------------------------------------------
(* Sequences *)

LEMMA Single ==
    ASSUME NEW S, NEW x \in S
    PROVE  <<x>> \in Seq(S) /\ DOMAIN <<x>> = {1}
OBVIOUS

LEMMA Appended ==
    ASSUME NEW S, NEW s \in Seq(S), NEW x \in S, NEW t, t = Append(s, x)
    PROVE  /\ t \in Seq(S) /\ Len(t) = Len(s) + 1 /\ t[Len(t)] = x
           /\ Len(s) \in Nat /\ DOMAIN s = 1 .. Len(s) /\ DOMAIN t = 1 .. Len(s) + 1
           /\ \A i \in DOMAIN s : t[i] = s[i]
OBVIOUS

------------------------------------------------------------------------------
(* Bags of requests *)

\* Requests are posted.
LEMMA Posted ==
    ASSUME IsABag(posts), NEW rs, Post(rs)
    PROVE  /\ IsABag(posts') /\ InFlight' = InFlight \cup rs
           /\ \A r \in InFlight \ rs : posts'[r] = posts[r]
           /\ \A r \in rs \ InFlight : posts'[r] = 1
<1>1. /\ DOMAIN posts' = DOMAIN posts \cup rs
      /\ \A e \in DOMAIN posts \cup rs : posts'[e] = (IF e \in DOMAIN posts THEN posts[e] ELSE 0)
                                                    + (IF e \in rs THEN 1 ELSE 0)
  BY DEF Post, SetToBag, (+)
<1>2. \A e \in DOMAIN posts : posts[e] \in Nat /\ posts[e] > 0
  BY DEF IsABag
<1>3. posts' = [e \in DOMAIN posts' |-> posts'[e]]
  BY DEF Post, SetToBag, (+)
<1>4. \A e \in DOMAIN posts' : posts'[e] \in { n \in Nat : n > 0 }
  BY <1>1, <1>2
<1>. QED
  BY <1>1, <1>2, <1>3, <1>4 DEF IsABag, InFlight, BagToSet

\* One copy of a request is taken out of a bag.
LEMMA TakenOut ==
    ASSUME NEW B, IsABag(B), NEW r \in DOMAIN B, NEW C, C = B (-) SetToBag({r})
    PROVE  /\ IsABag(C) /\ DOMAIN C \subseteq DOMAIN B /\ DOMAIN B \ {r} \subseteq DOMAIN C
           /\ B[r] = 1 => r \notin DOMAIN C
           /\ \A e \in DOMAIN B \ {r} : C[e] = B[e]
<1>. DEFINE left == [e \in DOMAIN B |-> IF e = r THEN B[e] - 1 ELSE B[e]]
<1>1. \A e \in DOMAIN B : B[e] \in Nat /\ B[e] > 0
  BY DEF IsABag
<1>2. C = [e \in { d \in DOMAIN B : left[d] > 0 } |-> left[e]]
  BY DEF SetToBag, (-)
<1>3. \A e \in DOMAIN B : left[e] \in Nat
  BY <1>1
<1>4. DOMAIN C = { d \in DOMAIN B : left[d] > 0 } /\ \A e \in DOMAIN C : C[e] = left[e]
  BY <1>2
<1>5. IsABag(C)
  BY <1>2, <1>3, <1>4 DEF IsABag
<1>6. left[r] = B[r] - 1 /\ \A e \in DOMAIN B \ {r} : left[e] = B[e]
  OBVIOUS
<1>. HIDE DEF left
<1>7. \A e \in DOMAIN B \ {r} : e \in DOMAIN C /\ C[e] = B[e]
  BY <1>1, <1>4, <1>6
<1>8. B[r] = 1 => r \notin DOMAIN C
  BY <1>4, <1>6
<1>. QED
  BY <1>4, <1>5, <1>7, <1>8

\* A request is done.
LEMMA RequestDone ==
    ASSUME IsABag(posts), NEW r \in InFlight, Done(r)
    PROVE  /\ IsABag(posts') /\ InFlight' \subseteq InFlight /\ InFlight \ {r} \subseteq InFlight'
           /\ posts[r] = 1 => r \notin InFlight'
           /\ \A e \in InFlight \ {r} : posts'[e] = posts[e]
BY TakenOut DEF Done, InFlight, BagToSet

\* A request takes another form.
LEMMA RequestContinues ==
    ASSUME IsABag(posts), NEW r \in InFlight, NEW q, q # r, Continue(r, q)
    PROVE  /\ IsABag(posts') /\ InFlight' \subseteq InFlight \cup {q} /\ q \in InFlight'
           /\ InFlight \ {r} \subseteq InFlight'
           /\ posts[r] = 1 => r \notin InFlight'
           /\ \A e \in InFlight \ {r, q} : posts'[e] = posts[e]
           /\ q \notin InFlight => posts'[q] = 1
<1>. DEFINE C == posts (-) SetToBag({r})
<1>1. /\ IsABag(C) /\ DOMAIN C \subseteq InFlight /\ InFlight \ {r} \subseteq DOMAIN C
      /\ posts[r] = 1 => r \notin DOMAIN C
      /\ \A e \in InFlight \ {r} : C[e] = posts[e]
  BY TakenOut DEF InFlight, BagToSet
<1>2. posts' = C (+) SetToBag({q})
  BY DEF Continue
<1>. HIDE DEF C
<1>3. posts' = [e \in DOMAIN C \cup {q} |-> (IF e \in DOMAIN C THEN C[e] ELSE 0)
                                           + (IF e \in {q} THEN 1 ELSE 0)]
  BY <1>2 DEF SetToBag, (+)
<1>4. \A e \in DOMAIN C : C[e] \in Nat /\ C[e] > 0
  BY <1>1 DEF IsABag
<1>5. /\ InFlight' = DOMAIN C \cup {q}
      /\ \A e \in DOMAIN C \ {q} : posts'[e] = C[e]
      /\ q \notin DOMAIN C => posts'[q] = 1
      /\ q \in DOMAIN C => posts'[q] = C[q] + 1
  BY <1>3, <1>4 DEF InFlight, BagToSet
<1>6. IsABag(posts')
  BY <1>3, <1>4, <1>5 DEF IsABag, InFlight, BagToSet
<1>. QED
  BY <1>1, <1>5, <1>6

\* A sequence stays one when an element is changed or added.
LEMMA ListOf ==
    ASSUME NEW n \in Nat, NEW s, DOMAIN s = 1 .. n, s = [j \in 1 .. n |-> s[j]]
    PROVE  IsList(s)
<1>. DEFINE S == { s[j] : j \in DOMAIN s }
<1>1. s \in [1 .. n -> S]
  OBVIOUS
<1>. HIDE DEF S
<1>2. s \in Seq(S)
  BY <1>1
<1>. QED
  BY <1>2 DEF IsList, S

LEMMA ListIs ==
    ASSUME NEW s, IsList(s)
    PROVE  Len(s) \in Nat /\ DOMAIN s = 1 .. Len(s) /\ s = [j \in 1 .. Len(s) |-> s[j]]
<1>. DEFINE S == { s[j] : j \in DOMAIN s }
<1>1. s \in Seq(S)
  BY DEF IsList
<1>. HIDE DEF S
<1>. QED
  BY <1>1

LEMMA SeqWithOther ==
    ASSUME NEW s, IsList(s), NEW i \in DOMAIN s, NEW x
    PROVE  IsList([s EXCEPT ![i] = x])
<1>. DEFINE r == [s EXCEPT ![i] = x]
<1>1. Len(s) \in Nat /\ DOMAIN s = 1 .. Len(s)
  BY ListIs
<1>2. DOMAIN r = 1 .. Len(s) /\ r = [j \in 1 .. Len(s) |-> r[j]]
  BY <1>1
<1>. HIDE DEF r
<1>3. IsList(r)
  BY <1>1, <1>2, ListOf
<1>. QED
  BY <1>3 DEF r

LEMMA SeqWithMore ==
    ASSUME NEW s, IsList(s), NEW x
    PROVE  /\ IsList(Append(s, x)) /\ DOMAIN Append(s, x) = 1 .. Len(s) + 1
           /\ DOMAIN s = 1 .. Len(s) /\ Len(s) \in Nat
           /\ \A i \in DOMAIN s : Append(s, x)[i] = s[i]
<1>. DEFINE r == Append(s, x)
            T == { s[j] : j \in DOMAIN s } \cup {x}
<1>1. Len(s) \in Nat /\ DOMAIN s = 1 .. Len(s) /\ s = [j \in 1 .. Len(s) |-> s[j]]
  BY ListIs
<1>2. s \in [1 .. Len(s) -> T] /\ x \in T
  BY <1>1
<1>. HIDE DEF T
<1>3. s \in Seq(T)
  BY <1>1, <1>2
<1>4. r \in Seq(T) /\ Len(r) = Len(s) + 1 /\ \A i \in DOMAIN s : r[i] = s[i]
  BY <1>1, <1>2, <1>3
<1>. HIDE DEF r
<1>5. DOMAIN r = 1 .. Len(r) /\ Len(r) \in Nat /\ r = [j \in 1 .. Len(r) |-> r[j]]
  BY <1>4
<1>6. IsList(r)
  BY <1>5, ListOf
<1>. QED
  BY <1>1, <1>4, <1>5, <1>6 DEF r

\* A request stays one when matches are added.
LEMMA RequestStaysOK ==
    ASSUME DOMAIN matches \subseteq DOMAIN matches', NEW r, RequestOK(r)
    PROVE  RequestOK(r)'
BY DEF RequestOK

------------------------------------------------------------------------------
(* The record of matches and ratings *)

\* A step has ended nothing of a match and rated nothing of it.
LEMMA SameEnding ==
    ASSUME NEW m, EndsAt(m), Ending(m)' \subseteq Ending(m),
           \A r \in Ending(m)' : posts'[r] = posts[r],
           Ongoing(m)' => Ongoing(m),
           \A i \in DOMAIN history' :
               history'[i].match = m => i \in DOMAIN history /\ history[i].match = m
    PROVE  EndsAt(m)'
BY DEF EndsAt, NotRated

\* Nothing is read and nothing written that has to do with ratings.
LEMMA SameWriting ==
    ASSUME ReadIsCurrent, Writing' \subseteq Writing, UNCHANGED ranking
    PROVE  ReadIsCurrent'
BY DEF ReadIsCurrent, ChainBreaksOnlyInRaces, EloAfter, ranking

\* Requests are posted, and the record of matches and ratings stays as it is.
LEMMA PostingKeeps ==
    ASSUME IInv, NEW rs, \A r \in rs : RequestOK(r) /\ r.at = "sent",
           Post(rs) \/ (rs = {} /\ UNCHANGED posts), UNCHANGED <<matches, ranking, doubled>>,
           IsList(moves)', DOMAIN moves' = DOMAIN matches, \A b \in bots' : BotOK(b)
    PROVE  ServerType' /\ EndsOnce' /\ ReadIsCurrent'
<1>1. /\ IsABag(posts) /\ matches' = matches /\ rating' = rating
      /\ history' = history /\ doubled' = doubled
  BY DEF ranking, IInv, TypeOK, ServerType
<1>2. /\ IsABag(posts') /\ InFlight \subseteq InFlight' /\ InFlight' \subseteq InFlight \cup rs
      /\ \A r \in InFlight \ rs : posts'[r] = posts[r]
  BY <1>1, Posted DEF InFlight
<1>3. ServerType'
  <2>1. \A r \in InFlight' : RequestOK(r)'
    BY <1>1, <1>2, RequestStaysOK DEF IInv, TypeOK, ServerType
  <2>. QED
    BY <1>1, <1>2, <2>1 DEF IInv, TypeOK, ServerType, BotOK
<1>4. ASSUME NEW m \in (DOMAIN matches \ doubled)'
      PROVE  EndsAt(m)'
  <2>1. EndsAt(m)
    BY <1>1 DEF IInv, EndsOnce
  <2>2. Ending(m)' \subseteq Ending(m) /\ \A r \in Ending(m)' : posts'[r] = posts[r]
    BY <1>2 DEF Ending
  <2>. QED
    BY <1>1, <2>1, <2>2, SameEnding DEF Ongoing
<1>5. Writing' \subseteq Writing /\ \A r \in Writing' : posts'[r] = posts[r]
  BY <1>2 DEF Writing
<1>. QED
  BY <1>3, <1>4, <1>5, SameWriting DEF EndsOnce, IInv

\* The tasks of the background bot touch neither matches nor ratings.
LEMMA BotWorksKeeps ==
    ASSUME IInv, NEW b \in bots, BotWorks(b)
    PROVE  IInv'
<1>1. UNCHANGED <<screen, creating, calls, posts, matches, ranking, ghosts>>
  BY DEF BotWorks, BotReads, BotInserts, BotHasNoMove
<1>2. IsList(moves)' /\ DOMAIN moves' = DOMAIN matches /\ \A d \in bots' : BotOK(d)
  <2>1. DOMAIN moves = DOMAIN matches /\ \A d \in bots : BotOK(d)
    BY DEF IInv, TypeOK, ServerType
  <2>0. IsList(moves)'
    <3>1. \/ UNCHANGED moves
          \/ \E i, x : i \in DOMAIN moves /\ moves' = [moves EXCEPT ![i] = x]
      BY DEF BotWorks, BotReads, BotInserts, BotHasNoMove, IInv, TypeOK, ServerType, BotOK
    <3>. QED
      BY <3>1, SeqWithOther DEF IInv, TypeOK, ServerType
  <2>2. CASE BotReads(b)
    <3>1. \A d \in bots' : BotOK(d)
      BY <2>1, <2>2 DEF BotReads, BotOK
    <3>. QED
      BY <2>0, <2>1, <2>2, <3>1 DEF BotReads
  <2>3. CASE BotInserts(b) \/ BotHasNoMove(b)
    <3>1. bots' \subseteq bots /\ DOMAIN moves' = DOMAIN moves /\ matches' = matches
      BY <2>3 DEF BotInserts, BotHasNoMove
    <3>. QED
      BY <2>0, <2>1, <3>1
  <2>. QED
    BY <2>0, <2>2, <2>3 DEF BotWorks
<1>3. ServerType' /\ EndsOnce' /\ ReadIsCurrent'
  <2>. DEFINE rs == {}
  <2>1. \A r \in rs : RequestOK(r) /\ r.at = "sent"
    OBVIOUS
  <2>2. rs = {} /\ UNCHANGED posts
    BY <1>1
  <2>. HIDE DEF rs
  <2>. QED
    BY <1>1, <1>2, <2>1, <2>2, PostingKeeps DEF ghosts
<1>. QED
  BY <1>1, <1>3 DEF IInv, TypeOK, ScreenType, BoardIsKnown, screen, ghosts

\* A route looks at the match.  The second finish request that finds it ongoing
\* while the first has not ended it makes it doubled.
LEMMA CheckKeeps ==
    ASSUME IInv, NEW r \in InFlight, CheckMatch(r)
    PROVE  IInv'
<1>. DEFINE q == [r EXCEPT !.at = "checked"]
            m == r.match
<1>1. /\ IsABag(posts) /\ RequestOK(r) /\ r.at = "sent"
  BY DEF IInv, TypeOK, ServerType, CheckMatch
<1>2. /\ q \in RequestType /\ RequestOK(q) /\ q # r
      /\ q.match = m /\ q.kind = r.kind /\ q.at = "checked"
  BY <1>1 DEF RequestOK, RequestType
<1>3. /\ UNCHANGED <<screen, creating, calls, server, ranking, game, mixed, clicks>>
      /\ doubled \subseteq doubled'
      /\ IF Ongoing(m) THEN Continue(r, q) ELSE Done(r)
      /\ (/\ r.kind = "finish" /\ Ongoing(m)
          /\ \E p \in InFlight : p.kind = "finish" /\ p.match = m /\ p.at = "checked")
         => m \in doubled'
  BY DEF CheckMatch, Allowed, InFlight
<1>4. matches' = matches /\ moves' = moves /\ bots' = bots /\ history' = history
  BY <1>3 DEF server, ranking
<1>. HIDE DEF q
<1>5. /\ IsABag(posts') /\ InFlight' \subseteq InFlight \cup {q}
      /\ \A p \in InFlight \ {r, q} : posts'[p] = posts[p]
  BY <1>1, <1>2, <1>3, RequestDone, RequestContinues
<1>6. ServerType'
  <2>1. \A p \in InFlight' : RequestOK(p)'
    BY <1>2, <1>4, <1>5, RequestStaysOK DEF IInv, TypeOK, ServerType
  <2>. QED
    BY <1>3, <1>4, <1>5, <2>1 DEF IInv, TypeOK, ServerType, BotOK, ranking
<1>7. ASSUME NEW n \in (DOMAIN matches \ doubled)'
      PROVE  EndsAt(n)'
  <2>1. EndsAt(n) /\ n \in DOMAIN matches
    BY <1>3, <1>4, <1>7 DEF IInv, EndsOnce
  <2>2. CASE n = m /\ r.kind = "finish" /\ Ongoing(m)
    <3>1. Ending(m) = {} /\ q \notin InFlight
      BY <1>2, <1>3, <1>7, <2>1, <2>2 DEF EndsAt, Ending
    <3>2. posts'[q] = 1 /\ InFlight' \subseteq InFlight \cup {q}
          /\ InFlight \ {r} \subseteq InFlight'
      BY <1>1, <1>2, <1>3, <2>2, <3>1, RequestContinues
    <3>3. Ending(m)' \subseteq {q}
      BY <3>1, <3>2 DEF Ending
    <3>. QED
      BY <1>2, <1>4, <2>1, <2>2, <3>2, <3>3 DEF EndsAt, NotRated, Ongoing
  <2>3. CASE ~(n = m /\ r.kind = "finish" /\ Ongoing(m))
    <3>1. Ending(n)' \subseteq Ending(n) /\ \A p \in Ending(n)' : posts'[p] = posts[p]
      <4>1. CASE Ongoing(m)
        BY <1>1, <1>2, <1>5, <2>3, <4>1 DEF Ending
      <4>2. CASE ~Ongoing(m)
        <5>1. InFlight' \subseteq InFlight /\ \A p \in InFlight \ {r} : posts'[p] = posts[p]
          BY <1>1, <1>3, <4>2, RequestDone
        <5>. QED
          BY <1>1, <5>1 DEF Ending
      <4>. QED
        BY <4>1, <4>2
    <3>. QED
      BY <1>4, <2>1, <3>1, SameEnding DEF Ongoing
  <2>. QED
    BY <2>2, <2>3
<1>8. Writing' \subseteq Writing /\ \A p \in Writing' : posts'[p] = posts[p]
  BY <1>1, <1>2, <1>5 DEF Writing
<1>. QED
  BY <1>3, <1>4, <1>6, <1>7, <1>8, SameWriting
     DEF IInv, TypeOK, EndsOnce, ScreenType, BoardIsKnown, screen

\* addMove and queueBotMove.
LEMMA AddMoveKeeps ==
    ASSUME IInv, NEW r \in InFlight, AddMove(r)
    PROVE  IInv'
<1>1. /\ IsABag(posts) /\ RequestOK(r) /\ r.kind = "move" /\ r.at = "checked"
      /\ UNCHANGED <<screen, creating, calls, matches, ranking, ghosts>> /\ Done(r)
  BY DEF IInv, TypeOK, ServerType, AddMove
<1>2. matches' = matches /\ history' = history /\ doubled' = doubled /\ rating' = rating
  BY <1>1 DEF ranking, ghosts
<1>3. /\ IsABag(posts') /\ InFlight' \subseteq InFlight
      /\ \A p \in InFlight \ {r} : posts'[p] = posts[p]
  BY <1>1, RequestDone
<1>4. IsList(moves)' /\ DOMAIN moves' = DOMAIN matches /\ \A d \in bots' : BotOK(d)
  <2>1. IsList(moves) /\ r.match \in DOMAIN moves
    BY <1>1 DEF IInv, TypeOK, ServerType, RequestOK
  <2>2. IsList(moves)'
    BY <2>1, SeqWithOther DEF AddMove
  <2>. QED
    BY <1>1, <2>2 DEF AddMove, IInv, TypeOK, ServerType, RequestOK, BotOK
<1>5. ServerType'
  BY <1>2, <1>3, <1>4, RequestStaysOK DEF IInv, TypeOK, ServerType, BotOK
<1>6. ASSUME NEW n \in (DOMAIN matches \ doubled)'
      PROVE  EndsAt(n)'
  <2>1. EndsAt(n)
    BY <1>2 DEF IInv, EndsOnce
  <2>2. Ending(n)' \subseteq Ending(n) /\ \A p \in Ending(n)' : posts'[p] = posts[p]
    BY <1>1, <1>3 DEF Ending
  <2>. QED
    BY <1>2, <2>1, <2>2, SameEnding DEF Ongoing
<1>7. Writing' \subseteq Writing /\ \A p \in Writing' : posts'[p] = posts[p]
  BY <1>1, <1>3 DEF Writing
<1>. QED
  BY <1>1, <1>5, <1>6, <1>7, SameWriting
     DEF IInv, TypeOK, EndsOnce, ScreenType, BoardIsKnown, screen, ghosts

\* The only request that ends a match, and nobody has rated it.
LEMMA OnlyEnding ==
    ASSUME IInv, NEW r \in InFlight, r.kind = "finish", r.at # "sent",
           r.match \notin doubled
    PROVE  /\ Ending(r.match) = {r} /\ posts[r] = 1 /\ NotRated(r.match)
           /\ Ongoing(r.match) => r.at = "checked"
<1>1. RequestOK(r) /\ r \in Ending(r.match)
  BY DEF IInv, TypeOK, ServerType, Ending
<1>2. EndsAt(r.match)
  BY <1>1 DEF IInv, EndsOnce, RequestOK
<1>. QED
  BY <1>1, <1>2 DEF EndsAt

\* The only request that ends a match goes on.
LEMMA EndingMoves ==
    ASSUME IInv, NEW r \in InFlight, r.kind = "finish", r.at # "sent",
           r.match \notin doubled, ~Ongoing(r.match)', UNCHANGED history,
           \/ Done(r)
           \/ \E q : /\ q # r /\ q.kind = "finish" /\ q.match = r.match /\ q.at # "sent"
                    /\ Continue(r, q)
    PROVE  EndsAt(r.match)'
<1>. DEFINE m == r.match
<1>1. /\ IsABag(posts) /\ Ending(m) = {r} /\ posts[r] = 1 /\ NotRated(m) /\ EndsAt(m)
  BY OnlyEnding DEF IInv, TypeOK, ServerType, RequestOK, EndsOnce
<1>2. CASE Done(r)
  <2>1. InFlight' \subseteq InFlight \ {r}
    BY <1>1, <1>2, RequestDone
  <2>2. Ending(m)' = {}
    BY <1>1, <2>1 DEF Ending
  <2>. QED
    BY <1>1, <2>2 DEF EndsAt, NotRated
<1>3. ASSUME NEW q, q # r, q.kind = "finish", q.match = m, q.at # "sent", Continue(r, q)
      PROVE  EndsAt(m)'
  <2>1. q \notin InFlight
    BY <1>1, <1>3 DEF Ending
  <2>2. InFlight' \subseteq (InFlight \ {r}) \cup {q} /\ posts'[q] = 1
    BY <1>1, <1>3, <2>1, RequestContinues
  <2>3. Ending(m)' \subseteq {q}
    BY <1>1, <2>2 DEF Ending
  <2>. QED
    BY <1>1, <2>2, <2>3 DEF EndsAt, NotRated
<1>. QED
  BY <1>2, <1>3

\* The one UPDATE, and what is left to rate.
LEMMA FinishMatchKeeps ==
    ASSUME IInv, NEW r \in InFlight, FinishMatch(r)
    PROVE  IInv'
<1>. DEFINE q == [r EXCEPT !.at = "rating"]
            m == r.match
<1>1. /\ IsABag(posts) /\ RequestOK(r) /\ r.kind = "finish" /\ r.at = "checked"
      /\ UNCHANGED <<screen, creating, calls, moves, bots, ranking, ghosts>>
      /\ matches' = [matches EXCEPT ![m] = Finished(@, r.by)]
      /\ Continue(r, q) \/ Done(r)
  BY DEF IInv, TypeOK, ServerType, FinishMatch
<1>2. /\ q \in RequestType /\ RequestOK(q) /\ q # r
      /\ q.match = m /\ q.kind = "finish" /\ q.at = "rating"
  BY <1>1 DEF RequestOK, RequestType
<1>3. matches \in Seq(Row) /\ m \in DOMAIN matches
  BY <1>1 DEF IInv, TypeOK, ServerType, RequestOK
<1>4. Finished(matches[m], r.by) \in Row /\ Finished(matches[m], r.by).status = "FINISHED"
  <2>1. matches[m] \in Row /\ r.by \in {"USER", "BOT"}
    BY <1>1, <1>3 DEF RequestOK, RequestType
  <2>. QED
    BY <2>1 DEF Finished, Row
<1>5. /\ matches' \in Seq(Row) /\ DOMAIN matches' = DOMAIN matches
      /\ matches'[m].status = "FINISHED" /\ \A n \in DOMAIN matches \ {m} : matches'[n] = matches[n]
  BY <1>1, <1>3, <1>4
<1>6. history' = history /\ doubled' = doubled /\ rating' = rating
      /\ moves' = moves /\ bots' = bots
  BY <1>1 DEF ranking, ghosts
<1>. HIDE DEF q
<1>7. /\ IsABag(posts') /\ InFlight' \subseteq InFlight \cup {q}
      /\ \A p \in InFlight \ {r, q} : posts'[p] = posts[p]
  BY <1>1, <1>2, RequestDone, RequestContinues
<1>8. ServerType'
  <2>1. \A p \in InFlight' : RequestOK(p)'
    BY <1>2, <1>5, <1>7, RequestStaysOK DEF IInv, TypeOK, ServerType
  <2>. QED
    BY <1>5, <1>6, <1>7, <2>1 DEF IInv, TypeOK, ServerType, BotOK
<1>9. ASSUME NEW n \in (DOMAIN matches \ doubled)'
      PROVE  EndsAt(n)'
  <2>1. EndsAt(n) /\ n \in DOMAIN matches \ doubled
    BY <1>5, <1>6 DEF IInv, EndsOnce
  <2>2. CASE n = m
    <3>1. ~Ongoing(m)'
      BY <1>5 DEF Ongoing
    <3>. QED
      BY <1>1, <1>2, <1>6, <2>1, <2>2, <3>1, EndingMoves
  <2>3. CASE n # m
    <3>1. Ending(n)' \subseteq Ending(n) /\ \A p \in Ending(n)' : posts'[p] = posts[p]
      BY <1>2, <1>7, <2>3 DEF Ending
    <3>. QED
      BY <1>5, <1>6, <2>1, <2>3, <3>1, SameEnding DEF Ongoing
  <2>. QED
    BY <2>2, <2>3
<1>10. Writing' \subseteq Writing /\ \A p \in Writing' : posts'[p] = posts[p]
  BY <1>1, <1>2, <1>7 DEF Writing
<1>. QED
  BY <1>1, <1>5, <1>8, <1>9, <1>10, SameWriting
     DEF IInv, TypeOK, EndsOnce, ScreenType, BoardIsKnown, screen, ghosts

\* applyRatingUpdate reads what the last result wrote.
LEMMA ReadRatingKeeps ==
    ASSUME IInv, NEW r \in InFlight, ReadRating(r)
    PROVE  IInv'
<1>. DEFINE q == [r EXCEPT !.at = "writing", !.read = rating, !.after = Len(history)]
            m == r.match
<1>1. /\ IsABag(posts) /\ RequestOK(r) /\ r.kind = "finish" /\ r.at = "rating"
      /\ UNCHANGED <<screen, creating, calls, server, ranking, ghosts>>
      /\ Continue(r, q) /\ rating \in Rating /\ Len(history) \in Nat
  <2>1. IsABag(posts) /\ RequestOK(r) /\ rating \in Rating /\ Len(history) \in Nat
    BY DEF IInv, TypeOK, ServerType
  <2>2. r.at = "rating"
    BY DEF ReadRating
  <2>3. r.kind = "finish"
    BY <2>1, <2>2 DEF RequestOK, RequestType
  <2>. QED
    BY <2>1, <2>2, <2>3 DEF ReadRating, CurrentRating, InFlight
<1>2. /\ q \in RequestType /\ RequestOK(q) /\ q # r
      /\ q.match = m /\ q.kind = "finish" /\ q.at = "writing" /\ q.read = rating
      /\ q.after = Len(history)
  BY <1>1 DEF RequestOK, RequestType
<1>3. history' = history /\ doubled' = doubled /\ rating' = rating /\ matches' = matches
      /\ moves' = moves /\ bots' = bots
  BY <1>1 DEF server, ranking, ghosts
<1>. HIDE DEF q
<1>4. /\ IsABag(posts') /\ InFlight' \subseteq InFlight \cup {q}
      /\ \A p \in InFlight \ {r, q} : posts'[p] = posts[p]
      /\ q \notin InFlight => posts'[q] = 1
  BY <1>1, <1>2, RequestContinues
<1>5. ServerType'
  <2>1. \A p \in InFlight' : RequestOK(p)'
    BY <1>2, <1>3, <1>4, RequestStaysOK DEF IInv, TypeOK, ServerType
  <2>. QED
    BY <1>1, <1>3, <1>4, <2>1 DEF IInv, TypeOK, ServerType, BotOK
<1>6. ASSUME NEW n \in (DOMAIN matches \ doubled)'
      PROVE  EndsAt(n)'
  <2>1. EndsAt(n) /\ n \in DOMAIN matches \ doubled
    BY <1>3 DEF IInv, EndsOnce
  <2>2. CASE n = m
    <3>1. ~Ongoing(m)'
      BY <1>1, <1>3, <2>1, <2>2, OnlyEnding DEF Ongoing
    <3>. QED
      BY <1>1, <1>2, <1>3, <2>1, <2>2, <3>1, EndingMoves
  <2>3. CASE n # m
    <3>1. Ending(n)' \subseteq Ending(n) /\ \A p \in Ending(n)' : posts'[p] = posts[p]
      BY <1>2, <1>4, <2>3 DEF Ending
    <3>. QED
      BY <1>3, <2>1, <3>1, SameEnding DEF Ongoing
  <2>. QED
    BY <2>2, <2>3
<1>7. ReadIsCurrent'
  <2>1. Writing' \subseteq Writing \cup {q} /\ ReadIsCurrent
    BY <1>4 DEF Writing, IInv
  <2>. QED
    BY <1>1, <1>2, <1>3, <2>1 DEF ReadIsCurrent, ChainBreaksOnlyInRaces, EloAfter
<1>. QED
  BY <1>1, <1>5, <1>6, <1>7
     DEF IInv, TypeOK, EndsOnce, ScreenType, BoardIsKnown, screen, ghosts, server

\* One transaction writes the row and its history.
LEMMA WriteRatingKeeps ==
    ASSUME IInv, NEW r \in InFlight, WriteRating(r)
    PROVE  IInv'
<1>. DEFINE m == r.match
            h == [match |-> m, before |-> r.read.elo, after |-> RatingAfter(r).elo,
                  seen |-> r.after]
<1>1. /\ IsABag(posts) /\ RequestOK(r) /\ r.kind = "finish" /\ r.at = "writing"
      /\ r.read \in Rating /\ r.match \in Nat /\ r.after \in Nat
      /\ UNCHANGED <<screen, creating, calls, server, ghosts>>
      /\ Done(r) /\ rating' = RatingAfter(r) /\ history' = Append(history, h)
  BY DEF IInv, TypeOK, ServerType, WriteRating, RequestOK, RequestType
<1>2. /\ RatingAfter(r) \in Rating /\ RatingAfter(r).games = r.read.games + 1
  BY <1>1 DEF RatingAfter, Rating, NewElo, Peak
<1>3. doubled' = doubled /\ matches' = matches /\ moves' = moves /\ bots' = bots
  BY <1>1 DEF server, ghosts
<1>4. /\ h \in Change /\ h.match = m
      /\ h.before = r.read.elo /\ h.after = RatingAfter(r).elo
      /\ h.seen = r.after
  BY <1>1, <1>2 DEF Rating, Change
<1>5. history \in Seq(Change)
  BY DEF IInv, TypeOK, ServerType
<1>. HIDE DEF h
<1>6. /\ history' \in Seq(Change)
      /\ Len(history') = Len(history) + 1 /\ history'[Len(history')] = h
      /\ Len(history) \in Nat /\ DOMAIN history = 1 .. Len(history)
      /\ DOMAIN history' = 1 .. Len(history) + 1
      /\ \A i \in DOMAIN history : history'[i] = history[i]
  BY <1>1, <1>4, <1>5, Appended
<1>7. /\ IsABag(posts') /\ InFlight' \subseteq InFlight
      /\ posts[r] = 1 => r \notin InFlight'
      /\ \A p \in InFlight \ {r} : posts'[p] = posts[p]
  BY <1>1, RequestDone
<1>8. ServerType'
  <2>1. \A p \in InFlight' : RequestOK(p)'
    BY <1>3, <1>7, RequestStaysOK DEF IInv, TypeOK, ServerType
  <2>2. \A i \in DOMAIN history' : history'[i].match \in DOMAIN matches
    BY <1>1, <1>4, <1>6 DEF IInv, TypeOK, ServerType, RequestOK
  <2>. QED
    BY <1>1, <1>2, <1>3, <1>6, <1>7, <2>1, <2>2 DEF IInv, TypeOK, ServerType, BotOK
<1>9. ASSUME NEW n \in (DOMAIN matches \ doubled)'
      PROVE  EndsAt(n)'
  <2>1. EndsAt(n) /\ n \in DOMAIN matches \ doubled
    BY <1>3 DEF IInv, EndsOnce
  <2>2. CASE n = m
    <3>1. Ending(m) = {r} /\ posts[r] = 1 /\ NotRated(m) /\ ~Ongoing(m)
      BY <1>1, <2>1, <2>2, OnlyEnding
    <3>2. Ending(m)' = {}
      BY <1>7, <3>1 DEF Ending
    <3>3. \A i \in DOMAIN history' : history'[i].match = m => i = Len(history')
      <4>1. \A i \in DOMAIN history' : i \in DOMAIN history \/ i = Len(history')
        BY <1>6
      <4>. QED
        BY <1>6, <3>1, <4>1 DEF NotRated
    <3>4. matches' = matches /\ ~Ongoing(m)'
      BY <1>3, <3>1 DEF Ongoing
    <3>5. \A i, j \in DOMAIN history' : history'[i].match = m /\ history'[j].match = m => i = j
      BY <3>3
    <3>. QED
      BY <2>2, <3>2, <3>4, <3>5 DEF EndsAt
  <2>3. CASE n # m
    <3>1. Ending(n)' \subseteq Ending(n) /\ \A p \in Ending(n)' : posts'[p] = posts[p]
      BY <1>7, <2>3 DEF Ending
    <3>2. \A i \in DOMAIN history' :
            history'[i].match = n => i \in DOMAIN history /\ history[i].match = n
      <4>1. \A i \in DOMAIN history' : i \in DOMAIN history \/ i = Len(history')
        BY <1>6
      <4>2. history'[Len(history')].match = m
        BY <1>4, <1>6
      <4>. QED
        BY <1>6, <2>3, <4>1, <4>2
    <3>. QED
      BY <1>3, <2>1, <3>1, <3>2, SameEnding DEF Ongoing
  <2>. QED
    BY <2>2, <2>3
<1>10. ReadIsCurrent'
  <2>1. /\ ReadIsCurrent /\ r \in Writing /\ Writing' \subseteq Writing
    BY <1>1, <1>7 DEF IInv, Writing
  <2>2. ASSUME NEW n \in 0 .. Len(history)
        PROVE  EloAfter(n)' = EloAfter(n)
    BY <1>6, <2>2 DEF EloAfter
  <2>3. rating'.elo = EloAfter(Len(history))'
    <3>1. rating'.elo = history'[Len(history')].after /\ Len(history') # 0
      BY <1>1, <1>4, <1>6
    <3>. QED
      BY <3>1 DEF EloAfter
  <2>4. r.after \in 0 .. Len(history) /\ r.read.elo = EloAfter(r.after)
    BY <1>1, <1>6, <2>1 DEF ReadIsCurrent
  <2>5. ASSUME NEW i \in DOMAIN history'
        PROVE  (history[i].seen < i /\ history[i].before = EloAfter(history[i].seen))'
    <3>1. CASE i \in DOMAIN history
      <4>1. history[i].seen \in Nat /\ i <= Len(history) /\ i \in Nat
        <5>1. history[i] \in Change
          BY <1>5, <3>1, ElementOfSeq
        <5>. QED
          BY <1>6, <3>1, <5>1 DEF Change
      <4>2. history[i].seen < i /\ history[i].before = EloAfter(history[i].seen)
        BY <2>1, <3>1 DEF ReadIsCurrent, ChainBreaksOnlyInRaces
      <4>3. EloAfter(history[i].seen)' = EloAfter(history[i].seen)
        <5>1. history[i].seen \in 0 .. Len(history)
          BY <1>6, <4>1, <4>2
        <5>. QED
          BY <1>6, <3>1, <5>1 DEF EloAfter
      <4>. QED
        BY <1>6, <3>1, <4>2, <4>3
    <3>2. CASE i \notin DOMAIN history
      <4>1. i = Len(history) + 1 /\ history'[i] = h
        BY <1>6, <3>2
      <4>2. h.seen < i
        BY <1>4, <1>6, <2>4, <4>1
      <4>. QED
        BY <1>4, <1>6, <2>2, <2>4, <4>1, <4>2 DEF EloAfter
    <3>. QED
      BY <3>1, <3>2
  <2>6. ASSUME NEW p \in Writing'
        PROVE  p.after <= Len(history') /\ p.read.elo = EloAfter(p.after)'
    <3>1. /\ p \in Writing /\ p.after \in Nat /\ p.after <= Len(history)
          /\ p.read.elo = EloAfter(p.after)
      BY <2>1, <2>6 DEF ReadIsCurrent, Writing, IInv, TypeOK, ServerType, RequestOK, RequestType
    <3>. QED
      BY <1>6, <3>1 DEF EloAfter
  <2>. QED
    BY <2>3, <2>5, <2>6 DEF ReadIsCurrent, ChainBreaksOnlyInRaces
<1>. QED
  BY <1>1, <1>8, <1>9, <1>10
     DEF IInv, TypeOK, EndsOnce, ScreenType, BoardIsKnown, screen, ghosts, server

\* A match is added, with one request at most, which has passed its check.
LEMMA NewMatchKeeps ==
    ASSUME IInv, NEW md \in {"BOT", "LOCAL_2P", "ONLINE"}, NEW isRanked \in BOOLEAN, NEW rs,
           matches' = Append(matches, NewMatch(md, isRanked)), moves' = Append(moves, <<>>),
           UNCHANGED <<bots, ranking, doubled>>,
           \/ rs = {} /\ UNCHANGED posts
           \/ /\ Post(rs)
              /\ \E r : /\ rs = {r} /\ r \in RequestType /\ r.match = Len(matches) + 1
                       /\ r.kind = "finish" /\ r.at = "checked"
    PROVE  /\ ServerType' /\ EndsOnce' /\ ReadIsCurrent'
           /\ DOMAIN matches' = 1 .. Len(matches) + 1 /\ DOMAIN matches = 1 .. Len(matches)
           /\ Len(matches) \in Nat
<1>. DEFINE new == Len(matches) + 1
<1>1. /\ matches \in Seq(Row) /\ IsList(moves) /\ DOMAIN moves = DOMAIN matches
      /\ IsABag(posts) /\ \A r \in InFlight : RequestOK(r)
  BY DEF IInv, TypeOK, ServerType
<1>2. NewMatch(md, isRanked) \in Row
  BY DEF NewMatch, Row
<1>3. /\ matches' \in Seq(Row) /\ DOMAIN matches' = 1 .. new /\ DOMAIN matches = 1 .. Len(matches)
      /\ Len(matches) \in Nat /\ \A m \in DOMAIN matches : matches'[m] = matches[m]
  BY <1>1, <1>2
<1>4. IsList(moves)' /\ DOMAIN moves' = DOMAIN matches'
  <2>1. IsList(moves') /\ DOMAIN moves' = 1 .. Len(moves) + 1
        /\ DOMAIN moves = 1 .. Len(moves) /\ Len(moves) \in Nat
    BY <1>1, SeqWithMore
  <2>2. Len(moves) = Len(matches)
    BY <1>1, <1>3, <2>1
  <2>. QED
    BY <1>3, <2>1, <2>2 DEF IsList
<1>5. /\ IsABag(posts') /\ InFlight' = InFlight \cup rs
      /\ \A r \in InFlight \ rs : posts'[r] = posts[r]
      /\ \A r \in rs \ InFlight : posts'[r] = 1
  BY <1>1, Posted DEF InFlight
<1>6. \A r \in rs : /\ r \in RequestType /\ r.match = new /\ r.kind = "finish" /\ r.at = "checked"
                   /\ r \notin InFlight
  BY <1>1, <1>3 DEF RequestOK
<1>7. ServerType'
  <2>1. \A r \in InFlight' : RequestOK(r)'
    <3>1. \A r \in InFlight : RequestOK(r)'
      BY <1>1, <1>3, RequestStaysOK
    <3>2. \A r \in rs : RequestOK(r)'
      BY <1>3, <1>6 DEF RequestOK
    <3>. QED
      BY <1>5, <3>1, <3>2
  <2>. QED
    BY <1>3, <1>4, <1>5, <2>1 DEF IInv, TypeOK, ServerType, BotOK, ranking
<1>8. ASSUME NEW m \in (DOMAIN matches \ doubled)'
      PROVE  EndsAt(m)'
  <2>1. CASE m \in DOMAIN matches
    <3>1. EndsAt(m) /\ m # new
      BY <1>3, <1>8, <2>1 DEF IInv, EndsOnce
    <3>2. Ending(m)' \subseteq Ending(m) /\ \A p \in Ending(m)' : posts'[p] = posts[p]
      BY <1>5, <1>6, <3>1 DEF Ending
    <3>3. Ongoing(m)' = Ongoing(m) /\ history' = history
      BY <1>3, <2>1 DEF Ongoing, ranking
    <3>. QED
      BY <3>1, <3>2, <3>3, SameEnding
  <2>2. CASE m = new
    <3>1. Ending(m)' \subseteq rs
      BY <1>1, <1>3, <1>5, <2>2 DEF Ending, RequestOK
    <3>2. NotRated(m)'
      BY <1>3, <2>2 DEF IInv, TypeOK, ServerType, NotRated, ranking
    <3>3. \A r, q \in rs : r = q
      OBVIOUS
    <3>. QED
      BY <1>5, <1>6, <3>1, <3>2, <3>3 DEF EndsAt, NotRated
  <2>. QED
    BY <1>3, <2>1, <2>2
<1>9. Writing' \subseteq Writing /\ \A p \in Writing' : posts'[p] = posts[p]
  BY <1>5, <1>6 DEF Writing
<1>. QED
  BY <1>3, <1>7, <1>8, <1>9, SameWriting DEF IInv, EndsOnce

LEMMA OnlineResultKeeps ==
    ASSUME IInv, OnlineResult
    PROVE  IInv'
<1>1. PICK w \in {"USER", "BOT"} :
        Post({[FinishPost(Len(matches) + 1, w, None) EXCEPT !.at = "checked"]})
  BY DEF OnlineResult
<1>. DEFINE r == [FinishPost(Len(matches) + 1, w, None) EXCEPT !.at = "checked"]
<1>2. Len(matches) \in Nat
  BY DEF IInv, TypeOK, ServerType
<1>3. r \in RequestType /\ r.match = Len(matches) + 1 /\ r.kind = "finish" /\ r.at = "checked"
  BY <1>2 DEF FinishPost, Request, RequestType
<1>. HIDE DEF r
<1>4. \E rs : /\ Post(rs)
             /\ \E q : /\ rs = {q} /\ q \in RequestType /\ q.match = Len(matches) + 1
                      /\ q.kind = "finish" /\ q.at = "checked"
  BY <1>1, <1>3 DEF r
<1>5. /\ \E isRanked \in BOOLEAN : matches' = Append(matches, NewMatch("ONLINE", isRanked))
      /\ moves' = Append(moves, <<>>)
      /\ UNCHANGED <<screen, creating, calls, bots, ranking, game, mixed, doubled, clicks>>
  BY DEF OnlineResult
<1>6. /\ ServerType' /\ EndsOnce' /\ ReadIsCurrent'
      /\ DOMAIN matches' = 1 .. Len(matches) + 1 /\ DOMAIN matches = 1 .. Len(matches)
  BY <1>4, <1>5, NewMatchKeeps
<1>7. DOMAIN matches \subseteq DOMAIN matches'
  BY <1>2, <1>6
<1>. QED
  BY <1>5, <1>6, <1>7 DEF IInv, TypeOK, ScreenType, BoardIsKnown, screen

\* createMatch for a new game: its id goes to the screen.
LEMMA CreateMatchKeeps ==
    ASSUME IInv, CreateMatch
    PROVE  IInv'
<1>1. PICK i \in DOMAIN creating : creating' = [creating EXCEPT ![i] = Len(matches) + 1]
  BY DEF CreateMatch
<1>2. /\ matches' = Append(matches, NewMatch("BOT", TRUE)) /\ moves' = Append(moves, <<>>)
      /\ UNCHANGED <<screen, calls, posts, bots, ranking, ghosts>>
  BY DEF CreateMatch
<1>3. /\ ServerType' /\ EndsOnce' /\ ReadIsCurrent' /\ Len(matches) \in Nat
      /\ DOMAIN matches' = 1 .. Len(matches) + 1 /\ DOMAIN matches = 1 .. Len(matches)
  <2>. DEFINE rs == {}
  <2>1. rs = {} /\ UNCHANGED posts
    BY <1>2
  <2>. HIDE DEF rs
  <2>. QED
    BY <1>2, <2>1, NewMatchKeeps DEF ghosts
<1>4. /\ creating' \in Seq(Nat \cup {None})
      /\ \A j \in DOMAIN creating' : creating'[j] # None => creating'[j] \in DOMAIN matches'
  <2>1. /\ creating \in Seq(Nat \cup {None}) /\ Len(matches) + 1 \in Nat
        /\ \A j \in DOMAIN creating : creating[j] # None => creating[j] \in DOMAIN matches
    BY <1>3 DEF IInv, TypeOK, ScreenType
  <2>2. creating' \in Seq(Nat \cup {None})
    BY <1>1, <2>1
  <2>. QED
    BY <1>1, <1>3, <2>1, <2>2
<1>5. DOMAIN matches \subseteq DOMAIN matches'
  BY <1>3
<1>. QED
  BY <1>2, <1>3, <1>4, <1>5 DEF IInv, TypeOK, ScreenType, BoardIsKnown, screen, ghosts

\* The process dies with its requests.
LEMMA CrashKeeps ==
    ASSUME IInv, Crash
    PROVE  IInv'
<1>1. /\ posts' = EmptyBag /\ bots' = {}
      /\ UNCHANGED <<screen, creating, calls, matches, moves, ranking, game, mixed,
                     doubled, clicks>>
  BY DEF Crash
<1>2. IsABag(posts') /\ InFlight' = {}
  BY <1>1 DEF EmptyBag, SetToBag, IsABag, InFlight, BagToSet
<1>3. ServerType'
  BY <1>1, <1>2 DEF IInv, TypeOK, ServerType, IsList, ranking
<1>4. ASSUME NEW m \in (DOMAIN matches \ doubled)'
      PROVE  EndsAt(m)'
  <2>1. EndsAt(m) /\ Ending(m)' = {}
    BY <1>1, <1>2 DEF IInv, EndsOnce, Ending
  <2>. QED
    BY <1>1, <2>1, SameEnding DEF Ongoing, ranking
<1>5. Writing' = {}
  BY <1>2 DEF Writing
<1>. QED
  BY <1>1, <1>3, <1>4, <1>5, SameWriting
     DEF IInv, TypeOK, EndsOnce, ScreenType, BoardIsKnown, screen

\* A request that fails is gone, and has changed nothing.
LEMMA RequestFailsKeeps ==
    ASSUME IInv, NEW r \in InFlight, RequestFails(r)
    PROVE  IInv'
<1>1. /\ IsABag(posts) /\ Done(r)
      /\ UNCHANGED <<screen, creating, calls, server, ranking, game, mixed, doubled, clicks>>
  BY DEF RequestFails, IInv, TypeOK, ServerType
<1>2. /\ IsABag(posts') /\ InFlight' \subseteq InFlight
      /\ \A p \in InFlight \ {r} : posts'[p] = posts[p]
      /\ posts[r] = 1 => r \notin InFlight'
  BY <1>1, RequestDone
<1>3. UNCHANGED <<matches, moves, bots, rating, history>>
  BY <1>1 DEF server, ranking
<1>4. ServerType'
  <2>1. \A p \in InFlight' : RequestOK(p)'
    BY <1>2, <1>3, RequestStaysOK DEF IInv, TypeOK, ServerType
  <2>. QED
    BY <1>2, <1>3, <2>1 DEF IInv, TypeOK, ServerType, BotOK
<1>5. ASSUME NEW n \in (DOMAIN matches \ doubled)'
      PROVE  EndsAt(n)'
  <2>1. EndsAt(n)
    BY <1>1, <1>3 DEF IInv, EndsOnce
  <2>2. Ending(n)' \subseteq Ending(n) /\ \A p \in Ending(n)' : posts'[p] = posts[p]
    BY <1>2, <2>1 DEF Ending, EndsAt
  <2>. QED
    BY <1>3, <2>1, <2>2, SameEnding DEF Ongoing
<1>6. Writing' \subseteq Writing
  BY <1>2 DEF Writing
<1>. QED
  BY <1>1, <1>3, <1>4, <1>5, <1>6, SameWriting
     DEF IInv, TypeOK, EndsOnce, ScreenType, BoardIsKnown, screen

LEMMA HandleKeeps ==
    ASSUME IInv, NEW r \in InFlight, Handle(r)
    PROVE  IInv'
BY CheckKeeps, AddMoveKeeps, FinishMatchKeeps, ReadRatingKeeps, WriteRatingKeeps DEF Handle

------------------------------------------------------------------------------
(* The screen *)

\* The server is as it was, but for posts.
LEMMA ScreenStep ==
    ASSUME IInv, NEW rs, \A r \in rs : RequestOK(r) /\ r.at = "sent",
           Post(rs) \/ (rs = {} /\ UNCHANGED posts), UNCHANGED <<server, ranking, doubled>>
    PROVE  ServerType' /\ EndsOnce' /\ ReadIsCurrent'
<1>1. IsList(moves)' /\ DOMAIN moves' = DOMAIN matches /\ \A b \in bots' : BotOK(b)
  BY DEF IInv, TypeOK, ServerType, server, IsList
<1>. QED
  BY <1>1, PostingKeeps DEF server

\* What persistMove and persistFinish send.
LEMMA MovePostOK ==
    ASSUME NEW m \in DOMAIN matches, matches \in Seq(Row), NEW turn1 \in 0 .. 1,
           NEW by \in {"USER", "BOT"}, NEW waiter \in Nat \cup {None}
    PROVE  RequestOK(MovePost(m, turn1, by, waiter)) /\ MovePost(m, turn1, by, waiter).at = "sent"
BY DEF RequestOK, MovePost, Request, RequestType

LEMMA FinishPostOK ==
    ASSUME NEW m \in DOMAIN matches, matches \in Seq(Row),
           NEW by \in {"USER", "BOT"}, NEW waiter \in Nat \cup {None}
    PROVE  RequestOK(FinishPost(m, by, waiter)) /\ FinishPost(m, by, waiter).at = "sent"
BY DEF RequestOK, FinishPost, Request, RequestType

\* A stone on the board.
LEMMA StonePut ==
    ASSUME NEW b \in Layout, NEW c \in Cells, NEW s \in {"B", "R"}
    PROVE  [b EXCEPT ![c] = s] \in Layout
BY DEF Layout

\* A click: of a game without another one's question there is no question yet.
LEMMA ClickKeeps ==
    ASSUME IInv, NEW c \in Cells, Click(c)
    PROVE  IInv'
<1>1. /\ ScreenType /\ matches \in Seq(Row) /\ ~loading /\ mid \in DOMAIN matches /\ board \in Layout
      /\ UNCHANGED <<creating, server, ranking, game, mixed, doubled, mid, mode>>
      /\ clicks \in Nat /\ clicks' = clicks + 1 /\ None \in Nat \cup {None}
  <2>1. /\ ScreenType /\ matches \in Seq(Row)
    BY DEF IInv, TypeOK, ServerType
  <2>2. mid \in DOMAIN matches /\ board \in Layout /\ clicks \in Nat
    BY <2>1 DEF ScreenType
  <2>3. /\ ~loading /\ UNCHANGED <<creating, server, ranking, game, mixed, doubled, mid, mode>>
        /\ clicks' = clicks + 1
    BY DEF Click, ClickBot, ClickLocal, MayClick
  <2>. QED
    BY <2>1, <2>2, <2>3
<1>10. /\ RequestOK(MovePost(mid, 1, "USER", None)) /\ MovePost(mid, 1, "USER", None).at = "sent"
       /\ RequestOK(FinishPost(mid, "USER", None)) /\ FinishPost(mid, "USER", None).at = "sent"
  <2>1. mid \in DOMAIN matches /\ matches \in Seq(Row) /\ 1 \in 0 .. 1 /\ "USER" \in {"USER", "BOT"}
        /\ None \in Nat \cup {None}
    BY <1>1
  <2>. QED
    BY <2>1, MovePostOK, FinishPostOK
<1>2. CASE ClickBot(c)
  <2>. DEFINE human == [board EXCEPT ![c] = "B"]
              won == CheckWinner(human, "B")
              rs == {MovePost(mid, 1, "USER", None)}
                    \cup IF won THEN {FinishPost(mid, "USER", None)} ELSE {}
              k == [id |-> clicks, board |-> human, mid |-> mid, game |-> game, at |-> "asked"]
  <2>1. /\ board' = human /\ turn' = 1 /\ Post(rs) /\ gameOver' = won /\ loading' = ~won
        /\ calls' = IF won THEN calls ELSE calls \cup {k}
    BY <1>2 DEF ClickBot
  <2>2. \A r \in rs : RequestOK(r) /\ r.at = "sent"
    <3>. HIDE DEF won
    <3>. QED
      BY <1>10
  <2>3. ServerType' /\ EndsOnce' /\ ReadIsCurrent'
    <3>. HIDE DEF rs
    <3>. QED
      BY <1>1, <2>1, <2>2, ScreenStep
  <2>4. human \in Layout
    BY <1>1, StonePut
  <2>5. won \in BOOLEAN
    BY DEF CheckWinner
  <2>6. k \in CallBot /\ k.mid = mid /\ k.board = human
    BY <1>1, <2>4 DEF CallBot, ScreenType
  <2>. HIDE DEF human, won, k
  <2>7. ScreenType'
    BY <1>1, <2>1, <2>4, <2>5, <2>6 DEF ScreenType, server
  <2>8. BoardIsKnown'
    <3>1. CASE game \in mixed
      BY <1>1, <3>1 DEF BoardIsKnown
    <3>2. CASE game \notin mixed
      <4>1. calls = {}
        BY <1>1, <3>2 DEF IInv, BoardIsKnown
      <4>. QED
        BY <2>1, <2>5, <2>6, <4>1 DEF BoardIsKnown
    <3>. QED
      BY <3>1, <3>2
  <2>. QED
    BY <2>3, <2>7, <2>8 DEF IInv, TypeOK
<1>3. CASE ClickLocal(c)
  <2>. DEFINE symbol == IF turn = 0 THEN "B" ELSE "R"
              next == [board EXCEPT ![c] = symbol]
              r == MovePost(mid, 1 - turn, IF turn = 0 THEN "USER" ELSE "BOT", None)
  <2>1. /\ board' = next /\ turn' = 1 - turn /\ Post({r})
        /\ gameOver' = CheckWinner(next, symbol) /\ UNCHANGED <<loading, calls>>
    BY <1>3 DEF ClickLocal
  <2>2. RequestOK(r) /\ r.at = "sent"
    <3>1. 1 - turn \in 0 .. 1
      BY <1>1 DEF ScreenType
    <3>. QED
      BY <1>1, <3>1, MovePostOK
  <2>3. ServerType' /\ EndsOnce' /\ ReadIsCurrent'
    <3>. DEFINE rs == {r}
    <3>. HIDE DEF r
    <3>1. \A q \in rs : RequestOK(q) /\ q.at = "sent"
      BY <2>2
    <3>2. Post(rs)
      BY <2>1
    <3>. HIDE DEF rs
    <3>. QED
      BY <1>1, <2>1, <3>1, <3>2, ScreenStep
  <2>4. next \in Layout /\ CheckWinner(next, symbol) \in BOOLEAN /\ turn' \in 0 .. 1
    <3>1. symbol \in {"B", "R"} /\ 1 - turn \in 0 .. 1
      BY <1>1 DEF ScreenType
    <3>2. CheckWinner(next, symbol) \in BOOLEAN
      BY DEF CheckWinner
    <3>. HIDE DEF symbol
    <3>. QED
      BY <1>1, <2>1, <3>1, <3>2, StonePut
  <2>. HIDE DEF next, symbol
  <2>5. ScreenType'
    BY <1>1, <2>1, <2>4 DEF ScreenType, server
  <2>6. BoardIsKnown'
    <3>1. game \notin mixed => calls = {}
      BY <1>1 DEF IInv, BoardIsKnown
    <3>. QED
      BY <1>1, <2>1, <3>1 DEF BoardIsKnown
  <2>. QED
    BY <2>3, <2>5, <2>6 DEF IInv, TypeOK
<1>. QED
  BY <1>2, <1>3 DEF Click

\* An answer of the engine, or of the server to what it led to.  In a game
\* whose only question it is, what it knows is what is shown.
LEMMA CallReturnsKeeps ==
    ASSUME IInv, NEW k \in calls, CallReturns(k)
    PROVE  IInv'
<1>1. /\ ScreenType /\ matches \in Seq(Row) /\ k \in CallBot /\ k.mid \in DOMAIN matches
      /\ k.board \in Layout /\ k.id \in Nat
      /\ UNCHANGED <<mode, mid, creating, server, ranking, ghosts>>
  BY DEF CallReturns, BotFails, BotReplies, BotMoveStored, BotFinishStored,
         IInv, TypeOK, ServerType, ScreenType, CallBot
<1>2. /\ server' = server /\ ranking' = ranking /\ doubled' = doubled /\ game' = game
      /\ mixed' = mixed /\ clicks' = clicks /\ matches' = matches
  BY <1>1 DEF ghosts, server
<1>3. ASSUME UNCHANGED posts
      PROVE  ServerType' /\ EndsOnce' /\ ReadIsCurrent'
  <2>. DEFINE rs == {}
  <2>1. rs = {} /\ \A r \in rs : RequestOK(r) /\ r.at = "sent"
    OBVIOUS
  <2>. HIDE DEF rs
  <2>. QED
    BY <1>2, <1>3, <2>1, ScreenStep
<1>4. ASSUME NEW r, RequestOK(r), r.at = "sent", Post({r})
      PROVE  ServerType' /\ EndsOnce' /\ ReadIsCurrent'
  <2>. DEFINE rs == {r}
  <2>1. Post(rs) /\ \A q \in rs : RequestOK(q) /\ q.at = "sent"
    BY <1>4
  <2>. HIDE DEF rs
  <2>. QED
    BY <1>2, <2>1, ScreenStep
<1>5. \A x \in {"asked", "moving", "finishing"} : \A b \in Layout :
        /\ [k EXCEPT !.at = x] \in CallBot /\ [k EXCEPT !.at = x].mid = k.mid
        /\ [k EXCEPT !.at = x].board = k.board
        /\ [k EXCEPT !.at = x, !.board = b] \in CallBot
        /\ [k EXCEPT !.at = x, !.board = b].mid = k.mid
        /\ [k EXCEPT !.at = x, !.board = b].board = b
  BY <1>1 DEF CallBot
<1>6. game \notin mixed => calls = {k} /\ loading /\ k.board = board
  BY DEF IInv, BoardIsKnown
<1>7. CASE BotFails(k)
  <2>1. ScreenType'
    <3>1. /\ board' = k.board /\ turn' = 0 /\ loading' = FALSE /\ calls' = calls \ {k}
          /\ gameOver' = gameOver
      BY <1>7 DEF BotFails
    <3>2. calls' \subseteq CallBot /\ \A l \in calls' : l.mid \in DOMAIN matches
      BY <1>1, <3>1 DEF ScreenType
    <3>3. gameOver' \in BOOLEAN /\ loading' \in BOOLEAN
      BY <1>1, <3>1 DEF ScreenType
    <3>4. /\ mode' \in {"BOT", "LOCAL_2P"} /\ board' \in Layout /\ turn' \in 0 .. 1
          /\ mid' \in DOMAIN matches /\ creating' \in Seq(Nat \cup {None})
          /\ \A i \in DOMAIN creating' : creating'[i] # None => creating'[i] \in DOMAIN matches
      BY <1>1, <3>1 DEF ScreenType
    <3>5. game' \in Nat \ {0} /\ mixed' \subseteq 1 .. game' /\ clicks' \in Nat
      BY <1>1, <1>2 DEF ScreenType
    <3>. QED
      BY <1>2, <3>2, <3>3, <3>4, <3>5 DEF ScreenType
  <2>2. BoardIsKnown'
    BY <1>2, <1>6, <1>7 DEF BotFails, BoardIsKnown
  <2>. QED
    BY <1>3, <1>7, <2>1, <2>2 DEF BotFails, IInv, TypeOK
<1>8. CASE BotReplies(k)
  <2>1. PICK c \in StonesOf(k.board, ".") :
          /\ board' = [k.board EXCEPT ![c] = "R"] /\ turn' = 0
          /\ calls' = (calls \ {k}) \cup
                 {[k EXCEPT !.at = "moving", !.board = [k.board EXCEPT ![c] = "R"]]}
    BY <1>8 DEF BotReplies
  <2>. DEFINE l == [k EXCEPT !.at = "moving", !.board = board']
  <2>2. board' \in Layout
    BY <1>1, <2>1, StonePut DEF StonesOf
  <2>3. l \in CallBot /\ l.mid = k.mid /\ l.board = board'
    BY <1>5, <2>2
  <2>4. calls' = (calls \ {k}) \cup {l} /\ UNCHANGED <<gameOver, loading>>
    BY <1>8, <2>1 DEF BotReplies
  <2>. HIDE DEF l
  <2>5. ScreenType'
    BY <1>1, <1>2, <2>1, <2>2, <2>3, <2>4 DEF ScreenType
  <2>6. BoardIsKnown'
    BY <1>2, <1>6, <2>3, <2>4 DEF BoardIsKnown
  <2>7. Post({MovePost(k.mid, 0, "BOT", k.id)})
    BY <1>8 DEF BotReplies
  <2>8. RequestOK(MovePost(k.mid, 0, "BOT", k.id)) /\ MovePost(k.mid, 0, "BOT", k.id).at = "sent"
    BY <1>1, MovePostOK
  <2>. QED
    BY <1>4, <2>5, <2>6, <2>7, <2>8 DEF IInv, TypeOK
<1>9. CASE BotMoveStored(k)
  <2>1. CASE CheckWinner(k.board, "R")
    <3>. DEFINE l == [k EXCEPT !.at = "finishing"]
    <3>1. /\ gameOver' = TRUE /\ Post({FinishPost(k.mid, "BOT", k.id)})
          /\ calls' = (calls \ {k}) \cup {l} /\ UNCHANGED <<loading, board, turn>>
      BY <1>9, <2>1 DEF BotMoveStored
    <3>2. l \in CallBot /\ l.mid = k.mid /\ l.board = k.board
      BY <1>1, <1>5
    <3>. HIDE DEF l
    <3>3. ScreenType'
      BY <1>1, <1>2, <3>1, <3>2 DEF ScreenType
    <3>4. BoardIsKnown'
      BY <1>2, <1>6, <3>1, <3>2 DEF BoardIsKnown
    <3>5. RequestOK(FinishPost(k.mid, "BOT", k.id)) /\ FinishPost(k.mid, "BOT", k.id).at = "sent"
      BY <1>1, FinishPostOK
    <3>. QED
      BY <1>4, <3>1, <3>3, <3>4, <3>5 DEF IInv, TypeOK
  <2>2. CASE ~CheckWinner(k.board, "R")
    <3>1. /\ calls' = calls \ {k} /\ loading' = FALSE
          /\ UNCHANGED <<gameOver, posts, board, turn>>
      BY <1>9, <2>2 DEF BotMoveStored
    <3>2. ScreenType'
      BY <1>1, <1>2, <3>1 DEF ScreenType
    <3>3. BoardIsKnown'
      BY <1>2, <1>6, <3>1 DEF BoardIsKnown
    <3>. QED
      BY <1>3, <3>1, <3>2, <3>3 DEF IInv, TypeOK
  <2>. QED
    BY <2>1, <2>2
<1>10. CASE BotFinishStored(k)
  <2>1. /\ calls' = calls \ {k} /\ loading' = FALSE
        /\ UNCHANGED <<gameOver, posts, board, turn>>
    BY <1>10 DEF BotFinishStored
  <2>2. ScreenType'
    BY <1>1, <1>2, <2>1 DEF ScreenType
  <2>3. BoardIsKnown'
    BY <1>2, <1>6, <2>1 DEF BoardIsKnown
  <2>. QED
    BY <1>3, <2>1, <2>2, <2>3 DEF IInv, TypeOK
<1>. QED
  BY <1>7, <1>8, <1>9, <1>10 DEF CallReturns

\* A new game: if a question of the old one is under way, it is mixed.
LEMMA ResetGameKeeps ==
    ASSUME IInv, ResetGame
    PROVE  IInv'
<1>1. /\ ScreenType /\ game' = game + 1 /\ mixed' = IF calls = {} THEN mixed ELSE mixed \cup {game + 1}
      /\ board' = EmptyBoard /\ turn' = 0 /\ loading' = FALSE /\ gameOver' = FALSE
      /\ creating' = IF mode = "BOT" THEN Append(creating, None) ELSE creating
      /\ UNCHANGED <<mode, mid, calls, posts, server, ranking, doubled, clicks>>
  BY DEF ResetGame, IInv, TypeOK
<1>2. ServerType' /\ EndsOnce' /\ ReadIsCurrent'
  <2>. DEFINE rs == {}
  <2>1. rs = {} /\ \A r \in rs : RequestOK(r) /\ r.at = "sent"
    OBVIOUS
  <2>. HIDE DEF rs
  <2>. QED
    BY <1>1, <2>1, ScreenStep
<1>3. EmptyBoard \in Layout
  BY DEF EmptyBoard, Layout
<1>4. /\ creating' \in Seq(Nat \cup {None})
      /\ \A i \in DOMAIN creating' : creating'[i] # None => creating'[i] \in DOMAIN matches
  BY <1>1 DEF ScreenType
<1>5. game' \in Nat \ {0} /\ mixed' \subseteq 1 .. game' /\ (game' \notin mixed' => calls = {})
  BY <1>1 DEF ScreenType
<1>6. ScreenType'
  <2>1. matches' = matches /\ calls' = calls /\ mid' = mid /\ mode' = mode /\ clicks' = clicks
    BY <1>1 DEF server
  <2>2. /\ mode' \in {"BOT", "LOCAL_2P"} /\ mid' \in DOMAIN matches' /\ calls' \subseteq CallBot
        /\ \A k \in calls' : k.mid \in DOMAIN matches'
        /\ clicks' \in Nat
    BY <1>1, <2>1 DEF ScreenType
  <2>3. board' \in Layout /\ turn' \in 0 .. 1 /\ gameOver' \in BOOLEAN /\ loading' \in BOOLEAN
    <3>1. board' = EmptyBoard /\ turn' = 0 /\ gameOver' = FALSE /\ loading' = FALSE
      BY DEF ResetGame
    <3>2. board' \in Layout
      BY <1>3, <3>1
    <3>3. turn' \in 0 .. 1
      BY <3>1
    <3>4. gameOver' \in BOOLEAN /\ loading' \in BOOLEAN
      BY <3>1
    <3>. QED
      BY <3>2, <3>3, <3>4
  <2>. QED
    BY <1>4, <1>5, <2>1, <2>2, <2>3 DEF ScreenType
<1>7. BoardIsKnown'
  BY <1>1, <1>5 DEF BoardIsKnown
<1>. QED
  BY <1>2, <1>6, <1>7 DEF IInv, TypeOK

\* The id of a new match arrives.
LEMMA MatchCreatedKeeps ==
    ASSUME IInv, MatchCreated
    PROVE  IInv'
<1>1. PICK i \in DOMAIN creating :
        /\ creating' = [j \in 1 .. Len(creating) - 1 |-> creating[IF j < i THEN j ELSE j + 1]]
        /\ mid' = IF creating[i] = None THEN mid ELSE creating[i]
  BY DEF MatchCreated
<1>2. /\ ScreenType
      /\ UNCHANGED <<mode, board, turn, gameOver, loading, calls, posts, server, ranking, ghosts>>
  BY DEF MatchCreated, IInv, TypeOK
<1>3. ServerType' /\ EndsOnce' /\ ReadIsCurrent'
  <2>. DEFINE rs == {}
  <2>1. rs = {} /\ \A r \in rs : RequestOK(r) /\ r.at = "sent"
    OBVIOUS
  <2>. HIDE DEF rs
  <2>. QED
    BY <1>2, <2>1, ScreenStep DEF ghosts
<1>4. /\ creating' \in Seq(Nat \cup {None})
      /\ \A j \in DOMAIN creating' : creating'[j] # None => creating'[j] \in DOMAIN matches
  <2>1. /\ creating \in Seq(Nat \cup {None}) /\ DOMAIN creating = 1 .. Len(creating)
        /\ Len(creating) \in Nat \ {0}
        /\ \A j \in DOMAIN creating : creating[j] # None => creating[j] \in DOMAIN matches
    BY <1>1, <1>2 DEF ScreenType
  <2>2. \A j \in 1 .. Len(creating) - 1 : (IF j < i THEN j ELSE j + 1) \in DOMAIN creating
    BY <1>1, <2>1
  <2>3. Len(creating) - 1 \in Nat
    BY <2>1
  <2>4. creating' \in [1 .. Len(creating) - 1 -> Nat \cup {None}]
    BY <1>1, <2>1, <2>2
  <2>5. creating' \in Seq(Nat \cup {None})
    BY <2>3, <2>4
  <2>6. DOMAIN creating' = 1 .. Len(creating) - 1
    BY <2>4
  <2>. QED
    BY <1>1, <2>1, <2>2, <2>5, <2>6
<1>5. mid' \in DOMAIN matches
  BY <1>1, <1>2 DEF ScreenType
<1>6. ScreenType'
  BY <1>2, <1>4, <1>5 DEF ScreenType, server, ghosts
<1>. QED
  BY <1>2, <1>3, <1>6 DEF IInv, TypeOK, BoardIsKnown, ghosts

------------------------------------------------------------------------------
(* The theorems *)

LEMMA InitIInv == Init => IInv
<1>. SUFFICES ASSUME Init PROVE IInv
  OBVIOUS
<1>1. /\ posts = EmptyBag /\ IsABag(posts) /\ InFlight = {}
  BY DEF Init, EmptyBag, SetToBag, IsABag, InFlight, BagToSet
<1>2. /\ matches = <<NewMatch(mode, TRUE)>> /\ moves = << <<>> >> /\ mode \in {"BOT", "LOCAL_2P"}
  BY DEF Init
<1>3. NewMatch(mode, TRUE) \in Row
  BY <1>2 DEF NewMatch, Row
<1>4. matches \in Seq(Row) /\ DOMAIN matches = {1} /\ DOMAIN moves = {1} /\ IsList(moves)
  <2>. DEFINE row == NewMatch(mode, TRUE)
  <2>0. row \in Row /\ matches = <<row>>
    BY <1>2, <1>3
  <2>. HIDE DEF row
  <2>1. matches \in Seq(Row) /\ DOMAIN matches = {1} /\ DOMAIN moves = {1}
    BY <1>2, <2>0, Single
  <2>2. moves = [j \in 1 .. 1 |-> moves[j]] /\ DOMAIN moves = 1 .. 1
    BY <1>2
  <2>. QED
    BY <2>1, <2>2, ListOf
<1>5. history = <<>> /\ DOMAIN history = {} /\ Len(history) = 0 /\ rating = DefaultRating
  BY DEF Init
<1>6. ServerType
  <2>1. rating \in Rating /\ bots = {}
    <3>1. rating \in Rating
      BY <1>5 DEF DefaultRating, Rating
    <3>2. bots = {}
      BY DEF Init
    <3>. QED
      BY <3>1, <3>2
  <2>2. history \in Seq(Change)
    BY <1>5
  <2>. QED
    BY <1>1, <1>4, <1>5, <2>1, <2>2 DEF ServerType
<1>7. ScreenType
  <2>1. board \in Layout /\ calls = {} /\ mixed = {} /\ turn \in 0 .. 1
    BY DEF Init, Layout, EmptyBoard
  <2>2. creating \in Seq(Nat \cup {None}) /\ DOMAIN creating = {}
    BY DEF Init
  <2>3. mid \in DOMAIN matches
    BY <1>4 DEF Init
  <2>4. gameOver \in BOOLEAN /\ loading \in BOOLEAN
    BY DEF Init
  <2>5. game \in Nat \ {0} /\ clicks \in Nat /\ mode \in {"BOT", "LOCAL_2P"}
    BY DEF Init
  <2>. QED
    BY <2>1, <2>2, <2>3, <2>4, <2>5 DEF ScreenType
<1>8. EndsOnce
  BY <1>1, <1>5 DEF EndsOnce, EndsAt, Ending, NotRated
<1>9. ReadIsCurrent
  BY <1>1, <1>5 DEF ReadIsCurrent, Writing, ChainBreaksOnlyInRaces, EloAfter, DefaultRating
<1>10. BoardIsKnown
  BY DEF Init, BoardIsKnown
<1>. QED
  BY <1>6, <1>7, <1>8, <1>9, <1>10 DEF IInv, TypeOK

LEMMA StepIInv == IInv /\ [Next]_vars => IInv'
<1>. SUFFICES ASSUME IInv, [Next]_vars PROVE IInv'
  OBVIOUS
<1>1. CASE UNCHANGED vars
  <2>1. UNCHANGED <<screen, creating, calls, posts, server, ranking, ghosts>>
    BY <1>1 DEF vars
  <2>. DEFINE rs == {}
  <2>2. rs = {} /\ \A r \in rs : RequestOK(r) /\ r.at = "sent"
    OBVIOUS
  <2>. HIDE DEF rs
  <2>3. ServerType' /\ EndsOnce' /\ ReadIsCurrent'
    BY <2>1, <2>2, ScreenStep DEF ghosts
  <2>4. ScreenType'
    BY <2>1 DEF IInv, TypeOK, ScreenType, screen, server, ghosts
  <2>5. BoardIsKnown'
    BY <2>1 DEF IInv, BoardIsKnown, screen, ghosts
  <2>. QED
    BY <2>3, <2>4, <2>5 DEF IInv, TypeOK
<1>2. CASE Next
  BY <1>2, ClickKeeps, CallReturnsKeeps, ResetGameKeeps, CreateMatchKeeps, MatchCreatedKeeps,
     HandleKeeps, RequestFailsKeeps, BotWorksKeeps, OnlineResultKeeps, CrashKeeps DEF Next, HandleSome, InFlight
<1>. QED
  BY <1>1, <1>2

\* Types, requests that name matches which are there, and what ties a request
\* past its check and an answer of the engine to the state it was made from.
THEOREM Consistent == Spec => []IInv
<1>. QED
  BY InitIInv, StepIInv, PTL DEF Spec

\* What the last result wrote (applyRatingChange) is the rating, and every result
\* starts from the end of the last one that was written when it read the row
\* (applyRatingUpdate), which is an earlier one: also after results that raced.
THEOREM RatingsFollow == Spec => []ChainBreaksOnlyInRaces
<1>1. IInv => ChainBreaksOnlyInRaces
  BY DEF IInv, ReadIsCurrent
<1>. QED
  BY <1>1, Consistent, PTL

\* Of the changes of the rating (applyRatingChange) one at most is for the same
\* match, if no two requests of finishMatch have read it as ongoing.
THEOREM MatchesAreRatedOnce == Spec => []RatedOnce
<1>1. IInv => RatedOnce
  <2>. SUFFICES ASSUME IInv, NEW m \in DOMAIN matches, m \notin doubled PROVE RatingsOf(m) <= 1
    BY DEF RatedOnce
  <2>. DEFINE changes == { i \in DOMAIN history : history[i].match = m }
  <2>1. \A i, j \in changes : i = j
    BY DEF IInv, EndsOnce, EndsAt
  <2>2. RatingsOf(m) = Cardinality(changes)
    BY DEF RatingsOf
  <2>. HIDE DEF changes
  <2>3. CASE changes = {}
    BY <2>2, <2>3, FS_EmptySet
  <2>4. CASE changes # {}
    <3>1. PICK i : changes = {i}
      BY <2>1, <2>4
    <3>2. Cardinality({i}) = 1
      BY FS_Singleton
    <3>. QED
      BY <2>2, <3>1, <3>2
  <2>. QED
    BY <2>3, <2>4
<1>. QED
  BY <1>1, Consistent, PTL

\* A match stays settled when requests that are new are unchecked or of another
\* match, and so are the bots.
LEMMA StaysSettled ==
    ASSUME NEW m, Settled(m), matches'[m] = matches[m], moves'[m] = moves[m],
           \A r \in InFlight' : r \in InFlight \/ r.match # m \/ r.at = "sent",
           \A b \in bots' : b \in bots \/ b.match # m
    PROVE  Settled(m)' /\ matches'[m] = matches[m] /\ moves'[m] = moves[m]
<1>1. Pending(m)' = {} /\ \A b \in bots' : b.match # m
  BY DEF Settled, Pending
<1>. QED
  BY <1>1 DEF Settled, Ongoing

\* A step of the service on one request.
LEMMA HandleSettled ==
    ASSUME IInv, NEW r \in InFlight, Handle(r), NEW m \in DOMAIN matches, Settled(m)
    PROVE  Settled(m)' /\ matches'[m] = matches[m] /\ moves'[m] = moves[m]
<1>1. /\ IsABag(posts) /\ matches \in Seq(Row) /\ RequestOK(r)
      /\ IsList(moves) /\ DOMAIN moves = DOMAIN matches
  BY DEF IInv, TypeOK, ServerType
<1>2. r.match = m => r.at = "sent" /\ ~Ongoing(m)
  BY DEF Settled, Pending
<1>3. ASSUME Done(r)
      PROVE  \A q \in InFlight' : q \in InFlight
  BY <1>1, <1>3, RequestDone
<1>4. ASSUME NEW q, q # r, q.match = r.match, r.match # m, Continue(r, q)
      PROVE  \A s \in InFlight' : s \in InFlight \/ s.match # m
  BY <1>1, <1>4, RequestContinues
<1>5. CASE CheckMatch(r)
  <2>1. UNCHANGED <<matches, moves, bots>> /\ r.at = "sent"
    BY <1>5 DEF CheckMatch, server
  <2>. DEFINE q == [r EXCEPT !.at = "checked"]
  <2>2. q.match = r.match /\ q # r
    BY <1>1, <2>1 DEF RequestOK, RequestType
  <2>3. IF Allowed(r) THEN Continue(r, q) ELSE Done(r)
    BY <1>5 DEF CheckMatch
  <2>. HIDE DEF q
  <2>4. Allowed(r) => r.match # m
    BY <1>2 DEF Allowed
  <2>. QED
    BY <1>3, <1>4, <2>1, <2>2, <2>3, <2>4, StaysSettled
<1>6. CASE AddMove(r)
  <2>1. r.match # m /\ Done(r) /\ UNCHANGED matches
    BY <1>2, <1>6 DEF AddMove
  <2>2. moves'[m] = moves[m]
    BY <1>6, <2>1 DEF AddMove
  <2>3. \A b \in bots' : b \in bots \/ b.match # m
    BY <1>6, <2>1 DEF AddMove
  <2>. QED
    BY <1>3, <2>1, <2>2, <2>3, StaysSettled
<1>7. CASE FinishMatch(r)
  <2>1. r.match # m /\ r.at = "checked" /\ UNCHANGED <<moves, bots>>
    BY <1>2, <1>7 DEF FinishMatch
  <2>2. matches'[m] = matches[m]
    BY <1>7, <2>1 DEF FinishMatch
  <2>. DEFINE q == [r EXCEPT !.at = "rating"]
  <2>3. q.match = r.match /\ q # r
    BY <1>1, <2>1 DEF RequestOK, RequestType
  <2>4. Continue(r, q) \/ Done(r)
    BY <1>7 DEF FinishMatch
  <2>. HIDE DEF q
  <2>. QED
    BY <1>3, <1>4, <2>1, <2>2, <2>3, <2>4, StaysSettled
<1>8. CASE ReadRating(r)
  <2>1. r.match # m /\ r.at = "rating" /\ UNCHANGED <<matches, moves, bots>>
    BY <1>2, <1>8 DEF ReadRating, server
  <2>. DEFINE q == [r EXCEPT !.at = "writing", !.read = CurrentRating, !.after = Len(history)]
  <2>2. q.match = r.match /\ q # r
    BY <1>1, <2>1 DEF RequestOK, RequestType
  <2>3. Continue(r, q)
    BY <1>8 DEF ReadRating
  <2>. HIDE DEF q
  <2>. QED
    BY <1>4, <2>1, <2>2, <2>3, StaysSettled
<1>9. CASE WriteRating(r)
  <2>1. Done(r) /\ UNCHANGED <<matches, moves, bots>>
    BY <1>9 DEF WriteRating, server
  <2>. QED
    BY <1>3, <2>1, StaysSettled
<1>. QED
  BY <1>5, <1>6, <1>7, <1>8, <1>9 DEF Handle

\* What the screen sends is not checked yet.
LEMMA ScreenSettled ==
    ASSUME IInv, NEW m \in DOMAIN matches, Settled(m), UNCHANGED server, NEW rs,
           \A r \in rs : r.at = "sent", Post(rs) \/ UNCHANGED posts
    PROVE  Settled(m)' /\ matches'[m] = matches[m] /\ moves'[m] = moves[m]
<1>1. IsABag(posts) /\ UNCHANGED <<matches, moves, bots>>
  BY DEF IInv, TypeOK, ServerType, server
<1>2. \A r \in InFlight' : r \in InFlight \/ r.at = "sent"
  <2>1. CASE Post(rs)
    BY <1>1, <2>1, Posted
  <2>2. CASE UNCHANGED posts
    BY <2>2 DEF InFlight
  <2>. QED
    BY <2>1, <2>2
<1>. QED
  BY <1>1, <1>2, StaysSettled

\* A step of the screen, or none.
LEMMA ScreenStepSettled ==
    ASSUME IInv, NEW m \in DOMAIN matches, Settled(m),
           \/ \E c \in Cells : Click(c)
           \/ \E k \in calls : CallReturns(k)
           \/ ResetGame \/ MatchCreated \/ UNCHANGED vars
    PROVE  Settled(m)' /\ matches'[m] = matches[m] /\ moves'[m] = moves[m]
<1>1. UNCHANGED server
  BY DEF Click, CallReturns, BotFails, BotReplies, BotMoveStored, BotFinishStored, ResetGame,
         MatchCreated, vars
<1>2. \/ UNCHANGED posts
      \/ \E n, t, by, w : Post({MovePost(n, t, by, w)})
      \/ \E n, by, w : Post({FinishPost(n, by, w)})
      \/ \E n : Post({MovePost(n, 1, "USER", None), FinishPost(n, "USER", None)})
  <2>1. ASSUME NEW c \in Cells, ClickBot(c)
        PROVE  \/ \E n, t, by, w : Post({MovePost(n, t, by, w)})
               \/ \E n : Post({MovePost(n, 1, "USER", None), FinishPost(n, "USER", None)})
    <3>. DEFINE won == CheckWinner([board EXCEPT ![c] = "B"], "B")
                P(rs) == Post(rs)
    <3>1. P({MovePost(mid, 1, "USER", None)}
               \cup IF won THEN {FinishPost(mid, "USER", None)} ELSE {})
      BY <2>1 DEF ClickBot
    <3>. HIDE DEF won
    <3>2. CASE won
      <4>1. {MovePost(mid, 1, "USER", None)}
               \cup (IF won THEN {FinishPost(mid, "USER", None)} ELSE {})
            = {MovePost(mid, 1, "USER", None), FinishPost(mid, "USER", None)}
        BY <3>2
      <4>2. P({MovePost(mid, 1, "USER", None), FinishPost(mid, "USER", None)})
        BY <3>1, <4>1
      <4>. QED
        BY <4>2
    <3>3. CASE ~won
      <4>1. {MovePost(mid, 1, "USER", None)}
               \cup (IF won THEN {FinishPost(mid, "USER", None)} ELSE {})
            = {MovePost(mid, 1, "USER", None)}
        BY <3>3
      <4>2. P({MovePost(mid, 1, "USER", None)})
        BY <3>1, <4>1
      <4>. QED
        BY <4>2
    <3>. QED
      BY <3>2, <3>3
  <2>2. ASSUME NEW c \in Cells, ClickLocal(c)
        PROVE  \E n, t, by, w : Post({MovePost(n, t, by, w)})
    BY <2>2 DEF ClickLocal
  <2>3. ASSUME NEW k \in calls, CallReturns(k)
        PROVE  \/ UNCHANGED posts
               \/ \E n, t, by, w : Post({MovePost(n, t, by, w)})
               \/ \E n, by, w : Post({FinishPost(n, by, w)})
    <3>1. CASE BotFails(k) \/ BotFinishStored(k)
      BY <3>1 DEF BotFails, BotFinishStored
    <3>2. CASE BotReplies(k)
      BY <3>2 DEF BotReplies
    <3>3. CASE BotMoveStored(k)
      BY <3>3 DEF BotMoveStored
    <3>. QED
      BY <2>3, <3>1, <3>2, <3>3 DEF CallReturns
  <2>4. CASE ResetGame \/ MatchCreated \/ UNCHANGED vars
    BY <2>4 DEF ResetGame, MatchCreated, vars
  <2>. QED
    BY <2>1, <2>2, <2>3, <2>4 DEF Click
<1>3. \E rs : (\A r \in rs : r.at = "sent") /\ (Post(rs) \/ UNCHANGED posts)
  <2>1. \A n, t, by, w : MovePost(n, t, by, w).at = "sent" /\ FinishPost(n, by, w).at = "sent"
    BY DEF MovePost, FinishPost, Request
  <2>2. CASE UNCHANGED posts
    <3>. WITNESS {}
    <3>. QED
      BY <2>2
  <2>3. ASSUME NEW n, NEW t, NEW by, NEW w, Post({MovePost(n, t, by, w)})
        PROVE  \E rs : (\A r \in rs : r.at = "sent") /\ Post(rs)
    <3>. WITNESS {MovePost(n, t, by, w)}
    <3>. QED
      BY <2>1, <2>3
  <2>4. ASSUME NEW n, NEW by, NEW w, Post({FinishPost(n, by, w)})
        PROVE  \E rs : (\A r \in rs : r.at = "sent") /\ Post(rs)
    <3>. WITNESS {FinishPost(n, by, w)}
    <3>. QED
      BY <2>1, <2>4
  <2>5. ASSUME NEW n, Post({MovePost(n, 1, "USER", None), FinishPost(n, "USER", None)})
        PROVE  \E rs : (\A r \in rs : r.at = "sent") /\ Post(rs)
    <3>. WITNESS {MovePost(n, 1, "USER", None), FinishPost(n, "USER", None)}
    <3>. QED
      BY <2>1, <2>5
  <2>. QED
    BY <1>2, <2>2, <2>3, <2>4, <2>5
<1>. QED
  BY <1>1, <1>3, ScreenSettled

\* A match that is settled stays so in a step of any actor.
LEMMA StepSettled ==
    ASSUME IInv, [Next]_vars, NEW m \in DOMAIN matches, Settled(m)
    PROVE  Settled(m)' /\ matches'[m] = matches[m] /\ moves'[m] = moves[m]
<1>1. /\ IsABag(posts) /\ matches \in Seq(Row) /\ IsList(moves) /\ DOMAIN moves = DOMAIN matches
  BY DEF IInv, TypeOK, ServerType
<1>2. ASSUME NEW row \in Row, matches' = Append(matches, row), moves' = Append(moves, <<>>)
      PROVE  matches'[m] = matches[m] /\ moves'[m] = moves[m] /\ Len(matches) + 1 # m
  <2>1. m \in 1 .. Len(matches) /\ Len(matches) \in Nat
    BY <1>1
  <2>2. m \in 1 .. Len(moves) /\ moves \in Seq({ moves[i] : i \in DOMAIN moves })
    BY <1>1 DEF IsList
  <2>. QED
    BY <1>1, <1>2, <2>1, <2>2
<1>3. CASE CreateMatch
  <2>1. /\ matches' = Append(matches, NewMatch("BOT", TRUE)) /\ moves' = Append(moves, <<>>)
        /\ UNCHANGED <<posts, bots>>
    BY <1>3 DEF CreateMatch
  <2>2. NewMatch("BOT", TRUE) \in Row
    BY DEF NewMatch, Row
  <2>3. InFlight' = InFlight
    BY <2>1 DEF InFlight
  <2>. QED
    BY <1>2, <2>1, <2>2, <2>3, StaysSettled
<1>4. CASE OnlineResult
  <2>1. PICK isRanked \in BOOLEAN :
          /\ matches' = Append(matches, NewMatch("ONLINE", isRanked))
          /\ moves' = Append(moves, <<>>) /\ UNCHANGED bots
    BY <1>4 DEF OnlineResult
  <2>2. NewMatch("ONLINE", isRanked) \in Row
    BY DEF NewMatch, Row
  <2>3. Len(matches) + 1 # m /\ matches'[m] = matches[m] /\ moves'[m] = moves[m]
    BY <1>2, <2>1, <2>2
  <2>4. PICK w \in {"USER", "BOT"} :
          Post({[FinishPost(Len(matches) + 1, w, None) EXCEPT !.at = "checked"]})
    BY <1>4 DEF OnlineResult
  <2>5. [FinishPost(Len(matches) + 1, w, None) EXCEPT !.at = "checked"].match = Len(matches) + 1
    BY DEF FinishPost, Request
  <2>. DEFINE rs == {[FinishPost(Len(matches) + 1, w, None) EXCEPT !.at = "checked"]}
  <2>6. Post(rs) /\ \A r \in rs : r.match # m
    BY <2>3, <2>4, <2>5
  <2>. HIDE DEF rs
  <2>7. \A r \in InFlight' : r \in InFlight \/ r.match # m
    BY <1>1, <2>6, Posted
  <2>. QED
    BY <2>1, <2>3, <2>7, StaysSettled
<1>5. CASE Crash
  <2>1. UNCHANGED <<matches, moves>> /\ InFlight' = {} /\ bots' = {}
    BY <1>5 DEF Crash, EmptyBag, SetToBag, InFlight, BagToSet
  <2>. QED
    BY <2>1, StaysSettled
<1>6. CASE \E b \in bots : BotWorks(b)
  <2>1. PICK b \in bots : BotWorks(b)
    BY <1>6
  <2>2. b.match # m /\ BotOK(b)
    BY DEF Settled, IInv, TypeOK, ServerType
  <2>3. UNCHANGED <<matches, posts>> /\ InFlight' = InFlight
    BY <2>1 DEF BotWorks, BotReads, BotInserts, BotHasNoMove, InFlight
  <2>4. moves'[m] = moves[m]
    <3>1. CASE BotInserts(b)
      <4>1. \E x : moves' = [moves EXCEPT ![b.match] = x]
        BY <3>1 DEF BotInserts
      <4>. QED
        BY <1>1, <2>2, <4>1
    <3>2. CASE BotReads(b) \/ BotHasNoMove(b)
      BY <3>2 DEF BotReads, BotHasNoMove
    <3>. QED
      BY <2>1, <3>1, <3>2 DEF BotWorks
  <2>5. \A c \in bots' : c \in bots \/ c.match # m
    <3>. DEFINE d == [b EXCEPT !.at = "asking", !.number = MaxNumber(b.match) + 1]
    <3>1. d.match = b.match
      BY <2>2 DEF BotOK
    <3>. HIDE DEF d
    <3>2. \A c \in bots' : c \in bots \/ c = d
      BY <2>1 DEF BotWorks, BotReads, BotInserts, BotHasNoMove, d
    <3>. QED
      BY <2>2, <3>1, <3>2
  <2>. QED
    BY <2>3, <2>4, <2>5, StaysSettled
<1>7. CASE HandleSome
  BY <1>7, HandleSettled DEF HandleSome, InFlight
<1>8. CASE \/ \E c \in Cells : Click(c)
           \/ \E k \in calls : CallReturns(k)
           \/ ResetGame \/ MatchCreated \/ UNCHANGED vars
  BY <1>8, ScreenStepSettled
<1>9. CASE \E r \in BagToSet(posts) : RequestFails(r)
  <2>1. PICK r \in InFlight : RequestFails(r)
    BY <1>9 DEF InFlight
  <2>2. Done(r) /\ UNCHANGED <<matches, moves, bots>>
    BY <2>1 DEF RequestFails, server
  <2>. QED
    BY <1>1, <2>1, <2>2, RequestDone, StaysSettled
<1>. QED
  BY <1>3, <1>4, <1>5, <1>6, <1>7, <1>8, <1>9 DEF Next

\* The result and the moves of a match that has finished, with no request past
\* the check of its route and no bot at work, are final (finishMatch, addMove).
THEOREM SettledMatchesAreFinal == Spec => SettledIsFinal
<1>1. IInv /\ [Next]_vars =>
        [\A m \in DOMAIN matches : Settled(m) =>
           Settled(m)' /\ matches'[m] = matches[m] /\ moves'[m] = moves[m]]_vars
  BY StepSettled
<1>. QED
  BY <1>1, Consistent, PTL DEF Spec, SettledIsFinal

\* What a question of this game knows is shown, so its answer adds to it.
LEMMA StonesStay ==
    ASSUME IInv, Next, NEW c \in Cells, game' = game, game \notin mixed, board[c] # "."
    PROVE  board'[c] = board[c]
<1>1. board \in Layout /\ game \in Nat
  BY DEF IInv, TypeOK, ScreenType
<1>2. \A s, d : d # c => [board EXCEPT ![d] = s][c] = board[c]
  BY <1>1 DEF Layout
<1>3. ASSUME NEW d \in Cells, Click(d)
      PROVE  board'[c] = board[c]
  <2>1. d # c
    BY <1>3 DEF Click, ClickBot, ClickLocal, MayClick
  <2>2. \E s : board' = [board EXCEPT ![d] = s]
    BY <1>3 DEF Click, ClickBot, ClickLocal
  <2>. QED
    BY <1>2, <2>1, <2>2
<1>4. ASSUME NEW k \in calls, CallReturns(k)
      PROVE  board'[c] = board[c]
  <2>1. k.board = board
    BY DEF IInv, BoardIsKnown
  <2>2. CASE BotFails(k)
    BY <2>1, <2>2 DEF BotFails
  <2>3. CASE BotReplies(k)
    <3>1. PICK d \in StonesOf(k.board, ".") : board' = [k.board EXCEPT ![d] = "R"]
      BY <2>3 DEF BotReplies
    <3>. QED
      BY <1>2, <2>1, <3>1 DEF StonesOf
  <2>4. CASE BotMoveStored(k) \/ BotFinishStored(k)
    BY <2>4 DEF BotMoveStored, BotFinishStored
  <2>. QED
    BY <1>4, <2>2, <2>3, <2>4 DEF CallReturns
<1>5. ~ResetGame
  BY <1>1 DEF ResetGame
<1>6. CASE \/ CreateMatch \/ MatchCreated \/ OnlineResult \/ Crash
           \/ HandleSome \/ \E r \in BagToSet(posts) : RequestFails(r)
           \/ \E b \in bots : BotWorks(b)
  BY <1>6 DEF CreateMatch, MatchCreated, OnlineResult, Crash, HandleSome, Handle, CheckMatch,
     RequestFails, AddMove, FinishMatch, ReadRating, WriteRating, BotWorks, BotReads, BotInserts, BotHasNoMove,
     screen
<1>. QED
  BY <1>3, <1>4, <1>5, <1>6 DEF Next

\* No stone leaves the board of useGameController within a game that did not
\* start while the engine was asked for another one.
THEOREM StonesAreKept == Spec => NoStoneVanishes
<1>1. IInv /\ [Next]_vars =>
        [\A c \in Cells : game' = game /\ game \notin mixed /\ board[c] # "."
                          => board'[c] = board[c]]_vars
  BY StonesStay
<1>. QED
  BY <1>1, Consistent, PTL DEF Spec, NoStoneVanishes
=============================================================================
