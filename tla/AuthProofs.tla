----------------------------- MODULE AuthProofs -----------------------------
(***************************************************************************)
(* What Auth promises for any number of tabs, browsers and calls.          *)
(***************************************************************************)
EXTENDS AuthProps, FiniteSetTheorems, WellFoundedInduction, TLAPS

USE DEF ghosts

LoginSteps == {"user", "count", "select", "evict", "session", "token"}
RefreshSteps == {"find", "reuse", "expired", "rotate", "store"}
Steps == LoginSteps \cup RefreshSteps \cup {"idle", "revoke", "done", "failed"}

Call == [op : {None, "login", "register", "refresh", "logout"}, at : Steps,
         token : Nat \cup {None}, session : Nat \cup {None}, heard : BOOLEAN]

\* What a call holds at each of its steps, where T and S are the ids of the
\* tokens and sessions there are.
Fits(r, T, S) ==
    /\ r.at \in LoginSteps => r.op \in {"login", "register"}
    /\ r.at \in RefreshSteps => r.op = "refresh" /\ r.token \in T
    /\ r.at = "revoke" => r.op = "logout"
    /\ r.at = "token" => r.session \in S
    /\ (r.at = "done" /\ r.op # "logout") => r.token \in T /\ r.session \in Nat \ {0}

Entry == [access : Access \cup {None}, refresh : Nat \cup {None}]

TypeOK ==
    /\ now \in Nat
    /\ place \in [Tabs -> Browsers]
    /\ sessions \in Seq(Session)
    /\ tokens \in Seq(Token)
    /\ call \in [Channels -> Call]
    /\ storage \in [Browsers -> Entry]
    /\ late \in Request \cup {None}
    /\ api \in Access \cup {None}
    /\ cache \subseteq [token : Access, until : Nat]

CallsFit == \A c \in Channels : Fits(call[c], DOMAIN tokens, DOMAIN sessions)
StoredIsIssued == \A b \in Browsers :
    storage[b].refresh # None => storage[b].refresh \in DOMAIN tokens

IInv == TypeOK /\ CallsFit /\ StoredIsIssued

------------------------------------------------------------------------------
(* The tables *)

\* revoking keeps every row, its session and its expiry.
LEMMA TokensRevoked ==
    ASSUME tokens \in Seq(Token), NEW ks, RevokeTokens(ks)
    PROVE  /\ tokens' \in Seq(Token)
           /\ DOMAIN tokens' = DOMAIN tokens
           /\ \A k \in DOMAIN tokens :
                /\ tokens'[k].session = tokens[k].session
                /\ tokens'[k].revoked = (tokens[k].revoked \/ k \in ks)
<1>1. DOMAIN tokens = 1..Len(tokens) /\ Len(tokens) \in Nat
  OBVIOUS
<1>2. \A k \in DOMAIN tokens : tokens[k] \in Token
  OBVIOUS
<1>3. tokens' \in [1..Len(tokens) -> Token]
  BY <1>1, <1>2 DEF RevokeTokens, Token
<1>4. tokens' \in Seq(Token)
  BY <1>1, <1>3
<1>5. \A k \in DOMAIN tokens :
        tokens'[k] = [tokens[k] EXCEPT !.revoked = @ \/ k \in ks]
  BY DEF RevokeTokens
<1>6. DOMAIN tokens' = DOMAIN tokens
  BY <1>1, <1>3
<1>7. ASSUME NEW k \in DOMAIN tokens
      PROVE  /\ tokens'[k].session = tokens[k].session
             /\ tokens'[k].revoked = (tokens[k].revoked \/ k \in ks)
  <2>1. tokens[k] \in Token /\ tokens'[k] = [tokens[k] EXCEPT !.revoked = @ \/ k \in ks]
    BY <1>2, <1>5
  <2>. QED
    BY <2>1 DEF Token
<1>. QED
  BY <1>4, <1>6, <1>7

\* A token that is stored is the only new one.
LEMMA TokenStored ==
    ASSUME tokens \in Seq(Token), now \in Nat,
           NEW c \in Channels, NEW s \in Nat \ {0}, NEW f \in Nat \ {0}, Store(c, s, f)
    PROVE  /\ tokens' \in Seq(Token)
           /\ DOMAIN tokens' = DOMAIN tokens \cup {Len(tokens) + 1}
           /\ \A k \in DOMAIN tokens : tokens'[k] = tokens[k]
           /\ tokens'[Len(tokens) + 1].session = s
<1>1. RefreshTTL \in Nat
  BY AuthAssumption
<1>2. [session |-> s, family |-> f, exp |-> now + RefreshTTL, revoked |-> FALSE] \in Token
  BY <1>1 DEF Token
<1>. QED
  BY <1>2 DEF Store

\* Ending sessions keeps every row and its user.
LEMMA SessionsRevoked ==
    ASSUME sessions \in Seq(Session), now \in Nat, NEW ss, sessions' = Revoking(ss)
    PROVE  /\ sessions' \in Seq(Session)
           /\ DOMAIN sessions' = DOMAIN sessions
           /\ \A i \in DOMAIN sessions :
                /\ sessions'[i].user = sessions[i].user
                /\ sessions'[i].revoked = (sessions[i].revoked \/ i \in ss)
                /\ sessions'[i].at =
                     IF i \in ss /\ ~sessions[i].revoked THEN now ELSE sessions[i].at
<1>1. DOMAIN sessions = 1..Len(sessions) /\ Len(sessions) \in Nat
  OBVIOUS
<1>2. \A i \in DOMAIN sessions : sessions[i] \in Session
  OBVIOUS
<1>3. sessions' \in [1..Len(sessions) -> Session]
  <2>1. ASSUME NEW i \in DOMAIN sessions, NEW at \in Nat
        PROVE  [sessions[i] EXCEPT !.revoked = @ \/ i \in ss, !.at = at] \in Session
    BY <1>2 DEF Session
  <2>2. \A i \in DOMAIN sessions : sessions[i].at \in Nat
    BY <1>2 DEF Session
  <2>. QED
    BY <1>1, <2>1, <2>2 DEF Revoking
<1>4. sessions' \in Seq(Session)
  BY <1>1, <1>3
<1>5. \A i \in DOMAIN sessions :
        sessions'[i] = [sessions[i] EXCEPT !.revoked = @ \/ i \in ss,
            !.at = IF i \in ss /\ ~sessions[i].revoked THEN now ELSE @]
  BY DEF Revoking
<1>. QED
  BY <1>1, <1>2, <1>3, <1>4, <1>5 DEF Session

------------------------------------------------------------------------------
(* Calls *)

\* A call that goes to another step keeps what it holds.
LEMMA Retagged ==
    ASSUME NEW r \in Call, NEW step \in Steps
    PROVE  LET q == [r EXCEPT !.at = step] IN
           /\ q \in Call /\ q.at = step
           /\ q.op = r.op /\ q.token = r.token /\ q.session = r.session
BY DEF Call

\* One call moves, and the tables do not shrink.
LEMMA OneMoves ==
    ASSUME call \in [Channels -> Call], CallsFit, NEW c \in Channels, NEW r \in Call,
           call' = [call EXCEPT ![c] = r],
           DOMAIN tokens \subseteq DOMAIN tokens',
           DOMAIN sessions \subseteq DOMAIN sessions',
           Fits(r, DOMAIN tokens', DOMAIN sessions')
    PROVE  call' \in [Channels -> Call] /\ CallsFit'
<1>1. \A d \in Channels : Fits(call'[d], DOMAIN tokens', DOMAIN sessions')
  BY DEF CallsFit, Fits
<1>. QED
  BY <1>1 DEF CallsFit

\* No call moves.
LEMMA NoneMoves ==
    ASSUME CallsFit, UNCHANGED call,
           DOMAIN tokens \subseteq DOMAIN tokens',
           DOMAIN sessions \subseteq DOMAIN sessions'
    PROVE  CallsFit'
BY DEF CallsFit, Fits

------------------------------------------------------------------------------
(* The types *)

\* There is an oldest among some sessions.
LEMMA LeastExists ==
    ASSUME NEW n \in Nat, NEW S \in SUBSET (1..n), S # {}
    PROVE  \E i \in S : \A j \in S : i <= j
<1>. DEFINE R == {p \in Nat \X Nat : p[1] < p[2]}
<1>1. IsWellFoundedOn(R, Nat)
  BY NatLessThanWellFounded DEF OpToRel
<1>2. S \subseteq Nat
  OBVIOUS
<1>3. \A i, j \in S : i < j => <<i, j>> \in R
  BY <1>2
<1>. HIDE DEF R
<1>4. \E m \in S : \A j \in S : ~(<<j, m>> \in R)
  BY <1>1, <1>2, WFMin, Zenon
<1>5. PICK m \in S : \A j \in S : ~(<<j, m>> \in R)
  BY <1>4
<1>6. \A j \in S : ~(j < m)
  BY <1>3, <1>5
<1>. QED
  BY <1>2, <1>6

\* Every channel belongs to a browser and its account.
LEMMA UserOfType == ASSUME TypeOK, NEW c \in Channels PROVE UserOf(c) \in Accounts
BY DEF TypeOK, UserOf, Channels, Accounts

\* The tables keep their rows, whatever is revoked in them.
SameRows ==
    /\ tokens' \in Seq(Token) /\ DOMAIN tokens' = DOMAIN tokens
    /\ sessions' \in Seq(Session) /\ DOMAIN sessions' = DOMAIN sessions

\* A query that adds no row leads on to the next one.
LEMMA StepOn ==
    ASSUME IInv, NEW c \in Channels, NEW step \in Steps, Goto(c, step),
           SameRows, UNCHANGED <<client, now, place>>,
           Fits([call[c] EXCEPT !.at = step], DOMAIN tokens, DOMAIN sessions)
    PROVE  IInv'
<1>1. call[c] \in Call
  BY DEF IInv, TypeOK
<1>2. [call[c] EXCEPT !.at = step] \in Call
  BY <1>1, Retagged
<1>3. call' = [call EXCEPT ![c] = [call[c] EXCEPT !.at = step]]
  BY DEF Goto
<1>4. call' \in [Channels -> Call] /\ CallsFit'
  BY <1>2, <1>3, OneMoves DEF IInv, TypeOK, SameRows
<1>. QED
  BY <1>4 DEF IInv, TypeOK, StoredIsIssued, client, SameRows

\* A login before its session is opened.
LEMMA LoginBegins ==
    ASSUME IInv, NEW c \in Channels,
           CreateUser(c) \/ CountSessions(c)
    PROVE  IInv'
<1>1. call[c] \in Call /\ Fits(call[c], DOMAIN tokens, DOMAIN sessions)
  BY DEF IInv, TypeOK, CallsFit
<1>2. \A u : CountLeadsTo(u) \in {"select", "session"}
  BY DEF CountLeadsTo
<1>3. PICK step \in {"session", "failed", "select"} : Goto(c, step)
  BY <1>2 DEF CreateUser, CountSessions, Fail
<1>4. /\ SameRows /\ UNCHANGED <<client, now, place>>
      /\ call[c].at \in LoginSteps
  BY DEF CreateUser, CountSessions, rows, bounds, LoginSteps, SameRows, IInv, TypeOK
<1>5. Fits([call[c] EXCEPT !.at = step], DOMAIN tokens, DOMAIN sessions) /\ step \in Steps
  BY <1>1, <1>3, <1>4, Retagged DEF Fits, LoginSteps, RefreshSteps, Steps
<1>. QED
  BY <1>3, <1>4, <1>5, StepOn

\* The oldest session is picked, if there is one.
LEMMA SelectOldestType ==
    ASSUME IInv, NEW c \in Channels, SelectOldest(c) PROVE IInv'
<1>. DEFINE oldest == CHOOSE i \in ActiveSessions(UserOf(c)) :
                         \A j \in ActiveSessions(UserOf(c)) : i <= j
            r == [call[c] EXCEPT !.at = "evict", !.session = call'[c].session]
<1>1. /\ call[c] \in Call /\ Fits(call[c], DOMAIN tokens, DOMAIN sessions)
      /\ call[c].at = "select"
      /\ UNCHANGED <<tokens, sessions, client, now, place>>
  BY DEF IInv, TypeOK, CallsFit, SelectOldest, rows, bounds
<1>2. CASE ActiveSessions(UserOf(c)) = {}
  <2>1. Goto(c, "session")
    BY <1>2 DEF SelectOldest
  <2>2. Fits([call[c] EXCEPT !.at = "session"], DOMAIN tokens, DOMAIN sessions)
        /\ "session" \in Steps
    BY <1>1, Retagged DEF Fits, LoginSteps, RefreshSteps, Steps
  <2>. QED
    BY <1>1, <2>1, <2>2, StepOn DEF SameRows, IInv, TypeOK
<1>3. CASE ActiveSessions(UserOf(c)) # {}
  <2>1. PICK s : call' = [call EXCEPT ![c] = [call[c] EXCEPT !.at = "evict", !.session = s]]
                 /\ s = oldest
    BY <1>3 DEF SelectOldest
  <2>2. oldest \in DOMAIN sessions
    <3>1. \E i \in ActiveSessions(UserOf(c)) : \A j \in ActiveSessions(UserOf(c)) : i <= j
      <4>1. ActiveSessions(UserOf(c)) \subseteq 1..Len(sessions) /\ Len(sessions) \in Nat
        BY DEF IInv, TypeOK, ActiveSessions
      <4>. QED
        BY <1>3, <4>1, LeastExists
    <3>. QED
      BY <3>1 DEF ActiveSessions
  <2>3. s \in Nat
    BY <2>1, <2>2 DEF IInv, TypeOK
  <2>4. [call[c] EXCEPT !.at = "evict", !.session = s] \in Call
        /\ Fits([call[c] EXCEPT !.at = "evict", !.session = s], DOMAIN tokens, DOMAIN sessions)
    BY <1>1, <2>3 DEF Call, Fits, LoginSteps, RefreshSteps, Steps
  <2>5. call' \in [Channels -> Call] /\ CallsFit'
    BY <1>1, <2>1, <2>4, OneMoves DEF IInv, TypeOK
  <2>. QED
    BY <1>1, <2>5 DEF IInv, TypeOK, StoredIsIssued, client
<1>. QED
  BY <1>2, <1>3

\* A query that revokes rows and leads on.
LEMMA Revokes ==
    ASSUME IInv, NEW c \in Channels,
           RevokeOldest(c) \/ RevokeFamily(c) \/ RevokeExpired(c) \/ RotateToken(c)
             \/ RevokeSessionById(c)
    PROVE  IInv'
<1>1. call[c] \in Call /\ Fits(call[c], DOMAIN tokens, DOMAIN sessions)
  BY DEF IInv, TypeOK, CallsFit
<1>2. tokens \in Seq(Token) /\ sessions \in Seq(Session) /\ now \in Nat
  BY DEF IInv, TypeOK
<1>3. PICK ks : RevokeTokens(ks)
  BY DEF RevokeOldest, RevokeFamily, RevokeExpired, RotateToken, RevokeSessionById,
         RevokeSessions
<1>4. tokens' \in Seq(Token) /\ DOMAIN tokens' = DOMAIN tokens
  BY <1>2, <1>3, TokensRevoked
<1>5. sessions' = sessions \/ \E ss : sessions' = Revoking(ss)
  BY DEF RevokeOldest, RevokeFamily, RevokeExpired, RotateToken, RevokeSessionById,
         RevokeSessions
<1>6. sessions' \in Seq(Session) /\ DOMAIN sessions' = DOMAIN sessions
  BY <1>2, <1>5, SessionsRevoked
<1>7. SameRows /\ UNCHANGED <<client, now, place>>
  BY <1>4, <1>6 DEF SameRows, RevokeOldest, RevokeFamily, RevokeExpired, RotateToken,
                    RevokeSessionById, bounds
<1>8. CASE Goto(c, "failed")
  <2>1. "failed" \in Steps
        /\ Fits([call[c] EXCEPT !.at = "failed"], DOMAIN tokens, DOMAIN sessions)
    BY <1>1, Retagged DEF Fits, LoginSteps, RefreshSteps, Steps
  <2>. QED
    BY <1>7, <1>8, <2>1, StepOn
<1>9. CASE RevokeOldest(c)
  <2>1. "session" \in Steps
        /\ Fits([call[c] EXCEPT !.at = "session"], DOMAIN tokens, DOMAIN sessions)
    BY <1>1, <1>9, Retagged DEF RevokeOldest, Fits, LoginSteps, RefreshSteps, Steps
  <2>2. Goto(c, "session")
    BY <1>9 DEF RevokeOldest
  <2>. QED
    BY <1>7, <2>1, <2>2, StepOn
<1>10. CASE RotateToken(c)
  <2>1. "store" \in Steps
        /\ Fits([call[c] EXCEPT !.at = "store"], DOMAIN tokens, DOMAIN sessions)
    BY <1>1, <1>10, Retagged DEF RotateToken, Fits, LoginSteps, RefreshSteps, Steps
  <2>2. Goto(c, "store")
    BY <1>10 DEF RotateToken
  <2>. QED
    BY <1>7, <2>1, <2>2, StepOn
<1>11. CASE RevokeSessionById(c)
  <2>1. "done" \in Steps
        /\ Fits([call[c] EXCEPT !.at = "done"], DOMAIN tokens, DOMAIN sessions)
    BY <1>1, <1>11, Retagged DEF RevokeSessionById, Fits, LoginSteps, RefreshSteps, Steps
  <2>2. Goto(c, "done")
    BY <1>11 DEF RevokeSessionById
  <2>. QED
    BY <1>7, <2>1, <2>2, StepOn
<1>. QED
  BY <1>8, <1>9, <1>10, <1>11 DEF RevokeFamily, RevokeExpired, Fail

\* The token that was presented has been looked up.
LEMMA FindTokenType ==
    ASSUME IInv, NEW c \in Channels, FindToken(c) PROVE IInv'
<1>1. call[c] \in Call /\ Fits(call[c], DOMAIN tokens, DOMAIN sessions)
  BY DEF IInv, TypeOK, CallsFit
<1>2. PICK step \in {"reuse", "expired", "rotate"} : Goto(c, step)
  BY DEF FindToken, FindLeadsTo
<1>3. /\ SameRows /\ UNCHANGED <<client, now, place>>
      /\ call[c].at = "find"
  BY DEF FindToken, rows, bounds, SameRows, IInv, TypeOK
<1>4. step \in Steps /\ Fits([call[c] EXCEPT !.at = step], DOMAIN tokens, DOMAIN sessions)
  BY <1>1, <1>2, <1>3, Retagged DEF Fits, LoginSteps, RefreshSteps, Steps
<1>. QED
  BY <1>2, <1>3, <1>4, StepOn

\* A login opens its session.
LEMMA CreateSessionType ==
    ASSUME IInv, NEW c \in Channels, CreateSession(c)
    PROVE  /\ IInv'
           /\ sessions' = Append(sessions, [user |-> UserOf(c), revoked |-> FALSE, at |-> 0])
           /\ DOMAIN sessions' = DOMAIN sessions \cup {Len(sessions) + 1}
<1>. DEFINE r == [call[c] EXCEPT !.at = "token", !.session = Len(sessions) + 1]
<1>1. call[c] \in Call /\ Fits(call[c], DOMAIN tokens, DOMAIN sessions)
  BY DEF IInv, TypeOK, CallsFit
<1>2. [user |-> UserOf(c), revoked |-> FALSE, at |-> 0] \in Session
  BY UserOfType DEF IInv, Session
<1>3. /\ sessions \in Seq(Session) /\ Len(sessions) + 1 \in Nat
      /\ sessions' = Append(sessions, [user |-> UserOf(c), revoked |-> FALSE, at |-> 0])
      /\ UNCHANGED <<tokens, client, now, place>> /\ call[c].at = "session"
  BY DEF IInv, TypeOK, CreateSession, bounds
<1>7. call' = [call EXCEPT ![c] = r]
  BY DEF CreateSession
<1>4. sessions' \in Seq(Session)
      /\ DOMAIN sessions' = DOMAIN sessions \cup {Len(sessions) + 1}
  BY <1>2, <1>3
<1>5. r \in Call /\ Fits(r, DOMAIN tokens', DOMAIN sessions')
  BY <1>1, <1>3, <1>4 DEF Call, Fits, LoginSteps, RefreshSteps, Steps
<1>6. call' \in [Channels -> Call] /\ CallsFit'
  BY <1>3, <1>4, <1>5, <1>7, OneMoves DEF IInv, TypeOK
<1>. QED
  BY <1>3, <1>4, <1>6 DEF IInv, TypeOK, StoredIsIssued, client

\* A token is stored, for a login or for a refresh.
LEMMA StoreType ==
    ASSUME IInv, NEW c \in Channels, NEW s \in Nat \ {0}, NEW f \in Nat \ {0},
           Store(c, s, f), UNCHANGED <<sessions, client, now, place>>
    PROVE  IInv'
<1>. DEFINE r == [call[c] EXCEPT !.at = "done", !.token = Len(tokens) + 1, !.session = s]
<1>1. call[c] \in Call /\ Len(tokens) + 1 \in Nat
  BY DEF IInv, TypeOK
<1>2. /\ tokens' \in Seq(Token)
      /\ DOMAIN tokens' = DOMAIN tokens \cup {Len(tokens) + 1}
  BY TokenStored DEF IInv, TypeOK
<1>3. call' = [call EXCEPT ![c] = r]
  BY DEF Store
<1>4. r \in Call /\ Fits(r, DOMAIN tokens', DOMAIN sessions')
  BY <1>1, <1>2 DEF Call, Fits, LoginSteps, RefreshSteps, Steps
<1>5. call' \in [Channels -> Call] /\ CallsFit'
  BY <1>2, <1>3, <1>4, OneMoves DEF IInv, TypeOK
<1>. QED
  BY <1>2, <1>5 DEF IInv, TypeOK, StoredIsIssued, client

\* A login gets the token of the session it has opened.
LEMMA IssueTokenType ==
    ASSUME IInv, NEW c \in Channels, IssueToken(c)
    PROVE  /\ IInv' /\ call[c].session \in DOMAIN sessions
           /\ call[c].session \in Nat \ {0}
           /\ Store(c, call[c].session, call[c].session)
<1>1. call[c].session \in DOMAIN sessions /\ Store(c, call[c].session, call[c].session)
  BY DEF IInv, CallsFit, Fits, IssueToken
<1>2. call[c].session \in Nat \ {0}
  BY <1>1 DEF IInv, TypeOK
<1>3. UNCHANGED <<sessions, client, now, place>>
  BY DEF IssueToken, bounds
<1>. QED
  BY <1>1, <1>2, <1>3, StoreType

\* A refresh gets the next token of the session of the one it presented.
LEMMA StoreNextType ==
    ASSUME IInv, NEW c \in Channels, StoreNext(c)
    PROVE  /\ IInv' /\ call[c].token \in DOMAIN tokens
           /\ tokens[call[c].token].session \in Nat \ {0}
           /\ tokens[call[c].token].family \in Nat \ {0}
           /\ Store(c, tokens[call[c].token].session, tokens[call[c].token].family)
<1>1. call[c].token \in DOMAIN tokens
      /\ Store(c, tokens[call[c].token].session, tokens[call[c].token].family)
  BY DEF IInv, CallsFit, Fits, StoreNext, RefreshSteps
<1>2. tokens[call[c].token].session \in Nat \ {0}
      /\ tokens[call[c].token].family \in Nat \ {0}
  <2>1. tokens[call[c].token] \in Token
    BY <1>1 DEF IInv, TypeOK
  <2>. QED
    BY <2>1 DEF Token
<1>3. UNCHANGED <<sessions, client, now, place>>
  BY DEF StoreNext, bounds
<1>. QED
  BY <1>1, <1>2, <1>3, StoreType

\* Calls only end, fail or lose their listener.
CallsFade == \A c \in Channels :
    call'[c] \in {NoCall, call[c], [call[c] EXCEPT !.heard = FALSE],
                  [call[c] EXCEPT !.at = "failed"]}

\* What a call that fades holds still fits.
LEMMA Fading ==
    ASSUME call \in [Channels -> Call], CallsFit, CallsFade,
           DOMAIN call' = Channels, call' = [c \in Channels |-> call'[c]],
           DOMAIN tokens' = DOMAIN tokens, DOMAIN sessions' = DOMAIN sessions
    PROVE  call' \in [Channels -> Call] /\ CallsFit'
<1>1. ASSUME NEW c \in Channels
      PROVE  call'[c] \in Call /\ Fits(call'[c], DOMAIN tokens, DOMAIN sessions)
  <2>1. call[c] \in Call /\ Fits(call[c], DOMAIN tokens, DOMAIN sessions)
    BY DEF CallsFit
  <2>2. NoCall \in Call /\ Fits(NoCall, DOMAIN tokens, DOMAIN sessions)
    BY DEF NoCall, Call, Steps, Fits, LoginSteps, RefreshSteps
  <2>3. [call[c] EXCEPT !.heard = FALSE] \in Call
        /\ Fits([call[c] EXCEPT !.heard = FALSE], DOMAIN tokens, DOMAIN sessions)
    BY <2>1 DEF Call, Fits
  <2>4. [call[c] EXCEPT !.at = "failed"] \in Call
        /\ Fits([call[c] EXCEPT !.at = "failed"], DOMAIN tokens, DOMAIN sessions)
    BY <2>1 DEF Call, Fits, Steps, LoginSteps, RefreshSteps
  <2>. QED
    BY <2>1, <2>2, <2>3, <2>4 DEF CallsFade
<1>2. call' \in [Channels -> Call]
  BY <1>1
<1>. QED
  BY <1>1, <1>2 DEF CallsFit

------------------------------------------------------------------------------
(* Tabs *)

\* The step at which a call begins.
FirstStep(op) == CASE op = "login" -> "count" [] op = "register" -> "user"
                   [] op = "refresh" -> "find" [] OTHER -> "revoke"

\* A call begins.
LEMMA StartType ==
    ASSUME IInv, NEW c \in Channels, NEW op \in {"login", "register", "refresh", "logout"},
           NEW token \in Nat \cup {None}, op = "refresh" => token \in DOMAIN tokens,
           Start(c, op, token), UNCHANGED <<tokens, sessions>>
    PROVE  call' \in [Channels -> Call] /\ CallsFit'
<1>. DEFINE r == [NoCall EXCEPT !.op = op, !.token = token, !.at = FirstStep(op)]
<1>1. call' = [call EXCEPT ![c] = r]
  BY DEF Start, FirstStep
<1>2. FirstStep(op) \in {"count", "user", "find", "revoke"}
      /\ (FirstStep(op) = "find" <=> op = "refresh")
      /\ (FirstStep(op) = "revoke" <=> op = "logout")
  BY DEF FirstStep
<1>3. r \in Call /\ Fits(r, DOMAIN tokens, DOMAIN sessions)
  BY <1>2 DEF NoCall, Call, Fits, LoginSteps, RefreshSteps, Steps
<1>. QED
  BY <1>1, <1>3, OneMoves DEF IInv, TypeOK

\* A tab stores what it is given.
LEMMA Stored ==
    ASSUME IInv, NEW c \in Channels, NEW a \in Access \cup {None},
           NEW k \in DOMAIN tokens \cup {None}, SetStorage(c[1], a, k), UNCHANGED tokens
    PROVE  storage' \in [Browsers -> Entry] /\ StoredIsIssued'
<1>1. place[c[1]] \in Browsers
  BY DEF IInv, TypeOK, Channels
<1>2. k \in Nat \cup {None}
  BY DEF IInv, TypeOK
<1>3. [access |-> a, refresh |-> k] \in Entry
  BY <1>2 DEF Entry
<1>4. storage' = [storage EXCEPT ![place[c[1]]] = [access |-> a, refresh |-> k]]
  BY DEF SetStorage
<1>. QED
  BY <1>1, <1>3, <1>4 DEF IInv, TypeOK, StoredIsIssued

\* A tab is in a browser, which holds an entry.
LEMMA MineType ==
    ASSUME IInv, NEW t \in Tabs
    PROVE  /\ Mine(t) \in Entry
           /\ Mine(t).refresh # None => Mine(t).refresh \in DOMAIN tokens
           /\ <<t, "form">> \in Channels /\ <<t, "refresh">> \in Channels
BY DEF IInv, TypeOK, StoredIsIssued, Mine, Channels

\* What is left of requests is a request or none.
LEMMA LateType ==
    ASSUME IInv, NEW t \in Tabs
    PROVE  LET R == Request \cup {None} IN
           /\ Out(t) \subseteq R
           /\ \A Q \in SUBSET R : Unanswered(t, Q) \subseteq R
           /\ \A a : Left(t, a) \subseteq R
<1>1. Mine(t).access # None => Mine(t).access \in Access
  BY MineType DEF Entry
<1>2. Out(t) \subseteq Request \cup {None}
  BY <1>1 DEF Out, Request, IInv, TypeOK
<1>. QED
  BY <1>2 DEF Unanswered, Left, IInv, TypeOK

\* A form is sent.
LEMMA SubmitType ==
    ASSUME IInv, NEW t \in Tabs, SubmitLogin(t) \/ SubmitRegister(t)
    PROVE  IInv'
<1>1. PICK op \in {"login", "register"} : Start(<<t, "form">>, op, None)
  BY DEF SubmitLogin, SubmitRegister
<1>2. UNCHANGED <<tokens, sessions, client, now, place>>
  BY DEF SubmitLogin, SubmitRegister, rows, bounds
<1>3. call' \in [Channels -> Call] /\ CallsFit'
  BY <1>1, <1>2, MineType, StartType
<1>. QED
  BY <1>2, <1>3 DEF IInv, TypeOK, StoredIsIssued, client

\* Log out: at the service, or here alone.
LEMMA LogoutType ==
    ASSUME IInv, NEW t \in Tabs, Logout(t)
    PROVE  IInv'
<1>1. UNCHANGED <<tokens, sessions, now, place, api, cache>>
  BY DEF Logout, rows, bounds
<1>2. CASE Vouched(Mine(t).access)
  <2>1. Mine(t).access \in Access
    BY MineType DEF Logout, Entry
  <2>2. Mine(t).access.session \in Nat \cup {None}
    BY <2>1 DEF Access
  <2>3. /\ Start(<<t, "form">>, "logout", Mine(t).access.session)
        /\ UNCHANGED <<storage, late>>
    BY <1>2 DEF Logout
  <2>4. call' \in [Channels -> Call] /\ CallsFit'
    BY <1>1, <2>2, <2>3, MineType, StartType
  <2>. QED
    BY <1>1, <2>3, <2>4 DEF IInv, TypeOK, StoredIsIssued
<1>3. CASE ~Vouched(Mine(t).access)
  <2>1. SetStorage(t, None, None) /\ late' \in Out(t) /\ UNCHANGED call
    BY <1>3 DEF Logout
  <2>2. storage' \in [Browsers -> Entry] /\ StoredIsIssued'
    <3>1. SetStorage(<<t, "form">>[1], None, None)
      BY <2>1
    <3>. QED
      BY <1>1, <3>1, MineType, Stored
  <2>3. CallsFit'
    BY <1>1, <2>1, NoneMoves DEF IInv
  <2>. QED
    BY <1>1, <2>1, <2>2, <2>3, LateType DEF IInv, TypeOK
<1>. QED
  BY <1>2, <1>3

\* A tab that gives up.
LEMMA LeaveType ==
    ASSUME IInv, NEW t \in Tabs, NEW calls,
           \/ calls = call
           \/ \E c \in Channels : calls = [call EXCEPT ![c] = NoCall],
           Leave(t, calls), UNCHANGED <<tokens, sessions, now, place, api, cache>>
    PROVE  IInv' /\ CallsFade
<1>1. CallsFade /\ call' = [d \in Channels |-> call'[d]]
  BY DEF Leave, CallsFade, IInv, TypeOK
<1>2. call' \in [Channels -> Call] /\ CallsFit'
  BY <1>1, Fading DEF IInv, TypeOK
<1>3. storage' \in [Browsers -> Entry] /\ StoredIsIssued'
  <2>1. SetStorage(<<t, "form">>[1], None, None)
    BY DEF Leave
  <2>. QED
    BY <2>1, MineType, Stored
<1>4. late' \in Request \cup {None}
  BY LateType DEF Leave
<1>. QED
  BY <1>1, <1>2, <1>3, <1>4 DEF IInv, TypeOK

\* A request is refused: the tab asks for another token or gives up.
LEMMA RefusedType ==
    ASSUME IInv, NEW t \in Tabs, Refused(t)
    PROVE  IInv'
<1>1. UNCHANGED <<tokens, sessions, now, place, api, cache>>
  BY DEF Refused, rows, bounds
<1>2. CASE Mine(t).refresh # None
  <2>1. Mine(t).refresh \in DOMAIN tokens
    BY <1>2, MineType
  <2>4. Mine(t).refresh \in Nat
    BY <2>1 DEF IInv, TypeOK
  <2>2. /\ Start(<<t, "refresh">>, "refresh", Mine(t).refresh) /\ UNCHANGED storage
        /\ \E a : late' \in Left(t, a)
    BY <1>2 DEF Refused
  <2>3. call' \in [Channels -> Call] /\ CallsFit'
    BY <1>1, <2>1, <2>2, <2>4, MineType, StartType
  <2>. QED
    BY <1>1, <2>2, <2>3, LateType DEF IInv, TypeOK, StoredIsIssued
<1>3. CASE Mine(t).refresh = None
  <2>1. Leave(t, call)
    BY <1>3 DEF Refused
  <2>. QED
    BY <1>1, <2>1, LeaveType
<1>. QED
  BY <1>2, <1>3

\* What it does to the calls.
LEMMA RefusedFades ==
    ASSUME IInv, NEW t \in Tabs, Refused(t)
    PROVE  CallsFade \/ \E op, token : Start(<<t, "refresh">>, op, token)
<1>1. CASE Leave(t, call)
  BY <1>1, LeaveType DEF Refused, rows, bounds
<1>. QED
  BY <1>1 DEF Refused

\* The answer of a call that is done.
LEMMA AnswerType ==
    ASSUME IInv, NEW c \in Channels, Answer(c)
    PROVE  IInv'
<1>1. /\ UNCHANGED <<tokens, sessions, now, place, api, cache>>
      /\ call[c].at = "done" /\ call' = [call EXCEPT ![c] = NoCall]
  BY DEF Answer, rows, bounds
<1>2. call[c] \in Call /\ Fits(call[c], DOMAIN tokens, DOMAIN sessions)
  BY DEF IInv, TypeOK, CallsFit
<1>3. NoCall \in Call /\ Fits(NoCall, DOMAIN tokens, DOMAIN sessions)
  BY DEF NoCall, Call, Steps, Fits, LoginSteps, RefreshSteps
<1>4. call' \in [Channels -> Call] /\ CallsFit'
  BY <1>1, <1>3, OneMoves DEF IInv, TypeOK
<1>5. storage' \in [Browsers -> Entry] /\ StoredIsIssued'
  <2>1. CASE UNCHANGED storage
    BY <1>1, <2>1 DEF IInv, TypeOK, StoredIsIssued
  <2>2. CASE SetStorage(c[1], None, None)
    BY <1>1, <2>2, Stored
  <2>3. CASE call[c].op # "logout" /\ SetStorage(c[1], AccessToken(c), KeptToken(c))
    <3>1. KeptToken(c) \in DOMAIN tokens /\ call[c].session \in Nat \ {0}
      BY <1>1, <1>2, <2>3 DEF Fits, KeptToken
    <3>2. AccessToken(c) \in Access
      BY <3>1, AuthAssumption DEF AccessToken, Access, IInv, TypeOK
    <3>. QED
      BY <1>1, <2>3, <3>1, <3>2, Stored
  <2>. QED
    BY <2>1, <2>2, <2>3 DEF Answer
<1>6. late' \in Request \cup {None}
  <2>1. c[1] \in Tabs /\ (late' = late \/ late' \in Out(c[1]))
    BY DEF Answer, Channels
  <2>. QED
    BY <2>1, LateType DEF IInv, TypeOK
<1>. QED
  BY <1>1, <1>4, <1>5, <1>6 DEF IInv, TypeOK

\* A call that has failed.
LEMMA RefreshFailsType ==
    ASSUME IInv, NEW c \in Channels, RefreshFails(c)
    PROVE  IInv' /\ CallsFade
<1>1. UNCHANGED <<tokens, sessions, now, place, api, cache>>
  BY DEF RefreshFails, rows, bounds
<1>2. CASE UNCHANGED <<storage, late>> /\ call' = [call EXCEPT ![c] = NoCall]
  <2>1. CallsFade /\ call' = [d \in Channels |-> call'[d]]
    BY <1>2 DEF CallsFade, IInv, TypeOK
  <2>2. call' \in [Channels -> Call] /\ CallsFit'
    BY <1>1, <2>1, Fading DEF IInv, TypeOK
  <2>. QED
    BY <1>1, <1>2, <2>1, <2>2 DEF IInv, TypeOK, StoredIsIssued
<1>3. CASE Leave(c[1], [call EXCEPT ![c] = NoCall])
  <2>1. c[1] \in Tabs
    BY DEF Channels
  <2>. QED
    BY <1>1, <1>3, <2>1, LeaveType
<1>. QED
  BY <1>2, <1>3 DEF RefreshFails

\* A page is loaded again, or the service starts again.
LEMMA FaultType ==
    ASSUME IInv, Restart \/ \E t \in Tabs : Reload(t)
    PROVE  IInv' /\ CallsFade
<1>1. /\ UNCHANGED <<tokens, sessions, storage, now, place, api, cache>>
      /\ late' \in Request \cup {None}
  <2>1. CASE Restart
    BY <2>1 DEF Restart, rows, IInv, TypeOK
  <2>2. ASSUME NEW t \in Tabs, Reload(t)
        PROVE  /\ UNCHANGED <<tokens, sessions, storage, now, place, api, cache>>
               /\ late' \in Request \cup {None}
    <3>1. late' \in Unanswered(t, {late})
      BY <2>2 DEF Reload
    <3>2. late' \in Request \cup {None}
      BY <3>1, LateType DEF IInv, TypeOK
    <3>. QED
      BY <2>2, <3>2 DEF Reload, rows
  <2>. QED
    BY <2>1, <2>2
<1>2. CASE Restart
  <2>1. CallsFade /\ call' = [d \in Channels |-> call'[d]]
    BY <1>2 DEF Restart, CallsFade
  <2>2. call' \in [Channels -> Call] /\ CallsFit'
    BY <1>1, <2>1, Fading DEF IInv, TypeOK
  <2>. QED
    BY <1>1, <2>1, <2>2 DEF IInv, TypeOK, StoredIsIssued
<1>3. CASE \E t \in Tabs : Reload(t)
  <2>1. CallsFade /\ call' = [d \in Channels |-> call'[d]]
    BY <1>3 DEF Reload, CallsFade
  <2>2. call' \in [Channels -> Call] /\ CallsFit'
    BY <1>1, <2>1, Fading DEF IInv, TypeOK
  <2>. QED
    BY <1>1, <2>1, <2>2 DEF IInv, TypeOK, StoredIsIssued
<1>. QED
  BY <1>2, <1>3

\* Every session of an account is ended.
LEMMA LogoutAllType ==
    ASSUME IInv, NEW u \in Accounts, LogoutAll(u)
    PROVE  IInv' /\ UNCHANGED call
<1>1. PICK ss : sessions' = Revoking(ss) /\ RevokeTokens(TokensOfSessions(ss))
  BY DEF LogoutAll, RevokeSessions
<1>2. /\ tokens' \in Seq(Token) /\ DOMAIN tokens' = DOMAIN tokens
      /\ sessions' \in Seq(Session) /\ DOMAIN sessions' = DOMAIN sessions
  BY <1>1, TokensRevoked, SessionsRevoked DEF IInv, TypeOK
<1>3. UNCHANGED <<call, client, now, place>>
  BY DEF LogoutAll
<1>4. CallsFit'
  BY <1>2, <1>3, NoneMoves DEF IInv
<1>. QED
  BY <1>2, <1>3, <1>4 DEF IInv, TypeOK, StoredIsIssued, client

\* A service asks about an access token, stores the answer, or time goes by.
LEMMA CacheType ==
    ASSUME IInv, Accepted \/ Tick \/ \E t \in Tabs : Verify(t)
    PROVE  IInv' /\ UNCHANGED <<tokens, sessions, call>>
<1>1. UNCHANGED <<tokens, sessions, call, storage, place>>
  BY DEF Accepted, Tick, Verify, rows, bounds
<1>2. CallsFit' /\ StoredIsIssued'
  BY <1>1, NoneMoves DEF IInv, StoredIsIssued
<1>3. CASE Accepted
  <2>1. api \in Access /\ CacheTTL \in Nat /\ now \in Nat
    BY <1>3, AuthAssumption DEF Accepted, IInv, TypeOK
  <2>2. CacheUntil(api) \in Nat
    BY <2>1 DEF CacheUntil, Access
  <2>. QED
    BY <1>1, <1>2, <1>3, <2>1, <2>2 DEF Accepted, IInv, TypeOK, bounds
<1>4. CASE Tick
  BY <1>1, <1>2, <1>4 DEF Tick, IInv, TypeOK
<1>5. CASE \E t \in Tabs : Verify(t)
  <2>0. PICK t \in Tabs : Verify(t)
    BY <1>5
  <2>1. PICK a \in Asked(t) : api' = a /\ late' \in Left(t, a)
    BY <2>0 DEF Verify
  <2>2. a \in Access
    <3>1. Mine(t).access \in Access \cup {None}
      BY MineType DEF Entry
    <3>2. \A r \in {late} \ {None} : r.token \in Access
      BY DEF Request, IInv, TypeOK
    <3>. QED
      BY <2>1, <3>1, <3>2 DEF Asked
  <2>3. late' \in Request \cup {None} /\ UNCHANGED <<cache, now>>
    BY <2>0, <2>1, LateType DEF Verify, bounds
  <2>. QED
    BY <1>1, <1>2, <2>1, <2>2, <2>3 DEF IInv, TypeOK
<1>. QED
  BY <1>1, <1>3, <1>4, <1>5

------------------------------------------------------------------------------
(* The types are invariant *)

\* No query forgets what the calls and the tables are made of.
LEMMA QueryType == ASSUME IInv, NEW c \in Channels, Query(c) PROVE IInv'
BY LoginBegins, SelectOldestType, Revokes, CreateSessionType, IssueTokenType,
   FindTokenType, StoreNextType DEF Query

\* No step does.
LEMMA StepType == IInv /\ [Next]_vars => IInv'
<1>. SUFFICES ASSUME IInv, [Next]_vars PROVE IInv'
  OBVIOUS
<1>1. CASE UNCHANGED vars
  <2>1. UNCHANGED <<tokens, sessions, call, client, now, place>>
    BY <1>1 DEF vars, rows, bounds
  <2>2. CallsFit'
    BY <2>1, NoneMoves DEF IInv
  <2>. QED
    BY <2>1, <2>2 DEF IInv, TypeOK, StoredIsIssued, client
<1>2. CASE Tick \/ Accepted \/ \E t \in Tabs : Verify(t)
  BY <1>2, CacheType
<1>3. CASE Restart \/ \E t \in Tabs : Reload(t)
  BY <1>3, FaultType
<1>4. CASE \E u \in Accounts : LogoutAll(u)
  BY <1>4, LogoutAllType
<1>5. CASE \E t \in Tabs : SubmitLogin(t) \/ SubmitRegister(t) \/ Logout(t) \/ Refused(t)
  BY <1>5, SubmitType, LogoutType, RefusedType
<1>6. CASE \E c \in Channels : Query(c) \/ Answer(c) \/ RefreshFails(c)
  BY <1>6, QueryType, AnswerType, RefreshFailsType
<1>. QED
  BY <1>1, <1>2, <1>3, <1>4, <1>5, <1>6 DEF Next, Tab

\* Nor does the start.
LEMMA InitType == Init => IInv
<1>. SUFFICES ASSUME Init PROVE IInv
  OBVIOUS
<1>1. NoCall \in Call /\ \A T, S : Fits(NoCall, T, S)
  BY DEF NoCall, Call, Steps, Fits, LoginSteps, RefreshSteps
<1>2. TypeOK
  BY <1>1 DEF Init, TypeOK, Entry
<1>. QED
  BY <1>1, <1>2 DEF Init, IInv, CallsFit, StoredIsIssued

\* Whatever the tabs do, a call that has found a token or opened a session
\* names rows that are there, and a browser holds a token that was issued.
THEOREM TypeCorrect == Spec => []IInv
BY InitType, StepType, PTL DEF Spec

------------------------------------------------------------------------------
(* A session without a good token *)

Dead(s) == LiveTokens(s) = {} /\ Renewing(s) = {}

\* A call that is not about to give session s a token.
Silent(s, r) ==
    \/ r.at \notin {"rotate", "store", "token"}
    \/ /\ r.at \in {"rotate", "store"}
       /\ r.token \in DOMAIN tokens /\ tokens[r.token].session # s
    \/ r.at = "token" /\ r.session # s

\* Every call is silent about a dead session.
LEMMA DeadIsSilent ==
    ASSUME IInv, NEW s, Dead(s), NEW c \in Channels
    PROVE  Silent(s, call[c])
<1>1. c \notin Renewing(s)
  BY DEF Dead
<1>2. Fits(call[c], DOMAIN tokens, DOMAIN sessions)
  BY DEF IInv, CallsFit
<1>. QED
  BY <1>1, <1>2 DEF Renewing, Silent, Fits, RefreshSteps

\* No token of a dead session is good.
LEMMA DeadTokens ==
    ASSUME NEW s, Dead(s), NEW k \in DOMAIN tokens, tokens[k].session = s
    PROVE  tokens[k].revoked
BY DEF Dead, LiveTokens, Unrevoked, TokensOfSessions

\* Tokens keep their sessions, stay revoked, and none of session s is new.
NoneFor(s) ==
    /\ DOMAIN tokens \subseteq DOMAIN tokens'
    /\ \A k \in DOMAIN tokens :
         /\ tokens'[k].session = tokens[k].session
         /\ tokens[k].revoked => tokens'[k].revoked
    /\ \A k \in DOMAIN tokens' \ DOMAIN tokens : tokens'[k].session # s

\* Then the session stays dead.
LEMMA StaysDead ==
    ASSUME NEW s, Dead(s), NoneFor(s), \A c \in Channels : Silent(s, call'[c])
    PROVE  LiveTokens(s)' = {} /\ Renewing(s)' = {}
<1>1. \A k \in DOMAIN tokens' : tokens'[k].session = s => tokens'[k].revoked
  BY DeadTokens DEF NoneFor
<1>2. LiveTokens(s)' = {}
  BY <1>1 DEF LiveTokens, Unrevoked, TokensOfSessions
<1>3. Renewing(s)' = {}
  BY DEF Renewing, Silent, NoneFor
<1>. QED
  BY <1>2, <1>3

\* One call goes on, silently.
LEMMA OneSilent ==
    ASSUME IInv, NEW s, Dead(s), NoneFor(s), NEW c \in Channels, NEW r \in Call,
           call' = [call EXCEPT ![c] = r], Silent(s, r)
    PROVE  LiveTokens(s)' = {} /\ Renewing(s)' = {}
<1>1. \A d \in Channels : call'[d] = IF d = c THEN r ELSE call[d]
  BY DEF IInv, TypeOK
<1>2. \A d \in Channels : Silent(s, call'[d])
  BY <1>1, DeadIsSilent
<1>. QED
  BY <1>2, StaysDead

\* Revoking gives no session a token.
LEMMA RevokingIsNoneFor ==
    ASSUME IInv, NEW s, NEW ks, RevokeTokens(ks)
    PROVE  NoneFor(s)
BY TokensRevoked DEF IInv, TypeOK, NoneFor

\* A query that leads on with the call as it is.
LEMMA StepOnSilent ==
    ASSUME IInv, NEW s, Dead(s), NoneFor(s), NEW c \in Channels, NEW step \in Steps,
           Goto(c, step),
           \/ step \notin {"rotate", "store", "token"}
           \/ step \in {"rotate", "store"} /\ call[c].token \in DOMAIN tokens
                /\ tokens[call[c].token].session # s
    PROVE  LiveTokens(s)' = {} /\ Renewing(s)' = {}
<1>1. call[c] \in Call
  BY DEF IInv, TypeOK
<1>2. [call[c] EXCEPT !.at = step] \in Call /\ Silent(s, [call[c] EXCEPT !.at = step])
  BY <1>1, Retagged DEF Silent
<1>3. call' = [call EXCEPT ![c] = [call[c] EXCEPT !.at = step]]
  BY DEF Goto
<1>. QED
  BY <1>2, <1>3, OneSilent

\* Calls that only fade are silent.
LEMMA FadingIsSilent ==
    ASSUME IInv, NEW s, Dead(s), NoneFor(s), CallsFade
    PROVE  LiveTokens(s)' = {} /\ Renewing(s)' = {}
<1>1. ASSUME NEW c \in Channels PROVE Silent(s, call'[c])
  <2>1. call[c] \in Call /\ Silent(s, call[c])
    BY DeadIsSilent DEF IInv, TypeOK
  <2>2. Silent(s, NoCall) /\ Silent(s, [call[c] EXCEPT !.at = "failed"])
        /\ Silent(s, [call[c] EXCEPT !.heard = FALSE])
    BY <2>1 DEF Silent, NoCall, Call
  <2>. QED
    BY <2>1, <2>2 DEF CallsFade
<1>. QED
  BY <1>1, StaysDead

\* The queries of a login give a token to the session it has opened, which is
\* a new one.
LEMMA LoginIsSilent ==
    ASSUME IInv, NEW s \in DOMAIN sessions, Dead(s), NEW c \in Channels,
           \/ CreateUser(c) \/ CountSessions(c) \/ SelectOldest(c) \/ RevokeOldest(c)
           \/ CreateSession(c) \/ IssueToken(c)
    PROVE  LiveTokens(s)' = {} /\ Renewing(s)' = {}
<1>1. call[c] \in Call /\ tokens \in Seq(Token) /\ now \in Nat
  BY DEF IInv, TypeOK
<1>2. CASE CreateUser(c) \/ CountSessions(c)
  <2>1. NoneFor(s)
    BY <1>2 DEF CreateUser, CountSessions, rows, NoneFor
  <2>2. \A u : CountLeadsTo(u) \in {"select", "session"}
    BY DEF CountLeadsTo
  <2>3. PICK step \in {"session", "failed", "select"} : Goto(c, step)
    BY <1>2, <2>2 DEF CreateUser, CountSessions, Fail
  <2>4. step \in Steps
    BY DEF Steps, LoginSteps
  <2>. QED
    BY <2>1, <2>3, <2>4, StepOnSilent
<1>3. CASE SelectOldest(c)
  <2>1. NoneFor(s)
    BY <1>3 DEF SelectOldest, rows, NoneFor
  <2>2. IInv' /\ call' \in [Channels -> Call]
    BY <1>3, SelectOldestType DEF IInv, TypeOK
  <2>3. /\ call'[c].at \in {"session", "evict"}
        /\ \A d \in Channels \ {c} : call'[d] = call[d]
    BY <1>3 DEF SelectOldest, Goto, IInv, TypeOK, Call
  <2>4. \A d \in Channels : Silent(s, call'[d])
    BY <2>3, DeadIsSilent DEF Silent
  <2>. QED
    BY <2>1, <2>4, StaysDead
<1>4. CASE RevokeOldest(c)
  <2>1. NoneFor(s) /\ Goto(c, "session")
    BY <1>4, RevokingIsNoneFor DEF RevokeOldest
  <2>. QED
    BY <2>1, StepOnSilent DEF Steps, LoginSteps
<1>5. CASE CreateSession(c)
  <2>. DEFINE r == [call[c] EXCEPT !.at = "token", !.session = Len(sessions) + 1]
  <2>1. NoneFor(s)
    BY <1>5 DEF CreateSession, NoneFor
  <2>2. call' = [call EXCEPT ![c] = r]
    BY <1>5 DEF CreateSession
  <2>3. Len(sessions) + 1 \in Nat /\ Len(sessions) + 1 # s
    BY DEF IInv, TypeOK
  <2>4. r \in Call /\ Silent(s, r)
    BY <1>1, <2>3 DEF Call, Silent, Steps, LoginSteps
  <2>. QED
    BY <2>1, <2>2, <2>4, OneSilent
<1>6. CASE IssueToken(c)
  <2>1. /\ call[c].session \in Nat \ {0} /\ Store(c, call[c].session, call[c].session)
        /\ call[c].at = "token" /\ IInv'
    BY <1>6, IssueTokenType DEF IssueToken
  <2>2. call[c].session # s
    BY <2>1, DeadIsSilent DEF Silent
  <2>3. NoneFor(s)
    BY <1>1, <2>1, <2>2, TokenStored DEF NoneFor
  <2>4. call'[c].at = "done" /\ \A d \in Channels \ {c} : call'[d] = call[d]
    BY <2>1 DEF Store, IInv, TypeOK, Call
  <2>5. \A d \in Channels : Silent(s, call'[d])
    BY <2>4, DeadIsSilent DEF Silent
  <2>. QED
    BY <2>3, <2>5, StaysDead
<1>. QED
  BY <1>2, <1>3, <1>4, <1>5, <1>6

\* A refresh gives a token only to the session of the good one it has found.
LEMMA RefreshIsSilent ==
    ASSUME IInv, NEW s, Dead(s), NEW c \in Channels,
           \/ FindToken(c) \/ RevokeFamily(c) \/ RevokeExpired(c)
           \/ RotateToken(c) \/ StoreNext(c) \/ RevokeSessionById(c)
    PROVE  LiveTokens(s)' = {} /\ Renewing(s)' = {}
<1>1. call[c] \in Call /\ tokens \in Seq(Token) /\ now \in Nat
      /\ Fits(call[c], DOMAIN tokens, DOMAIN sessions) /\ Silent(s, call[c])
  BY DeadIsSilent DEF IInv, TypeOK, CallsFit
<1>2. CASE FindToken(c)
  <2>1. NoneFor(s) /\ call[c].at = "find"
    BY <1>2 DEF FindToken, rows, NoneFor
  <2>2. call[c].token \in DOMAIN tokens
    BY <1>1, <2>1 DEF Fits, RefreshSteps
  <2>3. CASE tokens[call[c].token].revoked \/ tokens[call[c].token].exp <= now
    <3>1. Goto(c, "reuse") \/ Goto(c, "expired")
      BY <1>2, <2>3 DEF FindToken, FindLeadsTo
    <3>. QED
      BY <2>1, <3>1, StepOnSilent DEF Steps, RefreshSteps
  <2>4. CASE ~tokens[call[c].token].revoked /\ ~(tokens[call[c].token].exp <= now)
    <3>1. Goto(c, "rotate")
      BY <1>2, <2>4 DEF FindToken, FindLeadsTo
    <3>2. tokens[call[c].token].session # s
      BY <2>2, <2>4, DeadTokens
    <3>. QED
      BY <2>1, <2>2, <3>1, <3>2, StepOnSilent DEF Steps, RefreshSteps
  <2>. QED
    BY <2>3, <2>4
<1>3. CASE RevokeFamily(c) \/ RevokeExpired(c)
  <2>1. Goto(c, "failed")
    BY <1>3 DEF RevokeFamily, RevokeExpired, Fail
  <2>2. NoneFor(s)
    BY <1>3, RevokingIsNoneFor DEF RevokeFamily, RevokeExpired
  <2>. QED
    BY <2>1, <2>2, StepOnSilent DEF Steps
<1>4. CASE RotateToken(c)
  <2>1. NoneFor(s) /\ Goto(c, "store") /\ call[c].at = "rotate"
    BY <1>4, RevokingIsNoneFor DEF RotateToken
  <2>2. call[c].token \in DOMAIN tokens /\ tokens[call[c].token].session # s
    BY <1>1, <2>1 DEF Silent
  <2>. QED
    BY <2>1, <2>2, StepOnSilent DEF Steps, RefreshSteps
<1>5. CASE StoreNext(c)
  <2>. DEFINE k == tokens[call[c].token]
  <2>1. /\ k.session \in Nat \ {0} /\ k.family \in Nat \ {0}
        /\ Store(c, k.session, k.family) /\ call[c].at = "store"
    BY <1>5, StoreNextType DEF StoreNext
  <2>2. k.session # s
    BY <1>1, <2>1 DEF Silent
  <2>3. NoneFor(s)
    BY <1>1, <2>1, <2>2, TokenStored DEF NoneFor
  <2>4. call'[c].at = "done" /\ \A d \in Channels \ {c} : call'[d] = call[d]
    BY <2>1 DEF Store, IInv, TypeOK, Call
  <2>5. \A d \in Channels : Silent(s, call'[d])
    BY <2>4, DeadIsSilent DEF Silent
  <2>. QED
    BY <2>3, <2>5, StaysDead
<1>6. CASE RevokeSessionById(c)
  <2>1. NoneFor(s) /\ Goto(c, "done")
    BY <1>6, RevokingIsNoneFor DEF RevokeSessionById, RevokeSessions
  <2>. QED
    BY <2>1, StepOnSilent DEF Steps
<1>. QED
  BY <1>2, <1>3, <1>4, <1>5, <1>6

\* A call that begins looks its token up before anything else.
LEMMA StartIsSilent ==
    ASSUME IInv, NEW s, Dead(s), NoneFor(s), NEW c \in Channels,
           NEW op, NEW token, Start(c, op, token)
    PROVE  LiveTokens(s)' = {} /\ Renewing(s)' = {}
<1>1. FirstStep(op) \in {"count", "user", "find", "revoke"}
  BY DEF FirstStep
<1>2. call' = [call EXCEPT ![c] = [NoCall EXCEPT !.op = op, !.token = token,
                                                 !.at = FirstStep(op)]]
  BY DEF Start, FirstStep
<1>3. /\ call'[c].at = FirstStep(op)
      /\ \A d \in Channels \ {c} : call'[d] = call[d]
  BY <1>2 DEF IInv, TypeOK, NoCall
<1>4. \A d \in Channels : Silent(s, call'[d])
  BY <1>1, <1>3, DeadIsSilent DEF Silent
<1>. QED
  BY <1>4, StaysDead

\* No step revives a dead session.
LEMMA NoRevival ==
    ASSUME IInv, [Next]_vars, NEW s \in DOMAIN sessions, Dead(s)
    PROVE  LiveTokens(s)' = {} /\ Renewing(s)' = {}
<1>1. UNCHANGED tokens => NoneFor(s)
  BY DEF NoneFor
<1>2. CASE UNCHANGED <<tokens, call>>
  <2>1. CallsFade
    BY <1>2 DEF CallsFade
  <2>. QED
    BY <1>1, <1>2, <2>1, FadingIsSilent
<1>3. CASE UNCHANGED vars \/ Tick \/ Accepted \/ \E t \in Tabs : Verify(t)
  BY <1>2, <1>3, CacheType DEF vars, rows
<1>4. CASE Restart \/ \E t \in Tabs : Reload(t)
  <2>1. UNCHANGED tokens
    BY <1>4 DEF Restart, Reload, rows
  <2>. QED
    BY <1>1, <1>4, <2>1, FaultType, FadingIsSilent
<1>5. ASSUME NEW u \in Accounts, LogoutAll(u)
      PROVE  LiveTokens(s)' = {} /\ Renewing(s)' = {}
  <2>1. NoneFor(s)
    BY <1>5, RevokingIsNoneFor DEF LogoutAll, RevokeSessions
  <2>2. CallsFade
    BY <1>5 DEF LogoutAll, CallsFade
  <2>. QED
    BY <2>1, <2>2, FadingIsSilent
<1>6. ASSUME NEW t \in Tabs, SubmitLogin(t) \/ SubmitRegister(t) \/ Logout(t) \/ Refused(t)
      PROVE  LiveTokens(s)' = {} /\ Renewing(s)' = {}
  <2>1. UNCHANGED tokens
    BY <1>6 DEF SubmitLogin, SubmitRegister, Logout, Refused, rows
  <2>2. \/ UNCHANGED call \/ CallsFade
        \/ \E c \in Channels : \E op, token : Start(c, op, token)
    BY <1>6, MineType, RefusedFades DEF SubmitLogin, SubmitRegister, Logout
  <2>. QED
    BY <1>1, <1>2, <2>1, <2>2, StartIsSilent, FadingIsSilent
<1>7. ASSUME NEW c \in Channels, Query(c)
      PROVE  LiveTokens(s)' = {} /\ Renewing(s)' = {}
  BY <1>7, LoginIsSilent, RefreshIsSilent DEF Query
<1>8. ASSUME NEW c \in Channels, RefreshFails(c)
      PROVE  LiveTokens(s)' = {} /\ Renewing(s)' = {}
  <2>1. UNCHANGED tokens
    BY <1>8 DEF RefreshFails, rows
  <2>. QED
    BY <1>1, <1>8, <2>1, RefreshFailsType, FadingIsSilent
<1>9. ASSUME NEW c \in Channels, Answer(c)
      PROVE  LiveTokens(s)' = {} /\ Renewing(s)' = {}
  <2>1. UNCHANGED tokens /\ call' = [call EXCEPT ![c] = NoCall]
    BY <1>9 DEF Answer, rows
  <2>2. CallsFade
    BY <2>1 DEF CallsFade, IInv, TypeOK
  <2>. QED
    BY <1>1, <2>1, <2>2, FadingIsSilent
<1>. QED
  BY <1>3, <1>4, <1>5, <1>6, <1>7, <1>8, <1>9 DEF Next, Tab

\* A session whose last good token has been revoked is never revived: not by
\* the token of another one, not by a refresh under way when it was ended
\* that had not yet found its token, not by the login of another tab
\* (refresh, revokeSessionById, revokeOldestActiveSession).
THEOREM NothingRevivesASession == Spec => DeadSessionStaysDead
<1>1. IInv /\ [Next]_vars =>
        [\A s \in DOMAIN sessions :
            LiveTokens(s) = {} /\ Renewing(s) = {}
                => LiveTokens(s)' = {} /\ Renewing(s)' = {}]_vars
  BY NoRevival DEF Dead
<1>. QED
  BY <1>1, TypeCorrect, PTL DEF Spec, DeadSessionStaysDead

-----------------------------------------------------------------------------
(***************************************************************************)
(* Logins that do not overlap keep an account within its limit of sessions.*)
(* The argument follows the room a login has: after it has counted, or     *)
(* evicted, there is place for one session more, and only another login of *)
(* the same account could take it.                                         *)
(***************************************************************************)

\* A session, or a login past its first query, is of a registered account.
Registered ==
    /\ \A i \in DOMAIN sessions : sessions[i].user \in accounts
    /\ \A c \in Channels : c \in LoggingIn(UserOf(c)) => UserOf(c) \in accounts

Alone(u) == \A c, d \in LoggingIn(u) : c = d

\* The session a login is about to open has its place, or gets it by the
\* eviction under way, even if what it evicts is ended by others meanwhile.
Room(u) == \A c \in LoggingIn(u) :
    /\ call[c].at = "session" => Cardinality(ActiveSessions(u)) < SessionLimit
    /\ call[c].at = "evict" =>
         Cardinality(ActiveSessions(u) \ {call[c].session}) < SessionLimit

Within(u) == /\ Alone(u) /\ Room(u)
             /\ Cardinality(ActiveSessions(u)) <= SessionLimit

LInv == Registered /\ \A u \in Accounts \ overlapped : Within(u)

------------------------------------------------------------------------------
(* Few sessions *)

\* The active sessions of an account can be counted.
LEMMA ActiveFinite ==
    ASSUME IInv, NEW u
    PROVE  /\ IsFiniteSet(ActiveSessions(u))
           /\ Cardinality(ActiveSessions(u)) \in Nat
<1>1. Len(sessions) \in Nat /\ ActiveSessions(u) \in SUBSET (1..Len(sessions))
  BY DEF IInv, TypeOK, ActiveSessions
<1>2. IsFiniteSet(1..Len(sessions))
  BY <1>1, FS_Interval
<1>3. IsFiniteSet(ActiveSessions(u))
  BY <1>1, <1>2, FS_Subset
<1>. QED
  BY <1>3, FS_CardinalityType

\* With fewer sessions there is no less room.
LEMMA Fewer ==
    ASSUME IInv, NEW u, NEW S \in SUBSET ActiveSessions(u), NEW x
    PROVE  /\ Cardinality(S) \in Nat /\ Cardinality(S \ {x}) \in Nat
           /\ Cardinality(ActiveSessions(u) \ {x}) \in Nat
           /\ Cardinality(S) <= Cardinality(ActiveSessions(u))
           /\ Cardinality(S \ {x}) <= Cardinality(ActiveSessions(u) \ {x})
<1>1. IsFiniteSet(ActiveSessions(u))
  BY ActiveFinite
<1>2. IsFiniteSet(S) /\ Cardinality(S) <= Cardinality(ActiveSessions(u))
  BY <1>1, FS_Subset
<1>3. IsFiniteSet(S \ {x}) /\ IsFiniteSet(ActiveSessions(u) \ {x})
  BY <1>1, <1>2, FS_RemoveElement
<1>4. S \ {x} \in SUBSET (ActiveSessions(u) \ {x})
  OBVIOUS
<1>5. Cardinality(S \ {x}) <= Cardinality(ActiveSessions(u) \ {x})
  BY <1>3, <1>4, FS_Subset
<1>. QED
  BY <1>2, <1>3, <1>5, FS_CardinalityType

------------------------------------------------------------------------------
(* Steps that open no session *)

\* For an account: sessions only end, logins only end.
Settles(u) ==
    /\ ActiveSessions(u)' \subseteq ActiveSessions(u)
    /\ LoggingIn(u)' \subseteq LoggingIn(u)
    /\ \A c \in LoggingIn(u)' :
         call'[c].at = call[c].at /\ call'[c].session = call[c].session

\* Such a step takes nobody's room.
LEMMA SettlesWithin ==
    ASSUME IInv, NEW u, Within(u), Settles(u)
    PROVE  Within(u)'
<1>. DEFINE A == ActiveSessions(u)
            B == ActiveSessions(u)'
<1>1. B \in SUBSET A
  BY DEF Settles
<1>2. SessionLimit \in Nat
  BY AuthAssumption
<1>3. Cardinality(B) \in Nat /\ Cardinality(A) \in Nat /\ Cardinality(B) <= Cardinality(A)
  BY <1>1, Fewer, ActiveFinite
<1>4. \A x : /\ Cardinality(B \ {x}) <= Cardinality(A \ {x})
             /\ Cardinality(B \ {x}) \in Nat /\ Cardinality(A \ {x}) \in Nat
  BY <1>1, Fewer
<1>5. Cardinality(B) <= SessionLimit
  BY <1>2, <1>3 DEF Within
<1>6. Alone(u)'
  BY DEF Alone, Within, Settles
<1>. HIDE DEF A, B
<1>7. ASSUME NEW c \in LoggingIn(u)'
      PROVE  /\ call'[c].at = "session" => Cardinality(B) < SessionLimit
             /\ call'[c].at = "evict" => Cardinality(B \ {call'[c].session}) < SessionLimit
  <2>1. /\ c \in LoggingIn(u)
        /\ call'[c].at = call[c].at /\ call'[c].session = call[c].session
    BY <1>7 DEF Settles
  <2>2. /\ call[c].at = "session" => Cardinality(A) < SessionLimit
        /\ call[c].at = "evict" => Cardinality(A \ {call[c].session}) < SessionLimit
    BY <2>1 DEF Within, Room, A
  <2>. QED
    BY <1>2, <1>3, <1>4, <2>1, <2>2
<1>. QED
  BY <1>5, <1>6, <1>7 DEF Within, Room, B

\* Every session that is not new keeps its user, and what is revoked stays so.
SessionsEnd ==
    /\ DOMAIN sessions' = DOMAIN sessions
    /\ \A i \in DOMAIN sessions :
         /\ sessions'[i].user = sessions[i].user
         /\ sessions[i].revoked => sessions'[i].revoked

\* A call that is a login now was one before, and has not moved.
NoLoginMoves == \A c \in Channels :
    (call'[c].op \in {"login", "register"} /\ call'[c].at \in {"select", "evict", "session"})
        => call'[c].op = call[c].op /\ call'[c].at = call[c].at
           /\ call'[c].session = call[c].session

\* A step of neither kind keeps the invariant.
LEMMA QuietStep ==
    ASSUME IInv, LInv, SessionsEnd, NoLoginMoves, UNCHANGED <<accounts, place>>,
           overlapped \subseteq overlapped'
    PROVE  LInv'
<1>1. \A c : UserOf(c)' = UserOf(c)
  BY DEF UserOf
<1>2. ASSUME NEW u PROVE Settles(u)
  <2>1. ActiveSessions(u)' \subseteq ActiveSessions(u)
    BY DEF ActiveSessions, SessionsEnd
  <2>2. \A c \in LoggingIn(u)' : c \in LoggingIn(u)
          /\ call'[c].at = call[c].at /\ call'[c].session = call[c].session
    BY <1>1 DEF LoggingIn, NoLoginMoves
  <2>. QED
    BY <2>1, <2>2 DEF Settles
<1>3. \A u \in Accounts \ overlapped' : Within(u)'
  BY <1>2, SettlesWithin DEF LInv
<1>4. Registered'
  <2>1. \A i \in DOMAIN sessions' : sessions'[i].user \in accounts'
    BY DEF LInv, Registered, SessionsEnd
  <2>2. \A c \in Channels : c \in LoggingIn(UserOf(c))' => UserOf(c)' \in accounts'
    BY <1>1, <1>2 DEF LInv, Registered, Settles
  <2>. QED
    BY <1>1, <2>1, <2>2 DEF Registered
<1>. QED
  BY <1>3, <1>4 DEF LInv

\* What CallsFade allows moves no login.
LEMMA FadingIsQuiet ==
    ASSUME IInv, CallsFade PROVE NoLoginMoves
<1>. SUFFICES ASSUME NEW c \in Channels
              PROVE  (call'[c].op \in {"login", "register"}
                        /\ call'[c].at \in {"select", "evict", "session"})
                       => call'[c].op = call[c].op /\ call'[c].at = call[c].at
                          /\ call'[c].session = call[c].session
  BY DEF NoLoginMoves
<1>1. call[c] \in Call
  BY DEF IInv, TypeOK
<1>2. NoCall.at = "idle" /\ [call[c] EXCEPT !.at = "failed"].at = "failed"
      /\ [call[c] EXCEPT !.heard = FALSE].at = call[c].at
      /\ [call[c] EXCEPT !.heard = FALSE].op = call[c].op
      /\ [call[c] EXCEPT !.heard = FALSE].session = call[c].session
  BY <1>1 DEF NoCall, Call
<1>. QED
  BY <1>2 DEF CallsFade

\* A query that leads to a step where no login opens a session.
LEMMA LeavingIsQuiet ==
    ASSUME IInv, NEW c \in Channels,
           \A d \in Channels \ {c} : call'[d] = call[d],
           \/ call'[c].at \notin {"select", "evict", "session"}
           \/ call'[c].op \notin {"login", "register"}
    PROVE  NoLoginMoves
BY DEF NoLoginMoves

\* What a query that goes on leaves of the calls.
LEMMA Goes ==
    ASSUME IInv, NEW c \in Channels, NEW step, Goto(c, step)
    PROVE  /\ call'[c].at = step /\ call'[c].op = call[c].op
           /\ call'[c].session = call[c].session
           /\ \A d \in Channels \ {c} : call'[d] = call[d]
BY DEF Goto, IInv, TypeOK, Call

\* The queries of a refresh and of a logout, and the last one of a login.
LEMMA OtherQueries ==
    ASSUME IInv, LInv, NEW c \in Channels,
           \/ IssueToken(c) \/ FindToken(c) \/ RevokeFamily(c) \/ RevokeExpired(c)
           \/ RotateToken(c) \/ StoreNext(c) \/ RevokeSessionById(c)
    PROVE  LInv'
<1>1. UNCHANGED <<accounts, place, overlapped>>
  BY DEF IssueToken, FindToken, RevokeFamily, RevokeExpired, RotateToken, StoreNext,
         RevokeSessionById, rows, bounds
<1>2. sessions' = sessions \/ \E ss : sessions' = Revoking(ss)
  BY DEF IssueToken, FindToken, RevokeFamily, RevokeExpired, RotateToken, StoreNext,
         RevokeSessionById, RevokeSessions, rows
<1>3. SessionsEnd
  BY <1>2, SessionsRevoked DEF SessionsEnd, IInv, TypeOK
<1>4. call[c] \in Call
  BY DEF IInv, TypeOK
<1>5. /\ call'[c].at \in {"done", "reuse", "expired", "rotate", "failed", "store"}
      /\ \A d \in Channels \ {c} : call'[d] = call[d]
  <2>1. CASE IssueToken(c) \/ StoreNext(c)
    <3>1. PICK s, f : Store(c, s, f)
      BY <2>1 DEF IssueToken, StoreNext
    <3>. QED
      BY <3>1, <1>4 DEF Store, IInv, TypeOK, Call
  <2>2. CASE ~(IssueToken(c) \/ StoreNext(c))
    <3>1. PICK step \in {"done", "reuse", "expired", "rotate", "failed", "store"} :
            Goto(c, step)
      BY <2>2 DEF FindToken, FindLeadsTo, RevokeFamily, RevokeExpired, RotateToken,
                  RevokeSessionById, Fail
    <3>. QED
      BY <3>1, Goes
  <2>. QED
    BY <2>1, <2>2
<1>6. NoLoginMoves
  BY <1>5, LeavingIsQuiet
<1>. QED
  BY <1>1, <1>3, <1>6, QuietStep

\* Tabs, faults, logouts of every session and the clock.
LEMMA OtherSteps ==
    ASSUME IInv, LInv,
           \/ UNCHANGED vars \/ Tick \/ Restart \/ Accepted
           \/ \E u \in Accounts : LogoutAll(u)
           \/ \E t \in Tabs : Tab(t)
           \/ \E c \in Channels : Answer(c) \/ RefreshFails(c)
    PROVE  LInv'
<1>1. UNCHANGED <<accounts, place, overlapped>>
  BY DEF vars, Tick, Restart, Accepted, LogoutAll, Tab, SubmitLogin, SubmitRegister,
         Logout, Reload, Verify, Refused, Answer, RefreshFails, rows, bounds
<1>2. sessions' = sessions \/ \E ss : sessions' = Revoking(ss)
  BY DEF vars, Tick, Restart, Accepted, LogoutAll, Tab, SubmitLogin, SubmitRegister,
         Logout, Reload, Verify, Refused, Answer, RefreshFails, RevokeSessions, rows
<1>3. SessionsEnd
  BY <1>2, SessionsRevoked DEF SessionsEnd, IInv, TypeOK
<1>4. CASE UNCHANGED call
  BY <1>1, <1>3, <1>4, QuietStep DEF NoLoginMoves
<1>5. CASE CallsFade
  BY <1>1, <1>3, <1>5, FadingIsQuiet, QuietStep
<1>6. CASE \E c \in Channels : \E op, token : Start(c, op, token)
  <2>0. PICK c \in Channels : \E op, token : Start(c, op, token)
    BY <1>6
  <2>1. PICK op, token : Start(c, op, token)
    BY <2>0
  <2>2. call' = [call EXCEPT ![c] = [NoCall EXCEPT !.op = op, !.token = token,
                                                   !.at = FirstStep(op)]]
    BY <2>1 DEF Start, FirstStep
  <2>3. call'[c].at = FirstStep(op) /\ \A d \in Channels \ {c} : call'[d] = call[d]
    BY <2>2 DEF IInv, TypeOK, NoCall
  <2>4. FirstStep(op) \in {"count", "user", "find", "revoke"}
    BY DEF FirstStep
  <2>5. NoLoginMoves
    BY <2>3, <2>4, LeavingIsQuiet
  <2>. QED
    BY <1>1, <1>3, <2>5, QuietStep
<1>7. CASE UNCHANGED vars \/ Tick \/ Accepted \/ (\E u \in Accounts : LogoutAll(u))
             \/ \E t \in Tabs : Verify(t)
  BY <1>4, <1>7, CacheType, LogoutAllType DEF vars
<1>8. CASE Restart \/ \E t \in Tabs : Reload(t)
  BY <1>5, <1>8, FaultType
<1>9. CASE \E t \in Tabs : SubmitLogin(t) \/ SubmitRegister(t) \/ Logout(t) \/ Refused(t)
  BY <1>4, <1>5, <1>6, <1>9, MineType, RefusedFades DEF SubmitLogin, SubmitRegister, Logout
<1>10. CASE \E c \in Channels : RefreshFails(c)
  BY <1>5, <1>10, RefreshFailsType
<1>11. CASE \E c \in Channels : Answer(c)
  <2>1. PICK c \in Channels : call' = [call EXCEPT ![c] = NoCall]
    BY <1>11 DEF Answer
  <2>2. CallsFade
    BY <2>1 DEF CallsFade, IInv, TypeOK
  <2>. QED
    BY <1>5, <2>2
<1>. QED
  BY <1>7, <1>8, <1>9, <1>10, <1>11 DEF Tab

------------------------------------------------------------------------------
(* The queries of a login *)

\* A query of one account's login is nothing to the others.
LEMMA OthersKeep ==
    ASSUME IInv, LInv, NEW c \in Channels, \A d \in Channels \ {c} : call'[d] = call[d],
           UNCHANGED place, overlapped \subseteq overlapped',
           NEW u \in Accounts \ overlapped', u # UserOf(c),
           ActiveSessions(u)' \subseteq ActiveSessions(u)
    PROVE  Within(u)'
<1>1. \A d : UserOf(d)' = UserOf(d)
  BY DEF UserOf
<1>2. \A d \in LoggingIn(u)' : d \in LoggingIn(u) /\ call'[d] = call[d]
  BY <1>1 DEF LoggingIn
<1>3. Settles(u)
  BY <1>2 DEF Settles
<1>. QED
  BY <1>3, SettlesWithin DEF LInv

\* Rows and logins stay registered.
LEMMA RegisteredStays ==
    ASSUME IInv, LInv, NEW c \in Channels, \A d \in Channels \ {c} : call'[d] = call[d],
           UNCHANGED place, accounts \subseteq accounts', UserOf(c) \in accounts',
           \A i \in DOMAIN sessions' : sessions'[i].user = UserOf(c)
              \/ (i \in DOMAIN sessions /\ sessions'[i].user = sessions[i].user)
    PROVE  Registered'
<1>1. \A d : UserOf(d)' = UserOf(d)
  BY DEF UserOf
<1>2. \A i \in DOMAIN sessions' : sessions'[i].user \in accounts'
  BY DEF LInv, Registered
<1>3. ASSUME NEW d \in Channels, d \in LoggingIn(UserOf(d))'
      PROVE  UserOf(d)' \in accounts'
  <2>1. CASE d = c
    BY <1>1, <2>1
  <2>2. CASE d # c
    <3>1. d \in LoggingIn(UserOf(d))
      BY <1>1, <1>3, <2>2 DEF LoggingIn
    <3>. QED
      BY <1>1, <3>1 DEF LInv, Registered
  <2>. QED
    BY <2>1, <2>2
<1>. QED
  BY <1>2, <1>3 DEF Registered

\* A name is registered once, and then its account has no session yet.
LEMMA CreateUserLimit ==
    ASSUME IInv, LInv, NEW c \in Channels, CreateUser(c)
    PROVE  LInv'
<1>0. PICK u : u = UserOf(c)
  OBVIOUS
<1>1. UNCHANGED <<sessions, place, overlapped>> /\ UserOf(c) \in Accounts
      /\ \A d : UserOf(d)' = UserOf(d)
  BY <1>0, UserOfType DEF CreateUser, bounds, UserOf, IInv
<1>2. CASE u \in accounts
  <2>1. UNCHANGED accounts /\ Goto(c, "failed")
    BY <1>0, <1>2 DEF CreateUser, Fail
  <2>2. NoLoginMoves
    BY <1>0, <2>1, Goes, LeavingIsQuiet
  <2>. QED
    BY <1>0, <1>1, <2>1, <2>2, QuietStep DEF SessionsEnd
<1>3. CASE u \notin accounts
  <2>1. accounts' = accounts \cup {u} /\ Goto(c, "session")
    BY <1>0, <1>3 DEF CreateUser
  <2>2. \A d \in Channels \ {c} : call'[d] = call[d]
    BY <1>0, <2>1, Goes
  <2>3. Registered'
    BY <1>0, <1>1, <2>1, <2>2, RegisteredStays
  <2>4. ActiveSessions(u) = {} /\ LoggingIn(u) = {}
    BY <1>0, <1>3 DEF LInv, Registered, ActiveSessions, LoggingIn
  <2>5. ActiveSessions(u)' = {} /\ LoggingIn(u)' \subseteq {c}
    BY <1>0, <1>1, <2>2, <2>4 DEF ActiveSessions, LoggingIn
  <2>6. Cardinality({}) = 0 /\ SessionLimit \in Nat \ {0} /\ call'[c].at = "session"
    BY <1>0, <2>1, Goes, FS_EmptySet, AuthAssumption
  <2>7. Within(u)'
    <3>1. Alone(u)'
      BY <1>0, <2>5 DEF Alone
    <3>2. ActiveSessions(u)' = {} /\ Cardinality(ActiveSessions(u)') < SessionLimit
      BY <1>0, <2>5, <2>6
    <3>3. Room(u)'
      BY <1>0, <2>5, <2>6, <3>2 DEF Room
    <3>. QED
      BY <1>0, <2>5, <2>6, <3>1, <3>2, <3>3 DEF Within
  <2>8. \A v \in Accounts \ overlapped' : v # u => Within(v)'
    BY <1>0, <1>1, <2>2, OthersKeep DEF ActiveSessions
  <2>. QED
    BY <1>0, <2>3, <2>7, <2>8 DEF LInv
<1>. QED
  BY <1>0, <1>2, <1>3

\* A login counts: it has found room, or evicts, or another one is under way.
LEMMA CountLimit ==
    ASSUME IInv, LInv, NEW c \in Channels, CountSessions(c)
    PROVE  LInv'
<1>0. PICK u : u = UserOf(c)
  OBVIOUS
<1>1. /\ UNCHANGED <<sessions, place, accounts>> /\ overlapped \subseteq overlapped'
      /\ \A d : UserOf(d)' = UserOf(d)
  BY <1>0 DEF CountSessions, rows, bounds, UserOf
<1>2. CASE u \notin accounts
  <2>1. Goto(c, "failed")
    BY <1>0, <1>2 DEF CountSessions
  <2>2. NoLoginMoves
    BY <1>0, <2>1, Goes, LeavingIsQuiet
  <2>. QED
    BY <1>0, <1>1, <2>2, QuietStep DEF SessionsEnd
<1>3. CASE u \in accounts
  <2>1. Goto(c, CountLeadsTo(u))
    BY <1>0, <1>3 DEF CountSessions
  <2>2. \A d \in Channels \ {c} : call'[d] = call[d]
    BY <1>0, <2>1, Goes
  <2>3. Registered'
    BY <1>0, <1>1, <1>3, <2>2, RegisteredStays
  <2>4. ASSUME u \in Accounts \ overlapped'
        PROVE  Within(u)'
    <3>1. LoggingIn(u) = {} /\ Cardinality(ActiveSessions(u)) <= SessionLimit
      BY <1>0, <1>1, <2>4 DEF CountSessions, LInv, Within
    <3>2. LoggingIn(u)' \subseteq {c} /\ ActiveSessions(u)' = ActiveSessions(u)
      BY <1>0, <1>1, <2>2, <3>1 DEF LoggingIn, ActiveSessions
    <3>3. /\ call'[c].at = CountLeadsTo(u)
          /\ CountLeadsTo(u) = "session" => Cardinality(ActiveSessions(u)) < SessionLimit
          /\ CountLeadsTo(u) # "evict"
      BY <1>0, <2>1, Goes, ActiveFinite, AuthAssumption DEF CountLeadsTo
    <3>4. Alone(u)'
      BY <1>0, <3>2 DEF Alone
    <3>5. Room(u)'
      BY <1>0, <3>2, <3>3 DEF Room
    <3>. QED
      BY <1>0, <3>1, <3>2, <3>4, <3>5 DEF Within
  <2>5. \A v \in Accounts \ overlapped' : v # u => Within(v)'
    BY <1>0, <1>1, <2>2, OthersKeep DEF ActiveSessions
  <2>. QED
    BY <1>0, <2>3, <2>4, <2>5 DEF LInv
<1>. QED
  BY <1>0, <1>2, <1>3

\* A login between its first query and the opening of its session is of a
\* registered account and, without overlap, the only one.
LEMMA AtLogin ==
    ASSUME IInv, LInv, NEW c \in Channels, call[c].at \in {"select", "evict", "session"}
    PROVE  /\ c \in LoggingIn(UserOf(c)) /\ UserOf(c) \in accounts
           /\ UserOf(c) \in Accounts
           /\ UserOf(c) \notin overlapped => LoggingIn(UserOf(c)) = {c} /\ Within(UserOf(c))
<1>1. Fits(call[c], DOMAIN tokens, DOMAIN sessions) /\ UserOf(c) \in Accounts
  BY UserOfType DEF IInv, CallsFit
<1>2. c \in LoggingIn(UserOf(c))
  BY <1>1 DEF Fits, LoginSteps, LoggingIn
<1>. QED
  BY <1>1, <1>2 DEF LInv, Registered, Within, Alone

\* The session to be evicted is an active one; without any there is room.
LEMMA SelectLimit ==
    ASSUME IInv, LInv, NEW c \in Channels, SelectOldest(c)
    PROVE  LInv'
<1>0. PICK u : u = UserOf(c)
  OBVIOUS
<1>. DEFINE A == ActiveSessions(u)
<1>1. /\ UNCHANGED <<sessions, place, accounts, overlapped>> /\ call[c].at = "select"
      /\ \A d : UserOf(d)' = UserOf(d)
  BY <1>0 DEF SelectOldest, rows, bounds, UserOf
<1>2. /\ u \in accounts
      /\ u \notin overlapped => LoggingIn(u) = {c} /\ Within(u)
  BY <1>0, <1>1, AtLogin
<1>3. \A d \in Channels \ {c} : call'[d] = call[d]
  BY <1>0 DEF SelectOldest, Goto, IInv, TypeOK
<1>4. Registered'
  BY <1>0, <1>1, <1>2, <1>3, RegisteredStays
<1>5. \/ A = {} /\ call'[c].at = "session"
      \/ call'[c].at = "evict" /\ call'[c].session \in A
  <2>1. CASE A = {}
    <3>1. Goto(c, "session")
      BY <1>0, <2>1 DEF SelectOldest
    <3>. QED
      BY <1>0, <2>1, <3>1, Goes
  <2>2. CASE A # {}
    <3>1. A \in SUBSET (1..Len(sessions)) /\ Len(sessions) \in Nat
      BY <1>0 DEF IInv, TypeOK, ActiveSessions
    <3>2. \E i \in A : \A j \in A : i <= j
      BY <1>0, <2>2, <3>1, LeastExists
    <3>3. (CHOOSE i \in A : \A j \in A : i <= j) \in A
      BY <1>0, <3>2
    <3>4. call' = [call EXCEPT ![c] = [call[c] EXCEPT !.at = "evict",
                     !.session = CHOOSE i \in A : \A j \in A : i <= j]]
      BY <1>0, <2>2 DEF SelectOldest
    <3>. QED
      BY <1>0, <3>3, <3>4 DEF IInv, TypeOK, Call
  <2>. QED
    BY <1>0, <2>1, <2>2
<1>6. ASSUME u \in Accounts \ overlapped'
      PROVE  Within(u)'
  <2>1. LoggingIn(u)' \subseteq {c} /\ ActiveSessions(u)' = A
    BY <1>0, <1>1, <1>2, <1>3, <1>6 DEF LoggingIn, ActiveSessions
  <2>2. Cardinality(A) \in Nat /\ SessionLimit \in Nat \ {0} /\ IsFiniteSet(A)
        /\ Cardinality(A) <= SessionLimit /\ Cardinality({}) = 0
    BY <1>0, <1>1, <1>2, <1>6, ActiveFinite, FS_EmptySet, AuthAssumption DEF Within
  <2>3. \A x \in A : Cardinality(A \ {x}) = Cardinality(A) - 1
    BY <1>0, <2>2, FS_RemoveElement
  <2>. HIDE DEF A
  <2>4. /\ call'[c].at = "session" => Cardinality(A) < SessionLimit
        /\ call'[c].at = "evict" => Cardinality(A \ {call'[c].session}) < SessionLimit
    <3>1. CASE A = {} /\ call'[c].at = "session"
      <4>1. Cardinality(A) = 0
        BY <2>2, <3>1
      <4>. QED
        BY <2>2, <3>1, <4>1
    <3>2. CASE call'[c].at = "evict" /\ call'[c].session \in A
      <4>1. Cardinality(A \ {call'[c].session}) = Cardinality(A) - 1
        BY <2>3, <3>2
      <4>. QED
        BY <2>2, <3>2, <4>1
    <3>. QED
      BY <1>5, <3>1, <3>2
  <2>5. Alone(u)' /\ Room(u)'
    BY <1>0, <2>1, <2>4 DEF Alone, Room
  <2>. QED
    BY <1>0, <2>1, <2>2, <2>5 DEF Within
<1>7. \A v \in Accounts \ overlapped' : v # u => Within(v)'
  BY <1>0, <1>1, <1>3, OthersKeep DEF ActiveSessions
<1>. QED
  BY <1>0, <1>4, <1>6, <1>7 DEF LInv

\* The eviction makes the room the login waits for.
LEMMA EvictLimit ==
    ASSUME IInv, LInv, NEW c \in Channels, RevokeOldest(c)
    PROVE  LInv'
<1>0. PICK u : u = UserOf(c)
  OBVIOUS
<1>. DEFINE A == ActiveSessions(u)
            x == call[c].session
<1>1. /\ UNCHANGED <<place, accounts, overlapped>> /\ call[c].at = "evict"
      /\ \A d : UserOf(d)' = UserOf(d)
      /\ sessions' = Revoking({call[c].session}) /\ Goto(c, "session")
  BY DEF RevokeOldest, bounds, UserOf
<1>2. /\ u \in accounts
      /\ u \notin overlapped => LoggingIn(u) = {c} /\ Within(u)
  BY <1>0, <1>1, AtLogin
<1>3. call'[c].at = "session" /\ \A d \in Channels \ {c} : call'[d] = call[d]
  BY <1>1, Goes
<1>4. /\ DOMAIN sessions' = DOMAIN sessions
      /\ \A i \in DOMAIN sessions :
           /\ sessions'[i].user = sessions[i].user
           /\ sessions'[i].revoked = (sessions[i].revoked \/ i \in {x})
  <2>1. sessions \in Seq(Session) /\ now \in Nat
    BY DEF IInv, TypeOK
  <2>. QED
    BY <1>1, <2>1, SessionsRevoked
<1>5. Registered'
  BY <1>0, <1>1, <1>2, <1>3, <1>4, RegisteredStays
<1>6. \A v : ActiveSessions(v)' \subseteq ActiveSessions(v) \ {x}
  BY <1>4 DEF ActiveSessions
<1>7. ASSUME u \in Accounts \ overlapped'
      PROVE  Within(u)'
  <2>. DEFINE B == ActiveSessions(u)'
  <2>1. LoggingIn(u)' \subseteq {c}
    BY <1>1, <1>2, <1>3, <1>7 DEF LoggingIn
  <2>2. Cardinality(A \ {x}) < SessionLimit
    BY <1>0, <1>1, <1>2, <1>7, AtLogin DEF Within, Room
  <2>3. IsFiniteSet(A) /\ IsFiniteSet(A \ {x})
    BY ActiveFinite, FS_RemoveElement
  <2>4. B \in SUBSET (A \ {x})
    BY <1>6
  <2>5. Cardinality(B) <= Cardinality(A \ {x}) /\ Cardinality(B) \in Nat
        /\ Cardinality(A \ {x}) \in Nat
    BY <2>3, <2>4, FS_Subset, FS_CardinalityType
  <2>. HIDE DEF A, x
  <2>6. Cardinality(B) < SessionLimit
    BY <2>2, <2>5, AuthAssumption
  <2>7. Alone(u)' /\ Room(u)'
    BY <1>3, <2>1, <2>6 DEF Alone, Room
  <2>. QED
    BY <2>5, <2>6, <2>7, AuthAssumption DEF Within
<1>8. \A v \in Accounts \ overlapped' : v # u => Within(v)'
  BY <1>0, <1>1, <1>3, <1>6, OthersKeep
<1>. QED
  BY <1>5, <1>7, <1>8 DEF LInv

\* The session that opens takes the room there is, and no login waits for it.
LEMMA CreateSessionLimit ==
    ASSUME IInv, LInv, NEW c \in Channels, CreateSession(c)
    PROVE  LInv'
<1>0. PICK u : u = UserOf(c)
  OBVIOUS
<1>. DEFINE A == ActiveSessions(u)
            n == Len(sessions) + 1
<1>1. /\ UNCHANGED <<place, accounts, overlapped>> /\ call[c].at = "session"
      /\ \A d : UserOf(d)' = UserOf(d)
  BY DEF CreateSession, bounds, UserOf
<1>2. /\ u \in accounts
      /\ u \notin overlapped => LoggingIn(u) = {c} /\ Within(u)
  BY <1>0, <1>1, AtLogin
<1>3. call'[c].at = "token" /\ \A d \in Channels \ {c} : call'[d] = call[d]
  BY DEF CreateSession, IInv, TypeOK, Call
<1>4. /\ DOMAIN sessions' = DOMAIN sessions \cup {n}
      /\ \A i \in DOMAIN sessions : sessions'[i] = sessions[i]
      /\ sessions'[n].user = u
  <2>1. sessions \in Seq(Session)
    BY DEF IInv, TypeOK
  <2>2. /\ sessions' = Append(sessions, [user |-> u, revoked |-> FALSE, at |-> 0])
        /\ DOMAIN sessions' = DOMAIN sessions \cup {n}
    BY <1>0, CreateSessionType
  <2>3. sessions'[n] = [user |-> u, revoked |-> FALSE, at |-> 0]
    BY <2>1, <2>2
  <2>. QED
    BY <2>1, <2>2, <2>3
<1>5. Registered'
  BY <1>0, <1>1, <1>2, <1>3, <1>4, RegisteredStays
<1>6. /\ ActiveSessions(u)' \subseteq A \cup {n}
      /\ \A v : v # u => ActiveSessions(v)' \subseteq ActiveSessions(v)
  BY <1>4 DEF ActiveSessions
<1>7. ASSUME u \in Accounts \ overlapped'
      PROVE  Within(u)'
  <2>. DEFINE B == ActiveSessions(u)'
  <2>1. LoggingIn(u)' = {}
    BY <1>1, <1>2, <1>3, <1>7 DEF LoggingIn
  <2>2. Cardinality(A) < SessionLimit
    BY <1>1, <1>2, <1>7 DEF Within, Room
  <2>3. IsFiniteSet(A) /\ Cardinality(A) \in Nat
    BY ActiveFinite
  <2>4. IsFiniteSet(A \cup {n}) /\ Cardinality(A \cup {n}) <= Cardinality(A) + 1
    <3>. HIDE DEF A, n
    <3>1. /\ IsFiniteSet(A \cup {n})
          /\ \/ Cardinality(A \cup {n}) = Cardinality(A)
             \/ Cardinality(A \cup {n}) = Cardinality(A) + 1
      BY <2>3, FS_AddElement
    <3>. QED
      BY <2>3, <3>1
  <2>5. B \in SUBSET (A \cup {n})
    BY <1>6
  <2>6. Cardinality(B) <= Cardinality(A \cup {n}) /\ Cardinality(B) \in Nat
        /\ Cardinality(A \cup {n}) \in Nat
    BY <2>4, <2>5, FS_Subset, FS_CardinalityType
  <2>. HIDE DEF A, n
  <2>7. Cardinality(B) <= SessionLimit
    BY <2>2, <2>3, <2>4, <2>6, AuthAssumption
  <2>8. Alone(u)' /\ Room(u)'
    BY <2>1 DEF Alone, Room
  <2>. QED
    BY <2>7, <2>8 DEF Within
<1>8. \A v \in Accounts \ overlapped' : v # u => Within(v)'
  BY <1>0, <1>1, <1>3, <1>6, OthersKeep
<1>. QED
  BY <1>5, <1>7, <1>8 DEF LInv

------------------------------------------------------------------------------
(* The limit *)

\* At first there is no session and no login.
LEMMA InitLimit == Init => LInv
<1>. SUFFICES ASSUME Init PROVE LInv
  OBVIOUS
<1>1. \A u : ActiveSessions(u) = {} /\ LoggingIn(u) = {}
  BY DEF Init, ActiveSessions, LoggingIn, NoCall
<1>2. Cardinality({}) = 0 /\ SessionLimit \in Nat
  BY FS_EmptySet, AuthAssumption
<1>3. Registered
  BY <1>1 DEF Init, Registered
<1>4. \A u : Within(u)
  BY <1>1, <1>2 DEF Within, Alone, Room
<1>. QED
  BY <1>3, <1>4 DEF LInv

\* Whatever interleaves with it, a login that overlaps no other login of its
\* account leaves the account within its limit, the sessions that end meanwhile
\* and the evictions that find their session ended included (login).
THEOREM LimitOfSessions == Spec => []SessionLimitHolds
<1>1. IInv /\ LInv /\ [Next]_vars => LInv'
  BY CreateUserLimit, CountLimit, SelectLimit, EvictLimit, CreateSessionLimit,
     OtherQueries, OtherSteps DEF Next, Query
<1>2. LInv => SessionLimitHolds
  BY DEF LInv, Within, SessionLimitHolds
<1>. QED
  BY <1>1, <1>2, InitLimit, TypeCorrect, PTL DEF Spec
------------------------------------------------------------------------------
(* The access tokens of a session that was ended *)

Ended(s) == sessions[s].revoked /\ s \notin outrun

\* The access tokens there are.
Held == Access \cap
    ({ storage[b].access : b \in Browsers } \cup { r.token : r \in {late} \ {None} }
       \cup {api} \cup { e.token : e \in cache })

Over(s) ==
    /\ UnderWay(s) = {} /\ LiveTokens(s) = {}
    /\ \A a \in Held : a.session = s => a.exp <= sessions[s].at + AccessTTL

AInv ==
    /\ \A a \in Held : a.exp <= now + AccessTTL
    /\ \A e \in cache : e.until <= e.token.exp
    /\ \A s \in DOMAIN sessions : Ended(s) => Over(s)

\* A call with an access token to bring was under way for its session.
LEMMA DoneComes ==
    ASSUME IInv, [Next]_vars, NEW d \in Channels,
           call'[d].at = "done", call'[d].op # "logout"
    PROVE  d \in UnderWay(call'[d].session)
<1>0. call \in [Channels -> Call] /\ Fits(call[d], DOMAIN tokens, DOMAIN sessions)
  BY DEF IInv, TypeOK, CallsFit
<1>1. CASE call'[d] = call[d] \/ CallsFade
  BY <1>0, <1>1 DEF UnderWay, CallsFade, Call, NoCall
<1>2. ASSUME NEW c \in Channels, NEW op, NEW token, Start(c, op, token)
      PROVE  call'[d] = call[d]
  BY <1>0, <1>2 DEF Start, NoCall
<1>3. ASSUME NEW c \in Channels, Store(c, call[c].session, call[c].session), call[c].at = "token"
      PROVE  call'[d] = call[d] \/ d \in UnderWay(call'[d].session)
  BY <1>0, <1>3 DEF Store, UnderWay, Call, Fits, LoginSteps
<1>4. ASSUME NEW c \in Channels, NEW f, call[c].at = "store",
             Store(c, tokens[call[c].token].session, f)
      PROVE  call'[d] = call[d] \/ d \in UnderWay(call'[d].session)
  BY <1>0, <1>4 DEF Store, UnderWay, Call, Fits, RefreshSteps
<1>5. ASSUME NEW c \in Channels, NEW step \in Steps \ {"done"}, Goto(c, step)
      PROVE  call'[d] = call[d]
  BY <1>0, <1>5 DEF Goto, Call
<1>6. ASSUME NEW c \in Channels, Query(c)
      PROVE  call'[d] = call[d] \/ d \in UnderWay(call'[d].session)
  <2>1. CASE IssueToken(c)
    BY <1>3, <2>1 DEF IssueToken
  <2>2. CASE StoreNext(c)
    BY <1>4, <2>2 DEF StoreNext
  <2>3. CASE RevokeSessionById(c)
    <3>1. call[c].at = "revoke" /\ Goto(c, "done")
      BY <2>3 DEF RevokeSessionById
    <3>2. c = d => call'[d].op = "logout"
      BY <1>0, <3>1 DEF Goto, Fits, Call
    <3>. QED
      BY <1>0, <3>1, <3>2 DEF Goto, Call
  <2>4. CASE SelectOldest(c)
    BY <1>0, <2>4 DEF SelectOldest, Goto, Call
  <2>5. CASE CreateSession(c)
    BY <1>0, <2>5 DEF CreateSession, Call
  <2>6. CASE \/ CreateUser(c) \/ CountSessions(c) \/ RevokeOldest(c) \/ FindToken(c)
             \/ RevokeFamily(c) \/ RevokeExpired(c) \/ RotateToken(c)
    <3>1. \A u : CountLeadsTo(u) \in {"select", "session"}
      BY DEF CountLeadsTo
    <3>2. \A k : FindLeadsTo(k) \in {"reuse", "expired", "rotate"}
      BY DEF FindLeadsTo
    <3>3. \E step \in {"failed", "session", "select", "reuse", "expired", "rotate", "store"} :
            Goto(c, step)
      BY <2>6, <3>1, <3>2 DEF CreateUser, CountSessions, RevokeOldest, FindToken,
         RevokeFamily, RevokeExpired, RotateToken, Fail
    <3>. QED
      BY <1>5, <3>3 DEF Steps, LoginSteps, RefreshSteps
  <2>. QED
    BY <1>6, <2>1, <2>2, <2>3, <2>4, <2>5, <2>6 DEF Query
<1>7. CASE UNCHANGED vars \/ Tick \/ Accepted \/ \E t \in Tabs : Verify(t)
  BY <1>1, <1>7, CacheType DEF vars
<1>8. CASE Restart \/ (\E t \in Tabs : Reload(t)) \/ \E u \in Accounts : LogoutAll(u)
  BY <1>1, <1>8, FaultType, LogoutAllType
<1>9. ASSUME NEW t \in Tabs, SubmitLogin(t) \/ SubmitRegister(t) \/ Logout(t) \/ Refused(t)
      PROVE  call'[d] = call[d] \/ CallsFade
  BY <1>2, <1>9, MineType, RefusedFades DEF SubmitLogin, SubmitRegister, Logout
<1>10. ASSUME NEW c \in Channels, RefreshFails(c) \/ Answer(c)
       PROVE  CallsFade
  BY <1>0, <1>10, RefreshFailsType DEF Answer, CallsFade
<1>. QED
  BY <1>1, <1>6, <1>7, <1>8, <1>9, <1>10 DEF Next, Tab

\* The token of a late request is held.
LEMMA LateIsHeld == ASSUME IInv, late # None PROVE late.token \in Held
BY DEF Held, IInv, TypeOK, Request

\* A query reads and writes nothing of the browsers and the services.
LEMMA SameClient == ASSUME NEW c \in Channels, Query(c) PROVE UNCHANGED <<client, now>>
BY DEF Query, CreateUser, CountSessions, SelectOldest, RevokeOldest, CreateSession,
   IssueToken, FindToken, RevokeFamily, RevokeExpired, RotateToken, StoreNext,
   RevokeSessionById, bounds

\* Nothing is held but what these places hold.
LEMMA HeldIn ==
    ASSUME NEW H, \A b \in Browsers : storage'[b].access \in H \cup {None},
           late' # None => late'.token \in H, api' \in H \cup {None},
           \A e \in cache' : e.token \in H
    PROVE  Held' \subseteq H
BY AuthAssumption DEF Held

\* What a tab may have sent, and what is left of it, is held.
LEMMA OutIsHeld ==
    ASSUME IInv, NEW t \in Tabs
    PROVE  /\ Mine(t).access \in Held \cup {None}
           /\ \A r \in Out(t) \cup Unanswered(t, Out(t)) \cup Unanswered(t, {late}) :
                r # None => r.token \in Held
           /\ \A a : \A r \in Left(t, a) : r # None => r.token \in Held
           /\ \A a \in Asked(t) : a \in Held
<1>1. Mine(t).access \in Held \cup {None}
  BY DEF Held, Mine, Entry, IInv, TypeOK
<1>2. late # None => late.token \in Held
  BY LateIsHeld
<1>3. \A r \in Out(t) : r # None => r.token \in Held
  BY <1>1, <1>2 DEF Out
<1>4. \A r \in Unanswered(t, Out(t)) \cup Unanswered(t, {late}) : r # None => r.token \in Held
  BY <1>2, <1>3 DEF Unanswered
<1>5. \A a : \A r \in Left(t, a) : r # None => r.token \in Held
  BY <1>2 DEF Left
<1>6. \A a \in Asked(t) : a \in Held
  BY <1>1, <1>2 DEF Asked
<1>. QED
  BY <1>1, <1>3, <1>4, <1>5, <1>6

\* An access token that a step brings is the answer of such a call.
LEMMA HeldGrows ==
    ASSUME IInv, [Next]_vars, NEW a \in Held', a \notin Held
    PROVE  \E c \in Channels : c \in UnderWay(a.session) /\ a.exp = now + AccessTTL
<1>1. /\ \A b \in Browsers : storage[b].access \in Held \cup {None}
      /\ late # None => late.token \in Held
      /\ api \in Held \cup {None} /\ \A e \in cache : e.token \in Held
      /\ storage \in [Browsers -> Entry]
  BY LateIsHeld DEF Held, Entry, IInv, TypeOK
<1>2. ASSUME NEW t \in Tabs, SetStorage(t, None, None)
      PROVE  \A b \in Browsers : storage'[b].access \in Held \cup {None}
  BY <1>1, <1>2 DEF SetStorage
<1>3. ASSUME NEW t \in Tabs, NEW calls, Leave(t, calls), UNCHANGED <<api, cache>>
      PROVE  FALSE
  BY <1>1, <1>2, <1>3, OutIsHeld, HeldIn DEF Leave
<1>4. ASSUME UNCHANGED <<storage, late, api, cache>> PROVE FALSE
  BY <1>4 DEF Held
<1>5. ASSUME NEW c \in Channels, Answer(c)
      PROVE  \E d \in Channels : d \in UnderWay(a.session) /\ a.exp = now + AccessTTL
  <2>1. c[1] \in Tabs /\ UNCHANGED <<api, cache>>
    BY <1>5 DEF Answer, Channels
  <2>2. late' # None => late'.token \in Held
    BY <1>1, <1>5, <2>1, OutIsHeld DEF Answer
  <2>3. CASE UNCHANGED storage \/ SetStorage(c[1], None, None)
    BY <1>1, <1>2, <2>1, <2>2, <2>3, HeldIn
  <2>4. CASE call[c].op # "logout" /\ SetStorage(c[1], AccessToken(c), KeptToken(c))
    <3>1. \A b \in Browsers : storage'[b].access \in Held \cup {AccessToken(c)} \cup {None}
      BY <1>1, <2>4 DEF SetStorage
    <3>2. a = AccessToken(c)
      BY <1>1, <2>1, <2>2, <3>1, HeldIn
    <3>. QED
      BY <1>5, <2>4, <3>2 DEF AccessToken, UnderWay, Answer
  <2>. QED
    BY <1>5, <2>3, <2>4 DEF Answer
<1>6. ASSUME NEW t \in Tabs, Logout(t)
      PROVE  FALSE
  <2>1. UNCHANGED <<api, cache>>
    BY <1>6 DEF Logout
  <2>. QED
    BY <1>1, <1>2, <1>4, <1>6, <2>1, OutIsHeld, HeldIn DEF Logout
<1>7. ASSUME NEW t \in Tabs, Refused(t)
      PROVE  FALSE
  <2>1. UNCHANGED <<api, cache>>
    BY <1>7 DEF Refused
  <2>. QED
    BY <1>1, <1>3, <1>7, <2>1, OutIsHeld, HeldIn DEF Refused
<1>8. ASSUME NEW c \in Channels, RefreshFails(c)
      PROVE  FALSE
  <2>1. UNCHANGED <<api, cache>> /\ c[1] \in Tabs
    BY <1>8 DEF RefreshFails, Channels
  <2>. QED
    BY <1>3, <1>4, <1>8, <2>1 DEF RefreshFails
<1>9. ASSUME Tick \/ Accepted \/ \E t \in Tabs : Verify(t) \/ Reload(t)
      PROVE  FALSE
  <2>1. CASE Tick
    BY <1>1, <2>1, HeldIn DEF Tick
  <2>2. CASE Accepted
    BY <1>1, <2>2, HeldIn DEF Accepted
  <2>3. ASSUME NEW t \in Tabs, Verify(t) PROVE FALSE
    BY <1>1, <2>3, OutIsHeld, HeldIn DEF Verify
  <2>4. ASSUME NEW t \in Tabs, Reload(t) PROVE FALSE
    BY <1>1, <2>4, OutIsHeld, HeldIn DEF Reload
  <2>. QED
    BY <1>9, <2>1, <2>2, <2>3, <2>4
<1>10. ASSUME NEW c \in Channels, Query(c) PROVE FALSE
  BY <1>4, <1>10, SameClient DEF client
<1>11. CASE UNCHANGED vars \/ Restart \/ \E u \in Accounts : LogoutAll(u)
  BY <1>4, <1>11 DEF vars, client, Restart, LogoutAll
<1>12. CASE \E t \in Tabs : SubmitLogin(t) \/ SubmitRegister(t)
  BY <1>4, <1>12 DEF SubmitLogin, SubmitRegister, client
<1>. QED
  BY <1>5, <1>6, <1>7, <1>8, <1>9, <1>10, <1>11, <1>12 DEF Next, Tab

\* What a step does to a session: it is as it was, or it ends now, and then
\* either a call for it was under way or none is and its tokens are revoked.
LEMMA Ending ==
    ASSUME IInv, [Next]_vars, NEW s \in DOMAIN sessions
    PROVE  /\ s \in DOMAIN sessions'
           /\ s \in outrun => s \in outrun'
           /\ \/ /\ sessions'[s].revoked = sessions[s].revoked
                 /\ sessions'[s].at = sessions[s].at
              \/ /\ ~sessions[s].revoked /\ sessions'[s].at = now
                 /\ \/ s \in outrun'
                    \/ UnderWay(s)' = {} /\ LiveTokens(s)' = {}
                 /\ UNCHANGED <<storage, late, api, cache, now>>
<1>0. /\ call \in [Channels -> Call] /\ sessions \in Seq(Session) /\ tokens \in Seq(Token)
      /\ now \in Nat /\ CallsFit
  BY DEF IInv, TypeOK
<1>1. CASE UNCHANGED <<sessions, outrun>>
  BY <1>1
<1>2. ASSUME NEW ss, sessions' = Revoking(ss), Outruns(ss), RevokeTokens(TokensOfSessions(ss)),
             UNCHANGED <<storage, late, api, cache, now>>,
             \A c \in Channels : \/ call'[c] = call[c]
                                 \/ call'[c].at = "session"
                                 \/ call'[c].op = "logout"
      PROVE  /\ s \in DOMAIN sessions'
             /\ s \in outrun => s \in outrun'
             /\ \/ /\ sessions'[s].revoked = sessions[s].revoked
                   /\ sessions'[s].at = sessions[s].at
                \/ /\ ~sessions[s].revoked /\ sessions'[s].at = now
                   /\ s \in outrun' \/ (UnderWay(s)' = {} /\ LiveTokens(s)' = {})
  <2>1. /\ DOMAIN sessions' = DOMAIN sessions
        /\ sessions'[s].revoked = (sessions[s].revoked \/ s \in ss)
        /\ sessions'[s].at = IF s \in ss /\ ~sessions[s].revoked THEN now ELSE sessions[s].at
    BY <1>0, <1>2, SessionsRevoked
  <2>2. s \in outrun => s \in outrun'
    BY <1>2 DEF Outruns
  <2>3. CASE s \in ss /\ ~sessions[s].revoked /\ s \notin outrun'
    <3>1. UnderWay(s) = {}
      BY <1>2, <2>3 DEF Outruns
    <3>2. /\ DOMAIN tokens' = DOMAIN tokens
          /\ \A k \in DOMAIN tokens :
               /\ tokens'[k].session = tokens[k].session
               /\ tokens'[k].revoked = (tokens[k].revoked \/ k \in TokensOfSessions(ss))
      BY <1>0, <1>2, TokensRevoked
    <3>3. LiveTokens(s)' = {}
      BY <2>3, <3>2 DEF LiveTokens, Unrevoked, TokensOfSessions
    <3>4. ASSUME NEW c \in Channels PROVE c \notin UnderWay(s)'
      <4>1. Fits(call[c], DOMAIN tokens, DOMAIN sessions) /\ c \notin UnderWay(s)
        BY <1>0, <3>1 DEF CallsFit
      <4>. QED
        BY <1>2, <3>2, <4>1 DEF UnderWay, Fits, RefreshSteps
    <3>5. UnderWay(s)' \subseteq Channels
      BY DEF UnderWay
    <3>. QED
      BY <2>1, <2>2, <2>3, <3>3, <3>4, <3>5
  <2>4. CASE s \in ss /\ ~sessions[s].revoked /\ s \in outrun'
    BY <2>1, <2>4
  <2>5. CASE s \notin ss \/ sessions[s].revoked
    <3>1. sessions[s] \in Session
      BY <1>0
    <3>2. sessions[s].revoked \in BOOLEAN
      BY <3>1 DEF Session
    <3>3. sessions'[s].revoked = sessions[s].revoked
      BY <2>1, <2>5, <3>2
    <3>. QED
      BY <2>1, <2>2, <2>5, <3>3
  <2>. QED
    BY <2>3, <2>4, <2>5
<1>3. ASSUME NEW c \in Channels, RevokeOldest(c) \/ RevokeSessionById(c)
      PROVE  \E ss : /\ sessions' = Revoking(ss) /\ Outruns(ss)
                     /\ RevokeTokens(TokensOfSessions(ss))
                     /\ UNCHANGED <<storage, late, api, cache, now>>
                     /\ \A d \in Channels : \/ call'[d] = call[d]
                                            \/ call'[d].at = "session"
                                            \/ call'[d].op = "logout"
  <2>1. UNCHANGED <<storage, late, api, cache, now>>
    BY <1>3, SameClient DEF Query, client
  <2>2. CASE RevokeOldest(c)
    <3>1. Goto(c, "session")
      BY <2>2 DEF RevokeOldest
    <3>2. \A d \in Channels : call'[d] = call[d] \/ call'[d].at = "session"
      BY <3>1, Goes
    <3>. QED
      BY <2>1, <2>2, <3>2 DEF RevokeOldest
  <2>3. CASE RevokeSessionById(c)
    <3>1. Goto(c, "done") /\ call[c].op = "logout"
      BY <1>0, <2>3 DEF RevokeSessionById, CallsFit, Fits
    <3>2. \A d \in Channels : call'[d] = call[d] \/ call'[d].op = "logout"
      BY <3>1, Goes
    <3>. QED
      BY <2>1, <2>3, <3>2 DEF RevokeSessionById, RevokeSessions
  <2>. QED
    BY <1>3, <2>2, <2>3
<1>4. ASSUME NEW u \in Accounts, LogoutAll(u)
      PROVE  \E ss : /\ sessions' = Revoking(ss) /\ Outruns(ss)
                     /\ RevokeTokens(TokensOfSessions(ss))
                     /\ UNCHANGED <<storage, late, api, cache, now, call>>
  BY <1>4 DEF LogoutAll, RevokeSessions, client
<1>5. ASSUME NEW c \in Channels, CreateSession(c)
      PROVE  s \in DOMAIN sessions' /\ sessions'[s] = sessions[s] /\ outrun' = outrun
  <2>1. PICK x : sessions' = Append(sessions, x)
    BY <1>5 DEF CreateSession
  <2>2. outrun' = outrun
    BY <1>5 DEF CreateSession
  <2>. QED
    BY <1>0, <2>1, <2>2
<1>6. ASSUME NEW c \in Channels, Query(c)
      PROVE  \/ RevokeOldest(c) \/ RevokeSessionById(c) \/ CreateSession(c)
             \/ UNCHANGED <<sessions, outrun>>
  BY <1>6 DEF Query, CreateUser, CountSessions, SelectOldest, IssueToken, FindToken,
     RevokeFamily, RevokeExpired, RotateToken, StoreNext, rows
<1>7. CASE \/ UNCHANGED vars \/ Tick \/ Accepted \/ Restart
           \/ \E c \in Channels : Answer(c) \/ RefreshFails(c)
           \/ \E t \in Tabs : Tab(t)
  <2>1. UNCHANGED <<sessions, outrun>>
    BY <1>7 DEF vars, Tick, Accepted, Restart, Answer, RefreshFails, Tab, SubmitLogin,
       SubmitRegister, Logout, Reload, Verify, Refused, rows
  <2>. QED
    BY <1>1, <2>1
<1>8. CASE \E u \in Accounts : LogoutAll(u)
  BY <1>2, <1>4, <1>8
<1>9. CASE \E c \in Channels : Query(c)
  BY <1>1, <1>2, <1>3, <1>5, <1>6, <1>9
<1>. QED
  BY <1>7, <1>8, <1>9 DEF Next

\* A session that a step adds has not ended, and the clock does not go back.
LEMMA Beginning ==
    ASSUME IInv, [Next]_vars
    PROVE  /\ \A s \in DOMAIN sessions' \ DOMAIN sessions : ~sessions'[s].revoked
           /\ now' >= now /\ now' \in Nat
<1>0. sessions \in Seq(Session) /\ now \in Nat
  BY DEF IInv, TypeOK
<1>1. ASSUME NEW c \in Channels, CreateSession(c)
      PROVE  \A s \in DOMAIN sessions' \ DOMAIN sessions : ~sessions'[s].revoked
  <2>1. PICK x : sessions' = Append(sessions, x) /\ x.revoked = FALSE
    BY <1>1 DEF CreateSession
  <2>. QED
    BY <1>0, <2>1
<1>2. ASSUME NEW ss, sessions' = Revoking(ss)
      PROVE  DOMAIN sessions' = DOMAIN sessions
  BY <1>0, <1>2, SessionsRevoked
<1>3. ASSUME NEW c \in Channels, Query(c)
      PROVE  CreateSession(c) \/ DOMAIN sessions' = DOMAIN sessions
  BY <1>2, <1>3 DEF Query, CreateUser, CountSessions, SelectOldest, IssueToken, FindToken,
     RevokeFamily, RevokeExpired, RotateToken, StoreNext, rows, RevokeOldest,
     RevokeSessionById, RevokeSessions
<1>4. CASE \E c \in Channels : Query(c)
  BY <1>0, <1>1, <1>3, <1>4, SameClient
<1>5. CASE \E u \in Accounts : LogoutAll(u)
  BY <1>0, <1>2, <1>5 DEF LogoutAll, RevokeSessions
<1>6. CASE \/ UNCHANGED vars \/ Tick \/ Accepted \/ Restart
           \/ \E c \in Channels : Answer(c) \/ RefreshFails(c)
           \/ \E t \in Tabs : Tab(t)
  <2>1. UNCHANGED sessions /\ (UNCHANGED now \/ now' = now + 1)
    BY <1>6 DEF vars, Tick, Accepted, Restart, Answer, RefreshFails, Tab, SubmitLogin,
       SubmitRegister, Logout, Reload, Verify, Refused, rows, bounds
  <2>. QED
    BY <1>0, <2>1
<1>. QED
  BY <1>4, <1>5, <1>6 DEF Next

\* What the cache says is good no longer than the token.
LEMMA CacheWithin ==
    ASSUME IInv, \A e \in cache : e.until <= e.token.exp, [Next]_vars
    PROVE  \A e \in cache' : e.until <= e.token.exp
<1>1. CASE cache' \subseteq cache
  BY <1>1
<1>2. CASE Accepted
  <2>1. api \in Access /\ CacheTTL \in Nat /\ now \in Nat
    BY <1>2, AuthAssumption DEF Accepted, IInv, TypeOK
  <2>2. CacheUntil(api) <= api.exp
    BY <2>1 DEF CacheUntil, Access
  <2>. QED
    BY <1>2, <2>2 DEF Accepted
<1>3. CASE \E c \in Channels : Query(c)
  BY <1>1, <1>3, SameClient DEF client
<1>4. CASE \/ UNCHANGED vars \/ Tick \/ Restart \/ (\E u \in Accounts : LogoutAll(u))
           \/ \E c \in Channels : Answer(c) \/ RefreshFails(c)
           \/ \E t \in Tabs : Tab(t)
  BY <1>1, <1>4 DEF vars, client, Tick, Restart, LogoutAll, Answer, RefreshFails, Tab,
     SubmitLogin, SubmitRegister, Logout, Reload, Verify, Refused
<1>. QED
  BY <1>2, <1>3, <1>4 DEF Next

\* A session that is over stays over.
LEMMA OverStays ==
    ASSUME IInv, AInv, [Next]_vars, NEW s \in DOMAIN sessions, Over(s)
    PROVE  /\ UnderWay(s)' = {} /\ LiveTokens(s)' = {}
           /\ \A a \in Held' : a.session = s => a \in Held
<1>1. Renewing(s) = {}
  <2>1. ASSUME NEW c \in Renewing(s) PROVE FALSE
    <3>1. c \in Channels /\ Fits(call[c], DOMAIN tokens, DOMAIN sessions)
      BY <2>1 DEF Renewing, IInv, CallsFit
    <3>2. c \in UnderWay(s)
      BY <2>1, <3>1 DEF Renewing, UnderWay, Fits, LoginSteps, RefreshSteps
    <3>. QED
      BY <3>2 DEF Over
  <2>. QED
    BY <2>1
<1>2. LiveTokens(s)' = {} /\ Renewing(s)' = {}
  BY <1>1, NoRevival DEF Dead, Over
<1>3. ASSUME NEW c \in UnderWay(s)' PROVE FALSE
  <2>1. c \in Channels /\ c \notin Renewing(s)'
    BY <1>2, <1>3 DEF UnderWay
  <2>2. call'[c].at = "done" /\ call'[c].op # "logout" /\ call'[c].session = s
    BY <1>3, <2>1 DEF UnderWay, Renewing
  <2>. QED
    BY <2>1, <2>2, DoneComes DEF Over
<1>4. ASSUME NEW a \in Held', a.session = s, a \notin Held PROVE FALSE
  BY <1>4, HeldGrows DEF Over
<1>. QED
  BY <1>2, <1>3, <1>4

\* No step brings more.
LEMMA StepOver == IInv /\ AInv /\ [Next]_vars => AInv'
<1>. SUFFICES ASSUME IInv, AInv, [Next]_vars PROVE AInv'
  OBVIOUS
<1>1. /\ now' >= now /\ now' \in Nat /\ now \in Nat /\ AccessTTL \in Nat
      /\ \A a \in Held \cup Held' : a.exp \in Nat
  BY Beginning, AuthAssumption DEF Held, Access, IInv, TypeOK
<1>2. \A a \in Held' : a.exp <= now' + AccessTTL
  BY <1>1, HeldGrows DEF AInv
<1>3. \A e \in cache' : e.until <= e.token.exp
  BY CacheWithin DEF AInv
<1>4. ASSUME NEW s \in DOMAIN sessions', Ended(s)' PROVE Over(s)'
  <2>1. s \in DOMAIN sessions
    BY <1>4, Beginning DEF Ended
  <2>2. CASE sessions[s].revoked /\ sessions'[s].at = sessions[s].at
    <3>1. Ended(s)
      BY <1>4, <2>1, <2>2, Ending DEF Ended
    <3>2. Over(s)
      BY <2>1, <3>1 DEF AInv
    <3>. QED
      BY <2>1, <2>2, <3>2, OverStays DEF Over
  <2>3. CASE ~sessions[s].revoked
    <3>1. /\ sessions'[s].at = now /\ UnderWay(s)' = {} /\ LiveTokens(s)' = {}
          /\ UNCHANGED <<storage, late, api, cache, now>>
      BY <1>4, <2>1, <2>3, Ending DEF Ended
    <3>2. Held' = Held
      BY <3>1 DEF Held
    <3>. QED
      BY <3>1, <3>2 DEF Over, AInv
  <2>. QED
    BY <1>4, <2>1, <2>2, <2>3, Ending DEF Ended
<1>. QED
  BY <1>2, <1>3, <1>4 DEF AInv

\* No service has a good answer for a token of a session that was ended more
\* than the lifetime of an access token after the end, however late the
\* requests and the answers are, if no login or refresh of the session was
\* under way when it ended (logout, verifyToken, AuthVerifyClient).
THEOREM EndedSessionsLoseAccess == Spec => []EndedSessionLosesAccess
<1>1. Init => AInv
  <2>. SUFFICES ASSUME Init PROVE AInv
    OBVIOUS
  <2>1. Held = {}
    BY AuthAssumption DEF Init, Held
  <2>. QED
    BY <2>1 DEF Init, AInv
<1>2. IInv /\ AInv => EndedSessionLosesAccess
  <2>. SUFFICES ASSUME IInv, AInv, NEW e \in cache, NEW s \in DOMAIN sessions \ outrun,
                       e.token.session = s, sessions[s].revoked
                PROVE  e.until <= sessions[s].at + AccessTTL
    BY DEF EndedSessionLosesAccess
  <2>1. e.token \in Held /\ e.token.exp \in Nat /\ e.until \in Nat
    BY DEF Held, IInv, TypeOK, Access
  <2>2. e.until <= e.token.exp /\ e.token.exp <= sessions[s].at + AccessTTL
    BY <2>1 DEF AInv, Ended, Over
  <2>3. sessions[s].at \in Nat /\ AccessTTL \in Nat
    <3>1. sessions[s] \in Session
      BY DEF IInv, TypeOK
    <3>. QED
      BY <3>1, AuthAssumption DEF Session
  <2>. QED
    BY <2>1, <2>2, <2>3
<1>. QED
  BY <1>1, <1>2, StepOver, TypeCorrect, PTL DEF Spec

------------------------------------------------------------------------------
(* A browser with one tab *)

\* A token of a session, and a call that brings one or presents it.
Of(k, s) == k # None /\ k \in DOMAIN tokens /\ tokens[k].session = s
Carries(r, s) ==
    \/ r.at = "token" /\ r.session = s
    \/ r.at \in RefreshSteps \cup {"done"} /\ r.op # "logout" /\ Of(r.token, s)
Has(b, s) == Of(storage[b].refresh, s) \/ \E c \in Channels : place[c[1]] = b /\ Carries(call[c], s)

\* The tokens of a session never leave its browser.
Apart == \A b, d \in Browsers : \A s : Has(b, s) /\ Has(d, s) => b = d
Families == \A k \in DOMAIN tokens :
    tokens[k].family = tokens[k].session /\ tokens[k].session \in DOMAIN sessions
Inhabited == \A b \in Browsers : storage[b].refresh # None => \E t \in Tabs : place[t] = b
Kind(c) ==
    /\ c[2] = "refresh" => /\ call[c].at \in RefreshSteps \cup {"idle", "done", "failed"}
                           /\ call[c].at = "done" => call[c].op = "refresh"
    /\ c[2] = "form" => call[c].at \notin RefreshSteps

\* A token that is good, unless its session was ended or its time is over.
Good(k) == ~tokens[k].revoked \/ sessions[tokens[k].session].revoked \/ tokens[k].exp <= now

\* The token k a tab has, the refresh rc and the form fc it waits for: the
\* refresh presents what is stored, a login brings a session of its own, and
\* what the tab has is good until its own refresh has exchanged it.
Neat(k, rc, fc) ==
    /\ rc.heard /\ fc.heard
    /\ \A s : Carries(fc, s) => ~Of(k, s) /\ ~Carries(rc, s)
    /\ \A s : Carries(rc, s) /\ Of(k, s) /\ rc.at \in RefreshSteps => k = rc.token
    /\ k # None => \/ Good(k) \/ rc.at = "failed"
                   \/ rc.at \in {"store", "done"} /\ Carries(rc, tokens[k].session)
    /\ rc.at \in (RefreshSteps \ {"store"}) \cup {"done"} => Good(rc.token)
    /\ rc.at = "reuse" => tokens[rc.token].revoked
    /\ fc.at = "done" /\ fc.op # "logout" => Good(fc.token)
Tidy(t) == Neat(storage[place[t]].refresh, call[<<t, "refresh">>], call[<<t, "form">>])
Lone(t) == place[t] \notin lossy /\ \A u \in Tabs : place[u] = place[t] => u = t

SInv == /\ Apart /\ Families /\ Inhabited /\ \A c \in Channels : Kind(c)
        /\ \A t \in Tabs : Lone(t) => Tidy(t)

\* What every step keeps of the rows: tokens stay revoked, and what is new has
\* a session that is there.
Kept ==
    /\ UNCHANGED place /\ lossy \subseteq lossy'
    /\ DOMAIN tokens \subseteq DOMAIN tokens'
    /\ \A k \in DOMAIN tokens :
         /\ tokens'[k].session = tokens[k].session
         /\ tokens[k].revoked => tokens'[k].revoked

\* A call that is no longer listened to, or that has failed.
Faded(d) ==
    \/ call'[d] = call[d]
    \/ /\ place[d[1]] \in lossy'
       /\ call'[d] \in {[call[d] EXCEPT !.heard = FALSE], [call[d] EXCEPT !.at = "failed"]}

\* Tokens that were there are of the same session.
LEMMA OfStays ==
    ASSUME Kept, NEW k, NEW s
    PROVE  /\ Of(k, s) => Of(k, s)'
           /\ k \in DOMAIN tokens \cup {None} /\ Of(k, s)' => Of(k, s)
BY DEF Kept, Of

\* What a call brings is of the same session.
Sound(r) == Fits(r, DOMAIN tokens, DOMAIN sessions)
LEMMA CarriesStays ==
    ASSUME Kept, NEW r, Sound(r), NEW s
    PROVE  Carries(r, s)' <=> Carries(r, s)
BY OfStays DEF Sound, Fits, Carries

\* A tab stays tidy while what it has and waits for stays good.
LEMMA NeatStays ==
    ASSUME Kept, NEW k \in DOMAIN tokens \cup {None}, NEW rc, Sound(rc), NEW fc, Sound(fc),
           Neat(k, rc, fc), rc.at = "done" => rc.op # "logout", None \notin DOMAIN tokens,
           \A j \in DOMAIN tokens :
              LET s == tokens[j].session IN
              (Of(k, s) \/ Carries(rc, s) \/ Carries(fc, s)) /\ Good(j) => Good(j)'
    PROVE  Neat(k, rc, fc)'
<1>1. /\ \A s : Of(k, s)' <=> Of(k, s)
      /\ \A s : Carries(rc, s)' <=> Carries(rc, s)
      /\ \A s : Carries(fc, s)' <=> Carries(fc, s)
  BY OfStays, CarriesStays
<1>2. \A s : Carries(fc, s)' => ~Of(k, s)' /\ ~Carries(rc, s)'
  BY <1>1 DEF Neat
<1>3. \A s : Carries(rc, s)' /\ Of(k, s)' /\ rc.at \in RefreshSteps => k = rc.token
  BY <1>1 DEF Neat
<1>4. (k # None => \/ Good(k) \/ rc.at = "failed"
                   \/ rc.at \in {"store", "done"} /\ Carries(rc, tokens[k].session))'
  <2>. SUFFICES ASSUME k # None
                PROVE  \/ Good(k)' \/ rc.at = "failed"
                       \/ rc.at \in {"store", "done"} /\ Carries(rc, tokens[k].session)'
    OBVIOUS
  <2>1. k \in DOMAIN tokens /\ Of(k, tokens[k].session)
    BY DEF Of
  <2>2. PICK s : s = tokens[k].session /\ s = tokens'[k].session
    BY <2>1 DEF Kept
  <2>3. CASE Good(k)
    BY <2>1, <2>3
  <2>4. CASE rc.at \in {"store", "done"} /\ Carries(rc, s)
    <3>1. Carries(rc, s)'
      BY <1>1, <2>4
    <3>2. Carries(rc, tokens[k].session)'
      BY <2>2, <3>1 DEF Carries, Of
    <3>. QED
      BY <2>4, <3>2
  <2>. QED
    BY <2>2, <2>3, <2>4 DEF Neat
<1>5. (rc.at \in (RefreshSteps \ {"store"}) \cup {"done"} => Good(rc.token))'
  <2>. SUFFICES ASSUME rc.at \in (RefreshSteps \ {"store"}) \cup {"done"} PROVE Good(rc.token)'
    OBVIOUS
  <2>1. rc.token \in DOMAIN tokens /\ rc.op # "logout"
    BY DEF Sound, Fits
  <2>2. Carries(rc, tokens[rc.token].session) /\ Good(rc.token)
    BY <2>1 DEF Carries, Of, Neat, RefreshSteps
  <2>. QED
    BY <2>1, <2>2
<1>6. (rc.at = "reuse" => tokens[rc.token].revoked)'
  BY DEF Neat, Sound, Fits, Kept, RefreshSteps
<1>7. (fc.at = "done" /\ fc.op # "logout" => Good(fc.token))'
  <2>. SUFFICES ASSUME fc.at = "done", fc.op # "logout" PROVE Good(fc.token)'
    OBVIOUS
  <2>1. fc.token \in DOMAIN tokens
    BY DEF Sound, Fits
  <2>2. Carries(fc, tokens[fc.token].session) /\ Good(fc.token)
    BY <2>1 DEF Carries, Of, Neat
  <2>. QED
    BY <2>1, <2>2
<1>. QED
  BY <1>2, <1>3, <1>4, <1>5, <1>6, <1>7 DEF Neat
\* A tab that stays listened to stays tidy when nothing of its own changes.
LEMMA StaysTidy ==
    ASSUME IInv, SInv, Kept, NEW t \in Tabs, Lone(t)',
           Faded(<<t, "refresh">>), Faded(<<t, "form">>),
           storage'[place[t]] = storage[place[t]],
           \A j \in DOMAIN tokens : Has(place[t], tokens[j].session) /\ Good(j) => Good(j)'
    PROVE  Tidy(t)'
<1>0. PICK b, rc, fc, k :
          /\ b = place[t] /\ k = storage[b].refresh
          /\ rc = call[<<t, "refresh">>] /\ fc = call[<<t, "form">>]
  OBVIOUS
<1>1. Lone(t) /\ b \notin lossy' /\ b \in Browsers /\ place'[t] = b
  BY <1>0 DEF Lone, Kept, IInv, TypeOK
<1>2. /\ <<t, "refresh">> \in Channels /\ <<t, "form">> \in Channels
      /\ <<t, "refresh">>[1] = t /\ <<t, "form">>[1] = t
      /\ <<t, "refresh">>[2] = "refresh"
  BY DEF Channels
<1>3. call'[<<t, "refresh">>] = rc /\ call'[<<t, "form">>] = fc
  BY <1>0, <1>1, <1>2 DEF Faded
<1>4. Sound(rc) /\ Sound(fc) /\ k \in DOMAIN tokens \cup {None} /\ None \notin DOMAIN tokens
  BY <1>0, <1>1, <1>2, AuthAssumption DEF IInv, TypeOK, CallsFit, StoredIsIssued, Sound
<1>5. Neat(k, rc, fc) /\ (rc.at = "done" => rc.op # "logout")
  BY <1>0, <1>1, <1>2 DEF SInv, Tidy, Kind
<1>6. ASSUME NEW j \in DOMAIN tokens, NEW s, s = tokens[j].session,
             Of(k, s) \/ Carries(rc, s) \/ Carries(fc, s), Good(j)
      PROVE  Good(j)'
  BY <1>0, <1>1, <1>2, <1>6 DEF Has
<1>7. /\ storage'[place'[t]].refresh = k /\ call'[<<t, "refresh">>] = rc
      /\ call'[<<t, "form">>] = fc
  BY <1>0, <1>1, <1>3
<1>8. Neat(k, rc, fc)'
  BY <1>4, <1>5, <1>6, NeatStays
<1>. QED
  BY <1>7, <1>8 DEF Tidy
\* A call that fades brings nothing it did not bring before.
LEMMA FadedCarries ==
    ASSUME IInv, Kept, NEW d \in Channels, Faded(d), NEW s, Carries(call[d], s)'
    PROVE  Carries(call[d], s)
<1>1. PICK r : r = call[d]
  OBVIOUS
<1>2. PICK q : q = call'[d]
  OBVIOUS
<1>3. r \in Call /\ Sound(r)
  BY <1>1 DEF IInv, TypeOK, CallsFit, Sound
<1>4. q \in {r, [r EXCEPT !.heard = FALSE], [r EXCEPT !.at = "failed"]}
  BY <1>1, <1>2 DEF Faded
<1>5. Carries(q, s)'
  BY <1>2
<1>6. q = r \/ (q.at = r.at /\ q.op = r.op /\ q.token = r.token /\ q.session = r.session)
      \/ q.at = "failed"
  BY <1>3, <1>4 DEF Call
<1>7. Carries(r, s)'
  BY <1>5, <1>6 DEF Carries, RefreshSteps
<1>. QED
  BY <1>1, <1>3, <1>7, CarriesStays

\* A session a browser has a token of is one that is there.
LEMMA HadIsThere ==
    ASSUME IInv, Families, NEW b, NEW s, Has(b, s)
    PROVE  s \in DOMAIN sessions
<1>1. \A k : Of(k, s) => s \in DOMAIN sessions
  BY DEF Families, Of
<1>2. \A c \in Channels : Carries(call[c], s) => s \in DOMAIN sessions
  BY <1>1 DEF Carries, IInv, CallsFit, Fits
<1>. QED
  BY <1>1, <1>2 DEF Has

\* What a step of one tab leaves of the browsers.
LEMMA TabMoves ==
    ASSUME IInv, IInv', SInv, Kept, NEW c \in Channels, NEW b, b = place[c[1]],
           NEW k, k = storage'[b].refresh, NEW r, r = call'[c],
           \A d \in Channels \ {c} : Faded(d),
           \A e \in Browsers \ {b} : storage'[e] = storage[e],
           \A s : Of(k, s)' => Has(b, s),
           \A s : Carries(r, s)' => Has(b, s) \/ s \notin DOMAIN sessions,
           \A j \in DOMAIN tokens : Good(j) /\ ~Has(b, tokens[j].session) => Good(j)',
           Families', Kind(c)', Lone(c[1])' => Tidy(c[1])'
    PROVE  SInv'
<1>0. c[1] \in Tabs /\ b \in Browsers /\ place' = place
  BY DEF Channels, IInv, TypeOK, Kept
<1>1. ASSUME NEW e \in Browsers, NEW s, Has(e, s)'
      PROVE  Has(e, s) \/ (e = b /\ s \notin DOMAIN sessions)
  <2>1. ASSUME NEW d \in Channels, place[d[1]] = e, Carries(call[d], s)'
        PROVE  Has(e, s) \/ (e = b /\ s \notin DOMAIN sessions)
    <3>1. CASE d = c
      <4>1. Carries(r, s)'
        BY <2>1, <3>1
      <4>. QED
        BY <2>1, <3>1, <4>1
    <3>2. CASE d # c
      BY <2>1, <3>2, FadedCarries DEF Has
    <3>. QED
      BY <3>1, <3>2
  <2>2. ASSUME Of(storage[e].refresh, s)'
        PROVE  Has(e, s)
    <3>1. CASE e = b
      <4>1. Of(k, s)'
        BY <2>2, <3>1
      <4>. QED
        BY <3>1, <4>1
    <3>2. CASE e # b
      <4>1. PICK j : j = storage[e].refresh
        OBVIOUS
      <4>2. j \in DOMAIN tokens \cup {None}
        BY <4>1 DEF IInv, StoredIsIssued
      <4>3. Of(j, s)'
        BY <2>2, <3>2, <4>1
      <4>. QED
        BY <4>1, <4>2, <4>3, OfStays DEF Has
    <3>. QED
      BY <3>1, <3>2
  <2>. QED
    BY <1>0, <1>1, <2>1, <2>2 DEF Has
<1>2. Apart'
  <2>. SUFFICES ASSUME NEW e \in Browsers, NEW d \in Browsers, NEW s, Has(e, s)', Has(d, s)'
                PROVE  e = d
    BY DEF Apart
  <2>. QED
    BY <1>1, HadIsThere DEF SInv, Apart
<1>3. Inhabited'
  BY <1>0 DEF SInv, Inhabited
<1>4. \A d \in Channels : Kind(d)'
  <2>. SUFFICES ASSUME NEW d \in Channels, Faded(d) PROVE Kind(d)'
    OBVIOUS
  <2>1. call[d] \in Call /\ Kind(d)
    BY DEF IInv, TypeOK, SInv
  <2>2. \/ call'[d].at = call[d].at /\ call'[d].op = call[d].op
        \/ call'[d].at = "failed"
    BY <2>1 DEF Faded, Call
  <2>. QED
    BY <2>1, <2>2 DEF Kind, RefreshSteps
<1>5. ASSUME NEW t \in Tabs, Lone(t)' PROVE Tidy(t)'
  <2>1. CASE t = c[1]
    BY <1>5, <2>1
  <2>2. CASE t # c[1]
    <3>1. place[t] # b /\ place[t] \in Browsers
      BY <1>0, <1>5, <2>2 DEF Lone, IInv, TypeOK
    <3>2. <<t, "refresh">> \in Channels \ {c} /\ <<t, "form">> \in Channels \ {c}
      BY <2>2 DEF Channels
    <3>3. \A s : ~(Has(place[t], s) /\ Has(b, s))
      BY <1>0, <3>1 DEF SInv, Apart
    <3>. QED
      BY <1>5, <3>1, <3>2, <3>3, StaysTidy
  <2>. QED
    BY <2>1, <2>2
<1>. QED
  BY <1>2, <1>3, <1>4, <1>5 DEF SInv

\* A step of no tab in particular.
LEMMA NoTabMoves ==
    ASSUME IInv, SInv, Kept, \A d \in Channels : Faded(d), UNCHANGED storage,
           \A j \in DOMAIN tokens : Good(j) => Good(j)', Families'
    PROVE  SInv'
<1>0. place' = place
  BY DEF Kept
<1>1. ASSUME NEW e \in Browsers, NEW s, Has(e, s)' PROVE Has(e, s)
  <2>1. \A d \in Channels : Carries(call[d], s)' => Carries(call[d], s)
    BY FadedCarries
  <2>2. ASSUME Of(storage[e].refresh, s)' PROVE Has(e, s)
    <3>1. PICK j : j = storage[e].refresh
      OBVIOUS
    <3>2. j \in DOMAIN tokens \cup {None}
      BY <3>1 DEF IInv, StoredIsIssued
    <3>3. Of(j, s)'
      BY <2>2, <3>1
    <3>. QED
      BY <3>1, <3>2, <3>3, OfStays DEF Has
  <2>. QED
    BY <1>0, <1>1, <2>1, <2>2 DEF Has
<1>2. Apart'
  BY <1>1 DEF SInv, Apart
<1>3. Inhabited'
  BY <1>0 DEF SInv, Inhabited
<1>4. \A d \in Channels : Kind(d)'
  <2>. SUFFICES ASSUME NEW d \in Channels PROVE Kind(d)'
    OBVIOUS
  <2>1. call[d] \in Call /\ Kind(d)
    BY DEF IInv, TypeOK, SInv
  <2>2. \/ call'[d].at = call[d].at /\ call'[d].op = call[d].op
        \/ call'[d].at = "failed"
    BY <2>1 DEF Faded, Call
  <2>. QED
    BY <2>1, <2>2 DEF Kind, RefreshSteps
<1>5. ASSUME NEW t \in Tabs, Lone(t)' PROVE Tidy(t)'
  <2>1. <<t, "refresh">> \in Channels /\ <<t, "form">> \in Channels
    BY DEF Channels
  <2>. QED
    BY <1>5, <2>1, StaysTidy
<1>. QED
  BY <1>2, <1>3, <1>4, <1>5 DEF SInv
\* A step of the form of a tab.
LEMMA FormMoves ==
    ASSUME IInv, IInv', SInv, Kept, NEW c \in Channels, c[2] = "form",
           NEW r, r = call'[c], r.heard = call[c].heard, r.at \notin RefreshSteps,
           \A d \in Channels \ {c} : call'[d] = call[d], UNCHANGED storage,
           \A s : Carries(r, s)' => Carries(call[c], s) \/ s \notin DOMAIN sessions,
           \A j \in DOMAIN tokens : Good(j) => Good(j)',
           r.at = "done" /\ r.op # "logout" => Good(r.token)', Families'
    PROVE  SInv'
<1>0. PICK t, b, k, rc, fc :
        /\ t = c[1] /\ b = place[t] /\ k = storage[b].refresh
        /\ rc = call[<<t, "refresh">>] /\ fc = call[c]
  OBVIOUS
<1>1. /\ t \in Tabs /\ b \in Browsers /\ c = <<t, "form">> /\ place' = place
      /\ <<t, "refresh">> \in Channels \ {c} /\ storage' = storage
  BY <1>0 DEF Channels, IInv, TypeOK, Kept
<1>2. k \in DOMAIN tokens \cup {None} /\ Sound(rc) /\ Sound(fc) /\ None \notin DOMAIN tokens
  BY <1>0, <1>1, AuthAssumption DEF IInv, TypeOK, StoredIsIssued, CallsFit, Sound
<1>3. (rc.at = "done" => rc.op # "logout")
  BY <1>0, <1>1 DEF SInv, Kind
<1>4. \A s : Carries(r, s)' => Has(b, s) \/ s \notin DOMAIN sessions
  BY <1>0 DEF Has
<1>5. ASSUME Lone(t)' PROVE Tidy(t)'
  <2>1. Lone(t)
    BY <1>5 DEF Lone, Kept
  <2>2. Neat(k, rc, fc)
    BY <1>0, <1>1, <2>1 DEF SInv, Tidy
  <2>3. Neat(k, rc, fc)'
    BY <1>2, <1>3, <2>2, NeatStays
  <2>4. \A s : s \notin DOMAIN sessions => ~Of(k, s) /\ ~Carries(rc, s)
    BY <1>0, <1>1, HadIsThere DEF SInv, Has
  <2>5. \A s : Carries(r, s)' => ~Of(k, s)' /\ ~Carries(rc, s)'
    <3>. SUFFICES ASSUME NEW s, Carries(r, s)' PROVE ~Of(k, s)' /\ ~Carries(rc, s)'
      OBVIOUS
    <3>1. ~Of(k, s) /\ ~Carries(rc, s)
      BY <1>0, <2>2, <2>4 DEF Neat
    <3>. QED
      BY <1>2, <3>1, OfStays, CarriesStays
  <2>6. Neat(k, rc, r)'
    BY <1>0, <2>3, <2>5 DEF Neat
  <2>7. storage'[place'[t]].refresh = k /\ call'[<<t, "refresh">>] = rc /\ call'[<<t, "form">>] = r
    BY <1>0, <1>1
  <2>. QED
    BY <2>6, <2>7 DEF Tidy
<1>6. Kind(c)'
  BY <1>1 DEF Kind
<1>7. \A s : Of(k, s)' => Has(b, s)
  BY <1>0, <1>2, OfStays DEF Has
<1>8. k = storage'[b].refresh /\ \A d \in Channels \ {c} : Faded(d)
  BY <1>0, <1>1 DEF Faded
<1>. QED
  BY <1>0, <1>1, <1>4, <1>5, <1>6, <1>7, <1>8, TabMoves

\* A step of the refresh of a tab: what is stored of its session is exchanged,
\* or the refresh has failed.
LEMMA RefreshMoves ==
    ASSUME IInv, IInv', SInv, Kept, NEW c \in Channels, c[2] = "refresh",
           NEW r, r = call'[c], r.heard = call[c].heard, call[c].at \in RefreshSteps,
           r.at \in RefreshSteps \cup {"done", "failed"},
           r.at \in RefreshSteps => r.token = call[c].token,
           \A d \in Channels \ {c} : call'[d] = call[d], UNCHANGED storage,
           \A s : Carries(r, s)' => Carries(call[c], s),
           r.at \in {"store", "done"} => \A s : Carries(call[c], s) => Carries(r, s)',
           \A j \in DOMAIN tokens : Good(j) /\ ~Carries(call[c], tokens[j].session) => Good(j)',
           r.at \notin {"store", "done", "failed"} =>
              call[c].at = "find" /\ \A j \in DOMAIN tokens : Good(j) => Good(j)',
           r.at = "reuse" => tokens'[r.token].revoked,
           r.at = "done" => r.op = "refresh" /\ Good(r.token)', Families'
    PROVE  SInv'
<1>0. PICK t, b, k, rc, fc :
        /\ t = c[1] /\ b = place[t] /\ k = storage[b].refresh
        /\ rc = call[c] /\ fc = call[<<t, "form">>]
  OBVIOUS
<1>1. /\ t \in Tabs /\ b \in Browsers /\ c = <<t, "refresh">> /\ place' = place
      /\ <<t, "form">> \in Channels \ {c} /\ storage' = storage
  BY <1>0 DEF Channels, IInv, TypeOK, Kept
<1>2. k \in DOMAIN tokens \cup {None} /\ Sound(rc) /\ Sound(fc) /\ None \notin DOMAIN tokens
      /\ rc.token \in DOMAIN tokens /\ rc.op = "refresh"
  <2>1. k \in DOMAIN tokens \cup {None} /\ None \notin DOMAIN tokens
    BY <1>0, <1>1, AuthAssumption DEF IInv, TypeOK, StoredIsIssued
  <2>2. Sound(rc) /\ Sound(fc)
    BY <1>0, <1>1 DEF IInv, CallsFit, Sound
  <2>3. rc.token \in DOMAIN tokens /\ rc.op = "refresh"
    BY <1>0, <2>2 DEF Sound, Fits
  <2>. QED
    BY <2>1, <2>2, <2>3
<1>3. /\ \A s : Of(k, s)' <=> Of(k, s)
      /\ \A s : Carries(fc, s)' <=> Carries(fc, s)
  BY <1>2, OfStays, CarriesStays
<1>4. \A s : Carries(r, s)' => Has(b, s)
  BY <1>0 DEF Has
<1>5. ASSUME Lone(t)' PROVE Tidy(t)'
  <2>1. Lone(t)
    BY <1>5 DEF Lone, Kept
  <2>2. Neat(k, rc, fc)
    BY <1>0, <1>1, <2>1 DEF SInv, Tidy
  <2>3. \A s : Carries(fc, s)' => ~Of(k, s)' /\ ~Carries(r, s)'
    BY <1>0, <1>3, <2>2 DEF Neat
  <2>4. \A s : Carries(r, s)' /\ Of(k, s)' /\ r.at \in RefreshSteps => k = r.token
    BY <1>0, <1>3, <2>2 DEF Neat
  <2>5. ASSUME k # None, r.at # "failed", NEW s, s = tokens[k].session
        PROVE  Good(k)' \/ (r.at \in {"store", "done"} /\ Carries(r, s)')
    <3>1. k \in DOMAIN tokens
      BY <1>2, <2>5
    <3>2. rc.at \notin {"failed", "done"}
      BY <1>0 DEF RefreshSteps
    <3>3. CASE r.at \in {"store", "done"}
      <4>1. CASE Carries(rc, s)
        BY <1>0, <3>3, <4>1
      <4>2. CASE ~Carries(rc, s)
        <5>1. Good(k)
          BY <2>2, <2>5, <3>2, <4>2 DEF Neat
        <5>. QED
          BY <1>0, <2>5, <3>1, <4>2, <5>1
      <4>. QED
        BY <4>1, <4>2
    <3>4. CASE r.at \notin {"store", "done"}
      <4>1. rc.at = "find"
        BY <1>0, <2>5, <3>4
      <4>2. Good(k)
        BY <2>2, <2>5, <4>1 DEF Neat
      <4>. QED
        BY <2>5, <3>1, <3>4, <4>2
    <3>. QED
      BY <3>3, <3>4
  <2>6. (k # None => \/ Good(k) \/ r.at = "failed"
                     \/ r.at \in {"store", "done"} /\ Carries(r, tokens[k].session))'
    <3>. SUFFICES ASSUME k # None, r.at # "failed"
                  PROVE  Good(k)' \/ (r.at \in {"store", "done"} /\ Carries(r, tokens[k].session)')
      OBVIOUS
    <3>1. PICK s : s = tokens[k].session /\ s = tokens'[k].session
      BY <1>2 DEF Kept
    <3>2. Good(k)' \/ (r.at \in {"store", "done"} /\ Carries(r, s)')
      BY <2>5, <3>1
    <3>. QED
      BY <3>1, <3>2
  <2>7. r.at \in (RefreshSteps \ {"store"}) \cup {"done"} => Good(r.token)'
    <3>1. CASE r.at = "done"
      BY <3>1
    <3>2. CASE r.at \in RefreshSteps \ {"store"}
      <4>1. rc.at = "find" /\ r.token = rc.token
        BY <1>0, <3>2 DEF RefreshSteps
      <4>2. Good(rc.token)
        BY <2>2, <4>1 DEF Neat, RefreshSteps
      <4>. QED
        BY <1>2, <3>2, <4>1, <4>2 DEF RefreshSteps
    <3>. QED
      BY <3>1, <3>2
  <2>8. (fc.at = "done" /\ fc.op # "logout" => Good(fc.token))'
    <3>. SUFFICES ASSUME fc.at = "done", fc.op # "logout" PROVE Good(fc.token)'
      OBVIOUS
    <3>1. fc.token \in DOMAIN tokens
      BY <1>2 DEF Sound, Fits
    <3>2. Carries(fc, tokens[fc.token].session) /\ Good(fc.token)
      BY <2>2, <1>2, <3>1 DEF Carries, Of, Neat
    <3>3. ~Carries(rc, tokens[fc.token].session)
      BY <2>2, <3>2 DEF Neat
    <3>. QED
      BY <1>0, <3>1, <3>2, <3>3
  <2>9. Neat(k, r, fc)'
    BY <1>0, <2>2, <2>3, <2>4, <2>6, <2>7, <2>8 DEF Neat
  <2>10. storage'[place'[t]].refresh = k /\ call'[<<t, "refresh">>] = r /\ call'[<<t, "form">>] = fc
    BY <1>0, <1>1
  <2>. QED
    BY <2>9, <2>10 DEF Tidy
<1>6. Kind(c)'
  BY <1>1 DEF Kind
<1>7. \A s : Of(k, s)' => Has(b, s)
  BY <1>0, <1>2, OfStays DEF Has
<1>8. k = storage'[b].refresh /\ \A d \in Channels \ {c} : Faded(d)
  BY <1>0, <1>1 DEF Faded
<1>9. \A j \in DOMAIN tokens : Good(j) /\ ~Has(b, tokens[j].session) => Good(j)'
  BY <1>0 DEF Has
<1>. QED
  BY <1>0, <1>1, <1>4, <1>5, <1>6, <1>7, <1>8, <1>9, TabMoves
\* What revoking some tokens and ending some sessions leaves good.
LEMMA RevokingKeeps ==
    ASSUME IInv, Families, NEW ks, RevokeTokens(ks), NEW ss,
           sessions' = Revoking(ss) \/ (ss = {} /\ UNCHANGED sessions),
           UNCHANGED <<now, place>>, lossy \subseteq lossy'
    PROVE  /\ Kept /\ Families'
           /\ \A j \in DOMAIN tokens :
                Good(j) /\ (j \in ks => tokens[j].session \in ss) => Good(j)'
<1>1. tokens \in Seq(Token) /\ sessions \in Seq(Session) /\ now \in Nat
  BY DEF IInv, TypeOK
<1>2. /\ DOMAIN tokens' = DOMAIN tokens
      /\ \A j \in DOMAIN tokens :
           /\ tokens'[j].session = tokens[j].session /\ tokens'[j].family = tokens[j].family
           /\ tokens'[j].exp = tokens[j].exp
           /\ tokens'[j].revoked = (tokens[j].revoked \/ j \in ks)
  <2>1. DOMAIN tokens' = DOMAIN tokens
    BY DEF RevokeTokens
  <2>2. ASSUME NEW j \in DOMAIN tokens
        PROVE  /\ tokens[j] \in Token
               /\ tokens'[j] = [tokens[j] EXCEPT !.revoked = @ \/ j \in ks]
    BY <1>1, <2>2 DEF RevokeTokens
  <2>. QED
    BY <2>1, <2>2 DEF Token
<1>3. /\ DOMAIN sessions' = DOMAIN sessions
      /\ \A i \in DOMAIN sessions : sessions'[i].revoked = (sessions[i].revoked \/ i \in ss)
  <2>1. CASE sessions' = Revoking(ss)
    BY <1>1, <2>1, SessionsRevoked
  <2>2. CASE ss = {} /\ UNCHANGED sessions
    <3>1. \A i \in DOMAIN sessions : sessions[i] \in Session
      BY <1>1
    <3>. QED
      BY <2>2, <3>1 DEF Session
  <2>. QED
    BY <2>1, <2>2
<1>4. Kept
  BY <1>2 DEF Kept
<1>5. Families'
  BY <1>2, <1>3 DEF Families
<1>6. ASSUME NEW j \in DOMAIN tokens, Good(j), j \in ks => tokens[j].session \in ss
      PROVE  Good(j)'
  <2>1. tokens[j].session \in DOMAIN sessions
    BY DEF Families
  <2>. QED
    BY <1>2, <1>3, <1>6, <2>1 DEF Good
<1>. QED
  BY <1>4, <1>5, <1>6

\* A new token is good, and takes nothing from the others.
LEMMA StoringKeeps ==
    ASSUME IInv, Families, NEW c \in Channels, NEW s \in DOMAIN sessions, NEW f, f = s,
           Store(c, s, f), UNCHANGED <<sessions, now, place, lossy>>, NEW k, k = Len(tokens) + 1
    PROVE  /\ Kept /\ Families' /\ \A j \in DOMAIN tokens : Good(j) => Good(j)'
           /\ k # None /\ k \in DOMAIN tokens' /\ tokens'[k].session = s /\ Good(k)'
<1>1. tokens \in Seq(Token) /\ s \in Nat \ {0} /\ now \in Nat /\ RefreshTTL \in Nat
  BY AuthAssumption DEF IInv, TypeOK
<1>0. [session |-> s, family |-> s, exp |-> now + RefreshTTL, revoked |-> FALSE] \in Token
  BY <1>1 DEF Token
<1>2. PICK row \in Token : /\ row = [session |-> s, family |-> s, exp |-> now + RefreshTTL,
                                     revoked |-> FALSE]
                           /\ tokens' = Append(tokens, row)
  BY <1>0 DEF Store
<1>3. row.session = s /\ row.family = s /\ ~row.revoked
  BY <1>2
<1>4. /\ DOMAIN tokens' = DOMAIN tokens \cup {k} /\ k \notin DOMAIN tokens /\ tokens'[k] = row
      /\ \A j \in DOMAIN tokens : tokens'[j] = tokens[j]
      /\ k # None
  BY <1>1, <1>2, AuthAssumption
<1>5. Kept
  BY <1>4 DEF Kept
<1>6. Families'
  BY <1>3, <1>4 DEF Families
<1>7. (\A j \in DOMAIN tokens : Good(j) => Good(j)') /\ Good(k)'
  BY <1>3, <1>4 DEF Good
<1>. QED
  BY <1>3, <1>4, <1>5, <1>6, <1>7

\* Nothing happens to the tokens.
LEMMA RowsKeep ==
    ASSUME IInv, Families, UNCHANGED <<tokens, sessions, place>>, now' >= now, now' \in Nat,
           lossy \subseteq lossy'
    PROVE  Kept /\ Families' /\ \A j \in DOMAIN tokens : Good(j) => Good(j)'
<1>1. \A j \in DOMAIN tokens : tokens[j].exp \in Nat
  <2>1. \A j \in DOMAIN tokens : tokens[j] \in Token
    BY DEF IInv, TypeOK
  <2>. QED
    BY <2>1 DEF Token
<1>2. now \in Nat
  BY DEF IInv, TypeOK
<1>. QED
  BY <1>1, <1>2 DEF Kept, Families, Good

\* A query that leads on.
LEMMA GoesOn ==
    ASSUME IInv, NEW c \in Channels, NEW step, Goto(c, step), NEW r, r = call'[c]
    PROVE  /\ r.at = step /\ r.op = call[c].op /\ r.token = call[c].token
           /\ r.session = call[c].session /\ r.heard = call[c].heard
           /\ \A d \in Channels \ {c} : call'[d] = call[d]
BY DEF Goto, IInv, TypeOK, Call

\* The queries of a login.
LEMMA LoginTidy ==
    ASSUME IInv, SInv, NEW c \in Channels,
           \/ CreateUser(c) \/ CountSessions(c) \/ SelectOldest(c) \/ RevokeOldest(c)
           \/ CreateSession(c) \/ IssueToken(c)
    PROVE  SInv'
<1>1. IInv' /\ Families /\ call[c] \in Call
  BY QueryType DEF Query, SInv, IInv, TypeOK
<1>2. c[2] = "form" /\ c[2] \in {"refresh", "form"}
  <2>1. call[c].at \in LoginSteps
    BY DEF CreateUser, CountSessions, SelectOldest, RevokeOldest, CreateSession, IssueToken,
       LoginSteps
  <2>2. c[2] \in {"refresh", "form"}
    BY DEF Channels
  <2>3. Kind(c)
    BY DEF SInv
  <2>. QED
    BY <2>1, <2>2, <2>3 DEF Kind, LoginSteps, RefreshSteps
<1>3. UNCHANGED <<storage, lossy, now, place>> /\ now \in Nat /\ lossy \subseteq lossy'
  BY DEF CreateUser, CountSessions, SelectOldest, RevokeOldest, CreateSession, IssueToken,
     client, bounds, IInv, TypeOK
<1>4. ASSUME NEW step \in {"session", "failed", "select", "evict"}, call'[c].at = step,
             call'[c].heard = call[c].heard,
             \A d \in Channels \ {c} : call'[d] = call[d], Kept, Families',
             \A j \in DOMAIN tokens : Good(j) => Good(j)'
      PROVE  SInv'
  <2>1. PICK r : r = call'[c]
    OBVIOUS
  <2>2. r.at \notin RefreshSteps \cup {"done", "token"}
    BY <1>4, <2>1 DEF RefreshSteps
  <2>3. \A s : ~Carries(r, s)'
    BY <2>2 DEF Carries
  <2>. QED
    BY <1>1, <1>2, <1>3, <1>4, <2>1, <2>2, <2>3, FormMoves
<1>5. CASE CreateUser(c) \/ CountSessions(c)
  <2>1. \A u : CountLeadsTo(u) \in {"select", "session"}
    BY DEF CountLeadsTo
  <2>2. PICK step \in {"session", "failed", "select"} : Goto(c, step)
    BY <1>5, <2>1 DEF CreateUser, CountSessions, Fail
  <2>3. UNCHANGED <<tokens, sessions>>
    BY <1>5 DEF CreateUser, CountSessions, rows
  <2>4. now' >= now /\ now' \in Nat
    BY <1>3
  <2>. QED
    BY <1>1, <1>3, <1>4, <2>2, <2>3, <2>4, GoesOn, RowsKeep
<1>6. CASE SelectOldest(c)
  <2>1. /\ call'[c].at \in {"session", "evict"} /\ call'[c].heard = call[c].heard
        /\ \A d \in Channels \ {c} : call'[d] = call[d]
    BY <1>1, <1>6 DEF SelectOldest, Goto, IInv, TypeOK, Call
  <2>2. UNCHANGED <<tokens, sessions>> /\ now' >= now /\ now' \in Nat
    BY <1>3, <1>6 DEF SelectOldest, rows
  <2>. QED
    BY <1>1, <1>3, <1>4, <2>1, <2>2, RowsKeep
<1>7. CASE RevokeOldest(c)
  <2>1. PICK ss, ks : /\ ss = {call[c].session} /\ ks = TokensOfSessions(ss)
                      /\ sessions' = Revoking(ss) /\ RevokeTokens(ks) /\ Goto(c, "session")
    BY <1>7 DEF RevokeOldest
  <2>2. \A j \in ks : tokens[j].session \in ss
    BY <2>1 DEF TokensOfSessions
  <2>3. Kept /\ Families' /\ \A j \in DOMAIN tokens : Good(j) => Good(j)'
    BY <1>1, <1>3, <2>1, <2>2, RevokingKeeps
  <2>. QED
    BY <1>4, <2>1, <2>3, GoesOn
<1>8. CASE CreateSession(c)
  <2>1. PICK r : r = call'[c]
    OBVIOUS
  <2>2. /\ r.at = "token" /\ r.session = Len(sessions) + 1 /\ r.heard = call[c].heard
        /\ \A d \in Channels \ {c} : call'[d] = call[d]
    BY <1>1, <1>8, <2>1 DEF CreateSession, IInv, TypeOK, Call
  <2>3. UNCHANGED tokens /\ sessions' = Append(sessions, [user |-> UserOf(c), revoked |-> FALSE, at |-> 0])
    BY <1>8 DEF CreateSession
  <2>4. /\ Len(sessions) + 1 \notin DOMAIN sessions /\ DOMAIN sessions \subseteq DOMAIN sessions'
        /\ \A i \in DOMAIN sessions : sessions'[i] = sessions[i]
    BY <2>3 DEF IInv, TypeOK
  <2>5. Kept /\ Families'
    BY <1>1, <1>3, <2>3, <2>4 DEF Kept, Families
  <2>6. \A j \in DOMAIN tokens : Good(j) => Good(j)'
    BY <1>1, <1>3, <2>3, <2>4 DEF Good, Families
  <2>7. \A s : Carries(r, s)' => s \notin DOMAIN sessions
    BY <2>2, <2>4 DEF Carries, RefreshSteps
  <2>8. r.at \notin RefreshSteps \cup {"done"}
    BY <2>2 DEF RefreshSteps
  <2>. QED
    BY <1>1, <1>2, <1>3, <2>1, <2>2, <2>5, <2>6, <2>7, <2>8, FormMoves
<1>9. CASE IssueToken(c)
  <2>1. PICK r, s, k : r = call'[c] /\ s = call[c].session /\ k = Len(tokens) + 1
    OBVIOUS
  <2>2. Store(c, s, s) /\ s \in DOMAIN sessions /\ call[c].at = "token" /\ UNCHANGED sessions
    BY <1>9, <2>1, IssueTokenType DEF IssueToken
  <2>3. /\ r.at = "done" /\ r.token = k /\ r.heard = call[c].heard /\ r.op = call[c].op
        /\ \A d \in Channels \ {c} : call'[d] = call[d]
    BY <1>1, <2>1, <2>2 DEF Store, IInv, TypeOK, Call
  <2>4. /\ Kept /\ Families' /\ \A j \in DOMAIN tokens : Good(j) => Good(j)'
        /\ tokens'[k].session = s /\ Good(k)'
    BY <1>1, <1>3, <2>1, <2>2, StoringKeeps
  <2>5. \A x : Carries(r, x)' => Carries(call[c], x)
    BY <2>1, <2>2, <2>3, <2>4 DEF Carries, Of, RefreshSteps
  <2>6. Good(r.token)' /\ r.at \notin RefreshSteps
    BY <2>3, <2>4 DEF RefreshSteps
  <2>. QED
    BY <1>1, <1>2, <1>3, <2>1, <2>3, <2>4, <2>5, <2>6, FormMoves
<1>. QED
  BY <1>5, <1>6, <1>7, <1>8, <1>9
\* The queries of a refresh.
LEMMA RefreshTidy ==
    ASSUME IInv, SInv, NEW c \in Channels,
           \/ FindToken(c) \/ RevokeFamily(c) \/ RevokeExpired(c) \/ RotateToken(c)
           \/ StoreNext(c)
    PROVE  SInv'
<1>1. IInv' /\ Families /\ call[c] \in Call
  BY QueryType DEF Query, SInv, IInv, TypeOK
<1>2. call[c].at \in RefreshSteps /\ c[2] = "refresh"
  <2>1. call[c].at \in RefreshSteps
    BY DEF FindToken, RevokeFamily, RevokeExpired, RotateToken, StoreNext, RefreshSteps
  <2>2. c[2] \in {"refresh", "form"}
    BY DEF Channels
  <2>. QED
    BY <2>1, <2>2 DEF SInv, Kind
<1>3. /\ UNCHANGED <<sessions, storage, lossy, now, place>> /\ now \in Nat
      /\ lossy \subseteq lossy' /\ now' >= now /\ now' \in Nat
  BY DEF FindToken, RevokeFamily, RevokeExpired, RotateToken, StoreNext, rows,
     client, bounds, IInv, TypeOK
<1>4. PICK k, s : /\ k = call[c].token /\ s = tokens[k].session
                  /\ k \in DOMAIN tokens /\ s = tokens[k].family /\ s \in DOMAIN sessions
  BY <1>1, <1>2 DEF IInv, CallsFit, Fits, Families
<1>5. \A x : Carries(call[c], x) <=> x = s
  <2>1. call[c].at # "token" /\ call[c].op # "logout"
    BY <1>2 DEF IInv, CallsFit, Fits, RefreshSteps
  <2>2. k # None
    BY <1>4, AuthAssumption DEF IInv, TypeOK
  <2>. QED
    BY <1>2, <1>4, <2>1, <2>2 DEF Carries, Of
<1>6. CASE FindToken(c)
  <2>1. PICK step, r : /\ step \in {"reuse", "expired", "rotate"} /\ Goto(c, step)
                       /\ step = "reuse" => tokens[k].revoked
                       /\ r = call'[c]
    BY <1>4, <1>6 DEF FindToken, FindLeadsTo
  <2>2. UNCHANGED tokens
    BY <1>6 DEF FindToken, rows
  <2>3. Kept /\ Families' /\ \A j \in DOMAIN tokens : Good(j) => Good(j)'
    BY <1>1, <1>3, <2>2, RowsKeep
  <2>4. /\ r.at = step /\ r.op = call[c].op /\ r.token = k /\ r.heard = call[c].heard
        /\ \A d \in Channels \ {c} : call'[d] = call[d]
    BY <1>4, <2>1, GoesOn
  <2>5. \A x : Carries(r, x)' => Carries(call[c], x)
    <3>1. \A x : Of(k, x)' <=> Of(k, x)
      BY <2>2 DEF Of
    <3>2. \A x : Carries(r, x)' => Of(k, x)
      BY <2>1, <2>4, <3>1 DEF Carries
    <3>. QED
      BY <1>4, <1>5, <3>2 DEF Of
  <2>6. r.at \in RefreshSteps /\ r.at \notin {"store", "done", "failed"}
    BY <2>1, <2>4 DEF RefreshSteps
  <2>7. r.at = "reuse" => tokens'[r.token].revoked
    BY <2>1, <2>2, <2>4
  <2>8. call[c].at = "find"
    BY <1>6 DEF FindToken
  <2>. QED
    BY <1>1, <1>2, <1>3, <1>4, <2>1, <2>3, <2>4, <2>5, <2>6, <2>7, <2>8, RefreshMoves
<1>7. CASE RevokeFamily(c) \/ RevokeExpired(c) \/ RotateToken(c)
  <2>1. PICK ks, step, r :
          /\ RevokeTokens(ks) /\ \A j \in ks : j \in DOMAIN tokens /\ tokens[j].session = s
          /\ step \in {"failed", "store"} /\ Goto(c, step) /\ r = call'[c]
    <3>1. CASE RevokeFamily(c)
      BY <1>1, <1>4, <3>1 DEF RevokeFamily, TokensOfFamily, Fail, Families
    <3>2. CASE RevokeExpired(c)
      BY <1>4, <3>2 DEF RevokeExpired, Fail
    <3>3. CASE RotateToken(c)
      BY <1>4, <3>3 DEF RotateToken, Rotated
    <3>. QED
      BY <1>7, <3>1, <3>2, <3>3
  <2>2. PICK ss : ss = {}
    OBVIOUS
  <2>3. /\ Kept /\ Families'
        /\ \A j \in DOMAIN tokens : Good(j) /\ (j \in ks => tokens[j].session \in ss) => Good(j)'
    BY <1>1, <1>3, <2>1, <2>2, RevokingKeeps
  <2>4. /\ r.at = step /\ r.op = call[c].op /\ r.token = k /\ r.heard = call[c].heard
        /\ \A d \in Channels \ {c} : call'[d] = call[d]
    BY <1>4, <2>1, GoesOn
  <2>5. tokens'[k].session = s /\ k \in DOMAIN tokens' /\ k # None /\ r.op # "logout"
    <3>1. k # None /\ call[c].op = "refresh"
      BY <1>2, <1>4, AuthAssumption DEF IInv, TypeOK, CallsFit, Fits
    <3>. QED
      BY <1>4, <2>3, <2>4, <3>1 DEF Kept
  <2>6. /\ \A x : Carries(r, x)' => Carries(call[c], x)
        /\ r.at = "store" => \A x : Carries(call[c], x) => Carries(r, x)'
    BY <1>4, <1>5, <2>1, <2>4, <2>5 DEF Carries, Of, RefreshSteps
  <2>7. \A j \in DOMAIN tokens : Good(j) /\ ~Carries(call[c], tokens[j].session) => Good(j)'
    BY <1>5, <2>1, <2>3
  <2>8. r.at \in RefreshSteps \cup {"done", "failed"} /\ r.at \in {"store", "failed"}
    BY <2>1, <2>4 DEF RefreshSteps
  <2>9. /\ r.at \in RefreshSteps => r.token = call[c].token
        /\ r.at \in {"store", "done"} => \A x : Carries(call[c], x) => Carries(r, x)'
        /\ r.at \notin {"store", "done", "failed"} =>
              call[c].at = "find" /\ \A j \in DOMAIN tokens : Good(j) => Good(j)'
        /\ r.at = "reuse" => tokens'[r.token].revoked
        /\ r.at = "done" => r.op = "refresh" /\ Good(r.token)'
    BY <1>4, <2>4, <2>6, <2>8
  <2>. QED
    BY <1>1, <1>2, <1>3, <2>1, <2>3, <2>4, <2>6, <2>7, <2>8, <2>9, RefreshMoves
<1>8. CASE StoreNext(c)
  <2>1. PICK r, n : r = call'[c] /\ n = Len(tokens) + 1
    OBVIOUS
  <2>2. Store(c, s, s)
    BY <1>4, <1>8, StoreNextType
  <2>3. /\ r.at = "done" /\ r.token = n /\ r.heard = call[c].heard /\ r.op = call[c].op
        /\ \A d \in Channels \ {c} : call'[d] = call[d]
    BY <1>1, <2>1, <2>2 DEF Store, IInv, TypeOK, Call
  <2>4. /\ Kept /\ Families' /\ \A j \in DOMAIN tokens : Good(j) => Good(j)'
        /\ n # None /\ n \in DOMAIN tokens' /\ tokens'[n].session = s /\ Good(n)'
    BY <1>1, <1>3, <1>4, <2>1, <2>2, StoringKeeps
  <2>5. r.op = "refresh"
    BY <1>2, <2>3 DEF IInv, CallsFit, Fits
  <2>6. \A x : Carries(r, x)' <=> x = s
    BY <2>3, <2>4, <2>5 DEF Carries, Of
  <2>7. Good(r.token)' /\ r.at \in RefreshSteps \cup {"done", "failed"} /\ r.at \notin RefreshSteps
    BY <2>3, <2>4 DEF RefreshSteps
  <2>8. /\ r.at \in RefreshSteps => r.token = call[c].token
        /\ r.at \notin {"store", "done", "failed"} =>
              call[c].at = "find" /\ \A j \in DOMAIN tokens : Good(j) => Good(j)'
        /\ r.at = "reuse" => tokens'[r.token].revoked
    BY <2>3, <2>7
  <2>9. /\ \A x : Carries(r, x)' => Carries(call[c], x)
        /\ r.at \in {"store", "done"} => \A x : Carries(call[c], x) => Carries(r, x)'
    BY <1>5, <2>6
  <2>10. \A j \in DOMAIN tokens : Good(j) /\ ~Carries(call[c], tokens[j].session) => Good(j)'
    BY <2>4
  <2>. QED
    BY <1>1, <1>2, <1>3, <2>1, <2>3, <2>4, <2>5, <2>7, <2>8, <2>9, <2>10, RefreshMoves
<1>. QED
  BY <1>6, <1>7, <1>8

\* A logout ends its session.
LEMMA EndingTidy ==
    ASSUME IInv, SInv, NEW c \in Channels, RevokeSessionById(c) PROVE SInv'
<1>1. IInv' /\ Families /\ call[c] \in Call
  BY QueryType DEF Query, SInv, IInv, TypeOK
<1>2. call[c].at = "revoke" /\ call[c].op = "logout"
  BY DEF RevokeSessionById, IInv, CallsFit, Fits
<1>3. c[2] = "form"
  <2>1. c[2] \in {"refresh", "form"}
    BY DEF Channels
  <2>. QED
    BY <1>2, <2>1 DEF SInv, Kind, RefreshSteps
<1>4. UNCHANGED <<storage, lossy, now, place>> /\ lossy \subseteq lossy'
  BY DEF RevokeSessionById, client, bounds
<1>5. PICK ss, ks : /\ ss = {call[c].token} /\ ks = TokensOfSessions(ss)
                    /\ sessions' = Revoking(ss) /\ RevokeTokens(ks) /\ Goto(c, "done")
  BY DEF RevokeSessionById, RevokeSessions
<1>6. \A j \in ks : tokens[j].session \in ss
  BY <1>5 DEF TokensOfSessions
<1>7. Kept /\ Families' /\ \A j \in DOMAIN tokens : Good(j) => Good(j)'
  BY <1>1, <1>4, <1>5, <1>6, RevokingKeeps
<1>8. PICK r : r = call'[c]
  OBVIOUS
<1>9. /\ r.at = "done" /\ r.op = "logout" /\ r.heard = call[c].heard
      /\ \A d \in Channels \ {c} : call'[d] = call[d]
  BY <1>2, <1>5, <1>8, GoesOn
<1>10. r.at \notin RefreshSteps /\ \A x : ~Carries(r, x)'
  BY <1>9 DEF RefreshSteps, Carries
<1>. QED
  BY <1>1, <1>3, <1>4, <1>7, <1>8, <1>9, <1>10, FormMoves
\* What a tab does by itself leaves the tables alone.
LEMMA TabActs ==
    ASSUME IInv, IInv', SInv, UNCHANGED <<tokens, sessions, now, place>>, lossy \subseteq lossy',
           NEW c \in Channels, NEW b, b = place[c[1]], NEW k, k = storage'[b].refresh,
           NEW r, r = call'[c], NEW rc, rc = call'[<<c[1], "refresh">>],
           NEW fc, fc = call'[<<c[1], "form">>],
           \A d \in Channels \ {c} : Faded(d),
           \A e \in Browsers \ {b} : storage'[e] = storage[e],
           \A s : Of(k, s) => Has(b, s), \A s : Carries(r, s) => Has(b, s), Kind(c)',
           Lone(c[1])' => Neat(k, rc, fc)
    PROVE  SInv'
<1>1. now' >= now /\ now' \in Nat /\ Families
  BY DEF IInv, TypeOK, SInv
<1>2. Kept /\ Families' /\ \A j \in DOMAIN tokens : Good(j) => Good(j)'
  BY <1>1, RowsKeep
<1>3. \A s : (Of(k, s)' <=> Of(k, s)) /\ (Carries(r, s)' <=> Carries(r, s))
  BY DEF Of, Carries
<1>4. Neat(k, rc, fc)' <=> Neat(k, rc, fc)
  <2>1. tokens' = tokens /\ sessions' = sessions /\ now' = now
    OBVIOUS
  <2>2. \A j : Good(j)' <=> Good(j)
    BY ONLY <2>1 DEF Good
  <2>3. \A x, s : (Of(x, s)' <=> Of(x, s)) /\ (Carries(x, s)' <=> Carries(x, s))
    BY ONLY <2>1 DEF Of, Carries
  <2>. QED
    BY ONLY <2>1, <2>2, <2>3 DEF Neat
<1>5. ASSUME Lone(c[1])' PROVE Tidy(c[1])'
  <2>1. storage'[place'[c[1]]].refresh = k
    OBVIOUS
  <2>2. Neat(k, rc, fc)'
    BY <1>4, <1>5
  <2>. QED
    BY <2>1, <2>2 DEF Tidy
<1>. QED
  BY <1>2, <1>3, <1>5, TabMoves

\* A form that is sent.
LEMMA SendingTidy ==
    ASSUME IInv, IInv', SInv, NEW t \in Tabs, NEW op \in {"login", "register", "logout"},
           NEW token, Start(<<t, "form">>, op, token), UNCHANGED storage,
           UNCHANGED <<tokens, sessions, now, place, lossy>>
    PROVE  SInv'
<1>1. PICK c, r : /\ c = <<t, "form">> /\ c \in Channels /\ c[2] = "form"
                  /\ r = call'[c] /\ call[c] = NoCall
  BY DEF Start, Channels
<1>2. PICK step \in {"count", "user", "revoke"} :
        call' = [call EXCEPT ![c] = [NoCall EXCEPT !.op = op, !.token = token, !.at = step]]
  BY <1>1 DEF Start
<1>3. /\ r.at \in {"count", "user", "revoke"} /\ r.heard = call[c].heard
      /\ \A d \in Channels \ {c} : call'[d] = call[d]
  BY <1>1, <1>2 DEF NoCall, IInv, TypeOK
<1>4. r.at \notin RefreshSteps \cup {"token", "done"}
  BY <1>3 DEF RefreshSteps
<1>5. \A s : ~Carries(r, s)'
  BY <1>4 DEF Carries
<1>6. now' >= now /\ now' \in Nat /\ Families /\ lossy \subseteq lossy'
  BY DEF IInv, TypeOK, SInv
<1>7. Kept /\ Families' /\ \A j \in DOMAIN tokens : Good(j) => Good(j)'
  BY <1>6, RowsKeep
<1>. QED
  BY <1>1, <1>3, <1>4, <1>5, <1>7, FormMoves

\* A tab that forgets its tokens, having nothing good to present.
LEMMA ForgettingTidy ==
    ASSUME IInv, IInv', SInv, NEW t \in Tabs, SetStorage(t, None, None), UNCHANGED call,
           UNCHANGED <<tokens, sessions, now, place, lossy>>
    PROVE  SInv'
<1>0. <<t, "refresh">> \in Channels /\ <<t, "refresh">>[1] = t
  BY DEF Channels
<1>1. PICK c, b, rc, fc : /\ c = <<t, "refresh">> /\ c \in Channels /\ b = place[t] /\ c[1] = t
                          /\ rc = call[c] /\ fc = call[<<t, "form">>]
  BY <1>0
<1>2. b \in Browsers
  BY <1>1 DEF IInv, TypeOK
<1>3. storage'[b].refresh = None /\ \A e \in Browsers \ {b} : storage'[e] = storage[e]
  BY <1>1, <1>2 DEF SetStorage, IInv, TypeOK
<1>4. \A s : ~Of(None, s)
  BY DEF Of
<1>5. \A s : Carries(rc, s) => Has(b, s)
  BY <1>1 DEF Has
<1>6. Kind(c)'
  BY <1>1 DEF SInv, Kind
<1>7. ASSUME Lone(t)' PROVE Neat(None, rc, fc)
  <2>1. Lone(t)
    BY <1>7 DEF Lone
  <2>2. PICK k : k = storage[b].refresh
    OBVIOUS
  <2>3. Neat(k, rc, fc)
    BY <1>1, <2>1, <2>2 DEF SInv, Tidy
  <2>. QED
    BY <1>4, <2>3 DEF Neat
<1>8. \A d \in Channels \ {c} : Faded(d)
  BY DEF Faded
<1>9. \A s : Of(None, s) => Has(b, s)
  BY <1>4
<1>. QED
  BY <1>1, <1>3, <1>5, <1>6, <1>7, <1>8, <1>9, TabActs

\* A refresh presents what is stored.
LEMMA PresentingTidy ==
    ASSUME IInv, IInv', SInv, NEW t \in Tabs, NEW k, k = Mine(t).refresh, k # None,
           Start(<<t, "refresh">>, "refresh", k), UNCHANGED storage,
           UNCHANGED <<tokens, sessions, now, place, lossy>>
    PROVE  SInv'
<1>1. PICK c, b, r, fc : /\ c = <<t, "refresh">> /\ c \in Channels /\ b = place[t] /\ c[1] = t
                         /\ r = call'[c] /\ call[c] = NoCall /\ fc = call[<<t, "form">>]
                         /\ <<t, "form">> \in Channels \ {c} /\ c[2] = "refresh"
  BY DEF Start, Channels
<1>2. call' = [call EXCEPT ![c] = [NoCall EXCEPT !.op = "refresh", !.token = k, !.at = "find"]]
  BY <1>1 DEF Start
<1>3. /\ r.at = "find" /\ r.op = "refresh" /\ r.token = k /\ r.heard
      /\ \A d \in Channels \ {c} : call'[d] = call[d]
  BY <1>1, <1>2 DEF NoCall, IInv, TypeOK
<1>4. b \in Browsers /\ storage'[b].refresh = k /\ storage[b].refresh = k
  BY <1>1 DEF Mine, IInv, TypeOK
<1>5. \A s : Carries(r, s) <=> Of(k, s)
  BY <1>3 DEF Carries, RefreshSteps
<1>6. \A s : Of(k, s) => Has(b, s)
  BY <1>4 DEF Has
<1>7. Kind(c)'
  BY <1>1, <1>3 DEF Kind, RefreshSteps
<1>8. ASSUME Lone(t)' PROVE Neat(k, r, fc)
  <2>1. Lone(t)
    BY <1>8 DEF Lone
  <2>2. PICK rc : rc = call[c] /\ rc.at = "idle"
    BY <1>1 DEF NoCall
  <2>3. Neat(k, rc, fc)
    BY <1>1, <1>4, <2>1, <2>2 DEF SInv, Tidy
  <2>4. Good(k) /\ fc.heard
    BY <2>2, <2>3 DEF Neat
  <2>5. \A s : Carries(fc, s) => ~Of(k, s) /\ ~Carries(r, s)
    BY <1>5, <2>3 DEF Neat
  <2>6. fc.at = "done" /\ fc.op # "logout" => Good(fc.token)
    BY <2>3 DEF Neat
  <2>. QED
    BY <1>3, <2>4, <2>5, <2>6 DEF Neat
<1>9. \A d \in Channels \ {c} : Faded(d)
  BY <1>3 DEF Faded
<1>10. fc = call'[<<t, "form">>] /\ \A s : Carries(r, s) => Has(b, s)
  BY <1>1, <1>3, <1>5, <1>6
<1>. QED
  BY <1>1, <1>4, <1>6, <1>7, <1>8, <1>9, <1>10, TabActs
\* A tab stores what its call brings, or forgets what it had.
LEMMA AnswerTidy ==
    ASSUME IInv, IInv', SInv, NEW c \in Channels, Answer(c) PROVE SInv'
<1>1. PICK t, b, k, rc, fc : /\ t = c[1] /\ b = place[t] /\ k = storage[b].refresh
                             /\ rc = call[<<t, "refresh">>] /\ fc = call[<<t, "form">>]
  OBVIOUS
<1>2. /\ t \in Tabs /\ b \in Browsers /\ c[2] \in {"refresh", "form"}
      /\ c \in {<<t, "refresh">>, <<t, "form">>}
      /\ <<t, "refresh">> \in Channels /\ <<t, "form">> \in Channels
      /\ <<t, "refresh">>[2] = "refresh" /\ <<t, "refresh">> # <<t, "form">>
  BY <1>1 DEF Channels, IInv, TypeOK
<1>3. /\ UNCHANGED <<tokens, sessions, now, place, lossy>> /\ call[c].at = "done"
      /\ call' = [call EXCEPT ![c] = NoCall]
      /\ call'[c] = NoCall /\ \A d \in Channels \ {c} : call'[d] = call[d]
  BY DEF Answer, rows, bounds, IInv, TypeOK
<1>4. PICK n, rd, fd : /\ n = storage'[b].refresh
                       /\ rd = call'[<<t, "refresh">>] /\ fd = call'[<<t, "form">>]
  OBVIOUS
<1>5. /\ c = <<t, "refresh">> => rd = NoCall /\ fd = fc /\ rc = call[c]
      /\ c = <<t, "form">> => rd = rc /\ fd = NoCall /\ fc = call[c]
  BY <1>1, <1>2, <1>3, <1>4
<1>6. /\ \A s : ~Carries(NoCall, s) /\ ~Of(None, s)
      /\ NoCall.heard /\ NoCall.at \notin RefreshSteps \cup {"store", "done", "failed"}
  BY DEF NoCall, Carries, Of, RefreshSteps
<1>7. CASE call[c].heard = FALSE
  <2>1. n = k /\ storage' = storage
    BY <1>1, <1>4, <1>7 DEF Answer
  <2>2. ~Lone(t)'
    <3>. SUFFICES ASSUME Lone(t) PROVE FALSE
      BY <1>3 DEF Lone
    <3>. QED
      BY <1>1, <1>2, <1>5, <1>7 DEF SInv, Tidy, Neat
  <2>3. \A s : Of(n, s) => Has(b, s)
    BY <1>1, <2>1 DEF Has
  <2>4. Kind(c)'
    BY <1>2, <1>3 DEF Kind, NoCall, RefreshSteps
  <2>5. \A d \in Channels \ {c} : Faded(d)
    BY <1>3 DEF Faded
  <2>6. PICK r : r = call'[c] /\ r = NoCall
    BY <1>3
  <2>. QED
    BY <1>1, <1>2, <1>3, <1>4, <1>6, <2>1, <2>2, <2>3, <2>4, <2>5, <2>6, TabActs
<1>8. CASE call[c].heard # FALSE
  <2>1. PICK acc : SetStorage(t, acc, n)
                   /\ n = (IF call[c].op = "logout" THEN None ELSE call[c].token)
    <3>1. PICK acc, m : SetStorage(t, acc, m)
                        /\ m = (IF call[c].op = "logout" THEN None ELSE call[c].token)
      <4>1. call[c].heard
        BY <1>8 DEF IInv, TypeOK, Call
      <4>. QED
        BY <1>1, <4>1 DEF Answer, KeptToken
    <3>2. n = m
      BY <1>1, <1>2, <1>4, <3>1 DEF SetStorage, IInv, TypeOK
    <3>. QED
      BY <3>1, <3>2
  <2>2. \A e \in Browsers \ {b} : storage'[e] = storage[e]
    BY <1>1, <1>2, <2>1 DEF SetStorage, IInv, TypeOK
  <2>3. \A s : Of(n, s) => Carries(call[c], s)
    BY <1>3, <1>6, <2>1 DEF Carries
  <2>4. ASSUME Lone(t)' PROVE Neat(n, rd, fd)
    <3>0. Lone(t)
      BY <1>3, <2>4 DEF Lone
    <3>1. Neat(k, rc, fc)
      BY <1>1, <1>2, <3>0 DEF SInv, Tidy
    <3>2. CASE c = <<t, "refresh">>
      <4>1. rc.at = "done" /\ call[c].op = "refresh"
        BY <1>3, <1>5, <1>2, <3>2 DEF SInv, Kind
      <4>2. Good(n)
        BY <1>5, <2>1, <3>1, <3>2, <4>1 DEF Neat
      <4>3. \A s : Carries(fc, s) => ~Of(n, s)
        BY <1>5, <2>3, <3>1, <3>2 DEF Neat
      <4>4. fc.heard /\ (fc.at = "done" /\ fc.op # "logout" => Good(fc.token))
        BY <3>1 DEF Neat
      <4>. QED
        BY <1>5, <1>6, <3>2, <4>2, <4>3, <4>4 DEF Neat, RefreshSteps
    <3>3. CASE c = <<t, "form">>
      <4>1. \A s : Carries(rc, s) => ~Of(n, s)
        BY <1>5, <2>3, <3>1, <3>3 DEF Neat
      <4>2. n # None => Good(n)
        BY <1>3, <1>5, <2>1, <3>1, <3>3 DEF Neat
      <4>. QED
        BY <1>5, <1>6, <3>1, <3>3, <4>1, <4>2 DEF Neat
    <3>. QED
      BY <1>2, <3>2, <3>3
  <2>5. \A s : Of(n, s) => Has(b, s)
    BY <1>1, <2>3 DEF Has
  <2>6. Kind(c)'
    BY <1>2, <1>3 DEF Kind, NoCall, RefreshSteps
  <2>7. \A d \in Channels \ {c} : Faded(d)
    BY <1>3 DEF Faded
  <2>8. PICK r : r = call'[c] /\ r = NoCall
    BY <1>3
  <2>. QED
    BY <1>1, <1>2, <1>3, <1>4, <1>6, <2>2, <2>4, <2>5, <2>6, <2>7, <2>8, TabActs
<1>. QED
  BY <1>7, <1>8

\* A tab that gives up goes to the login page, and nobody hears its form.
LEMMA LeavingTidy ==
    ASSUME IInv, IInv', SInv, NEW t \in Tabs, NEW c, c = <<t, "refresh">>,
           Leave(t, [call EXCEPT ![c] = NoCall]), UNCHANGED <<tokens, sessions, now, place>>
    PROVE  SInv'
<1>1. PICK b, k, rc, fc : /\ b = place[t] /\ k = storage[b].refresh
                          /\ rc = call[c] /\ fc = call[<<t, "form">>]
  OBVIOUS
<1>2. /\ c[1] = t /\ b \in Browsers /\ c \in Channels
      /\ <<t, "form">> \in Channels /\ c # <<t, "form">>
      /\ c[2] = "refresh" /\ <<t, "form">>[2] = "form" /\ <<t, "form">>[1] = t
  BY <1>1 DEF Channels, IInv, TypeOK
<1>4. /\ SetStorage(t, None, None)
      /\ call' = [d \in Channels |->
             IF d = c THEN NoCall
             ELSE IF d[1] = t /\ call[d] # NoCall
             THEN [call[d] EXCEPT !.heard = FALSE] ELSE call[d]]
      /\ lossy' = IF call[<<t, "form">>] # NoCall THEN lossy \cup {b} ELSE lossy
  BY <1>1, <1>2 DEF Leave, IInv, TypeOK
<1>5. PICK n, rd, fd, r : /\ n = storage'[b].refresh /\ r = call'[c] /\ r = NoCall
                          /\ rd = call'[c] /\ fd = call'[<<t, "form">>]
  BY <1>2, <1>4
<1>6. /\ \A s : ~Carries(NoCall, s) /\ ~Of(None, s)
      /\ NoCall.heard /\ NoCall.at \notin RefreshSteps \cup {"store", "done", "failed"}
  BY DEF NoCall, Carries, Of, RefreshSteps
<1>7. Kind(c)' /\ lossy \subseteq lossy'
  <2>1. Kind(c)'
    BY <1>2, <1>5 DEF Kind, NoCall, RefreshSteps
  <2>. QED
    BY <1>4, <2>1
<1>8. n = None /\ \A e \in Browsers \ {b} : storage'[e] = storage[e]
  BY <1>1, <1>2, <1>4, <1>5 DEF SetStorage, IInv, TypeOK
<1>9. ASSUME NEW d \in Channels \ {c} PROVE Faded(d)
  <2>1. CASE d[1] = t /\ call[d] # NoCall
    <3>1. d = <<t, "form">>
      BY <2>1 DEF Channels
    <3>2. place[d[1]] \in lossy'
      BY <1>1, <1>4, <2>1, <3>1
    <3>3. call'[d] = [call[d] EXCEPT !.heard = FALSE]
      BY <1>4, <2>1
    <3>. QED
      BY <3>2, <3>3 DEF Faded
  <2>2. CASE ~(d[1] = t /\ call[d] # NoCall)
    BY <1>4, <2>2 DEF Faded
  <2>. QED
    BY <2>1, <2>2
<1>10. ASSUME Lone(t)' PROVE Neat(n, rd, fd)
  <2>1. b \notin lossy'
    BY <1>1, <1>10 DEF Lone
  <2>2. fc = NoCall
    BY <1>1, <1>4, <2>1
  <2>3. fd = NoCall /\ rd = NoCall
    BY <1>1, <1>2, <1>4, <1>5, <2>2
  <2>. QED
    BY <1>6, <1>8, <2>3 DEF Neat, RefreshSteps
<1>11. /\ \A s : Of(n, s) => Has(b, s)
       /\ \A s : Carries(r, s) => Has(b, s)
  BY <1>5, <1>6, <1>8
<1>. QED
  BY <1>1, <1>2, <1>5, <1>7, <1>8, <1>9, <1>10, <1>11, TabActs

\* A call that has failed is over; a refresh takes the tab to the login page.
LEMMA RefreshFailsTidy ==
    ASSUME IInv, IInv', SInv, NEW c \in Channels, RefreshFails(c) PROVE SInv'
<1>1. PICK t, b, k, rc, fc : /\ t = c[1] /\ b = place[t] /\ k = storage[b].refresh
                             /\ rc = call[<<t, "refresh">>] /\ fc = call[<<t, "form">>]
  OBVIOUS
<1>2. /\ t \in Tabs /\ b \in Browsers /\ c[2] \in {"refresh", "form"}
      /\ c \in {<<t, "refresh">>, <<t, "form">>}
      /\ <<t, "refresh">> \in Channels /\ <<t, "form">> \in Channels
      /\ <<t, "refresh">>[2] = "refresh" /\ <<t, "refresh">> # <<t, "form">>
      /\ <<t, "form">>[2] = "form" /\ <<t, "form">>[1] = t
  BY <1>1 DEF Channels, IInv, TypeOK
<1>3. UNCHANGED <<tokens, sessions, now, place>> /\ call[c].at = "failed"
  BY DEF RefreshFails, rows, bounds
<1>4. CASE c[2] = "refresh" /\ call[c].heard
  <2>1. c = <<t, "refresh">> /\ Leave(t, [call EXCEPT ![c] = NoCall])
    BY <1>1, <1>2, <1>4 DEF RefreshFails
  <2>. QED
    BY <1>2, <1>3, <2>1, LeavingTidy
<1>5. CASE ~(c[2] = "refresh" /\ call[c].heard)
  <2>1. UNCHANGED <<storage, lossy>> /\ call' = [call EXCEPT ![c] = NoCall]
    BY <1>5 DEF RefreshFails
  <2>2. PICK n, rd, fd, r : /\ n = storage'[b].refresh /\ r = call'[c] /\ r = NoCall
                             /\ rd = call'[<<t, "refresh">>] /\ fd = call'[<<t, "form">>]
    BY <2>1 DEF IInv, TypeOK
  <2>3. /\ \A s : ~Carries(NoCall, s) /\ ~Of(None, s)
         /\ NoCall.heard /\ NoCall.at \notin RefreshSteps \cup {"store", "done", "failed"}
    BY DEF NoCall, Carries, Of, RefreshSteps
  <2>4. Kind(c)' /\ lossy \subseteq lossy'
    BY <1>2, <2>1, <2>2 DEF Kind, NoCall, RefreshSteps
  <2>5. n = k /\ storage' = storage
    BY <1>1, <2>1, <2>2, <1>5
  <2>6. \A d \in Channels \ {c} : call'[d] = call[d]
    BY <2>1, <1>5
  <2>7. \A d \in Channels \ {c} : Faded(d)
    BY <2>6 DEF Faded
  <2>8. ASSUME Lone(t)' PROVE Neat(n, rd, fd)
    <3>0. Lone(t)
      BY <1>3, <2>4, <2>8 DEF Lone
    <3>1. Neat(k, rc, fc)
      BY <1>1, <1>2, <3>0 DEF SInv, Tidy
    <3>2. c = <<t, "form">>
      <4>1. rc.heard
        BY <3>1 DEF Neat
      <4>. QED
        BY <1>1, <1>2, <2>1, <1>5, <4>1
    <3>3. rd = rc /\ fd = NoCall
      BY <1>1, <1>2, <2>2, <2>6, <3>2
    <3>. QED
      BY <2>3, <2>5, <3>1, <3>3 DEF Neat
  <2>9. /\ \A s : Of(n, s) => Has(b, s)
        /\ \A s : Carries(r, s) => Has(b, s)
    BY <1>1, <2>2, <2>3, <2>5 DEF Has
  <2>. QED
    BY <1>1, <1>3, <2>2, <2>4, <2>5, <2>7, <2>8, <2>9, TabActs
<1>. QED
  BY <1>4, <1>5

\* Restarts, reloads, logoutAll and the requests that need no refresh.
LEMMA OutsideTidy ==
    ASSUME IInv, SInv,
           \/ Restart \/ Tick \/ Accepted
           \/ \E u \in Accounts : LogoutAll(u)
           \/ \E t \in Tabs : Reload(t) \/ Verify(t)
    PROVE  SInv'
<1>1. /\ Families /\ now \in Nat /\ call \in [Channels -> Call]
  BY DEF SInv, IInv, TypeOK
<1>2. CASE \E u \in Accounts : LogoutAll(u)
  <2>1. PICK ss, ks : /\ ks = TokensOfSessions(ss) /\ sessions' = Revoking(ss)
                      /\ RevokeTokens(ks)
    BY <1>2 DEF LogoutAll, RevokeSessions
  <2>2. \A j \in ks : tokens[j].session \in ss
    BY <2>1 DEF TokensOfSessions
  <2>3. UNCHANGED <<call, storage, lossy, now, place>> /\ lossy \subseteq lossy'
    BY <1>2 DEF LogoutAll, client
  <2>4. Kept /\ Families' /\ \A j \in DOMAIN tokens : Good(j) => Good(j)'
    BY <1>1, <2>1, <2>2, <2>3, RevokingKeeps
  <2>5. \A d \in Channels : Faded(d)
    BY <2>3 DEF Faded
  <2>. QED
    BY <2>3, <2>4, <2>5, NoTabMoves
<1>3. CASE Restart \/ Tick \/ Accepted \/ \E t \in Tabs : Reload(t) \/ Verify(t)
  <2>1. /\ UNCHANGED <<tokens, sessions, place, storage>> /\ now' >= now /\ now' \in Nat
        /\ lossy \subseteq lossy'
    BY <1>1, <1>3 DEF Restart, Tick, Accepted, Reload, Verify, rows, bounds
  <2>2. \A d \in Channels : Faded(d)
    <3>. SUFFICES ASSUME NEW d \in Channels PROVE Faded(d)
      OBVIOUS
    <3>1. CASE Restart
      <4>1. CASE call[d].at \in {"idle", "done", "failed"}
        BY <3>1, <4>1 DEF Restart, Faded
      <4>2. CASE call[d].at \notin {"idle", "done", "failed"}
        BY <3>1, <4>2 DEF Restart, Faded
      <4>. QED
        BY <4>1, <4>2
    <3>2. CASE \E t \in Tabs : Reload(t)
      <4>1. PICK t \in Tabs : Reload(t)
        BY <3>2
      <4>2. CASE d[1] = t /\ call[d] # NoCall
        BY <4>1, <4>2 DEF Reload, Faded
      <4>3. CASE ~(d[1] = t /\ call[d] # NoCall)
        BY <4>1, <4>3 DEF Reload, Faded
      <4>. QED
        BY <4>2, <4>3
    <3>3. CASE Tick \/ Accepted \/ \E t \in Tabs : Verify(t)
      BY <3>3 DEF Tick, Accepted, Verify, Faded
    <3>. QED
      BY <1>3, <3>1, <3>2, <3>3
  <2>3. Kept /\ Families' /\ \A j \in DOMAIN tokens : Good(j) => Good(j)'
    BY <1>1, <2>1, RowsKeep
  <2>. QED
    BY <2>1, <2>2, <2>3, NoTabMoves
<1>. QED
  BY <1>2, <1>3

\* What a tab starts.
LEMMA StartingTidy ==
    ASSUME IInv, IInv', SInv, NEW t \in Tabs,
           SubmitLogin(t) \/ SubmitRegister(t) \/ Logout(t) \/ Refused(t)
    PROVE  SInv'
<1>1. /\ UNCHANGED <<tokens, sessions, now, place>>
      /\ Refused(t) \/ UNCHANGED lossy
  BY DEF SubmitLogin, SubmitRegister, Logout, Refused, rows, client, bounds
<1>2. CASE SubmitLogin(t) \/ SubmitRegister(t)
  <2>1. PICK op, token : /\ op \in {"login", "register", "logout"}
                         /\ Start(<<t, "form">>, op, token) /\ UNCHANGED storage
    BY <1>2 DEF SubmitLogin, SubmitRegister, client
  <2>2. UNCHANGED lossy
    BY <1>2 DEF SubmitLogin, SubmitRegister, client
  <2>. QED
    BY <1>1, <2>1, <2>2, SendingTidy
<1>3. CASE Logout(t)
  <2>0. UNCHANGED lossy
    BY <1>3 DEF Logout
  <2>1. CASE Vouched(Mine(t).access)
    <3>1. PICK op, token : /\ op \in {"login", "register", "logout"}
                           /\ Start(<<t, "form">>, op, token) /\ UNCHANGED storage
      BY <1>3, <2>1 DEF Logout
    <3>. QED
      BY <1>1, <2>0, <3>1, SendingTidy
  <2>2. CASE ~Vouched(Mine(t).access)
    BY <1>1, <1>3, <2>0, <2>2, ForgettingTidy DEF Logout
  <2>. QED
    BY <2>1, <2>2
<1>4. CASE Refused(t)
  <2>1. CASE Mine(t).refresh = None
    <3>1. PICK c : c = <<t, "refresh">> /\ c \in Channels /\ call[c] = NoCall
      BY <1>4 DEF Refused, Channels
    <3>2. call = [call EXCEPT ![c] = NoCall]
      BY <3>1 DEF IInv, TypeOK
    <3>. QED
      BY <1>1, <1>4, <2>1, <3>1, <3>2, LeavingTidy DEF Refused
  <2>2. CASE Mine(t).refresh # None
    <3>1. PICK k : k = Mine(t).refresh
      OBVIOUS
    <3>2. Start(<<t, "refresh">>, "refresh", k) /\ UNCHANGED <<storage, lossy>>
      BY <1>4, <2>2, <3>1 DEF Refused
    <3>. QED
      BY <1>1, <2>2, <3>1, <3>2, PresentingTidy
  <2>. QED
    BY <2>1, <2>2
<1>. QED
  BY <1>2, <1>3, <1>4

LEMMA StepTidy == IInv /\ SInv /\ [Next]_vars => SInv'
<1>. SUFFICES ASSUME IInv, SInv, [Next]_vars PROVE SInv'
  OBVIOUS
<1>1. IInv'
  BY StepType
<1>2. CASE UNCHANGED vars
  <2>1. UNCHANGED <<tokens, sessions, call, storage, lossy, now, place>> /\ now \in Nat
    BY <1>2 DEF vars, rows, client, bounds, IInv, TypeOK
  <2>2. Kept /\ Families' /\ \A j \in DOMAIN tokens : Good(j) => Good(j)'
    BY <2>1, RowsKeep DEF SInv
  <2>3. \A d \in Channels : Faded(d)
    BY <2>1 DEF Faded
  <2>. QED
    BY <2>1, <2>2, <2>3, NoTabMoves
<1>3. ASSUME Next PROVE SInv'
  <2>1. CASE \E c \in Channels : Query(c) \/ Answer(c) \/ RefreshFails(c)
    BY <1>1, <2>1, LoginTidy, RefreshTidy, EndingTidy, AnswerTidy, RefreshFailsTidy DEF Query
  <2>2. CASE \E t \in Tabs : SubmitLogin(t) \/ SubmitRegister(t) \/ Logout(t) \/ Refused(t)
    BY <1>1, <2>2, StartingTidy
  <2>. QED
    BY <1>3, <2>1, <2>2, OutsideTidy DEF Next, Tab
<1>. QED
  BY <1>2, <1>3

LEMMA InitTidy == Init => SInv
<1>. SUFFICES ASSUME Init PROVE SInv
  OBVIOUS
<1>1. \A c \in Channels : call[c] = NoCall
  BY DEF Init
<1>2. \A s : ~Carries(NoCall, s) /\ ~Of(None, s)
  BY DEF Carries, NoCall, RefreshSteps, Of
<1>3. ASSUME NEW b \in Browsers PROVE storage[b].refresh = None
  BY DEF Init
<1>4. \A b \in Browsers : \A s : ~Has(b, s)
  BY <1>1, <1>2, <1>3 DEF Has
<1>5. Families
  BY DEF Init, Families
<1>6. \A c \in Channels : Kind(c)
  BY <1>1 DEF Kind, NoCall, RefreshSteps
<1>7. ASSUME NEW t \in Tabs PROVE Tidy(t)
  <2>1. place[t] \in Browsers
    BY DEF Init
  <2>2. <<t, "refresh">> \in Channels /\ <<t, "form">> \in Channels
    BY DEF Channels
  <2>3. Neat(None, NoCall, NoCall)
    BY <1>2 DEF Neat, NoCall, RefreshSteps
  <2>. QED
    BY <1>1, <1>3, <2>1, <2>2, <2>3 DEF Tidy
<1>. QED
  BY <1>3, <1>4, <1>5, <1>6, <1>7 DEF SInv, Apart, Inhabited

LEMMA TwoAreTwo ==
    ASSUME NEW x, NEW y, x # y
    PROVE  Cardinality({x, y}) = 2 /\ IsFiniteSet({x, y})
<1>1. IsFiniteSet({x}) /\ Cardinality({x}) = 1
  BY FS_Singleton
<1>2. PICK S : S = {x}
  OBVIOUS
<1>3. y \notin S /\ IsFiniteSet(S) /\ Cardinality(S) = 1 /\ S \cup {y} = {x, y}
  BY <1>1, <1>2
<1>4. IsFiniteSet(S \cup {y}) /\ Cardinality(S \cup {y}) = Cardinality(S) + 1
  BY ONLY <1>3, FS_AddElement
<1>. QED
  BY <1>3, <1>4

\* A browser with one tab that never lost an answer has a token its session
\* still takes: fetchWithAuth makes one refresh at a time, so what it presents
\* is what is stored, and it stores what refresh issues before it asks again.
THEOREM LoneTabsKeepTheirSessions == Spec => []LoneTabKeepsItsSession
<1>1. ASSUME IInv, SInv, NEW b \in Browsers, NEW k, k = storage[b].refresh, k # None,
             ~Shared(b), b \notin lossy, ~Refreshing(b)
      PROVE  Good(k)
  <2>1. PICK t \in Tabs : place[t] = b
    BY <1>1 DEF SInv, Inhabited
  <2>2. \A u \in Tabs : place[u] = b => u = t
    <3>. SUFFICES ASSUME NEW u \in Tabs, place[u] = b, u # t PROVE FALSE
      OBVIOUS
    <3>. DEFINE us == { v \in Tabs : place[v] = b }
    <3>1. IsFiniteSet(us) /\ {t, u} \subseteq us
      BY <2>1, AuthAssumption, FS_Subset
    <3>2. Cardinality({t, u}) = 2 /\ IsFiniteSet({t, u})
      BY ONLY u # t, TwoAreTwo
    <3>3. Cardinality(us) \in Nat /\ 2 <= Cardinality(us)
      BY <3>1, <3>2, FS_Subset, FS_CardinalityType
    <3>4. Cardinality(us) <= 1
      BY <1>1, <3>3 DEF Shared
    <3>. QED
      BY <3>3, <3>4
  <2>3. Lone(t)
    BY <1>1, <2>1, <2>2 DEF Lone
  <2>4. PICK rc, fc : rc = NoCall /\ rc = call[<<t, "refresh">>] /\ fc = call[<<t, "form">>]
    BY <1>1, <2>1 DEF Refreshing
  <2>5. Neat(k, rc, fc)
    BY <1>1, <2>1, <2>3, <2>4 DEF SInv, Tidy
  <2>6. rc.at = "idle"
    BY <2>4 DEF NoCall
  <2>. QED
    BY <1>1, <2>5, <2>6 DEF Neat
<1>2. IInv /\ SInv => LoneTabKeepsItsSession
  BY <1>1 DEF LoneTabKeepsItsSession, Good
<1>. QED
  BY <1>2, InitType, InitTidy, StepType, StepTidy, PTL DEF Spec
=============================================================================
