-------------------------------- MODULE Auth --------------------------------
(***************************************************************************)
(* Sessions and tokens of the auth service, and the browsers that use them.*)
(*                                                                         *)
(* AuthService keeps two tables: sessions, one per login, and              *)
(* refresh_tokens, one row per token ever issued.  A login issues a        *)
(* session and its first refresh token; a refresh revokes the token it is  *)
(* given and issues the next one of the same family; a token that comes    *)
(* back after it was revoked revokes its family.  Each query is a step,    *)
(* so calls interleave between their queries.                              *)
(*                                                                         *)
(* The client side is fetchWithAuth and the login and logout forms: every  *)
(* tab of a browser shares localStorage with the other tabs, but the       *)
(* single-flight refreshPromise belongs to one tab.  In between, the       *)
(* services cache what the auth service said of an access token            *)
(* (AuthVerifyClient).                                                     *)
(***************************************************************************)
EXTENDS Integers, Sequences, FiniteSets

CONSTANTS
    Tabs, Browsers,
    AccountOf,       \* the account a browser logs in with
    SessionLimit,    \* active sessions of an account (3 in the code)
    AccessTTL, RefreshTTL, CacheTTL,
    None,            \* null
    \* bounds of the model
    MaxCalls,        \* auth calls in flight at a time
    Budgets          \* which tabs are open, how far the clock goes, how many
                     \* tokens and faults there are

Accounts == { AccountOf[b] : b \in Browsers }

\* What is read of an access token, a signed JWT.
Access == [session : Nat \ {0}, exp : Nat]

ASSUME AuthAssumption ==
    /\ IsFiniteSet(Tabs)
    /\ SessionLimit \in Nat \ {0}
    /\ {AccessTTL, RefreshTTL, CacheTTL, MaxCalls} \subseteq Nat
    /\ Budgets \subseteq [tabs : SUBSET Tabs, time : Nat, tokens : Nat, faults : Nat]
    /\ None \notin Nat \cup Accounts \cup Access

VARIABLES
    now,
    place,       \* the browser a tab is open in; fixed
    budget,      \* the bounds of this behaviour; fixed
    accounts,    \* rows of users_credentials
    sessions,    \* rows of sessions, in the order of created_at
    tokens,      \* rows of refresh_tokens
    gauge,       \* the active refresh token gauge of this process
    call,        \* the auth call of each tab: one refresh and one form
    storage,     \* auth_token and auth_refresh_token in localStorage
    late,        \* a request out with an access token its tab no longer holds
    api,         \* the access token a service has had verified and not yet stored
    cache,       \* verified access tokens and until when
    faults,      \* restarts, reloads and logoutAll calls so far
    lossy,       \* browsers that lost the answer of a call
    outrun,      \* sessions that ended while a call for them was past its check
    overlapped   \* accounts with logins that overlapped, or ran during one

rows == <<accounts, sessions, tokens>>
client == <<storage, late, api, cache, lossy>>
bounds == <<now, place, budget, faults>>
ghosts == <<outrun, overlapped>>
vars == <<rows, gauge, call, client, bounds, ghosts>>

Channels == Tabs \X {"refresh", "form"}
NoCall == [op |-> None, at |-> "idle", token |-> None, session |-> None,
           heard |-> TRUE]

\* revoked_at, as whether and when.
Session == [user : Accounts, revoked : BOOLEAN, at : Nat]
Token == [session : Nat \ {0}, family : Nat \ {0}, exp : Nat, revoked : BOOLEAN]
Request == [tab : Tabs, token : Access]

Init ==
    /\ now = 0
    /\ budget \in Budgets
    /\ place \in [Tabs -> Browsers]
    /\ \A t \in Tabs \ budget.tabs : \A u \in Tabs \ {t} : place[t] # place[u]
    /\ accounts = {} /\ sessions = <<>> /\ tokens = <<>> /\ gauge = 0
    /\ call = [c \in Channels |-> NoCall]
    /\ storage = [b \in Browsers |-> [access |-> None, refresh |-> None]]
    /\ late = None /\ api = None /\ cache = {}
    /\ faults = 0 /\ lossy = {} /\ outrun = {} /\ overlapped = {}

------------------------------------------------------------------------------
(* The tables: CredentialsRepository *)

ActiveSessions(u) ==
    { i \in DOMAIN sessions : sessions[i].user = u /\ ~sessions[i].revoked }

Revoking(ss) == [i \in DOMAIN sessions |->
    [sessions[i] EXCEPT !.revoked = @ \/ i \in ss,
                        !.at = IF i \in ss /\ ~sessions[i].revoked THEN now ELSE @]]

\* The tokens "UPDATE refresh_tokens ... AND revoked_at IS NULL" changes.
Unrevoked(ks) == { k \in ks : ~tokens[k].revoked }
TokensOfSessions(ss) == { k \in DOMAIN tokens : tokens[k].session \in ss }
TokensOfFamily(f) == { k \in DOMAIN tokens : tokens[k].family = f }

RevokeTokens(ks) ==
    tokens' = [k \in DOMAIN tokens |-> [tokens[k] EXCEPT !.revoked = @ \/ k \in ks]]

\* decrementActiveRefreshTokens of the rows an update has changed.
Decrement(ks) == gauge' = gauge - Cardinality(Unrevoked(ks))

CountActiveRefreshTokens ==
    Cardinality({ k \in DOMAIN tokens : ~tokens[k].revoked /\ tokens[k].exp > now })

------------------------------------------------------------------------------
(* Calls: a step is one query and what runs up to the next await *)

UserOf(c) == AccountOf[place[c[1]]]
Goto(c, step) == call' = [call EXCEPT ![c].at = step]
Fail(c) == Goto(c, "failed")
LoggingIn(u) == { c \in Channels :
    UserOf(c) = u /\ call[c].op \in {"login", "register"}
    /\ call[c].at \in {"select", "evict", "session"} }

\* A login or a refresh that will bring an access token of session s.
UnderWay(s) == { c \in Channels : call[c].op # "logout" /\
    (\/ call[c].at \in {"rotate", "store"} /\ tokens[call[c].token].session = s
     \/ call[c].at \in {"token", "done"} /\ call[c].session = s) }
Outruns(ss) == outrun' = outrun \cup
    { s \in ss \cap DOMAIN sessions : ~sessions[s].revoked /\ UnderWay(s) # {} }

InFlight == Cardinality({ c \in Channels : call[c] # NoCall })

\* Bounds of the model: tokens to come and faults count together.
Start(c, op, token) ==
    /\ call[c] = NoCall
    /\ InFlight < MaxCalls /\ api = None
    /\ \/ op = "logout"
       \/ op = "refresh" /\ tokens[token].revoked
       \/ Len(tokens) + InFlight + faults < budget.tokens
    /\ call' = [call EXCEPT ![c] = [NoCall EXCEPT !.op = op, !.token = token,
         !.at = CASE op = "login" -> "count" [] op = "register" -> "user"
                  [] op = "refresh" -> "find" [] OTHER -> "revoke"]]

\* The unique constraint on the name: a second registration fails.
CreateUser(c) ==
    /\ call[c].at = "user"
    /\ IF UserOf(c) \in accounts
       THEN Fail(c) /\ UNCHANGED accounts
       ELSE Goto(c, "session") /\ accounts' = accounts \cup {UserOf(c)}
    /\ UNCHANGED <<sessions, tokens, gauge, client, bounds, ghosts>>

\* Defect: eviction starts only beyond the limit.
CountLeadsTo_Late(u) ==
    IF Cardinality(ActiveSessions(u)) > SessionLimit THEN "select" ELSE "session"

CountLeadsTo(u) ==
    IF Cardinality(ActiveSessions(u)) >= SessionLimit THEN "select" ELSE "session"

\* Unknown users and wrong passwords end here: findUserByUsername, the
\* comparison, and then the count.
CountSessions(c) ==
    /\ call[c].at = "count"
    /\ Goto(c, IF UserOf(c) \in accounts THEN CountLeadsTo(UserOf(c)) ELSE "failed")
    /\ overlapped' = IF LoggingIn(UserOf(c)) # {}
                     THEN overlapped \cup {UserOf(c)} ELSE overlapped
    /\ UNCHANGED <<rows, gauge, client, bounds, outrun>>

\* The SELECT and the UPDATEs of revokeOldestActiveSession: one transaction,
\* but under READ COMMITTED another one may select the same row in between.
SelectOldest(c) ==
    /\ call[c].at = "select"
    /\ LET active == ActiveSessions(UserOf(c)) IN
       IF active = {} THEN Goto(c, "session")
       ELSE call' = [call EXCEPT ![c].at = "evict",
              ![c].session = CHOOSE i \in active : \A j \in active : i <= j]
    /\ UNCHANGED <<rows, gauge, client, bounds, ghosts>>

\* The login does not decrement the gauge for what it evicts.
RevokeOldest(c) ==
    /\ call[c].at = "evict"
    /\ Goto(c, "session")
    /\ sessions' = Revoking({call[c].session}) /\ Outruns({call[c].session})
    /\ RevokeTokens(TokensOfSessions({call[c].session}))
    /\ UNCHANGED <<accounts, gauge, client, bounds, overlapped>>

CreateSession(c) ==
    /\ call[c].at = "session"
    /\ sessions' = Append(sessions, [user |-> UserOf(c), revoked |-> FALSE, at |-> 0])
    /\ call' = [call EXCEPT ![c].at = "token", ![c].session = Len(sessions) + 1]
    /\ UNCHANGED <<accounts, tokens, gauge, client, bounds, ghosts>>

\* storeRefreshToken and the increment of the gauge.
Store(c, session, family) ==
    /\ tokens' = Append(tokens, [session |-> session, family |-> family,
                                 exp |-> now + RefreshTTL, revoked |-> FALSE])
    /\ gauge' = gauge + 1
    /\ call' = [call EXCEPT ![c].at = "done", ![c].token = Len(tokens) + 1,
                            ![c].session = session]

\* A session and the family of its first token are born together: the
\* number of the session stands for both of the UUIDs.
IssueToken(c) ==
    /\ call[c].at = "token"
    /\ Store(c, call[c].session, call[c].session)
    /\ UNCHANGED <<accounts, sessions, client, bounds, ghosts>>

\* Defect: a token that was revoked is rotated like any other.
FindLeadsTo_NoReuseCheck(k) == IF tokens[k].exp <= now THEN "expired" ELSE "rotate"

\* What refresh does next with the token it has found.
FindLeadsTo(k) ==
    IF tokens[k].revoked THEN "reuse"
    ELSE IF tokens[k].exp <= now THEN "expired" ELSE "rotate"

FindToken(c) ==
    /\ call[c].at = "find"
    /\ Goto(c, FindLeadsTo(call[c].token))
    /\ UNCHANGED <<rows, gauge, client, bounds, ghosts>>

RevokeFamily(c) ==
    /\ call[c].at = "reuse"
    /\ LET ks == TokensOfFamily(tokens[call[c].token].family) IN
       RevokeTokens(ks) /\ Decrement(ks)
    /\ Fail(c)
    /\ UNCHANGED <<accounts, sessions, client, bounds, ghosts>>

RevokeExpired(c) ==
    /\ call[c].at = "expired"
    /\ RevokeTokens({call[c].token}) /\ Decrement({call[c].token})
    /\ Fail(c)
    /\ UNCHANGED <<accounts, sessions, client, bounds, ghosts>>

Rotated(k) == {k}

\* Whether this call or another one revoked the row does not matter to it.
RotateToken(c) ==
    /\ call[c].at = "rotate"
    /\ RevokeTokens(Rotated(call[c].token)) /\ Decrement(Rotated(call[c].token))
    /\ Goto(c, "store")
    /\ UNCHANGED <<accounts, sessions, client, bounds, ghosts>>

\* The session of the token is not looked at again.
StoreNext(c) ==
    /\ call[c].at = "store"
    /\ LET k == tokens[call[c].token] IN Store(c, k.session, k.family)
    /\ UNCHANGED <<accounts, sessions, client, bounds, ghosts>>

\* One transaction: the session rows and their tokens.
RevokeSessions(ss) ==
    /\ sessions' = Revoking(ss) /\ Outruns(ss)
    /\ RevokeTokens(TokensOfSessions(ss)) /\ Decrement(TokensOfSessions(ss))

\* The JWT verifies: asked by logout and logoutAll, and by /verify for the
\* other services.
Vouched(a) == a # None /\ a.exp > now

\* The token of this call is the session its access token names.
RevokeSessionById(c) ==
    /\ call[c].at = "revoke"
    /\ RevokeSessions({call[c].token})
    /\ Goto(c, "done")
    /\ UNCHANGED <<accounts, client, bounds, overlapped>>

\* The web client never calls logoutAll: another client of the API does,
\* with a good access token, and nothing else waits for its answer.
LogoutAll(u) ==
    /\ faults < budget.faults
    /\ faults' = faults + 1
    /\ \E b \in Browsers : AccountOf[b] = u /\ Vouched(storage[b].access)
    /\ RevokeSessions({ i \in DOMAIN sessions : sessions[i].user = u })
    /\ UNCHANGED <<accounts, call, client, now, place, budget, overlapped>>

\* The process dies with its calls; the next one counts the live tokens.
Restart ==
    /\ faults < budget.faults
    /\ faults' = faults + 1
    /\ gauge' = CountActiveRefreshTokens
    /\ call' = [c \in Channels |->
         IF call[c].at \in {"idle", "done", "failed"} THEN call[c]
         ELSE [call[c] EXCEPT !.at = "failed"]]
    /\ lossy' = lossy \cup { place[c[1]] : c \in
         { d \in Channels : call[d].at \notin {"idle", "done", "failed"} } }
    /\ UNCHANGED <<rows, storage, late, api, cache, now, place, budget, ghosts>>

Query(c) ==
    \/ CreateUser(c) \/ CountSessions(c) \/ SelectOldest(c) \/ RevokeOldest(c)
    \/ CreateSession(c) \/ IssueToken(c)
    \/ FindToken(c) \/ RevokeFamily(c) \/ RevokeExpired(c)
    \/ RotateToken(c) \/ StoreNext(c) \/ RevokeSessionById(c)

------------------------------------------------------------------------------
(* A tab: forms, answers, reloads *)

Mine(t) == storage[place[t]]

\* Requests that tabs of this browser may have out when its tokens change.
\* Bound of the model: the last one that is late is followed.
Out(t) == {late} \cup
    { [tab |-> u, token |-> Mine(t).access] : u \in
        { v \in Tabs : place[v] = place[t] /\ Mine(t).access # None } }

SetStorage(t, access, refresh) ==
    storage' = [storage EXCEPT ![place[t]] =
                   [access |-> access, refresh |-> refresh]]

\* The forms do not ask whether the browser has tokens already.
SubmitRegister(t) ==
    /\ UserOf(<<t, "form">>) \notin accounts
    /\ Start(<<t, "form">>, "register", None)
    /\ UNCHANGED <<rows, gauge, client, bounds, ghosts>>

SubmitLogin(t) ==
    /\ UserOf(<<t, "form">>) \in accounts
    /\ Start(<<t, "form">>, "login", None)
    /\ UNCHANGED <<rows, gauge, client, bounds, ghosts>>

\* The call needs an access token that still verifies; without one the
\* service answers an error, and the tab forgets its tokens all the same.
Logout(t) ==
    /\ Mine(t).access # None
    /\ call[<<t, "form">>] = NoCall
    /\ IF Vouched(Mine(t).access)
       THEN /\ Start(<<t, "form">>, "logout", Mine(t).access.session)
            /\ UNCHANGED <<storage, late>>
       ELSE SetStorage(t, None, None) /\ late' \in Out(t) /\ UNCHANGED call
    /\ UNCHANGED <<rows, gauge, api, cache, lossy, bounds, ghosts>>

AccessToken(c) == [session |-> call[c].session, exp |-> now + AccessTTL]

\* Defect: the tab keeps the refresh token it has used.
KeptToken_Old(c) == IF call[c].op = "refresh" THEN Mine(c[1]).refresh ELSE call[c].token
KeptToken(c) == call[c].token

\* The token is signed when the last query has returned; a tab that still
\* listens stores what the call brings.
Answer(c) ==
    /\ call[c].at = "done"
    /\ IF ~call[c].heard THEN UNCHANGED <<storage, late>>
       ELSE /\ late' \in Out(c[1])
            /\ IF call[c].op = "logout" THEN SetStorage(c[1], None, None)
               ELSE SetStorage(c[1], AccessToken(c), KeptToken(c))
    /\ call' = [call EXCEPT ![c] = NoCall]
    /\ UNCHANGED <<rows, gauge, api, cache, lossy, bounds, ghosts>>

\* What is left of requests when nobody waits for those of this tab.
Unanswered(t, requests) == { IF r \in Request /\ r.tab = t THEN None ELSE r : r \in requests }

\* The tab forgets its tokens and opens the login page, which ends what else
\* it was waiting for.
Leave(t, calls) ==
    /\ SetStorage(t, None, None)
    /\ late' \in Unanswered(t, Out(t))
    /\ call' = [d \in Channels |->
         IF d[1] = t /\ calls[d] # NoCall THEN [calls[d] EXCEPT !.heard = FALSE] ELSE calls[d]]
    /\ lossy' = IF call[<<t, "form">>] # NoCall THEN lossy \cup {place[t]} ELSE lossy

\* Whatever went wrong with a refresh, the tab leaves; a form shows an error.
RefreshFails(c) ==
    /\ call[c].at = "failed"
    /\ LET rest == [call EXCEPT ![c] = NoCall] IN
       IF c[2] = "refresh" /\ call[c].heard
       THEN Leave(c[1], rest)
       ELSE call' = rest /\ UNCHANGED <<storage, late, lossy>>
    /\ UNCHANGED <<rows, gauge, api, cache, bounds, ghosts>>

\* The page is closed or loaded again: nobody hears the answers.
Reload(t) ==
    /\ faults < budget.faults
    /\ faults' = faults + 1
    /\ \E c \in Channels : c[1] = t /\ call[c] # NoCall /\ call[c].heard
    /\ call' = [c \in Channels |-> IF c[1] = t /\ call[c] # NoCall
                 THEN [call[c] EXCEPT !.heard = FALSE] ELSE call[c]]
    /\ lossy' = lossy \cup {place[t]}
    /\ late' \in Unanswered(t, {late})
    /\ UNCHANGED <<rows, gauge, storage, api, cache, now, place, budget, ghosts>>

------------------------------------------------------------------------------
(* A request with an access token: fetchWithAuth and AuthVerifyClient *)

Cached(a) == \E e \in cache : e.token = a /\ e.until > now

\* Header tokens of requests of this tab that no service can answer by itself.
Asked(t) ==
    LET mine == { r \in {late} \ {None} : r.tab = t } IN
    { a \in {Mine(t).access} \cup { r.token : r \in mine } : a # None /\ ~Cached(a) }

\* The late request is answered once, the others are sent again and again.
Left(t, a) == {IF late = [tab |-> t, token |-> a] THEN None ELSE late}

\* A service asks the auth service about a token it has no entry for.
\* verifyToken looks at the JWT alone: neither the session nor its refresh
\* tokens are consulted.  An error or a timeout is answered 503, no reason to
\* refresh.  Bound of the model: not while an auth call is under way; neither
\* reads anything the other writes.
Verify(t) ==
    /\ api = None /\ InFlight = 0
    /\ \E a \in Asked(t) : Vouched(a) /\ api' = a /\ late' \in Left(t, a)
    /\ UNCHANGED <<rows, gauge, call, storage, cache, lossy, bounds, ghosts>>

CacheUntil(a) == IF a.exp < now + CacheTTL THEN a.exp ELSE now + CacheTTL

\* The answer arrives, perhaps after the token has expired.
Accepted ==
    /\ api # None
    /\ api' = None
    /\ cache' = { e \in cache : e.token # api }
                \cup {[token |-> api, until |-> CacheUntil(api)]}
    /\ UNCHANGED <<rows, gauge, call, storage, late, lossy, bounds, ghosts>>

\* A 401, however old the token in the header is by now, starts the refresh of
\* this tab, with the refresh token of the moment; while one runs, the request
\* waits for the same promise.
Refused(t) ==
    /\ call[<<t, "refresh">>] = NoCall
    /\ \E a \in Asked(t) :
        /\ ~Vouched(a)
        /\ IF Mine(t).refresh = None
           THEN Leave(t, call)
           ELSE /\ Start(<<t, "refresh">>, "refresh", Mine(t).refresh)
                /\ late' \in Left(t, a)
                /\ UNCHANGED <<storage, lossy>>
    /\ UNCHANGED <<rows, gauge, api, cache, bounds, ghosts>>

\* An entry that has run out is as good as none: getCached deletes it.
Tick ==
    /\ now < budget.time
    /\ now' = now + 1
    /\ cache' = { e \in cache : e.until > now + 1 }
    /\ UNCHANGED <<rows, gauge, call, storage, late, api, lossy, place, budget, faults, ghosts>>

Tab(t) ==
    \/ SubmitLogin(t) \/ SubmitRegister(t) \/ Logout(t) \/ Reload(t)
    \/ Verify(t) \/ Refused(t)

Next ==
    \/ Tick \/ Restart \/ Accepted
    \/ \E u \in Accounts : LogoutAll(u)
    \/ \E t \in Tabs \cap budget.tabs : Tab(t)
    \/ \E c \in Channels : Query(c) \/ Answer(c) \/ RefreshFails(c)

Spec == Init /\ [][Next]_vars
==============================================================================
