----------------------------- MODULE AuthProps -----------------------------
(***************************************************************************)
(* What sessions, tokens, the gauge and the browsers promise one another.  *)
(***************************************************************************)
EXTENDS Auth

LiveTokens(s) == Unrevoked(TokensOfSessions({s}))

\* Calls that may still give session s a token: a refresh that has found a
\* token of it good, or the login that created it.
Renewing(s) == { c \in Channels :
    \/ call[c].at \in {"rotate", "store"} /\ tokens[call[c].token].session = s
    \/ call[c].at = "token" /\ call[c].session = s }

\* A session that has no good refresh token and no call on its way to give it
\* one never has one again: presenting a token of it, in whatever order with
\* logouts and evictions, does not revive it (refresh, revokeSessionById,
\* revokeRefreshTokenFamily).
DeadSessionStaysDead == [][\A s \in DOMAIN sessions :
    LiveTokens(s) = {} /\ Renewing(s) = {}
        => LiveTokens(s)' = {} /\ Renewing(s)' = {}]_vars

\* Logins of an account that do not overlap leave it at most SessionLimit
\* active sessions (login, countActiveSessions, revokeOldestActiveSession).
\* Overlapping ones can leave more, and later logins never bring it down.
SessionLimitHolds == \A u \in Accounts \ overlapped :
    Cardinality(ActiveSessions(u)) <= SessionLimit

Shared(b) == Cardinality({ t \in Tabs : place[t] = b }) > 1
Refreshing(b) == \E t \in Tabs : place[t] = b /\ call[<<t, "refresh">>] # NoCall

\* A browser with one tab that never lost an answer holds the good token of
\* its session or one it is just exchanging, unless the session was ended or
\* the token ran out: the single-flight refresh of fetchWithAuth and the
\* rotation of the service never take each other for a reuse.
LoneTabKeepsItsSession == \A b \in Browsers :
    LET k == storage[b].refresh IN
    (k # None /\ ~Shared(b) /\ b \notin lossy /\ ~Refreshing(b))
        => \/ ~tokens[k].revoked
           \/ sessions[tokens[k].session].revoked
           \/ tokens[k].exp <= now

\* A session that ends with no call under way for it is over AccessTTL later:
\* from then on no service has a good answer for an access token of it in its
\* cache, whatever requests, refreshes and answers of the auth service, which
\* looks at the JWT alone, were late (logout, login, refresh, store).
EndedSessionLosesAccess == \A e \in cache : \A s \in DOMAIN sessions \ outrun :
    e.token.session = s /\ sessions[s].revoked => e.until <= sessions[s].at + AccessTTL
============================================================================
