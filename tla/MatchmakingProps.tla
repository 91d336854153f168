--------------------------- MODULE MatchmakingProps ---------------------------
(***************************************************************************)
(* What the queue promises: who is paired with whom, what the keys of a    *)
(* match name, and that nobody waits for ever.                             *)
(***************************************************************************)
EXTENDS Matchmaking

------------------------------------------------------------------------------

HumanMatches == { m \in made : m.match.b # None }
BotMatches == made \ HumanMatches

(***************************************************************************)
(* A key that leads a user to a match leads to one of the user's matches   *)
(* whose snapshot is stored and, once it is assigned, in the index of the  *)
(* sweep: neither a crash between the writes of persistInitialMatch nor    *)
(* another tick can make a poll answer with a match nobody can join.       *)
(***************************************************************************)
NamedMatchIsStored ==
    \A u \in Users :
        /\ active[u] # None =>
              /\ active[u] \in stored
              /\ \E m \in made : m.match.id = active[u] /\ u \in PlayersOf(m.match)
        /\ assignment[u] # None =>
              /\ assignment[u] \in stored \cap index
              /\ \E m \in made : m.match.id = assignment[u] /\ u \in PlayersOf(m.match)

------------------------------------------------------------------------------
(* The contract *)

Claimed(h) == { e.joinId : e \in h.claimed }

\* A join waits when a claim could take it.
IsWaiting(u) == player[u] # None /\ \E b \in Boards : u \in queue[b]

Contract == INSTANCE PairingContract WITH
    JoinIds <- 1 .. MaxJoins,
    waiting <- { player[u].joinId : u \in { v \in Users : IsWaiting(v) } },
    pairs <- { Claimed(h) : h \in HumanMatches }

(***************************************************************************)
(* The queue implements the contract: the Lua claim takes two joins that   *)
(* wait at that moment, and none of them is ever claimed again, whatever   *)
(* calls, overlapping ticks, instances and crashes come in between.        *)
(***************************************************************************)
ImplementsPairing == Contract!PairingSpec

------------------------------------------------------------------------------
(* Liveness *)

(***************************************************************************)
(* Nobody waits for ever: a join leaves the queue for a human, for a bot   *)
(* after the timeout, or because its user cancels or joins again.          *)
(***************************************************************************)
EveryoneIsServed ==
    \A u \in Users, j \in 1 .. MaxJoins :
        (IsWaiting(u) /\ player[u].joinId = j)
            ~> ~(IsWaiting(u) /\ player[u].joinId = j)

(***************************************************************************)
(* Both players of a claimed pair get there: the match is stored and       *)
(* indexed, and session:user-active leads each of the two to it or to a    *)
(* newer match.                                                            *)
(***************************************************************************)
PairIsConnected ==
    \A n \in 1 .. MaxJoins, u \in Users :
        (\E h \in HumanMatches : h.match.id = n /\ u \in PlayersOf(h.match))
            ~> (n \in stored \cap index /\ active[u] # None /\ active[u] >= n)
==============================================================================
