--------------------------- MODULE PairingContract ---------------------------
(***************************************************************************)
(* What the matchmaking queue promises, without keys, ticks or instances:  *)
(* a join waits, it may leave or be replaced by a newer one, and two       *)
(* waiting joins may be paired; a paired join never waits again, so it is  *)
(* in one pair only.                                                       *)
(***************************************************************************)
EXTENDS Naturals

CONSTANT JoinIds

VARIABLES waiting, pairs

pairingVars == <<waiting, pairs>>

Unpaired(j) == j \in JoinIds \ UNION pairs

PairingInit == waiting = {} /\ pairs = {}

Enter(j) ==
    /\ Unpaired(j)
    /\ waiting' = waiting \cup {j}
    /\ UNCHANGED pairs

Leave(j) ==
    /\ j \in waiting
    /\ waiting' = waiting \ {j}
    /\ UNCHANGED pairs

\* The same user joins again without leaving first.
Replace(j, k) ==
    /\ j \in waiting /\ Unpaired(k)
    /\ waiting' = (waiting \ {j}) \cup {k}
    /\ UNCHANGED pairs

Pair(j, k) ==
    /\ {j, k} \subseteq waiting /\ j # k
    /\ waiting' = waiting \ {j, k}
    /\ pairs' = pairs \cup {{j, k}}

PairingNext ==
    \/ \E j \in JoinIds : Enter(j) \/ Leave(j)
    \/ \E j, k \in JoinIds : Replace(j, k) \/ Pair(j, k)

PairingSpec == PairingInit /\ [][PairingNext]_pairingVars
==============================================================================
