---------------------------- MODULE MatchContract ----------------------------
(***************************************************************************)
(* What an online match promises its two players, without locks, stores or *)
(* sweeps: it advances one version at a time, is decided once, for one     *)
(* symbol, and the decision is recorded at most once for each player, as   *)
(* it was decided.                                                         *)
(***************************************************************************)
EXTENDS Naturals, Sequences

CONSTANTS Players, Symbols, Undecided

VARIABLES version, winner,
          recorded    \* recorded[p]: the winners player p's result was written under

contractVars == <<version, winner, recorded>>

ContractInit ==
    /\ version = 0
    /\ winner = Undecided
    /\ recorded = [p \in Players |-> <<>>]

\* One command is accepted on the current version; the next needs the new one.
Advance ==
    /\ winner = Undecided
    /\ version' = version + 1
    /\ UNCHANGED <<winner, recorded>>

\* The command that ends the match.
Decide ==
    /\ winner = Undecided
    /\ version' = version + 1
    /\ winner' \in Symbols
    /\ UNCHANGED recorded

Record(p) ==
    /\ winner # Undecided
    /\ recorded[p] = <<>>
    /\ recorded' = [recorded EXCEPT ![p] = <<winner>>]
    /\ UNCHANGED <<version, winner>>

ContractNext == Advance \/ Decide \/ \E p \in Players : Record(p)

ContractSpec == ContractInit /\ [][ContractNext]_contractVars
==============================================================================
