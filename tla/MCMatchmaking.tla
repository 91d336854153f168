---------------------------- MODULE MCMatchmaking ----------------------------
(***************************************************************************)
(* TLC instances of Matchmaking: what users may queue for.  Users and      *)
(* workers are interchangeable where no liveness is checked: no definition *)
(* tells one from another.                                                 *)
(***************************************************************************)
EXTENDS MatchmakingProps, TLC

OneBoard == {8}
TwoBoards == {8, 10}
OneTicket == { [board |-> 8, rules |-> r, band |-> 2] : r \in Rules }
\* Bands two apart: the skill range must grow before they meet.
BandTickets ==
    { [board |-> 8, rules |-> r, band |-> b] : b \in {0, 2}, r \in Rules }
        \cup { [board |-> 10, rules |-> r, band |-> 0] : r \in Rules }

Interchangeable == Permutations(Users) \cup Permutations(Workers)
==============================================================================
