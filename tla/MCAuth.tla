------------------------------- MODULE MCAuth -------------------------------
(* One or two tabs of one account, in one browser or in two.                *)
EXTENDS AuthProps, TLC

CONSTANTS t1, t2, b1, b2, ana

MCAccountOf == [b \in Browsers |-> ana]
Budget(open, t, k, f) == [tabs |-> open, time |-> t, tokens |-> k, faults |-> f]

\* Two tabs, with little time, or with few tokens and a fault; one tab with
\* more of all of them.
MCBudgets ==
    { Budget(Tabs, 1, 3, 0), Budget(Tabs, 2, 2, 1) }
        \cup { Budget({t}, 3, 3, 1) : t \in Tabs }

Interchangeable == Permutations(Tabs) \cup Permutations(Browsers)
=============================================================================
