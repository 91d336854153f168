--------------------------- MODULE MCOnlineClient ---------------------------
(***************************************************************************)
(* The behaviours to look at, one at a time: the queue with lost           *)
(* connections, a match whose player comes and goes, and one that is       *)
(* played to its end with a lost connection.                               *)
(***************************************************************************)
EXTENDS OnlineClientProps

Nothing == [k \in Kinds |-> 0]

MCBudgets ==
    { [Nothing EXCEPT !["go"] = 3, !["drop"] = 1, !["fallback"] = 1],
      [Nothing EXCEPT !["go"] = 3, !["drop"] = 1, !["opponent"] = 1, !["grace"] = 1,
                      !["made"] = 1, !["seat"] = 1] }
    \cup { [Nothing EXCEPT !["go"] = 1, !["drop"] = 1, !["play"] = 2, !["opponent"] = 1,
                           !["made"] = 1, !["seat"] = s] : s \in 0..1 }
=============================================================================
