------------------------------ MODULE MCLobby ------------------------------
(***************************************************************************)
(* The behaviours to look at, one at a time.                               *)
(***************************************************************************)
EXTENDS LobbyProps, TLC

CONSTANTS u1, u2

Nothing == [k \in Kinds |-> 0]

\* Of the store: an invite and two answers, two invites, an invite that expires,
\* and rematches or an invite with the index and a chat.
StoreBudgets ==
    { [Nothing EXCEPT !["ask"] = 1, !["answer"] = 2, !["expire"] = 1],
      [Nothing EXCEPT !["ask"] = 2, !["answer"] = 1],
      [Nothing EXCEPT !["ask"] = 2, !["expire"] = 1],
      [Nothing EXCEPT !["rematch"] = 3, !["match"] = 1],
      [Nothing EXCEPT !["ask"] = 1, !["answer"] = 1, !["match"] = 2],
      [Nothing EXCEPT !["rematch"] = 2, !["match"] = 2] }

\* With the hooks: hooks that come and go or lose the connection, an invite that
\* expires, and a rematch.
PageBudgets ==
    { [Nothing EXCEPT !["ask"] = 1, !["answer"] = 1, !["hooks"] = 2],
      [Nothing EXCEPT !["ask"] = 1, !["answer"] = 1, !["hooks"] = 1, !["expire"] = 1],
      [Nothing EXCEPT !["rematch"] = 2, !["hooks"] = 1, !["expire"] = 1] }

MCBudgets == StoreBudgets \cup PageBudgets

Interchangeable == Permutations(Users \ {Me})
==============================================================================
