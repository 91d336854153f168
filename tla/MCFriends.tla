------------------------------ MODULE MCFriends ------------------------------
(***************************************************************************)
(* The behaviours to look at, one at a time: requests between the users,   *)
(* conversations of friends, a conversation while a friendship ends, and   *)
(* visits of the profile page.                                             *)
(***************************************************************************)
EXTENDS FriendsProps

CONSTANTS u1, u2

Nothing == [friend |-> 0, open |-> 0, send |-> 0, visit |-> 0, befriended |-> FALSE]

MCBudgets ==
    { [Nothing EXCEPT !.friend = 4],
      [Nothing EXCEPT !.open = 2, !.send = 2, !.befriended = TRUE],
      [Nothing EXCEPT !.friend = 1, !.open = 1, !.send = 2, !.befriended = TRUE],
      [Nothing EXCEPT !.visit = 3] }
==============================================================================
