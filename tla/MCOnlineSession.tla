--------------------------- MODULE MCOnlineSession ---------------------------
(***************************************************************************)
(* TLC instances of OnlineSession on the board of size 2: three cells, any *)
(* two of which join the sides.                                            *)
(***************************************************************************)
EXTENDS OnlineSessionProps

B == INSTANCE Board

MCCells == B!BoardCells(2)
MCConnecting == B!ConnectingSets(2)
NoHoney == {}
==============================================================================
