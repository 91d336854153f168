---------------------------- MODULE MCWinnerSearch ----------------------------
(* TLC instance of WinnerSearch: the sizes come from the configuration. *)
EXTENDS WinnerSearch
==============================================================================
