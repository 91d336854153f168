----------------------------- MODULE MCBotMatch -----------------------------
(* Two cells, the second one decides.                                       *)
EXTENDS BotMatchProps

CONSTANTS c1, c2

MCConnecting == { s \in SUBSET Cells : c2 \in s }
=============================================================================
