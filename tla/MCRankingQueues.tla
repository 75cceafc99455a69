-------------------------- MODULE MCRankingQueues --------------------------
(* Two promotion-channel pages and one slow page over three levels. *)
EXTENDS RankingQueues

CONSTANTS d1, d2, s1

MCPages == {d1, d2, s1}
MCDRAMPages == {d1, d2}
=============================================================================
