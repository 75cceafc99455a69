---------------------------- MODULE MCMultiQueue ----------------------------
(***************************************************************************)
(* MultiQueue for TLC: two queues; the configurations choose the pages.    *)
(***************************************************************************)
EXTENDS MultiQueue
=============================================================================
