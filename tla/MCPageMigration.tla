-------------------------- MODULE MCPageMigration --------------------------
(***************************************************************************)
(* PageMigration for TLC.  The counters are bounded by MaxRequests, which  *)
(* is the only bound: it limits the requests the processor sends.          *)
(***************************************************************************)
EXTENDS PageMigration
=============================================================================
