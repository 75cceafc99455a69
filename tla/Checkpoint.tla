----------------------------- MODULE Checkpoint -----------------------------
(***************************************************************************)
(* Checkpoints of the migrating decoder (MQMigrator::CreateCheckpoint and  *)
(* RestoreCheckpoint).  A checkpoint is taken when the memory system has   *)
(* drained; a later process starts from it with a fresh MultiQueueMigrator *)
(* and a decoder that is new but for its migrationMap.                     *)
(***************************************************************************)
EXTENDS PageMigration

VARIABLES saved,     \* the checkpoint file: migrationMap when it was written
          served,    \* where requests for each page went at that time
          restored   \* whether this process has just started from it

checkpointVars == <<saved, served, restored>>

CheckpointInit ==
    /\ Init
    /\ saved = migrationMap
    /\ served = [p \in Pages |-> p]
    /\ restored = FALSE

\* drain waits for the requests of the processor, not for those of a migration.
Drained ==
    /\ failure = "none"
    /\ cpuInService = 0 /\ \A c \in Channels : cpuQueued[c] = 0

CreateCheckpoint ==
    /\ Drained
    /\ saved' = migrationMap
    /\ served' = [p \in Pages |-> Translate(p)]
    /\ restored' = FALSE
    /\ UNCHANGED vars

\* The new process begins as in Init and reads migrationMap from the file.
RestoreCheckpoint ==
    /\ migrationMap' = saved
    /\ migrationState' = [p \in Pages |-> "UNKNOWN"]
    /\ migrating' = FALSE
    /\ inputPage' = ZeroPage /\ outputPage' = ZeroPage
    /\ promotee' = ZeroPage /\ demotee' = ZeroPage
    /\ request' = [s \in Sides |-> [page |-> ZeroPage, type |-> "READ", stage |-> "none"]]
    /\ buffered' = [s \in Sides |-> FALSE]
    /\ currentPromotionPage' = 0
    /\ DRAMPageList' = {}
    /\ cpuQueued' = [c \in Channels |-> 0]
    /\ cpuInService' = 0
    /\ failure' = "none"
    /\ restored' = TRUE
    /\ UNCHANGED <<sent, saved, served>>

CheckpointNext ==
    \/ Next /\ restored' = FALSE /\ UNCHANGED <<saved, served>>
    \/ CreateCheckpoint
    \/ RestoreCheckpoint

CheckpointSpec == CheckpointInit /\ [][CheckpointNext]_<<vars, checkpointVars>>

\* "we assume requests have completed (i.e., there is some draining process) and
\* only checkpoint addresses and not state" (MQMigrator.cpp l. 248-252): for a
\* drained system the addresses are enough, so the restored decoder sends every
\* request where the old one did.
TranslationSurvives == restored => \A p \in Pages : Translate(p) = served[p]
=============================================================================
