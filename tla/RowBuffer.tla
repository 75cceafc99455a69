----------------------------- MODULE RowBuffer -----------------------------
(***************************************************************************)
(* What the memory controllers of this project (MemoryController) assume   *)
(* of one bank: which commands its state admits and what they do, without  *)
(* any timing.  An implicit precharge counts from the command that asks    *)
(* for it.                                                                 *)
(***************************************************************************)
EXTENDS Integers

CONSTANTS Rows, NoRow

VARIABLES p,        \* UsePrecharge and WritePausing
          state,    \* "open", "closed", "precharging" or "refreshing"
          row,      \* the open row
          writing,  \* the last write is in progress
          serving,  \* reads and writes without response
          down      \* powered down

rbvars == <<p, state, row, writing, serving, down>>

RBInit == /\ state = "closed" /\ row = NoRow
          /\ writing = FALSE /\ serving = 0 /\ down = FALSE

\* An ACTIVATE may interrupt a write that is paused or cancelled for it.
Activate ==
    /\ ~down /\ (state = "closed" \/ ~p.UsePrecharge)
    /\ state' = "open" /\ row' \in Rows
    /\ IF p.WritePausing /\ writing THEN writing' = FALSE /\ serving' = serving - 1
       ELSE UNCHANGED <<writing, serving>>
    /\ UNCHANGED down

\* Closed after the access, for READ_PRECHARGE and WRITE_PRECHARGE.
Closing(auto) == IF auto THEN state' = "precharging" /\ row' = NoRow ELSE UNCHANGED <<state, row>>

Read == /\ ~down /\ state = "open" /\ ~writing
        /\ \E auto \in BOOLEAN : Closing(auto)
        /\ serving' = serving + 1
        /\ UNCHANGED <<writing, down>>

Write == /\ ~down /\ state = "open"
         /\ \E auto \in BOOLEAN : Closing(auto)
         /\ serving' = serving + 1 /\ writing' = TRUE
         /\ UNCHANGED down

Precharge == /\ ~down /\ state \in {"open", "closed"} /\ ~writing
             /\ Closing(TRUE)
             /\ UNCHANGED <<writing, serving, down>>

Refresh == /\ ~down /\ state = "closed"
           /\ state' = "refreshing"
           /\ UNCHANGED <<row, writing, serving, down>>

PowerDown == /\ ~down /\ state \in {"open", "closed"} /\ serving = 0
             /\ down' = TRUE
             /\ UNCHANGED <<state, row, writing, serving>>

PowerUp == down /\ down' = FALSE /\ UNCHANGED <<state, row, writing, serving>>

\* Responses come in order, so the last one outstanding ends the writing.
Response == /\ ~down /\ serving > 0 /\ serving' = serving - 1
            /\ writing' = (writing /\ serving > 1)
            /\ UNCHANGED <<state, row, down>>

Settled == /\ ~down /\ state \in {"precharging", "refreshing"}
           /\ state' = "closed"
           /\ UNCHANGED <<row, writing, serving, down>>

RBNext == /\ \/ Activate \/ Read \/ Write \/ Precharge \/ Refresh
             \/ PowerDown \/ PowerUp \/ Response \/ Settled
          /\ UNCHANGED p

RBSpec == RBInit /\ [][RBNext]_rbvars
=============================================================================
