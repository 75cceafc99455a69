------------------------------ MODULE MCFRFCFS ------------------------------
(* Two banks with two rows.  Requests: r1 reads and w1 writes row x of bank 0, *)
(* r2 reads row y of bank 0, r3 reads row x of bank 1.                         *)
EXTENDS FRFCFS

CONSTANTS r1, w1, r2, r3, x, y

MCRequests == {r1, w1, r2, r3}
MCRows == {x, y}
MCBankOf == [r \in MCRequests |-> IF r = r3 THEN 1 ELSE 0]
MCRowOf == [r \in MCRequests |-> IF r = r2 THEN y ELSE x]
MCIsRead == [r \in MCRequests |-> r # w1]
MCQueues == {"mem"}

Dram(close, banks, low) ==
    [UsePrecharge |-> TRUE, UseRefresh |-> TRUE, UseLowPower |-> low,
     WritePausing |-> FALSE, ClosePage |-> close, BanksPerRefresh |-> banks]

\* A memory without precharges and refreshes, where writes can be paused.
Nvm == [Dram(0, 1, FALSE) EXCEPT !.UsePrecharge = FALSE, !.UseRefresh = FALSE,
                          !.WritePausing = TRUE]

MCParameters == {Dram(0, 2, FALSE), Dram(1, 2, TRUE), Dram(2, 1, FALSE), Nvm}
MCNvm == {Nvm}
=============================================================================
