---------------------------- MODULE MCWriteDrain ----------------------------
(* Reads r1 and r2 of two rows of bank 0, writes w1 and w2 to these rows and  *)
(* w3 to bank 1.                                                              *)
EXTENDS WriteDrain

CONSTANTS r1, r2, w1, w2, w3, x, y

MCRequests == {r1, r2, w1, w2, w3}
MCRows == {x, y}
MCBankOf == [r \in MCRequests |-> IF r = w3 THEN 1 ELSE 0]
MCRowOf == [r \in MCRequests |-> IF r \in {r2, w2} THEN y ELSE x]
MCIsRead == [r \in MCRequests |-> r \in {r1, r2}]
MCQueues == {"read", "write"}

Dram ==
    [UsePrecharge |-> TRUE, UseRefresh |-> FALSE, UseLowPower |-> FALSE,
     WritePausing |-> FALSE, ClosePage |-> 0, BanksPerRefresh |-> 1]

\* A memory without precharges, where writes can be paused.
Nvm == [Dram EXCEPT !.UsePrecharge = FALSE, !.WritePausing = TRUE]

MCParameters == {Dram, Nvm}
=============================================================================
