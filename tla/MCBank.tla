------------------------------- MODULE MCBank -------------------------------
(* A small bank: a DRAM with power-down, a DRAM with write-back row buffers, and *)
(* two NVMs whose writes are paused.                                            *)
EXTENDS Bank

CONSTANTS r1, r2, w1, w2

MCDram == [UsePrecharge |-> TRUE, WritePausing |-> FALSE, UseLowPower |-> TRUE, SlowExit |-> TRUE,
           writeBack |-> FALSE, optimal |-> FALSE, iterations |-> 1, tIteration |-> 1,
           cells |-> {0, 2}, tRCD |-> 2, tRAS |-> 3, tRP |-> 2, tAL |-> 0, tCAS |-> 2, tCWD |-> 1,
           tBURST |-> 1, tCCD |-> 1, tRTP |-> 1, tWR |-> 1, tWTR |-> 1, tRTRS |-> 1,
           tRDPDEN |-> 2, tWRPDEN |-> 3, tPD |-> 1, tXP |-> 1, tXPDLL |-> 2, tRFC |-> 3]
MCWriteBack == [MCDram EXCEPT !.writeBack = TRUE, !.UseLowPower = FALSE]
MCNvm == [MCDram EXCEPT !.UsePrecharge = FALSE, !.WritePausing = TRUE, !.tRP = 0, !.tRAS = 0,
                        !.cells = {6}, !.iterations = 3, !.tIteration = 2]
MCNvmOptimal == [MCNvm EXCEPT !.optimal = TRUE, !.cells = {5}]

\* The DDR3 timings of Params.cpp and 2D_DRAM_example.config, and those of
\* PCM_ISSCC_2012_4GB.config.
MCDdr3 == [MCDram EXCEPT !.tRCD = 9, !.tRAS = 24, !.tRP = 9, !.tCAS = 10, !.tCWD = 7, !.tBURST = 4,
                         !.tCCD = 4, !.tRTP = 5, !.tWR = 10, !.tWTR = 5, !.tRDPDEN = 24,
                         !.tWRPDEN = 19, !.tPD = 6, !.tXP = 6, !.tXPDLL = 17, !.tRFC = 107,
                         !.cells = {0}]
MCPcm == [MCDram EXCEPT !.SlowExit = FALSE, !.tRCD = 48, !.tRAS = 0, !.tRP = 1, !.tCAS = 1,
                        !.tCWD = 4, !.tBURST = 4, !.tCCD = 2, !.tRTP = 3, !.tWR = 0, !.tWTR = 3,
                        !.tRDPDEN = 5, !.tWRPDEN = 68, !.tPD = 1, !.tXP = 3, !.tRFC = 100,
                        !.cells = {60}]

MCParameters == {MCDram, MCDdr3, MCPcm, MCWriteBack, MCNvm, MCNvmOptimal}
=============================================================================
