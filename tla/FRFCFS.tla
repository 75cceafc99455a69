------------------------------- MODULE FRFCFS -------------------------------
(***************************************************************************)
(* The first-ready first-come-first-served controller                      *)
(* (MemControl/FRFCFS/FRFCFS.cpp) with one transaction queue, driven by    *)
(* NVMain::Cycle: in each cycle Cycle schedules one request and issues one *)
(* command; responses, ends of precharges and refreshes and refresh pulses *)
(* are events between the cycles.                                          *)
(***************************************************************************)
EXTENDS MemoryController

CONSTANTS QueueSize,
          MaxPulses    \* bound: refresh pulses of each group

ASSUME FRFCFSAssumption ==
    /\ Queues = {"mem"}
    /\ QueueSize \in Nat /\ MaxPulses \in Nat

VARIABLES status,      \* of each request: new, accepted or done
          pulses,      \* refresh pulses so far, of the group each bank heads
          odd          \* parity of the number of cycles in which no timer was running

frVars == <<p, s, status, pulses, odd>>

FRInit ==
    /\ p \in Parameters
    /\ s = InitialChannel
    /\ status = [r \in Requests |-> "new"]
    /\ pulses = [b \in Banks |-> 0]
    /\ odd = FALSE

IssueCommand(r) ==
    /\ status[r] = "new"
    /\ Len(s.transactionQueues["mem"]) < QueueSize
    /\ s' = Enqueue(s, "mem", r)
    /\ status' = [status EXCEPT ![r] = "accepted"]
    /\ UNCHANGED <<p, pulses, odd>>

\* The order in which Cycle asks the Find functions.  A read that could pause a
\* write is taken between two write iterations; otherwise it stalls the scheduler.
Choose(c, ready, between) ==
    LET starved == FindStarvedRequest(c, "mem")
        hits    == FindRowBufferHit(c, "mem")
        stalled == FindWriteStalledRead(c, "mem", ready)
        oldest  == FindOldestReadyRequest(c, "mem")
        closed  == FindClosedBankRequest(c, "mem")
        take(S) == ScheduleAt(c, "mem", First(S))
    IN  CASE starved # {} -> take(starved)
          [] starved = {} /\ hits # {} -> take(hits)
          [] starved \cup hits = {} /\ stalled # {} -> IF between THEN take(stalled) ELSE c
          [] starved \cup hits \cup stalled = {} /\ oldest # {} -> take(oldest)
          [] starved \cup hits \cup stalled \cup oldest = {} /\ closed # {} -> take(closed)
          [] OTHER -> c

\* ready, timer, between and cancel stand for what the timers say in this cycle.
Cycle(ready, timer, between, cancel) ==
    /\ s.failure = "none"
    /\ s' = CycleCommandQueues(Choose(s, ready, between), ready, timer, "mem", cancel)
    /\ odd' = IF ready = Banks /\ timer /\ between THEN ~odd ELSE odd
    /\ UNCHANGED <<p, status, pulses>>

RequestComplete(r) ==
    /\ r \in s.serving
    /\ s' = Response(s, r)
    /\ status' = [status EXCEPT ![r] = "done"]
    /\ UNCHANGED <<p, pulses, odd>>

BankSettles(b) ==
    /\ s.bank[b] \in {"precharging", "refreshing"}
    /\ s' = Settled(s, b)
    /\ UNCHANGED <<p, status, pulses, odd>>

\* A pulse of the refresh of a group.  The code does not ask whether the last one
\* was served: that it was is a fact of the timing, pulses being tREFI apart, which
\* is longer than a REFRESH waits for its turn and spends in the command queue.
RefreshCallback(b) ==
    /\ p.UseRefresh /\ BankHead(b) = b /\ pulses[b] < MaxPulses
    /\ ~s.bankNeedRefresh[b] /\ ~s.refreshQueued[b]
    /\ s' = ProcessRefreshPulse(s, b)
    /\ pulses' = [pulses EXCEPT ![b] = @ + 1]
    /\ UNCHANGED <<p, status, odd>>

FRNext ==
    \/ \E r \in Requests : IssueCommand(r) \/ RequestComplete(r)
    \/ \E ready \in SUBSET Banks, timer \in Choices(p.UseLowPower) :
          \E between, cancel \in Choices(p.WritePausing) : Cycle(ready, timer, between, cancel)
    \/ \E b \in Banks : BankSettles(b) \/ RefreshCallback(b)

FRSpec == FRInit /\ [][FRNext]_frVars

\* The simulation goes on, and when nothing is issued all timers run out; a
\* write goes through its iterations; scheduled events happen.
FRFairness ==
    /\ []<><<odd' # odd>>_frVars
    /\ WF_frVars(\E r \in Requests : RequestComplete(r))
    /\ WF_frVars(\E b \in Banks : BankSettles(b))

FRFairSpec == FRSpec /\ FRFairness

-----------------------------------------------------------------------------
(* Properties. *)

Refreshes(b) == {n \in DOMAIN s.commandQueues[b] : s.commandQueues[b][n].type = "REFRESH"}

\* refreshQueued holds for the banks of a group exactly while one REFRESH waits,
\* as the last command, in the queue of its head, and nothing is scheduled to the
\* group behind it; bankNeedRefresh agrees with the counter; and the assertions
\* of ResetRefreshQueued and of the row hit under restricted close-page
\* (MemoryController.cpp:660, 1656) hold.
RefreshFlagsMatch ==
    /\ s.failure = "none"
    /\ \A b \in Banks :
          /\ s.bankNeedRefresh[b] <=> NeedRefresh(s, b)
          /\ s.refreshQueued[b] <=> Cardinality(Refreshes(BankHead(b))) = 1
          /\ Refreshes(b) \subseteq {Len(s.commandQueues[b])}
          /\ s.refreshQueued[b] => ~Active(s, b)

\* A request that was accepted and not answered is in exactly one place, a
\* transaction queue, a command queue or the rank, and no other request is in
\* any: scheduling, refreshes and cleanups neither lose nor repeat a request.
OnePlace ==
    ~p.WritePausing =>
        \A r \in Requests : Occurrences("mem", r) = IF status[r] = "accepted" THEN 1 ELSE 0

\* Once the requests and the pulses have come, every accepted request is answered
\* and every refresh issued, with refreshes, power-downs and row conflicts on the
\* way: no bank waits for a command that its state will never allow.
RequestsAnswered ==
    <>[](/\ ~p.WritePausing => \A r \in Requests : status[r] # "accepted"
         /\ \A b \in Banks : ~s.refreshQueued[b] /\ ~s.bankNeedRefresh[b])

\* A write that was cancelled or paused is put back "at the head of the write
\* queue like nothing ever happened" (FRFCFS.cpp:176): it is not lost.
CancelledWriteKept ==
    \A r \in Requests : Occurrences("mem", r) = IF status[r] = "accepted" THEN 1 ELSE 0
=============================================================================
