----------------------------- MODULE WriteDrain -----------------------------
(***************************************************************************)
(* The controller with a write queue                                       *)
(* (MemControl/FRFCFS-WQF/FRFCFS-WQF.cpp) under the trace front end        *)
(* (traceSim/traceMain.cpp).  Writes gather in a queue of their own.  When *)
(* it reaches the high watermark the controller drains it: it schedules    *)
(* writes only, and accepts none, until the low watermark.  At the end of  *)
(* the trace the front end calls Drain and cycles the memory until no      *)
(* request is outstanding.                                                 *)
(***************************************************************************)
EXTENDS MemoryController

CONSTANTS ReadQueueSize, WriteQueueSize,
          HighConfigured, LowConfigured   \* HighWaterMark and LowWaterMark of the file

ASSUME WriteDrainAssumption ==
    /\ Queues = {"read", "write"}
    /\ ReadQueueSize \in Nat \ {0} /\ WriteQueueSize \in Nat \ {0}
    /\ HighConfigured \in Nat \ {0} /\ LowConfigured \in Nat

VARIABLES status,       \* of each request: new, accepted or done
          m_draining,
          force_drain,
          odd           \* parity of the number of cycles in which no timer was running

wdVars == <<p, s, status, m_draining, force_drain, odd>>

\* The sanity check of SetConfig; it checks one watermark or the other.
HighWaterMark == IF HighConfigured > WriteQueueSize THEN WriteQueueSize ELSE HighConfigured
LowWaterMark ==
    IF HighConfigured <= WriteQueueSize /\ LowConfigured > HighWaterMark THEN 0
    ELSE LowConfigured

QueueOf(r) == IF IsRead[r] THEN "read" ELSE "write"
QueueLength(q) == Len(s.transactionQueues[q])

WDInit ==
    /\ p \in Parameters
    /\ s = InitialChannel
    /\ status = [r \in Requests |-> "new"]
    /\ m_draining = FALSE
    /\ force_drain = FALSE
    /\ odd = FALSE

IsIssuable(r) ==
    IF IsRead[r] THEN QueueLength("read") < ReadQueueSize
    ELSE QueueLength("write") < WriteQueueSize /\ ~m_draining /\ ~force_drain

\* The front end issues the next request of the trace.
IssueCommand(r) ==
    /\ ~force_drain
    /\ status[r] = "new"
    /\ IsIssuable(r)
    /\ s' = Enqueue(s, QueueOf(r), r)
    /\ status' = [status EXCEPT ![r] = "accepted"]
    /\ UNCHANGED <<p, m_draining, force_drain, odd>>

\* The trace has ended: the front end calls Drain.
Drain ==
    /\ ~force_drain
    /\ force_drain' = TRUE
    /\ UNCHANGED <<p, s, status, m_draining, odd>>

\* Seeded fault: a drain ends only when the queue is below the low watermark.
DrainSwitchBelow ==
    IF ~m_draining /\ QueueLength("write") >= HighWaterMark /\ ~force_drain THEN TRUE
    ELSE IF m_draining /\ QueueLength("write") < LowWaterMark /\ ~force_drain THEN FALSE
    ELSE m_draining

\* m_draining at the start of a cycle
DrainSwitch ==
    IF ~m_draining /\ QueueLength("write") >= HighWaterMark /\ ~force_drain THEN TRUE
    ELSE IF m_draining /\ QueueLength("write") <= LowWaterMark /\ ~force_drain THEN FALSE
    ELSE m_draining

\* Seeded fault: a forced drain does not wait for the reads.
QueueToScheduleAtOnce(draining) ==
    IF draining \/ force_drain THEN "write" ELSE "read"

QueueToSchedule(draining) ==
    IF draining \/ (force_drain /\ s.transactionQueues["read"] = <<>>) THEN "write" ELSE "read"

\* Seeded fault: the writes of a drain can be paused.
MayNotPauseNever(c, q, i, draining) == c

\* If we are draining, do not allow write cancellation or pausing.
MayNotPause(c, q, i, draining) ==
    IF draining \/ force_drain
    THEN [c EXCEPT !.forced = @ \cup {c.transactionQueues[q][i]}] ELSE c

Schedule(c, q, draining) ==
    LET starved == FindStarvedRequest(c, q)
        hits    == FindRowBufferHit(c, q)
        oldest  == FindOldestReadyRequest(c, q)
        closed  == FindClosedBankRequest(c, q)
        take(S) == ScheduleAt(MayNotPause(c, q, First(S), draining), q, First(S))
    IN  CASE starved # {} -> take(starved)
          [] starved = {} /\ hits # {} -> take(hits)
          [] starved \cup hits = {} /\ oldest # {} -> take(oldest)
          [] starved \cup hits \cup oldest = {} /\ closed # {} -> take(closed)
          [] OTHER -> c

Outstanding == \E r \in Requests : status[r] = "accepted"

Cycle(ready, timer, cancel) ==
    /\ force_drain => Outstanding
    /\ m_draining' = DrainSwitch
    /\ s' = CycleCommandQueues(Schedule(s, QueueToSchedule(m_draining'), m_draining'),
                               ready, timer, "write", cancel)
    /\ odd' = IF ready = Banks /\ timer THEN ~odd ELSE odd
    /\ UNCHANGED <<p, status, force_drain>>

RequestComplete(r) ==
    /\ r \in s.serving
    /\ s' = Response(s, r)
    /\ status' = [status EXCEPT ![r] = "done"]
    /\ UNCHANGED <<p, m_draining, force_drain, odd>>

BankSettles(b) ==
    /\ s.bank[b] \in {"precharging", "refreshing"}
    /\ s' = Settled(s, b)
    /\ UNCHANGED <<p, status, m_draining, force_drain, odd>>

WDNext ==
    \/ \E r \in Requests : IssueCommand(r) \/ RequestComplete(r)
    \/ Drain
    \/ \E ready \in SUBSET Banks : \E timer \in Choices(p.UseLowPower) :
          \E cancel \in Choices(p.WritePausing) : Cycle(ready, timer, cancel)
    \/ \E b \in Banks : BankSettles(b)

WDSpec == WDInit /\ [][WDNext]_wdVars

\* The front end cycles the memory until the trace has ended and no request is
\* outstanding; when nothing is issued all timers run out, and scheduled events happen.
WDFairness ==
    /\ []<><<odd' # odd>>_wdVars \/ []<>(force_drain /\ ~Outstanding)
    /\ WF_wdVars(\E r \in Requests : RequestComplete(r))
    /\ WF_wdVars(\E b \in Banks : BankSettles(b))

WDFairSpec == WDSpec /\ WDFairness

-----------------------------------------------------------------------------
(* Properties. *)

\* Every request is in exactly one place, also when writes can be paused: all
\* writes are scheduled in a drain, where they are forced, so that none is ever
\* interrupted and put back.
NoWriteInterrupted ==
    \A r \in Requests :
        Occurrences(QueueOf(r), r) = IF status[r] = "accepted" THEN 1 ELSE 0

\* Reads are answered even though drains hold them up, unless the trace ends in
\* a drain.
ReadsAnswered ==
    \A r \in Requests :
        IsRead[r] /\ status[r] = "accepted"
        ~> status[r] = "done" \/ (m_draining /\ force_drain)

\* When the trace ends outside a drain, Drain makes the controller answer every
\* request: first the reads, then the writes below the watermark.
DrainedOutsideDrain ==
    force_drain /\ ~m_draining ~> ~Outstanding
=============================================================================
