----------------------------- MODULE MemoryPort -----------------------------
(***************************************************************************)
(* NVMainMemory, the gem5 memory object in front of NVMain                 *)
(* (Simulators/gem5/nvmain_mem.cc), execution driven and with one          *)
(* instance: packets from gem5, retries, responses, the clock event and    *)
(* draining.  NVMain is seen through its bounded transaction queue; the    *)
(* gem5 side is the port protocol (a refused sender waits for a retry) and *)
(* the drain protocol of sim/drain.hh.                                     *)
(*                                                                         *)
(* sendRetry may re-enter recvTimingReq from within RequestComplete, so    *)
(* the handlers are operators from a state of the object to the next one.  *)
(***************************************************************************)
EXTENDS Naturals, Sequences, FiniteSets

CONSTANTS Reads, Writes,   \* packets that need a response
          Writebacks,      \* writes that need none
          Others,          \* packets neither read nor write, with a response
          Inhibited,       \* packets another cache answers
          QueueSize,       \* transaction queue of the memory controller
          MaxMigrations,   \* slots page migration may take of it
          NoPacket

ASSUME PortAssumption ==
    /\ QueueSize \in Nat /\ MaxMigrations \in Nat
    /\ MaxMigrations < QueueSize

\* A packet is one that this object answers or one that it does not.
ASSUME PacketAssumption ==
    (Writebacks \cup Inhibited) \cap (Reads \cup Writes \cup Others) = {}

Packets == Reads \cup Writes \cup Writebacks \cup Others \cup Inhibited

VARIABLES mem,         \* the members of NVMainMemory, see State
          migrations,  \* slots of the queue taken by page migration
          answered,    \* how many responses gem5 has taken for each packet
          mode         \* memory mode of gem5

vars == <<mem, migrations, answered, mode>>

\* queued and inService together are m_request_map; a write stays in it
\* without its packet.  The last two fields belong to the sender: the packets
\* it has not delivered, and whether it was refused and waits for a retry.
State == [queued : SUBSET Packets, inService : SUBSET Packets,
          responseQueue : Seq(Packets), pendingDelete : SUBSET Packets,
          respondEvent : BOOLEAN, clockEvent : BOOLEAN, m_awake : BOOLEAN,
          retryRead : BOOLEAN, retryWrite : BOOLEAN, retryResp : BOOLEAN,
          drainManager : BOOLEAN, drainState : {"Running", "Draining", "Drained"},
          unsent : SUBSET Packets, stalled : BOOLEAN]

m_request_map(s) == s.queued \cup s.inService

\* After startup( ).
Init ==
    /\ mem = [queued |-> {}, inService |-> {}, responseQueue |-> <<>>,
              pendingDelete |-> {}, respondEvent |-> FALSE, clockEvent |-> TRUE,
              m_awake |-> TRUE, retryRead |-> FALSE, retryWrite |-> FALSE,
              retryResp |-> FALSE, drainManager |-> FALSE, drainState |-> "Running",
              unsent |-> Packets, stalled |-> FALSE]
    /\ migrations = 0
    /\ answered = [p \in Packets |-> 0]
    /\ mode = "timing"

-----------------------------------------------------------------------------
\* Packets from gem5.

\* responseQueue.push_back and ScheduleResponse
Respond(s, p) == [s EXCEPT !.responseQueue = Append(@, p), !.respondEvent = TRUE]

\* Seeded fault: the clock is not started again.
WakeupSilent(s) == [s EXCEPT !.m_awake = TRUE]

\* wakeup( ) schedules clockEvent.  After atomic accesses it may be scheduled
\* still, which a debug build of gem5 asserts against; the model then goes on
\* with the event scheduled.
Wakeup(s) ==
    IF s.m_awake THEN s ELSE [s EXCEPT !.m_awake = TRUE, !.clockEvent = TRUE]

IsIssuable(s) == Cardinality(s.queued) + migrations < QueueSize

CheckDrainState(s) ==
    IF m_request_map(s) = {} THEN [s EXCEPT !.drainManager = FALSE] ELSE s

\* A write is answered at once through a copy of its request; the copy's
\* RequestComplete finds no retry to send and the original still outstanding.
Enqueued(s, p) ==
    LET q == [s EXCEPT !.queued = @ \cup {p}, !.unsent = @ \ {p}]
    IN  IF p \in Reads THEN q
        ELSE IF p \in Writes THEN Respond(q, p)
        ELSE CheckDrainState([q EXCEPT !.pendingDelete = @ \cup {p}])

\* Seeded fault: only a read remembers that a retry is due.
RefusedRead(s, p) == [s EXCEPT !.retryRead = @ \/ p \in Reads, !.stalled = TRUE]

Refused(s, p) ==
    [s EXCEPT !.retryRead = @ \/ p \in Reads,
              !.retryWrite = @ \/ p \notin Reads,
              !.stalled = TRUE]

recvTimingReq(s, p) ==
    LET c == [s EXCEPT !.pendingDelete = {}]
    IN  IF p \in Inhibited
        THEN [c EXCEPT !.unsent = @ \ {p}, !.pendingDelete = {p}]
        ELSE IF p \in Others THEN Respond([c EXCEPT !.unsent = @ \ {p}], p)
        ELSE IF c.retryRead \/ c.retryWrite THEN [c EXCEPT !.stalled = TRUE]
        ELSE IF IsIssuable(c) THEN Enqueued(Wakeup(c), p)
        ELSE Refused(Wakeup(c), p)

Send(p) ==
    /\ mode = "timing"
    /\ ~mem.stalled /\ p \in mem.unsent
    /\ mem' = recvTimingReq(mem, p)
    /\ UNCHANGED <<migrations, answered, mode>>

-----------------------------------------------------------------------------
\* NVMain runs in tick( ).

\* The end of tick( ): the clock goes on while anybody needs it.
Ticks(s) == [s EXCEPT !.clockEvent = s.m_awake \/ m_request_map(s) # {}]

Idle ==
    /\ mem.clockEvent
    /\ mem' = Ticks(mem)
    /\ UNCHANGED <<migrations, answered, mode>>

Schedule(r) ==
    /\ mem.clockEvent
    /\ r \in mem.queued
    /\ mem' = Ticks([mem EXCEPT !.queued = @ \ {r}, !.inService = @ \cup {r}])
    /\ UNCHANGED <<migrations, answered, mode>>

\* sendRetry to a sender that sends packet p from within the call, or nothing.
sendRetry(s, p) ==
    LET free == [s EXCEPT !.stalled = FALSE]
    IN  IF p = NoPacket THEN free ELSE recvTimingReq(free, p)

\* The two if statements of RequestComplete; a packet refused in the first one
\* may be retried by the second one.
RetryRead(s, p) ==
    IF s.retryRead THEN sendRetry([s EXCEPT !.retryRead = FALSE], p) ELSE s

\* Seeded fault: the flag is cleared and the sender not told.
RetryWriteSilent(s, p) == [s EXCEPT !.retryWrite = FALSE]

RetryWrite(s, p) ==
    IF s.retryWrite THEN sendRetry([s EXCEPT !.retryWrite = FALSE], p) ELSE s

\* Seeded fault: the original of a write keeps its packet.
FinishWithPacket(s, r) ==
    [(IF r \in Writebacks THEN CheckDrainState(s) ELSE Respond(s, r))
        EXCEPT !.inService = @ \ {r}]

\* The rest of RequestComplete: request r is still in the map when the drain
\* state is checked, and erased after it.
Finish(s, r) ==
    [(IF r \in Reads THEN Respond(s, r) ELSE CheckDrainState(s))
        EXCEPT !.inService = @ \ {r}]

\* p is what the sender sends when it is given a retry.
RequestComplete(r, p) ==
    /\ mem.clockEvent
    /\ r \in mem.inService
    /\ p # NoPacket => p \in mem.unsent /\ (mem.retryRead \/ mem.retryWrite)
    /\ mem' = Ticks(Finish(RetryWrite(RetryRead(mem, p), p), r))
    /\ UNCHANGED <<migrations, answered, mode>>

\* Page migration takes and frees slots of the queue.
Migrate(n) ==
    /\ n # migrations
    /\ n > migrations => Cardinality(mem.queued) + n <= QueueSize
    /\ n < migrations => mem.clockEvent
    /\ migrations' = n
    /\ UNCHANGED <<mem, answered, mode>>

-----------------------------------------------------------------------------
\* Responses to gem5.

\* Seeded fault: a further response is not scheduled.
PoppedOnly(s) == CheckDrainState([s EXCEPT !.responseQueue = Tail(@)])

Popped(s) ==
    LET rest == [s EXCEPT !.responseQueue = Tail(@)]
    IN  CheckDrainState([rest EXCEPT !.respondEvent = @ \/ rest.responseQueue # <<>>])

\* taken: whether the peer takes the response.
SendResponses(s, taken) ==
    IF s.responseQueue = <<>> \/ s.retryResp
    THEN mem' = s /\ UNCHANGED answered
    ELSE IF taken
    THEN mem' = Popped(s) /\ answered' = [answered EXCEPT ![Head(s.responseQueue)] = @ + 1]
    ELSE mem' = [s EXCEPT !.retryResp = TRUE] /\ UNCHANGED answered

RespondEvent(taken) ==
    /\ mem.respondEvent
    /\ SendResponses([mem EXCEPT !.respondEvent = FALSE], taken)
    /\ UNCHANGED <<migrations, mode>>

\* Seeded fault: retryResp is not reset.
recvRetryAgain(taken) ==
    /\ mem.retryResp
    /\ SendResponses(mem, taken)
    /\ UNCHANGED <<migrations, mode>>

recvRetry(taken) ==
    /\ mem.retryResp
    /\ SendResponses([mem EXCEPT !.retryResp = FALSE], taken)
    /\ UNCHANGED <<migrations, mode>>

-----------------------------------------------------------------------------
\* Draining and memory modes.

drain ==
    /\ ~mem.drainManager
    /\ mem' = IF m_request_map(mem) # {}
              THEN [mem EXCEPT !.drainState = "Draining", !.drainManager = TRUE]
              ELSE [mem EXCEPT !.drainState = "Drained"]
    /\ UNCHANGED <<migrations, answered, mode>>

\* Everything has drained; resume (m5/simulate.py) calls drainResume of every
\* object, perhaps after _changeMemoryMode.
Resume(m) ==
    /\ mem.drainState = "Drained" /\ ~mem.stalled
    /\ m_request_map(mem) = {} /\ mem.responseQueue = <<>>
    /\ mem' = [mem EXCEPT !.drainState = "Running"]
    /\ mode' = m
    /\ UNCHANGED <<migrations, answered>>

recvAtomic ==
    /\ mode = "atomic"
    /\ mem' = [mem EXCEPT !.m_awake = FALSE]
    /\ UNCHANGED <<migrations, answered, mode>>

Next ==
    \/ \E p \in Packets : Send(p) \/ Schedule(p)
    \/ \E r \in Packets, p \in Packets \cup {NoPacket} : RequestComplete(r, p)
    \/ Idle
    \/ \E n \in 0 .. MaxMigrations : Migrate(n)
    \/ \E taken \in BOOLEAN : RespondEvent(taken) \/ recvRetry(taken)
    \/ drain
    \/ \E m \in {"timing", "atomic"} : Resume(m)
    \/ recvAtomic

Spec == Init /\ [][Next]_vars

\* gem5 runs its events, NVMain completes what it has accepted, and a peer that
\* refused a response asks for it again until it takes it.
Fairness ==
    /\ \A r \in Packets :
          /\ WF_vars(Schedule(r))
          /\ WF_vars(\E p \in Packets \cup {NoPacket} : RequestComplete(r, p))
    /\ WF_vars(\E taken \in BOOLEAN : RespondEvent(taken))
    /\ WF_vars(recvRetry(TRUE))

FairSpec == Spec /\ Fairness

-----------------------------------------------------------------------------
(* Properties. *)

\* The members of NVMainMemory have their types.
TypeOK ==
    /\ mem \in State
    /\ migrations \in 0 .. MaxMigrations
    /\ answered \in [Packets -> Nat]
    /\ mode \in {"timing", "atomic"}

\* Every packet that needs a response gets one and only one: it waits at the
\* sender, or (a read) in m_request_map, or its response is queued or was taken.
\* The request of a write outlives its response and must not answer it again.
\* No response is sent for a packet that is up for deletion.
AnsweredOnce ==
    \A p \in Packets :
        LET responses == answered[p]
                + Cardinality({i \in DOMAIN mem.responseQueue : mem.responseQueue[i] = p})
        IN  /\ responses <= 1
            /\ p \in mem.unsent \cup mem.pendingDelete \cup Writebacks => responses = 0
            /\ p \in Reads \cup Writes \cup Others =>
                  (responses = 1 <=> /\ p \notin mem.unsent
                                     /\ p \in Reads => p \notin m_request_map(mem))

\* A refused sender will be called back: exactly one of the two retry flags is
\* set ("I assume that gem5 will stall such that only one type of request will
\* need a retry", nvmain_mem.cc l. 757) and a request of this object, whose
\* completion sends the retry, is outstanding; requests of page migration that
\* fill the queue would not do.
RetryIsComing ==
    /\ mem.stalled => mem.retryRead # mem.retryWrite
    /\ mem.retryRead \/ mem.retryWrite => mem.stalled /\ m_request_map(mem) # {}

\* NVMain is clocked as long as it owes gem5 anything, also after the object
\* was put to sleep by atomic accesses (tick, recvAtomic, wakeup).
ClockRuns == m_request_map(mem) # {} => mem.clockEvent /\ mem.m_awake

\* A queued response has an event or a retry that will send it.
ResponseScheduled ==
    mem.responseQueue # <<>> => mem.respondEvent \/ mem.retryResp

\* Whatever was accepted and needs a response is answered, although the peer may
\* refuse responses and their events find nothing to send.
AllAnswered ==
    \A p \in Reads \cup Writes \cup Others :
        (p \notin mem.unsent) ~> (answered[p] = 1)

\* A refused sender does get its retry.
SenderGoesOn == mem.stalled ~> ~mem.stalled

-----------------------------------------------------------------------------
(* What gem5 asks of the object and the code does not do. *)

\* "When an object has finished draining its internal state, it calls
\* CountedDrainEvent::signalDrainDone() on the manager" (sim/drain.hh l. 127):
\* a drain that was begun is reported as done.
DrainSignalled == mem.drainManager ~> ~mem.drainManager
=============================================================================
