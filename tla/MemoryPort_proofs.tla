------------------------- MODULE MemoryPort_proofs -------------------------
(***************************************************************************)
(* Proofs for MemoryPort: the bookkeeping of NVMainMemory that keeps       *)
(* retries, the clock and responses going.  The handlers are operators on  *)
(* states of the object, so each has a lemma of its own; the steps of the  *)
(* specification only put them together.                                   *)
(***************************************************************************)
EXTENDS MemoryPort, FiniteSetTheorems, TLAPS

\* The prover of the leaves that do not name one.
USE ZenonT(30)

\* What every handler keeps, for a state of the object.
Good(s) ==
    /\ s \in State
    /\ s.stalled => s.retryRead # s.retryWrite
    /\ s.retryRead \/ s.retryWrite => s.stalled
    /\ s.m_awake => s.clockEvent
    /\ m_request_map(s) # {} => s.m_awake
    /\ s.responseQueue # <<>> => s.respondEvent \/ s.retryResp

\* Good, and a retry that is due is due because of a queued request.
Held(s) == Good(s) /\ (s.retryRead \/ s.retryWrite => s.queued # {})

-----------------------------------------------------------------------------
(* Typing of the updates the handlers make. *)

\* An update of the response queue and of its event.
LEMMA RespondType ==
    ASSUME NEW s \in State, NEW q \in Seq(Packets), NEW b \in BOOLEAN
    PROVE  [s EXCEPT !.responseQueue = q, !.respondEvent = b] \in State
BY ZenonT(60) DEF State

\* Wakeup sets m_awake and may schedule the clock event.
LEMMA WakeType ==
    ASSUME NEW s \in State, NEW a \in BOOLEAN, NEW b \in BOOLEAN
    PROVE  [s EXCEPT !.m_awake = a, !.clockEvent = b] \in State
BY ZenonT(60) DEF State

\* CheckDrainState forgets the drain manager.
LEMMA DrainType ==
    ASSUME NEW s \in State, NEW b \in BOOLEAN
    PROVE  [s EXCEPT !.drainManager = b] \in State
BY ZenonT(60) DEF State

\* The handlers' updates of the sets of packets.
LEMMA SetType ==
    ASSUME NEW s \in State, NEW q \in SUBSET Packets, NEW u \in SUBSET Packets
    PROVE  /\ [s EXCEPT !.queued = q, !.unsent = u] \in State
           /\ [s EXCEPT !.queued = q, !.inService = u] \in State
           /\ [s EXCEPT !.unsent = u, !.pendingDelete = q] \in State
           /\ [s EXCEPT !.pendingDelete = q] \in State
           /\ [s EXCEPT !.unsent = u] \in State
           /\ [s EXCEPT !.inService = q] \in State
BY ZenonT(60) DEF State

\* The handlers' updates of the flags.
LEMMA FlagType ==
    ASSUME NEW s \in State, NEW a \in BOOLEAN, NEW b \in BOOLEAN, NEW c \in BOOLEAN
    PROVE  /\ [s EXCEPT !.retryRead = a, !.retryWrite = b, !.stalled = c] \in State
           /\ [s EXCEPT !.retryRead = a] \in State
           /\ [s EXCEPT !.retryWrite = a] \in State
           /\ [s EXCEPT !.stalled = a] \in State
           /\ [s EXCEPT !.clockEvent = a] \in State
           /\ [s EXCEPT !.m_awake = a] \in State
           /\ [s EXCEPT !.respondEvent = a] \in State
           /\ [s EXCEPT !.retryResp = a] \in State
BY ZenonT(60) DEF State

-----------------------------------------------------------------------------
(* The handlers. *)

\* A response that is queued has its event.
LEMMA RespondGood ==
    ASSUME NEW s, Good(s), NEW p \in Packets
    PROVE  /\ Good(Respond(s, p))
           /\ Respond(s, p).queued = s.queued
           /\ Respond(s, p).inService = s.inService
           /\ Respond(s, p).retryRead = s.retryRead
           /\ Respond(s, p).retryWrite = s.retryWrite
<1>1. s \in State BY DEF Good
<1>2. Append(s.responseQueue, p) \in Seq(Packets) /\ TRUE \in BOOLEAN BY SMTT(30), <1>1 DEF State
<1>3. Respond(s, p) \in State BY <1>1, <1>2, RespondType, Zenon DEF Respond
<1>4. QED BY <1>1, <1>3 DEF Good, State, Respond, m_request_map

\* An awake object is clocked.
LEMMA WakeupGood ==
    ASSUME NEW s, Good(s)
    PROVE  /\ Good(Wakeup(s))
           /\ Wakeup(s).m_awake
           /\ Wakeup(s).queued = s.queued
           /\ Wakeup(s).retryRead = s.retryRead
           /\ Wakeup(s).retryWrite = s.retryWrite
<1>1. s \in State BY DEF Good
<1>2. TRUE \in BOOLEAN OBVIOUS
<1>3. Wakeup(s) \in State BY <1>1, <1>2, WakeType, Zenon DEF Wakeup
<1>4. QED BY <1>1, <1>3 DEF Good, State, Wakeup, m_request_map

\* CheckDrainState keeps Good, and the packets and retry flags as they are.
LEMMA CheckDrainGood ==
    ASSUME NEW s, Good(s)
    PROVE  /\ Good(CheckDrainState(s))
           /\ CheckDrainState(s).queued = s.queued
           /\ CheckDrainState(s).inService = s.inService
           /\ CheckDrainState(s).retryRead = s.retryRead
           /\ CheckDrainState(s).retryWrite = s.retryWrite
<1>1. s \in State BY DEF Good
<1>2. FALSE \in BOOLEAN OBVIOUS
<1>3. CheckDrainState(s) \in State BY <1>1, <1>2, DrainType, Zenon DEF CheckDrainState
<1>4. QED BY <1>1, <1>3 DEF Good, State, CheckDrainState, m_request_map

\* An accepted packet, with the object awake, leaves the object holding it.
LEMMA EnqueuedGood ==
    ASSUME NEW s, Good(s), s.m_awake, NEW p \in Packets,
           ~s.retryRead, ~s.retryWrite
    PROVE  Held(Enqueued(s, p))
<1> DEFINE q == [s EXCEPT !.queued = @ \cup {p}, !.unsent = @ \ {p}]
           d == [q EXCEPT !.pendingDelete = @ \cup {p}]
<1>1. s \in State BY DEF Good
<1>2. (s.queued \cup {p}) \in SUBSET Packets /\ (s.unsent \ {p}) \in SUBSET Packets
  BY <1>1 DEF State
<1>3. q \in State BY <1>1, <1>2, SetType, Zenon
<1>4. Good(q) /\ ~q.retryRead /\ ~q.retryWrite
  BY <1>1, <1>3 DEF Good, State, m_request_map
<1>5. (q.pendingDelete \cup {p}) \in SUBSET Packets BY <1>3 DEF State
<1>6. d \in State BY <1>3, <1>5, SetType, Zenon
<1>7. Good(d) /\ ~d.retryRead /\ ~d.retryWrite
  BY <1>3, <1>4, <1>6 DEF Good, State, m_request_map
<1> HIDE DEF q, d
<1>8. Good(Respond(q, p)) /\ ~Respond(q, p).retryRead /\ ~Respond(q, p).retryWrite
  BY SMTT(30), <1>4, RespondGood
<1>9. Good(CheckDrainState(d)) /\ ~CheckDrainState(d).retryRead
        /\ ~CheckDrainState(d).retryWrite
  BY <1>7, CheckDrainGood
<1>10. Enqueued(s, p) \in {q, Respond(q, p), CheckDrainState(d)}
  BY DEF Enqueued, q, d
<1>11. QED BY <1>4, <1>8, <1>9, <1>10 DEF Held

\* A refusal sets the retry flag of its kind and stalls the master port.
LEMMA RefusedGood ==
    ASSUME NEW s, Good(s), NEW p \in Packets, ~s.retryRead, ~s.retryWrite
    PROVE  Good(Refused(s, p)) /\ Refused(s, p).queued = s.queued
<1>1. s \in State BY DEF Good
<1>2. (s.retryRead \/ p \in Reads) \in BOOLEAN /\ (s.retryWrite \/ p \notin Reads) \in BOOLEAN
        /\ TRUE \in BOOLEAN
  OBVIOUS
<1>3. Refused(s, p) \in State BY <1>1, <1>2, FlagType, Zenon DEF Refused
<1>4. QED BY <1>1, <1>3 DEF Good, State, Refused, m_request_map

\* A packet is refused only when the queue holds a request of this object:
\* page migration alone cannot fill it.
LEMMA FullQueue ==
    ASSUME NEW s, migrations \in 0 .. MaxMigrations, ~IsIssuable(s)
    PROVE  s.queued # {}
<1>1. Cardinality({}) = 0 BY FS_EmptySet
<1>2. QED BY SMTT(30), <1>1, PortAssumption DEF IsIssuable

\* recvTimingReq keeps Held, whatever kind of packet arrives.
LEMMA ReceiveHeld ==
    ASSUME NEW s, Good(s), NEW p \in Packets, ~s.stalled,
           migrations \in 0 .. MaxMigrations
    PROVE  Held(recvTimingReq(s, p))
<1> DEFINE c == [s EXCEPT !.pendingDelete = {}]
           i == [c EXCEPT !.unsent = @ \ {p}, !.pendingDelete = {p}]
           o == [c EXCEPT !.unsent = @ \ {p}]
<1>1. s \in State /\ ~s.retryRead /\ ~s.retryWrite BY DEF Good
<1>2. {} \in SUBSET Packets /\ {p} \in SUBSET Packets OBVIOUS
<1>3. c \in State BY <1>1, <1>2, SetType, Zenon
<1>4. Good(c) /\ ~c.retryRead /\ ~c.retryWrite
  BY <1>1, <1>3 DEF Good, State, m_request_map
<1>5. (c.unsent \ {p}) \in SUBSET Packets BY <1>3 DEF State
<1>6. i \in State /\ o \in State BY <1>2, <1>3, <1>5, SetType, Zenon
<1>7. Good(i) /\ ~i.retryRead /\ ~i.retryWrite
  BY <1>3, <1>4, <1>6 DEF Good, State, m_request_map
<1>8. Good(o) /\ ~o.retryRead /\ ~o.retryWrite
  BY <1>3, <1>4, <1>6 DEF Good, State, m_request_map
<1> HIDE DEF c, i, o
<1>9. Held(i) /\ Held(Respond(o, p)) BY SMTT(30), <1>7, <1>8, RespondGood DEF Held
<1>10. Held(Enqueued(Wakeup(c), p)) BY <1>4, WakeupGood, EnqueuedGood
<1>11. ~IsIssuable(c) => Held(Refused(Wakeup(c), p))
  <2> HAVE ~IsIssuable(c)
  <2>1. c.queued # {} BY FullQueue
  <2>2. QED BY SMTT(30), <1>4, <2>1, WakeupGood, RefusedGood DEF Held
<1>12. \/ recvTimingReq(s, p) \in {i, Respond(o, p), Enqueued(Wakeup(c), p)}
       \/ ~IsIssuable(c) /\ recvTimingReq(s, p) = Refused(Wakeup(c), p)
  BY <1>4 DEF recvTimingReq, c, i, o
<1>13. QED BY <1>9, <1>10, <1>11, <1>12

\* The state in which the sender is called back.
LEMMA SendRetryHeld ==
    ASSUME NEW s \in State, ~s.retryRead, ~s.retryWrite,
           Good([s EXCEPT !.stalled = FALSE]),
           NEW p \in Packets \cup {NoPacket},
           migrations \in 0 .. MaxMigrations
    PROVE  Held(sendRetry(s, p))
<1> DEFINE free == [s EXCEPT !.stalled = FALSE]
<1>1. ~free.stalled /\ ~free.retryRead /\ ~free.retryWrite BY DEF State
<1>2. Good(free) OBVIOUS
<1> HIDE DEF free
<1>3. Held(free) BY <1>1, <1>2 DEF Held
<1>4. p # NoPacket => Held(recvTimingReq(free, p)) BY <1>1, <1>2, ReceiveHeld
<1>5. sendRetry(s, p) = IF p = NoPacket THEN free ELSE recvTimingReq(free, p)
  BY DEF sendRetry, free
<1>6. QED BY <1>3, <1>4, <1>5

\* The retry of a refused read keeps Held, also when the master sends nothing.
LEMMA RetryReadHeld ==
    ASSUME NEW s, Good(s), s.retryRead, NEW p \in Packets \cup {NoPacket},
           migrations \in 0 .. MaxMigrations
    PROVE  Held(RetryRead(s, p))
<1> DEFINE t == [s EXCEPT !.retryRead = FALSE]
<1>1. s \in State /\ ~s.retryWrite BY DEF Good, State
<1>2. FALSE \in BOOLEAN OBVIOUS
<1>3. t \in State BY <1>1, <1>2, FlagType, Zenon
<1>4. [t EXCEPT !.stalled = FALSE] \in State BY <1>2, <1>3, FlagType, Zenon
<1>5. ~t.retryRead /\ ~t.retryWrite BY <1>1 DEF State
<1>6. Good([t EXCEPT !.stalled = FALSE])
  BY <1>1, <1>3, <1>4 DEF Good, State, m_request_map
<1> HIDE DEF t
<1>7. Held(sendRetry(t, p)) BY <1>3, <1>5, <1>6, SendRetryHeld
<1>8. QED BY <1>7 DEF RetryRead, t

\* The same for a refused write.
LEMMA RetryWriteHeld ==
    ASSUME NEW s, Good(s), s.retryWrite, NEW p \in Packets \cup {NoPacket},
           migrations \in 0 .. MaxMigrations
    PROVE  Held(RetryWrite(s, p))
<1> DEFINE t == [s EXCEPT !.retryWrite = FALSE]
<1>1. s \in State /\ ~s.retryRead BY DEF Good, State
<1>2. FALSE \in BOOLEAN OBVIOUS
<1>3. t \in State BY <1>1, <1>2, FlagType, Zenon
<1>4. [t EXCEPT !.stalled = FALSE] \in State BY <1>2, <1>3, FlagType, Zenon
<1>5. ~t.retryRead /\ ~t.retryWrite BY <1>1 DEF State
<1>6. Good([t EXCEPT !.stalled = FALSE])
  BY <1>1, <1>3, <1>4 DEF Good, State, m_request_map
<1> HIDE DEF t
<1>7. Held(sendRetry(t, p)) BY <1>3, <1>5, <1>6, SendRetryHeld
<1>8. QED BY <1>7 DEF RetryWrite, t

\* Whatever the sender sends from within the calls, a retry that is due after
\* them is due to a request still queued.
LEMMA RetriesHeld ==
    ASSUME NEW s, Good(s), NEW p \in Packets \cup {NoPacket},
           migrations \in 0 .. MaxMigrations
    PROVE  Held(RetryWrite(RetryRead(s, p), p))
<1> DEFINE t == RetryRead(s, p)
<1>1. Good(t) /\ (t.retryRead => Held(t))
  <2>1. CASE s.retryRead BY <2>1, RetryReadHeld DEF Held
  <2>2. CASE ~s.retryRead BY <2>2 DEF RetryRead
  <2>3. QED BY <2>1, <2>2
<1> HIDE DEF t
<1>2. t.retryWrite => Held(RetryWrite(t, p)) BY <1>1, RetryWriteHeld
<1>3. ~t.retryWrite => Held(RetryWrite(t, p)) BY <1>1 DEF RetryWrite, Held
<1>4. QED BY <1>2, <1>3 DEF t

\* RequestComplete of one packet keeps Held.
LEMMA FinishHeld ==
    ASSUME NEW s, Held(s), NEW r \in Packets
    PROVE  Held(Finish(s, r))
<1> DEFINE t == IF r \in Reads THEN Respond(s, r) ELSE CheckDrainState(s)
<1>1. Held(t) BY SMTT(30), RespondGood, CheckDrainGood DEF Held
<1> HIDE DEF t
<1>2. t \in State BY <1>1 DEF Held, Good
<1>3. (t.inService \ {r}) \in SUBSET Packets BY <1>2 DEF State
<1>4. [t EXCEPT !.inService = @ \ {r}] \in State BY <1>2, <1>3, SetType, Zenon
<1>5. Held([t EXCEPT !.inService = @ \ {r}])
  BY <1>1, <1>2, <1>4 DEF Held, Good, State, m_request_map
<1>6. QED BY <1>5 DEF Finish, t

\* The clock event is scheduled again while the object is awake or has requests.
LEMMA TicksGood ==
    ASSUME NEW s, Good(s)
    PROVE  /\ Good(Ticks(s))
           /\ m_request_map(Ticks(s)) = m_request_map(s)
           /\ Ticks(s).retryRead = s.retryRead
           /\ Ticks(s).retryWrite = s.retryWrite
<1>1. s \in State BY DEF Good
<1>2. (s.m_awake \/ m_request_map(s) # {}) \in BOOLEAN BY <1>1 DEF State
<1>3. Ticks(s) \in State BY <1>1, <1>2, FlagType, Zenon DEF Ticks
<1>4. QED BY <1>1, <1>3 DEF Good, State, Ticks, m_request_map

-----------------------------------------------------------------------------
(* The inductive invariant and its consequences. *)

\* A retry that is due has a request whose completion sends it, and atomic mode
\* is entered, and left, with no request outstanding: that is why recvAtomic may
\* put the object to sleep.
PortInv ==
    /\ TypeOK
    /\ Good(mem)
    /\ mem.retryRead \/ mem.retryWrite => m_request_map(mem) # {}
    /\ mode = "atomic" => m_request_map(mem) = {}

\* What is left to show for a step that keeps the mode and leaves Held.
LEMMA HeldStep ==
    ASSUME PortInv, mode = "timing", mode' = mode, migrations' = migrations,
           answered' = answered, NEW s, Held(s), mem' = s \/ mem' = Ticks(s)
    PROVE  PortInv'
<1>1. Held(s) => Good(s) /\ (s.retryRead \/ s.retryWrite => m_request_map(s) # {})
  BY DEF Held, m_request_map
<1>2. /\ Good(mem')
      /\ mem'.retryRead \/ mem'.retryWrite => m_request_map(mem') # {}
  BY <1>1, TicksGood
<1>3. mem' \in State BY <1>2 DEF Good
<1>4. QED BY <1>2, <1>3 DEF PortInv, TypeOK, Good, m_request_map

\* A step that changes no request and neither retry flag.
LEMMA QuietStep ==
    ASSUME PortInv, Good(mem'), migrations' \in 0 .. MaxMigrations,
           answered' \in [Packets -> Nat], mode' \in {"timing", "atomic"},
           mode' = mode \/ m_request_map(mem) = {},
           mem'.queued = mem.queued, mem'.inService = mem.inService,
           mem'.retryRead = mem.retryRead, mem'.retryWrite = mem.retryWrite
    PROVE  PortInv'
<1>1. mem' \in State BY DEF Good
<1>2. m_request_map(mem)' = m_request_map(mem) BY DEF m_request_map
<1>3. QED BY <1>1, <1>2 DEF PortInv, TypeOK, Good, m_request_map

\* SendResponses keeps the invariant, for its event and for recvRetry.
LEMMA SendResponsesInv ==
    ASSUME PortInv, NEW s, NEW taken, SendResponses(s, taken),
           s \in {[mem EXCEPT !.respondEvent = FALSE], [mem EXCEPT !.retryResp = FALSE]},
           UNCHANGED <<migrations, mode>>
    PROVE  PortInv'
<1>1. mem \in State /\ Good(mem) /\ FALSE \in BOOLEAN /\ TRUE \in BOOLEAN
  BY DEF PortInv, TypeOK
<1>2. s \in State BY <1>1, FlagType, Zenon
<1>3. /\ s.stalled = mem.stalled /\ s.retryRead = mem.retryRead
      /\ s.retryWrite = mem.retryWrite /\ s.m_awake = mem.m_awake
      /\ s.clockEvent = mem.clockEvent /\ s.queued = mem.queued
      /\ s.inService = mem.inService /\ s.responseQueue = mem.responseQueue
  BY <1>1 DEF State
<1>4. migrations' \in 0 .. MaxMigrations /\ mode' \in {"timing", "atomic"} /\ mode' = mode
        /\ answered \in [Packets -> Nat]
  BY DEF PortInv, TypeOK
<1>5. CASE s.responseQueue = <<>> \/ s.retryResp
  <2>1. mem' = s /\ answered' = answered BY <1>5 DEF SendResponses
  <2>2. Good(mem') BY <1>1, <1>2, <1>3, <1>5, <2>1 DEF Good, m_request_map
  <2>3. QED BY <1>3, <1>4, <2>1, <2>2, QuietStep
<1>6. CASE ~(s.responseQueue = <<>> \/ s.retryResp) /\ ~taken
  <2>1. mem' = [s EXCEPT !.retryResp = TRUE] /\ answered' = answered
    BY <1>6 DEF SendResponses
  <2>2. mem' \in State BY <1>1, <1>2, <2>1, FlagType, Zenon
  <2>3. Good(mem') BY <1>1, <1>2, <1>3, <2>1, <2>2 DEF Good, State, m_request_map
  <2>4. QED BY <1>2, <1>3, <1>4, <2>1, <2>3, QuietStep DEF State
<1>7. CASE ~(s.responseQueue = <<>> \/ s.retryResp) /\ taken
  <2> DEFINE rest == [s EXCEPT !.responseQueue = Tail(@)]
             t == [rest EXCEPT !.respondEvent = @ \/ rest.responseQueue # <<>>]
  <2>1. /\ mem' = Popped(s)
        /\ answered' = [answered EXCEPT ![Head(s.responseQueue)] = @ + 1]
    BY <1>7 DEF SendResponses
  <2>2. Head(s.responseQueue) \in Packets /\ Tail(s.responseQueue) \in Seq(Packets)
    BY SMTT(30), <1>2, <1>7 DEF State
  <2>3. answered' \in [Packets -> Nat] BY SMTT(30), <1>4, <2>1, <2>2
  <2>4. rest \in State
    <3>1. QED BY <1>2, <2>2, ZenonT(60) DEF State
  <2>5. (rest.respondEvent \/ rest.responseQueue # <<>>) \in BOOLEAN BY <2>4 DEF State
  <2>6. t \in State BY <2>4, <2>5, FlagType, Zenon
  <2>7. /\ t.stalled = s.stalled /\ t.retryRead = s.retryRead
        /\ t.retryWrite = s.retryWrite /\ t.m_awake = s.m_awake
        /\ t.clockEvent = s.clockEvent /\ t.queued = s.queued
        /\ t.inService = s.inService
        /\ t.responseQueue # <<>> => t.respondEvent
    BY <1>2, <2>4 DEF State
  <2> HIDE DEF t
  <2>8. Good(t) BY <1>1, <1>3, <2>6, <2>7 DEF Good, m_request_map
  <2>9. mem' = CheckDrainState(t) BY <2>1 DEF Popped, t
  <2>10. QED BY <1>3, <1>4, <2>3, <2>7, <2>8, <2>9, CheckDrainGood, QuietStep
<1>8. QED BY <1>5, <1>6, <1>7

\* PortInv holds initially.
LEMMA PortInit == Init => PortInv
<1> SUFFICES ASSUME Init PROVE PortInv
  OBVIOUS
<1>1. mem \in State
  <2>1. /\ {} \in SUBSET Packets /\ Packets \in SUBSET Packets /\ <<>> \in Seq(Packets)
        /\ TRUE \in BOOLEAN /\ FALSE \in BOOLEAN
        /\ "Running" \in {"Running", "Draining", "Drained"}
    BY SMTT(30)
  <2>2. QED BY <2>1, ZenonT(60) DEF Init, State
<1>2. Good(mem) /\ ~mem.retryRead /\ ~mem.retryWrite
  BY <1>1 DEF Init, Good, m_request_map
<1>3. migrations \in 0 .. MaxMigrations /\ answered \in [Packets -> Nat] /\ mode = "timing"
  BY SMTT(30), PortAssumption DEF Init
<1>4. QED BY <1>1, <1>2, <1>3 DEF PortInv, TypeOK

\* A controller that takes a request keeps the invariant.
LEMMA ScheduleInv ==
    ASSUME PortInv, NEW r \in Packets, Schedule(r)
    PROVE  PortInv'
<1> DEFINE s == [mem EXCEPT !.queued = @ \ {r}, !.inService = @ \cup {r}]
<1>1. mem \in State /\ r \in mem.queued BY DEF PortInv, TypeOK, Schedule
<1>2. (mem.queued \ {r}) \in SUBSET Packets /\ (mem.inService \cup {r}) \in SUBSET Packets
  BY <1>1 DEF State
<1>3. s \in State BY <1>1, <1>2, SetType, Zenon
<1>4. /\ m_request_map(s) = m_request_map(mem) /\ m_request_map(s) # {}
      /\ s.retryRead = mem.retryRead /\ s.retryWrite = mem.retryWrite
  BY <1>1 DEF State, m_request_map
<1>5. Good(s) BY <1>1, <1>3, <1>4 DEF PortInv, Good, State
<1>6. mem' = Ticks(s) BY DEF Schedule
<1> HIDE DEF s
<1>7. /\ Good(mem')
      /\ m_request_map(mem') # {}
  BY <1>4, <1>5, <1>6, TicksGood
<1>8. mem' \in State BY <1>7 DEF Good
<1>9. mode = "timing" BY <1>1 DEF PortInv, TypeOK, m_request_map
<1>10. QED BY <1>7, <1>8, <1>9 DEF PortInv, TypeOK, Schedule, Good, m_request_map

\* Every step keeps PortInv.
LEMMA PortStep == PortInv /\ [Next]_vars => PortInv'
<1> SUFFICES ASSUME PortInv, [Next]_vars PROVE PortInv'
  OBVIOUS
<1>0. /\ mem \in State /\ Good(mem) /\ migrations \in 0 .. MaxMigrations
      /\ answered \in [Packets -> Nat] /\ mode \in {"timing", "atomic"}
      /\ TRUE \in BOOLEAN /\ FALSE \in BOOLEAN
  BY DEF PortInv, TypeOK
<1>1. ASSUME NEW p \in Packets, Send(p) PROVE PortInv'
  <2>1. Held(recvTimingReq(mem, p)) BY <1>0, <1>1, ReceiveHeld DEF Send
  <2>2. QED BY <1>1, <2>1, HeldStep DEF Send
<1>2. ASSUME NEW r \in Packets, NEW p \in Packets \cup {NoPacket}, RequestComplete(r, p)
      PROVE  PortInv'
  <2> DEFINE s == RetryWrite(RetryRead(mem, p), p)
  <2>1. Held(s) BY <1>0, RetriesHeld
  <2> HIDE DEF s
  <2>2. Held(Finish(s, r)) BY <2>1, FinishHeld
  <2>3. mem' = Ticks(Finish(s, r)) BY <1>2 DEF RequestComplete, s
  <2>4. mode = "timing" BY <1>0, <1>2 DEF PortInv, RequestComplete, m_request_map
  <2>5. QED BY <1>2, <2>2, <2>3, <2>4, HeldStep DEF RequestComplete
<1>3. CASE Idle
  <2>1. Good(mem') BY <1>0, <1>3, TicksGood DEF Idle
  <2>2. mem'.queued = mem.queued /\ mem'.inService = mem.inService
          /\ mem'.retryRead = mem.retryRead /\ mem'.retryWrite = mem.retryWrite
    BY <1>0, <1>3 DEF Idle, Ticks, State
  <2>3. QED BY <1>0, <1>3, <2>1, <2>2, QuietStep DEF Idle
<1>4. ASSUME NEW n \in 0 .. MaxMigrations, Migrate(n) PROVE PortInv'
  BY <1>0, <1>4, QuietStep DEF Migrate
<1>5. ASSUME NEW taken \in BOOLEAN, RespondEvent(taken) \/ recvRetry(taken) PROVE PortInv'
  BY <1>5, SendResponsesInv DEF RespondEvent, recvRetry
<1>6. CASE drain
  <2>1. mem' \in State
    <3>1. /\ "Draining" \in {"Running", "Draining", "Drained"}
          /\ "Drained" \in {"Running", "Draining", "Drained"}
      OBVIOUS
    <3>2. [mem EXCEPT !.drainState = "Draining", !.drainManager = TRUE] \in State
      BY <1>0, <3>1, ZenonT(60) DEF State
    <3>3. [mem EXCEPT !.drainState = "Drained"] \in State
      BY <1>0, <3>1, ZenonT(60) DEF State
    <3>4. QED BY <1>6, <3>2, <3>3, Zenon DEF drain
  <2>2. mem'.queued = mem.queued /\ mem'.inService = mem.inService
          /\ mem'.retryRead = mem.retryRead /\ mem'.retryWrite = mem.retryWrite
    BY <1>0, <1>6 DEF drain, State
  <2>3. Good(mem') BY <1>0, <1>6, <2>1, ZenonT(60) DEF drain, Good, State, m_request_map
  <2>4. QED BY <1>0, <1>6, <2>2, <2>3, QuietStep DEF drain
<1>7. ASSUME NEW m \in {"timing", "atomic"}, Resume(m) PROVE PortInv'
  <2>1. mem' \in State
    <3>1. "Running" \in {"Running", "Draining", "Drained"} OBVIOUS
    <3>2. QED BY <1>0, <1>7, <3>1, ZenonT(60) DEF State, Resume
  <2>2. mem'.queued = mem.queued /\ mem'.inService = mem.inService
          /\ mem'.retryRead = mem.retryRead /\ mem'.retryWrite = mem.retryWrite
    BY <1>0, <1>7 DEF Resume, State
  <2>3. Good(mem') BY <1>0, <1>7, <2>1 DEF Resume, Good, State, m_request_map
  <2>4. QED BY <1>0, <1>7, <2>2, <2>3, QuietStep DEF Resume
<1>8. CASE recvAtomic
  <2>1. mem' = [mem EXCEPT !.m_awake = FALSE] /\ m_request_map(mem) = {}
    BY <1>8 DEF recvAtomic, PortInv
  <2>2. mem' \in State BY <1>0, <2>1, FlagType, Zenon
  <2>3. Good(mem') BY <1>0, <2>1, <2>2 DEF Good, State, m_request_map
  <2>4. QED BY <1>0, <1>8, <2>1, <2>3, QuietStep DEF recvAtomic, State
<1>9. CASE UNCHANGED vars
  BY <1>9 DEF vars, PortInv, TypeOK, Good, m_request_map
<1>10. QED
  BY <1>1, <1>2, <1>3, <1>4, <1>5, <1>6, <1>7, <1>8, <1>9, ScheduleInv DEF Next

\* The invariant holds for every set of packets, every queue size and every
\* share of the queue that page migration may take.
THEOREM PortInvariant == Spec => []PortInv
BY PortInit, PortStep, PTL DEF Spec

\* The members of NVMainMemory keep their types.
THEOREM PortTypeOK == Spec => []TypeOK
<1>1. PortInv => TypeOK BY DEF PortInv
<1>2. QED BY <1>1, PortInvariant, PTL

\* A sender that recvTimingReq refused is called back by the completion of a
\* request that is outstanding, also when it sends from within sendRetry.
THEOREM PortRetryIsComing == Spec => []RetryIsComing
<1>1. PortInv => RetryIsComing BY DEF PortInv, Good, RetryIsComing
<1>2. QED BY <1>1, PortInvariant, PTL

\* tick( ) keeps running while m_request_map is not empty.
THEOREM PortClockRuns == Spec => []ClockRuns
<1>1. PortInv => ClockRuns BY DEF PortInv, Good, ClockRuns
<1>2. QED BY <1>1, PortInvariant, PTL

\* No response is left in responseQueue without respondEvent or a retry.
THEOREM PortResponseScheduled == Spec => []ResponseScheduled
<1>1. PortInv => ResponseScheduled BY DEF PortInv, Good, ResponseScheduled
<1>2. QED BY <1>1, PortInvariant, PTL

-----------------------------------------------------------------------------
(* Responses are counted. *)

\* The packets that this object answers.
Answerable == Reads \cup Writes \cup Others

\* The responses to p in the queue q.
Places(q, p) == {i \in DOMAIN q : q[i] = p}
\* Their number.
Count(q, p) == Cardinality(Places(q, p))

\* The number of responses to a packet is a natural number.
LEMMA CountType ==
    ASSUME NEW q \in Seq(Packets), NEW p
    PROVE  IsFiniteSet(Places(q, p)) /\ Count(q, p) \in Nat
<1>1. Len(q) \in Nat /\ DOMAIN q = 1 .. Len(q)
  BY SMTT(30)
<1>2. IsFiniteSet(1 .. Len(q))
  BY SMTT(30), <1>1, FS_Interval
<1>3. Places(q, p) \subseteq 1 .. Len(q)
  BY <1>1 DEF Places
<1>4. IsFiniteSet(Places(q, p))
  BY <1>2, <1>3, FS_Subset
<1> QED BY <1>4, FS_CardinalityType DEF Count

\* responseQueue.push_back
LEMMA CountAppend ==
    ASSUME NEW q \in Seq(Packets), NEW e \in Packets, NEW p
    PROVE  Count(Append(q, e), p) = Count(q, p) + (IF e = p THEN 1 ELSE 0)
<1>1. Len(q) \in Nat /\ DOMAIN q = 1 .. Len(q) /\ Len(q) + 1 \notin DOMAIN q
  BY SMTT(30)
<1>2. /\ DOMAIN Append(q, e) = DOMAIN q \cup {Len(q) + 1}
      /\ \A i \in DOMAIN q : Append(q, e)[i] = q[i]
      /\ Append(q, e)[Len(q) + 1] = e
  BY SMTT(30), <1>1
<1>3. IsFiniteSet(Places(q, p)) /\ Count(q, p) \in Nat /\ Len(q) + 1 \notin Places(q, p)
  BY <1>1, CountType DEF Places
<1>4. CASE e = p
  <2>1. Places(Append(q, e), p) = Places(q, p) \cup {Len(q) + 1}
    BY <1>1, <1>2, <1>4 DEF Places
  <2>2. Count(Append(q, e), p) = Count(q, p) + 1
    BY <1>3, <2>1, FS_AddElement DEF Count
  <2> QED BY <1>4, <2>2
<1>5. CASE e # p
  <2>1. Places(Append(q, e), p) = Places(q, p)
    BY <1>1, <1>2, <1>5 DEF Places
  <2>2. Count(q, p) = Count(q, p) + 0
    BY SMTT(30), <1>3
  <2> QED BY <1>5, <2>1, <2>2 DEF Count
<1> QED BY <1>4, <1>5

\* responseQueue.pop_front
LEMMA CountTail ==
    ASSUME NEW q \in Seq(Packets), q # <<>>, NEW p
    PROVE  Count(q, p) = Count(Tail(q), p) + (IF Head(q) = p THEN 1 ELSE 0)
<1> DEFINE S == Places(Tail(q), p)
           T == Places(q, p) \ {1}
           f == [i \in S |-> i + 1]
<1>1. /\ Len(q) \in Nat /\ DOMAIN q = 1 .. Len(q) /\ 1 \in DOMAIN q
      /\ Tail(q) \in Seq(Packets) /\ DOMAIN Tail(q) = 1 .. Len(q) - 1
      /\ \A i \in DOMAIN Tail(q) : Tail(q)[i] = q[i + 1]
      /\ q[1] = Head(q)
  BY SMTT(30)
<1>2. /\ \A i \in S : i \in Nat /\ i + 1 \in T
      /\ \A j \in T : \E i \in S : j = i + 1
  <2>1. ASSUME NEW i \in S PROVE i \in Nat /\ i + 1 \in T
    BY SMTT(30), <1>1 DEF Places
  <2>2. ASSUME NEW j \in T PROVE j - 1 \in S /\ j = (j - 1) + 1
    BY SMTT(30), <1>1 DEF Places
  <2> QED BY <2>1, <2>2
<1>3. \A i, j \in Nat : i + 1 = j + 1 => i = j
  BY SMTT(30)
<1>4. IsFiniteSet(S) /\ Count(Tail(q), p) \in Nat /\ IsFiniteSet(Places(q, p)) /\ Count(q, p) \in Nat
  BY <1>1, CountType
<1>5. ExistsBijection(S, T)
  <2> HIDE DEF S, T
  <2>1. f \in [S -> T] /\ (\A i, j \in S : f[i] = f[j] => i = j) /\ \A j \in T : \E i \in S : f[i] = j
    BY <1>2, <1>3
  <2>2. f \in Bijection(S, T)
    BY <2>1 DEF Bijection, Injection, Surjection, IsInjective
  <2> QED BY <2>2 DEF ExistsBijection
<1>6. Cardinality(T) = Count(Tail(q), p)
  <2> HIDE DEF T
  <2> QED BY <1>4, <1>5, FS_Bijection DEF Count
<1>7. CASE Head(q) = p
  <2>1. 1 \in Places(q, p)
    BY <1>1, <1>7 DEF Places
  <2>2. Cardinality(T) = Count(q, p) - 1
    BY <1>4, <2>1, FS_RemoveElement DEF Count
  <2> QED BY SMTT(30), <1>4, <1>6, <1>7, <2>2
<1>8. CASE Head(q) # p
  <2>1. T = Places(q, p)
    BY <1>1, <1>8 DEF Places
  <2>2. Count(q, p) = Count(Tail(q), p)
    BY <1>6, <2>1 DEF Count
  <2> QED BY SMTT(30), <1>4, <1>8, <2>2
<1> QED BY <1>7, <1>8

\* Packet p has been accepted and, if it is a read, served.
Answers(s, p) ==
    /\ p \in Answerable /\ p \notin s.unsent
    /\ p \in Reads => p \notin s.queued /\ p \notin s.inService

\* n responses were taken and some are queued: one for each packet that is due one.
OneEach(s, n) ==
    \A p \in Packets : /\ Answers(s, p) => n[p] + Count(s.responseQueue, p) = 1
                       /\ ~Answers(s, p) => n[p] + Count(s.responseQueue, p) = 0

\* A packet is in one place at a time, and none that needs a response is deleted.
Apart(s) ==
    /\ s.queued \cap s.inService = {}
    /\ s.unsent \cap s.queued = {} /\ s.unsent \cap s.inService = {}
    /\ s.pendingDelete \cap Answerable = {}

\* Every packet is in one place, and has one answer exactly when it is due one.
Once(s, n) == OneEach(s, n) /\ Apart(s)

-----------------------------------------------------------------------------
(* What the handlers do to the packets. *)

\* Nothing happens to any packet, except that deleted ones are gone.
SamePackets(s, t) ==
    /\ t.queued = s.queued /\ t.inService = s.inService /\ t.unsent = s.unsent
    /\ t.responseQueue = s.responseQueue /\ t.pendingDelete \subseteq s.pendingDelete

\* Handlers that move no packet keep Once.
LEMMA SameOnce ==
    ASSUME NEW s, NEW t, NEW n, Once(s, n), SamePackets(s, t)
    PROVE  Once(t, n)
<1>1. \A p : Answers(t, p) <=> Answers(s, p)
  BY DEF SamePackets, Answers
<1>2. OneEach(t, n)
  BY <1>1 DEF Once, OneEach, SamePackets
<1>3. Apart(t)
  BY DEF Once, Apart, SamePackets
<1> QED BY <1>2, <1>3 DEF Once

\* Only packet p changes its place; it gets a response if it becomes due one.
Moves(s, t, p) ==
    /\ \A o \in Packets \ {p} : Answers(t, o) <=> Answers(s, o)
    /\ Answers(s, p) => Answers(t, p)
    /\ t.responseQueue = IF Answers(t, p) /\ ~Answers(s, p)
                         THEN Append(s.responseQueue, p) ELSE s.responseQueue

\* A handler that moves one packet, and queues its response exactly when
\* it becomes owed, keeps OneEach.
LEMMA MoveOneEach ==
    ASSUME NEW s \in State, NEW t, NEW n \in [Packets -> Nat], NEW p \in Packets,
           OneEach(s, n), Moves(s, t, p)
    PROVE  OneEach(t, n)
<1> DEFINE q == s.responseQueue
           r == t.responseQueue
<1>1. q \in Seq(Packets)
  BY DEF State
<1>2. r = IF Answers(t, p) /\ ~Answers(s, p) THEN Append(q, p) ELSE q
  BY DEF Moves
<1> SUFFICES ASSUME NEW o \in Packets
             PROVE  /\ Answers(t, o) => n[o] + Count(r, o) = 1
                    /\ ~Answers(t, o) => n[o] + Count(r, o) = 0
  BY DEF OneEach
<1>3. /\ Answers(s, o) => n[o] + Count(q, o) = 1
      /\ ~Answers(s, o) => n[o] + Count(q, o) = 0
  BY DEF OneEach
<1>4. (Answers(s, p) => Answers(t, p)) /\ (o # p => (Answers(t, o) <=> Answers(s, o)))
  BY DEF Moves
<1>5. n[o] \in Nat /\ Count(q, o) \in Nat
  BY <1>1, CountType
<1>6. Count(Append(q, p), o) = Count(q, o) + (IF p = o THEN 1 ELSE 0)
  BY <1>1, CountAppend
<1>7. /\ 0 + 1 = 1 /\ Count(q, o) + 0 = Count(q, o)
      /\ n[o] + (Count(q, o) + 1) = (n[o] + Count(q, o)) + 1
  BY SMTT(30), <1>5
<1>8. CASE Answers(t, p) /\ ~Answers(s, p) /\ o = p
  <2>1. n[o] + Count(Append(q, p), o) = 1
    BY <1>3, <1>6, <1>7, <1>8
  <2> QED BY <1>2, <1>8, <2>1
<1>9. CASE Answers(t, p) /\ ~Answers(s, p) /\ o # p
  <2>1. Count(Append(q, p), o) = Count(q, o)
    BY <1>6, <1>7, <1>9
  <2> QED BY <1>2, <1>3, <1>4, <1>9, <2>1
<1>10. CASE ~(Answers(t, p) /\ ~Answers(s, p))
  BY <1>2, <1>3, <1>4, <1>10
<1> QED BY <1>8, <1>9, <1>10

\* Packet p is taken from the sender: put into the queue, answered, or left to
\* the cache that answers it.
Accepts(s, t, p) ==
    /\ t.unsent = s.unsent \ {p} /\ t.inService = s.inService
    /\ t.queued = IF p \in Inhibited \cup Others THEN s.queued ELSE s.queued \cup {p}
    /\ t.responseQueue = IF p \in Others \/ p \in Writes \ Reads
                         THEN Append(s.responseQueue, p) ELSE s.responseQueue
    /\ t.pendingDelete \subseteq {p} \ Answerable
    /\ ~t.retryWrite

\* recvTimingReq of a packet that was still unsent keeps Once.
LEMMA AcceptOnce ==
    ASSUME NEW s \in State, NEW t, NEW n \in [Packets -> Nat], NEW p \in s.unsent,
           Once(s, n), Accepts(s, t, p)
    PROVE  Once(t, n)
<1>0. p \in Packets /\ s.unsent \subseteq Packets
  BY DEF State
<1>1. OneEach(s, n) /\ Apart(s)
  BY DEF Once
<1>2. p \notin s.queued /\ p \notin s.inService
  BY <1>1 DEF Apart
<1>3. Inhibited \cap Answerable = {}
  BY PacketAssumption DEF Answerable
<1>4. ASSUME NEW o \in Packets \ {p} PROVE Answers(t, o) <=> Answers(s, o)
  BY <1>4 DEF Accepts, Answers
<1>5. ~Answers(s, p)
  BY DEF Answers
<1>6. Answers(t, p) <=> p \in Others \/ p \in Writes \ Reads
  <2>1. p \notin t.unsent /\ p \notin t.inService
        /\ (p \in t.queued <=> p \notin Inhibited \cup Others)
    BY <1>2 DEF Accepts
  <2> QED BY <1>3, <2>1 DEF Answers, Answerable
<1>7. Moves(s, t, p)
  BY <1>4, <1>5, <1>6 DEF Moves, Accepts
<1>8. OneEach(t, n)
  BY <1>0, <1>1, <1>7, MoveOneEach
<1>9. Apart(t)
  BY ZenonT(60), <1>1, <1>2 DEF Apart, Accepts
<1> QED BY <1>8, <1>9 DEF Once

\* recvTimingReq takes the packet or leaves it with its sender.
LEMMA ReceiveEffect ==
    ASSUME NEW s \in State, ~s.retryRead, ~s.retryWrite, NEW p \in Packets
    PROVE  SamePackets(s, recvTimingReq(s, p)) \/ Accepts(s, recvTimingReq(s, p), p)
<1> DEFINE c == [s EXCEPT !.pendingDelete = {}]
           w == Wakeup(c)
           i == [c EXCEPT !.unsent = @ \ {p}, !.pendingDelete = {p}]
           o == [c EXCEPT !.unsent = @ \ {p}]
           q == [w EXCEPT !.queued = @ \cup {p}, !.unsent = @ \ {p}]
           d == [q EXCEPT !.pendingDelete = @ \cup {p}]
<1>1. {} \in SUBSET Packets /\ {p} \in SUBSET Packets /\ TRUE \in BOOLEAN
  OBVIOUS
<1>2. c \in State
  BY <1>1, SetType, Zenon
<1>3. w \in State
  BY <1>1, <1>2, WakeType, Zenon DEF Wakeup
<1>4. SamePackets(s, c) /\ c.pendingDelete = {} /\ ~c.retryRead /\ ~c.retryWrite
  BY DEF SamePackets, State
<1>5. SamePackets(s, w) /\ w.pendingDelete = {} /\ ~w.retryRead /\ ~w.retryWrite
  <2> HIDE DEF c
  <2> QED BY <1>2, <1>4 DEF SamePackets, State, Wakeup
<1>6. Inhibited \cap Answerable = {} /\ Writebacks \cap Answerable = {}
  BY PacketAssumption DEF Answerable
<1> HIDE DEF c, w
<1>7. CASE p \in Inhibited
  <2>1. recvTimingReq(s, p) = i
    BY <1>7 DEF recvTimingReq, c
  <2>2. i.unsent = c.unsent \ {p} /\ i.pendingDelete = {p} /\ i.queued = c.queued
        /\ i.inService = c.inService /\ i.responseQueue = c.responseQueue
        /\ i.retryWrite = c.retryWrite
    BY <1>2 DEF State
  <2> HIDE DEF i
  <2> QED BY ZenonT(60), <1>4, <1>6, <1>7, <2>1, <2>2 DEF SamePackets, Accepts, Answerable
<1>8. CASE p \notin Inhibited /\ p \in Others
  <2>1. recvTimingReq(s, p) = Respond(o, p)
    BY <1>8 DEF recvTimingReq, c
  <2>2. o.unsent = c.unsent \ {p} /\ o.pendingDelete = {} /\ o.queued = c.queued
        /\ o.inService = c.inService /\ o.responseQueue = c.responseQueue
        /\ o.retryWrite = c.retryWrite /\ DOMAIN o = DOMAIN c
    BY <1>2, <1>4 DEF State
  <2>3. LET t == Respond(o, p)
        IN  /\ t.unsent = o.unsent /\ t.pendingDelete = o.pendingDelete
            /\ t.queued = o.queued /\ t.inService = o.inService
            /\ t.responseQueue = Append(o.responseQueue, p) /\ t.retryWrite = o.retryWrite
    BY <1>2 DEF State, Respond
  <2> HIDE DEF o
  <2> QED BY ZenonT(60), <1>4, <1>8, <2>1, <2>2, <2>3 DEF SamePackets, Accepts
<1>9. CASE p \notin Inhibited /\ p \notin Others /\ IsIssuable(c)
  <2>1. recvTimingReq(s, p) = Enqueued(w, p)
    BY <1>4, <1>9 DEF recvTimingReq, c, w
  <2>2. q.unsent = w.unsent \ {p} /\ q.pendingDelete = {} /\ q.queued = w.queued \cup {p}
        /\ q.inService = w.inService /\ q.responseQueue = w.responseQueue
        /\ q.retryWrite = w.retryWrite /\ q \in State
    <3>1. (w.queued \cup {p}) \in SUBSET Packets /\ (w.unsent \ {p}) \in SUBSET Packets
      BY <1>3 DEF State
    <3>2. q \in State
      BY <1>3, <3>1, SetType, Zenon
    <3> QED BY <1>3, <1>5, <3>2 DEF State
  <2>3. Enqueued(w, p) = IF p \in Reads THEN q ELSE IF p \in Writes THEN Respond(q, p)
                         ELSE CheckDrainState(d)
    BY DEF Enqueued
  <2> HIDE DEF q
  <2>4. LET t == Respond(q, p)
        IN  /\ t.unsent = q.unsent /\ t.pendingDelete = q.pendingDelete
            /\ t.queued = q.queued /\ t.inService = q.inService
            /\ t.responseQueue = Append(q.responseQueue, p) /\ t.retryWrite = q.retryWrite
    BY <2>2 DEF State, Respond
  <2>5. d.unsent = q.unsent /\ d.pendingDelete = {p} /\ d.queued = q.queued
        /\ d.inService = q.inService /\ d.responseQueue = q.responseQueue
        /\ d.retryWrite = q.retryWrite /\ d \in State
    <3>1. (q.pendingDelete \cup {p}) \in SUBSET Packets
      BY <2>2 DEF State
    <3>2. d \in State
      BY <2>2, <3>1, SetType, Zenon
    <3> QED BY <2>2, <3>2 DEF State
  <2> HIDE DEF d
  <2>6. LET t == CheckDrainState(d)
        IN  /\ t.unsent = d.unsent /\ t.pendingDelete = d.pendingDelete
            /\ t.queued = d.queued /\ t.inService = d.inService
            /\ t.responseQueue = d.responseQueue /\ t.retryWrite = d.retryWrite
    BY <2>5 DEF State, CheckDrainState
  <2>7. CASE p \in Reads
    BY ZenonT(60), <1>5, <1>9, <2>1, <2>2, <2>3, <2>7 DEF SamePackets, Accepts
  <2>8. CASE p \notin Reads /\ p \in Writes
    BY ZenonT(60), <1>5, <1>9, <2>1, <2>2, <2>3, <2>4, <2>8 DEF SamePackets, Accepts
  <2>9. CASE p \notin Reads /\ p \notin Writes
    BY ZenonT(60), <1>5, <1>9, <2>1, <2>2, <2>3, <2>5, <2>6, <2>9
       DEF SamePackets, Accepts, Answerable
  <2> QED BY <2>7, <2>8, <2>9
<1>10. CASE p \notin Inhibited /\ p \notin Others /\ ~IsIssuable(c)
  <2>1. recvTimingReq(s, p) = Refused(w, p)
    BY <1>4, <1>10 DEF recvTimingReq, c, w
  <2>2. SamePackets(w, Refused(w, p))
    BY <1>3 DEF SamePackets, State, Refused
  <2> QED BY <1>5, <2>1, <2>2 DEF SamePackets
<1> QED BY <1>7, <1>8, <1>9, <1>10

\* What a retry leaves: if it leaves another one due, the packet was refused.
Retried(s, t, n, p) ==
    /\ Once(t, n) /\ t.inService = s.inService
    /\ p # NoPacket /\ t.retryWrite => p \in t.unsent

\* sendRetry clears the stall, and the packet sent again is one still unsent.
LEMMA SendRetryOnce ==
    ASSUME NEW s \in State, ~s.retryRead, ~s.retryWrite, NEW n \in [Packets -> Nat],
           Once(s, n), NEW p \in Packets \cup {NoPacket}, p # NoPacket => p \in s.unsent
    PROVE  Retried(s, sendRetry(s, p), n, p)
<1> DEFINE free == [s EXCEPT !.stalled = FALSE]
<1>1. FALSE \in BOOLEAN
  OBVIOUS
<1>2. free \in State
  BY <1>1, FlagType, Zenon
<1>3. SamePackets(s, free) /\ ~free.retryRead /\ ~free.retryWrite
  BY DEF State, SamePackets
<1>4. sendRetry(s, p) = IF p = NoPacket THEN free ELSE recvTimingReq(free, p)
  BY DEF sendRetry
<1> HIDE DEF free
<1>5. Once(free, n) /\ free.unsent = s.unsent /\ free.inService = s.inService
  BY <1>3, SameOnce DEF SamePackets
<1>6. CASE p = NoPacket
  BY <1>4, <1>5, <1>6 DEF Retried
<1>7. CASE p # NoPacket
  <2> DEFINE t == recvTimingReq(free, p)
  <2>1. p \in free.unsent /\ p \in Packets
    BY <1>5, <1>7
  <2>2. SamePackets(free, t) \/ Accepts(free, t, p)
    BY <1>2, <1>3, <2>1, ReceiveEffect
  <2>3. t = sendRetry(s, p)
    BY <1>4, <1>7
  <2> HIDE DEF t
  <2>4. Once(t, n)
    BY <1>2, <1>5, <2>1, <2>2, SameOnce, AcceptOnce
  <2>5. t.inService = free.inService /\ (t.retryWrite => p \in t.unsent)
    BY <2>1, <2>2 DEF SamePackets, Accepts
  <2> QED BY <1>5, <2>3, <2>4, <2>5 DEF Retried
<1> QED BY <1>6, <1>7

\* The two retries of RequestComplete take a packet once at most.
LEMMA RetriesOnce ==
    ASSUME NEW s, Good(s), NEW n \in [Packets -> Nat], Once(s, n),
           NEW p \in Packets \cup {NoPacket}, p # NoPacket => p \in s.unsent,
           migrations \in 0 .. MaxMigrations
    PROVE  /\ Once(RetryWrite(RetryRead(s, p), p), n)
           /\ RetryWrite(RetryRead(s, p), p).inService = s.inService
<1> DEFINE t == RetryRead(s, p)
           a == [s EXCEPT !.retryRead = FALSE]
           b == [t EXCEPT !.retryWrite = FALSE]
<1>0. FALSE \in BOOLEAN
  OBVIOUS
<1>1. s \in State /\ (s.retryRead => ~s.retryWrite)
  BY DEF Good, State
<1>2. Good(t) /\ Retried(s, t, n, p)
  <2>1. CASE s.retryRead
    <3>1. a \in State
      BY <1>0, <1>1, FlagType, Zenon
    <3>2. SamePackets(s, a) /\ ~a.retryRead /\ ~a.retryWrite
      BY <1>1, <2>1 DEF State, SamePackets
    <3>3. t = sendRetry(a, p)
      BY <2>1 DEF RetryRead
    <3>4. Good(t)
      BY <2>1, RetryReadHeld DEF Held
    <3> HIDE DEF a, t
    <3>5. Once(a, n) /\ a.unsent = s.unsent /\ a.inService = s.inService
      BY <3>2, SameOnce DEF SamePackets
    <3>6. Retried(a, t, n, p)
      BY <3>1, <3>2, <3>3, <3>5, SendRetryOnce
    <3> QED BY <3>4, <3>5, <3>6 DEF Retried
  <2>2. CASE ~s.retryRead
    BY <2>2 DEF RetryRead, Retried
  <2> QED BY <2>1, <2>2
<1> HIDE DEF t
<1>3. t \in State /\ (t.retryWrite => ~t.retryRead)
  BY <1>2 DEF Good, State
<1>4. CASE t.retryWrite
  <2>1. b \in State
    BY <1>0, <1>3, FlagType, Zenon
  <2>2. SamePackets(t, b) /\ ~b.retryRead /\ ~b.retryWrite
    BY <1>3, <1>4 DEF State, SamePackets
  <2>3. RetryWrite(t, p) = sendRetry(b, p)
    BY <1>4 DEF RetryWrite
  <2> HIDE DEF b
  <2>4. Once(t, n) /\ t.inService = s.inService /\ (p # NoPacket => p \in t.unsent)
    BY <1>2, <1>4 DEF Retried
  <2>5. Once(b, n) /\ b.unsent = t.unsent /\ b.inService = t.inService
    BY <2>2, <2>4, SameOnce DEF SamePackets
  <2>6. Retried(b, sendRetry(b, p), n, p)
    BY <2>1, <2>2, <2>4, <2>5, SendRetryOnce
  <2> QED BY <2>3, <2>4, <2>5, <2>6 DEF Retried, t
<1>5. CASE ~t.retryWrite
  <2>1. RetryWrite(t, p) = t
    BY <1>5 DEF RetryWrite
  <2> QED BY <1>2, <2>1 DEF Retried, t
<1> QED BY <1>4, <1>5

\* Only a read is answered when its request completes.
LEMMA FinishOnce ==
    ASSUME NEW s \in State, NEW n \in [Packets -> Nat], Once(s, n), NEW r \in s.inService
    PROVE  Once(Finish(s, r), n)
<1> DEFINE m == IF r \in Reads THEN Respond(s, r) ELSE CheckDrainState(s)
           t == [m EXCEPT !.inService = @ \ {r}]
<1>0. r \in Packets /\ OneEach(s, n) /\ Apart(s) /\ r \notin s.queued /\ r \notin s.unsent
  BY DEF State, Once, Apart
<1>1. Finish(s, r) = t
  BY DEF Finish
<1>2. /\ m.queued = s.queued /\ m.inService = s.inService /\ m.unsent = s.unsent
      /\ m.pendingDelete = s.pendingDelete
      /\ m.responseQueue = IF r \in Reads THEN Append(s.responseQueue, r) ELSE s.responseQueue
      /\ DOMAIN m = DOMAIN s
  <2>1. CASE r \in Reads
    BY <2>1 DEF State, Respond
  <2>2. CASE r \notin Reads
    BY <2>2 DEF State, CheckDrainState
  <2> QED BY <2>1, <2>2
<1> HIDE DEF m
<1>3. /\ t.queued = s.queued /\ t.inService = s.inService \ {r} /\ t.unsent = s.unsent
      /\ t.pendingDelete = s.pendingDelete
      /\ t.responseQueue = IF r \in Reads THEN Append(s.responseQueue, r) ELSE s.responseQueue
  BY <1>2 DEF State
<1> HIDE DEF t
<1>4. ASSUME NEW o \in Packets \ {r} PROVE Answers(t, o) <=> Answers(s, o)
  BY <1>3, <1>4 DEF Answers
<1>5. /\ r \in Reads => ~Answers(s, r) /\ Answers(t, r)
      /\ r \notin Reads => (Answers(s, r) <=> Answers(t, r))
  BY <1>0, <1>3 DEF Answers, Answerable
<1>6. Moves(s, t, r)
  BY <1>3, <1>4, <1>5 DEF Moves
<1>7. OneEach(t, n)
  BY <1>0, <1>6, MoveOneEach
<1>8. Apart(t)
  BY <1>0, <1>3 DEF Apart
<1> QED BY <1>1, <1>7, <1>8 DEF Once

\* A request that the controller takes into service stays in m_request_map.
LEMMA ScheduleOnce ==
    ASSUME NEW s \in State, NEW n \in [Packets -> Nat], Once(s, n), NEW r \in s.queued
    PROVE  Once([s EXCEPT !.queued = @ \ {r}, !.inService = @ \cup {r}], n)
<1> DEFINE t == [s EXCEPT !.queued = @ \ {r}, !.inService = @ \cup {r}]
<1>0. r \in Packets /\ OneEach(s, n) /\ Apart(s)
  BY DEF State, Once
<1>1. /\ t.queued = s.queued \ {r} /\ t.inService = s.inService \cup {r}
      /\ t.unsent = s.unsent /\ t.pendingDelete = s.pendingDelete
      /\ t.responseQueue = s.responseQueue
  BY DEF State
<1> HIDE DEF t
<1>2. \A o : Answers(t, o) <=> Answers(s, o)
  BY <1>1 DEF Answers
<1>3. OneEach(t, n)
  BY <1>0, <1>1, <1>2 DEF OneEach
<1>4. Apart(t)
  BY <1>0, <1>1 DEF Apart
<1> QED BY <1>3, <1>4 DEF Once, t

\* A response moves from the queue to gem5.
LEMMA TakenOnce ==
    ASSUME NEW s \in State, NEW n \in [Packets -> Nat], Once(s, n), s.responseQueue # <<>>
    PROVE  Once(Popped(s), [n EXCEPT ![Head(s.responseQueue)] = @ + 1])
<1> DEFINE q == s.responseQueue
           m == [n EXCEPT ![Head(q)] = @ + 1]
           t == Popped(s)
<1>1. q \in Seq(Packets) /\ q # <<>> /\ OneEach(s, n) /\ Apart(s)
  BY DEF State, Once
<1>2. Head(q) \in Packets
  BY SMTT(30), <1>1
<1>3. /\ t.queued = s.queued /\ t.inService = s.inService /\ t.unsent = s.unsent
      /\ t.pendingDelete = s.pendingDelete /\ t.responseQueue = Tail(q)
  BY DEF State, Popped, CheckDrainState
<1> HIDE DEF q, t
<1>4. \A o : Answers(t, o) <=> Answers(s, o)
  BY <1>3 DEF Answers
<1>5. ASSUME NEW o \in Packets PROVE m[o] + Count(Tail(q), o) = n[o] + Count(q, o)
  <2>1. n[o] \in Nat /\ m[o] = n[o] + (IF Head(q) = o THEN 1 ELSE 0)
    BY SMTT(30), <1>2, <1>5
  <2>2. Tail(q) \in Seq(Packets)
    BY SMTT(30), <1>1
  <2>3. Count(q, o) = Count(Tail(q), o) + (IF Head(q) = o THEN 1 ELSE 0)
    BY <1>1, CountTail
  <2>4. Count(Tail(q), o) \in Nat
    BY <2>2, CountType
  <2> QED BY SMTT(30), <2>1, <2>3, <2>4
<1> HIDE DEF m
<1>6. OneEach(t, m)
  BY <1>1, <1>3, <1>4, <1>5 DEF OneEach, q
<1>7. Apart(t)
  BY <1>1, <1>3 DEF Apart
<1> QED BY <1>6, <1>7 DEF Once, t, m, q

\* The variables bound here are constants to the provers.
OnceInv == \E s, n : s = mem /\ n = answered /\ Once(s, n)

\* OnceInv holds initially: nothing was sent and nothing answered.
LEMMA OnceInit == Init => OnceInv
<1> SUFFICES ASSUME Init PROVE Once(mem, answered)
  BY DEF OnceInv
<1>1. /\ mem.queued = {} /\ mem.inService = {} /\ mem.unsent = Packets
      /\ mem.pendingDelete = {} /\ mem.responseQueue = <<>>
      /\ \A p \in Packets : answered[p] = 0
  BY DEF Init
<1>2. Apart(mem)
  BY <1>1 DEF Apart
<1>3. \A p \in Packets : ~Answers(mem, p)
  BY <1>1 DEF Answers
<1>4. \A p : Count(<<>>, p) = 0
  <2>1. \A p : Places(<<>>, p) = {}
    BY SMTT(30) DEF Places
  <2> QED BY <2>1, FS_EmptySet DEF Count
<1>5. \A p \in Packets : answered[p] + Count(mem.responseQueue, p) = 0
  BY SMTT(30), <1>1, <1>4
<1>6. OneEach(mem, answered)
  BY <1>3, <1>5 DEF OneEach
<1> QED BY <1>2, <1>6 DEF Once

\* A response taken by the master leaves the queue and is counted, one that
\* is not taken stays at the head.
LEMMA SendResponsesOnce ==
    ASSUME mem \in State, answered \in [Packets -> Nat], Once(mem, answered),
           NEW s, NEW taken, SendResponses(s, taken),
           s \in {[mem EXCEPT !.respondEvent = FALSE], [mem EXCEPT !.retryResp = FALSE]}
    PROVE  Once(mem', answered')
<1>1. FALSE \in BOOLEAN /\ TRUE \in BOOLEAN
  OBVIOUS
<1>2. s \in State
  BY <1>1, FlagType, Zenon
<1>3. SamePackets(mem, s)
  BY DEF State, SamePackets
<1>4. Once(s, answered)
  BY <1>3, SameOnce
<1>5. CASE s.responseQueue = <<>> \/ s.retryResp
  BY <1>4, <1>5 DEF SendResponses
<1>6. CASE ~(s.responseQueue = <<>> \/ s.retryResp) /\ ~taken
  <2>1. mem' = [s EXCEPT !.retryResp = TRUE] /\ answered' = answered
    BY <1>6 DEF SendResponses
  <2>2. SamePackets(s, [s EXCEPT !.retryResp = TRUE])
    BY <1>2 DEF State, SamePackets
  <2>3. Once([s EXCEPT !.retryResp = TRUE], answered)
    BY <1>4, <2>2, SameOnce
  <2> QED BY <2>1, <2>3
<1>7. CASE ~(s.responseQueue = <<>> \/ s.retryResp) /\ taken
  <2>1. /\ mem' = Popped(s)
        /\ answered' = [answered EXCEPT ![Head(s.responseQueue)] = @ + 1]
    BY <1>7 DEF SendResponses
  <2>2. Once(Popped(s), [answered EXCEPT ![Head(s.responseQueue)] = @ + 1])
    BY <1>2, <1>4, <1>7, TakenOnce
  <2> QED BY <2>1, <2>2
<1> QED BY <1>5, <1>6, <1>7

\* The clock event moves no packet.
LEMMA TicksSame ==
    ASSUME NEW s \in State
    PROVE  SamePackets(s, Ticks(s))
BY DEF State, SamePackets, Ticks

\* Every step keeps OnceInv.
LEMMA OnceStep == PortInv /\ OnceInv /\ [Next]_vars => OnceInv'
<1> SUFFICES ASSUME PortInv, OnceInv, [Next]_vars PROVE Once(mem', answered')
  BY DEF OnceInv
<1>0. /\ mem \in State /\ Good(mem) /\ migrations \in 0 .. MaxMigrations
      /\ answered \in [Packets -> Nat] /\ Once(mem, answered)
  BY DEF PortInv, TypeOK, OnceInv
<1>1. ASSUME SamePackets(mem, mem'), answered' = answered PROVE Once(mem', answered')
  BY <1>0, <1>1, SameOnce
<1>2. ASSUME NEW p \in Packets, Send(p) PROVE Once(mem', answered')
  <2> DEFINE t == recvTimingReq(mem, p)
  <2>1. p \in mem.unsent /\ ~mem.stalled /\ mem' = t /\ answered' = answered
    BY <1>2 DEF Send
  <2>2. ~mem.retryRead /\ ~mem.retryWrite
    BY <1>0, <2>1 DEF Good
  <2>3. SamePackets(mem, t) \/ Accepts(mem, t, p)
    BY <1>0, <2>2, ReceiveEffect
  <2> HIDE DEF t
  <2>4. Once(t, answered)
    BY <1>0, <2>1, <2>3, SameOnce, AcceptOnce
  <2> QED BY <2>1, <2>4
<1>3. ASSUME NEW r \in Packets, Schedule(r) PROVE Once(mem', answered')
  <2> DEFINE s == [mem EXCEPT !.queued = @ \ {r}, !.inService = @ \cup {r}]
  <2>1. r \in mem.queued /\ mem' = Ticks(s) /\ answered' = answered
    BY <1>3 DEF Schedule
  <2>2. (mem.queued \ {r}) \in SUBSET Packets /\ (mem.inService \cup {r}) \in SUBSET Packets
    BY <1>0 DEF State
  <2>3. s \in State
    BY <1>0, <2>2, SetType, Zenon
  <2>4. Once(s, answered)
    BY <1>0, <2>1, ScheduleOnce
  <2> HIDE DEF s
  <2>5. Once(Ticks(s), answered)
    BY <2>3, <2>4, TicksSame, SameOnce
  <2> QED BY <2>1, <2>5
<1>4. ASSUME NEW r \in Packets, NEW p \in Packets \cup {NoPacket}, RequestComplete(r, p)
      PROVE  Once(mem', answered')
  <2> DEFINE s == RetryWrite(RetryRead(mem, p), p)
  <2>1. /\ r \in mem.inService /\ (p # NoPacket => p \in mem.unsent)
        /\ mem' = Ticks(Finish(s, r)) /\ answered' = answered
    BY <1>4 DEF RequestComplete
  <2>2. Once(s, answered) /\ s.inService = mem.inService
    BY <1>0, <2>1, RetriesOnce
  <2>3. Held(s)
    BY <1>0, RetriesHeld
  <2> HIDE DEF s
  <2>4. s \in State /\ Held(Finish(s, r))
    BY <2>3, FinishHeld DEF Held, Good
  <2>5. Finish(s, r) \in State
    BY <2>4 DEF Held, Good
  <2>6. Once(Finish(s, r), answered)
    BY <1>0, <2>1, <2>2, <2>4, FinishOnce
  <2>7. Once(Ticks(Finish(s, r)), answered)
    BY <2>5, <2>6, TicksSame, SameOnce
  <2> QED BY <2>1, <2>7
<1>5. CASE Idle
  BY <1>0, <1>1, <1>5, TicksSame DEF Idle
<1>6. ASSUME NEW k \in 0 .. MaxMigrations, Migrate(k) PROVE Once(mem', answered')
  BY <1>0, <1>6 DEF Migrate
<1>7. ASSUME NEW taken \in BOOLEAN, RespondEvent(taken) \/ recvRetry(taken)
      PROVE  Once(mem', answered')
  BY <1>0, <1>7, SendResponsesOnce DEF RespondEvent, recvRetry
<1>8. CASE drain
  <2>1. SamePackets(mem, mem') /\ answered' = answered
    BY <1>0, <1>8 DEF drain, State, SamePackets
  <2> QED BY <1>1, <2>1
<1>9. ASSUME NEW m \in {"timing", "atomic"}, Resume(m) PROVE Once(mem', answered')
  <2>1. SamePackets(mem, mem') /\ answered' = answered
    BY <1>0, <1>9 DEF Resume, State, SamePackets
  <2> QED BY <1>1, <2>1
<1>10. CASE recvAtomic
  <2>1. SamePackets(mem, mem') /\ answered' = answered
    BY <1>0, <1>10 DEF recvAtomic, State, SamePackets
  <2> QED BY <1>1, <2>1
<1>11. CASE UNCHANGED vars
  BY <1>0, <1>11 DEF vars
<1> QED BY <1>2, <1>3, <1>4, <1>5, <1>6, <1>7, <1>8, <1>9, <1>10, <1>11 DEF Next

\* Every packet that recvTimingReq accepts and that needs a response gets one,
\* and only one: the request of an answered write completes without another, a
\* packet sent again from within a retry is not taken twice, and no packet up
\* for deletion is answered.
THEOREM PortAnsweredOnce == Spec => []AnsweredOnce
<1>1. PortInv /\ OnceInv => AnsweredOnce
  <2> SUFFICES ASSUME PortInv, OnceInv, NEW p \in Packets
               PROVE  LET responses == answered[p] + Cardinality(
                                {i \in DOMAIN mem.responseQueue : mem.responseQueue[i] = p})
                      IN  /\ responses <= 1
                          /\ p \in mem.unsent \cup mem.pendingDelete \cup Writebacks
                                => responses = 0
                          /\ p \in Reads \cup Writes \cup Others =>
                                (responses = 1 <=> /\ p \notin mem.unsent
                                                   /\ p \in Reads => p \notin m_request_map(mem))
    BY DEF AnsweredOnce
  <2> DEFINE k == answered[p] + Cardinality(
                        {i \in DOMAIN mem.responseQueue : mem.responseQueue[i] = p})
  <2>1. Once(mem, answered)
    BY DEF OnceInv
  <2>2. (Answers(mem, p) => k = 1) /\ (~Answers(mem, p) => k = 0)
    BY <2>1 DEF Once, OneEach, Count, Places
  <2> HIDE DEF k
  <2>3. k <= 1
    BY SMTT(30), <2>2
  <2>4. p \in mem.unsent \cup mem.pendingDelete \cup Writebacks => ~Answers(mem, p)
    <3>1. Writebacks \cap Answerable = {} /\ mem.pendingDelete \cap Answerable = {}
      BY <2>1, PacketAssumption DEF Answerable, Once, Apart
    <3> QED BY <3>1 DEF Answers
  <2>5. p \in Reads \cup Writes \cup Others =>
            (Answers(mem, p) <=> /\ p \notin mem.unsent
                                 /\ p \in Reads => p \notin m_request_map(mem))
    BY DEF Answers, Answerable, m_request_map
  <2>6. Answers(mem, p) <=> k = 1
    BY SMTT(30), <2>2
  <2> QED BY <2>2, <2>3, <2>4, <2>5, <2>6 DEF k
<1> QED
  BY <1>1, OnceInit, OnceStep, PortInvariant, PTL DEF Spec
=============================================================================
