-------------------------- MODULE EventQueue_proofs --------------------------
(***************************************************************************)
(* Proofs about the event queue, for any set of events, any priorities and *)
(* any bounds.  The inductive invariant EQInv adds to NextIsEarliest the   *)
(* types of the variables it is about.  QueueInv adds that an event is in  *)
(* the map once and that every list is sorted; from it follows that the    *)
(* queue implements the timed events of TimedEvents.                       *)
(***************************************************************************)
EXTENDS EventQueue, SequenceTheorems, WellFoundedInduction, TLAPS

\* The prover of the leaves that do not name one.
USE ZenonT(30)

\* A map from cycles to lists of events, none of them empty.
GoodMap(map) ==
    /\ DOMAIN map \in SUBSET Nat
    /\ map = [c \in DOMAIN map |-> map[c]]
    /\ \A c \in DOMAIN map : map[c] \in Seq(Events) /\ map[c] # <<>>

\* The first cycle of the map is next, and none lies before now.
Cached(map, next, now) == next = FirstKey(map) /\ \A c \in DOMAIN map : c >= now

EQInv ==
    /\ GoodMap(eventMap)
    /\ currentCycle \in Nat /\ stepCycles \in Nat
    /\ Cached(eventMap, nextEventCycle, currentCycle)
    /\ processing # Never => processing = nextEventCycle /\ processing = currentCycle

\* A set of natural numbers that is not empty has a least element.
LEMMA LeastElement ==
    ASSUME NEW T \in SUBSET Nat, T # {}
    PROVE  \E n \in T : \A m \in T : n <= m
<1>1. PICK n \in T : \A m \in T : ~(<<m, n>> \in OpToRel(<, Nat))
  BY NatLessThanWellFounded, WFMin
<1>2. ASSUME NEW m \in T PROVE ~(m < n)
  BY <1>1 DEF OpToRel
<1> QED BY SMTT(30), <1>2

\* The first key is a key, and no key is smaller.
LEMMA FirstKeyCorrect ==
    ASSUME NEW map, DOMAIN map \in SUBSET Nat
    PROVE  /\ DOMAIN map = {} => FirstKey(map) = Never
           /\ DOMAIN map # {} => /\ FirstKey(map) \in DOMAIN map
                                 /\ \A d \in DOMAIN map : FirstKey(map) <= d
<1>1. CASE DOMAIN map # {}
  <2>1. \E c \in DOMAIN map : \A d \in DOMAIN map : c <= d
    BY <1>1, LeastElement
  <2> QED BY <1>1, <2>1 DEF FirstKey
<1>2. CASE DOMAIN map = {}
  BY <1>2 DEF FirstKey
<1> QED BY <1>1, <1>2

\* The least of the keys is the first key.
LEMMA FirstKeyUnique ==
    ASSUME NEW map, DOMAIN map \in SUBSET Nat,
           NEW c \in DOMAIN map, \A d \in DOMAIN map : c <= d
    PROVE  FirstKey(map) = c
<1>1. FirstKey(map) \in DOMAIN map /\ FirstKey(map) <= c
  BY FirstKeyCorrect
<1> QED BY SMTT(30), <1>1

\* InsertEvent finds a place in every list, sorted or not: after the events that
\* have its priority or a smaller number, before one with a greater number.
LEMMA PositionCorrect ==
    ASSUME NEW list \in Seq(Events), NEW p \in Int
    PROVE  /\ Position(list, p) \in 1 .. Len(list) + 1
           /\ Position(list, p) <= Len(list) => Priority[list[Position(list, p)]] > p
           /\ \A j \in 1 .. Position(list, p) - 1 : Priority[list[j]] <= p
<1> DEFINE n == Len(list) + 1
           T == {k \in 1 .. n : k <= Len(list) => Priority[list[k]] > p}
<1>1. Len(list) \in Nat /\ n \in T /\ T \in SUBSET Nat
  BY SMTT(30)
<1>2. PICK k \in T : \A m \in T : k <= m
  BY <1>1, LeastElement
<1>3. ASSUME NEW j \in 1 .. k - 1 PROVE Priority[list[j]] <= p
  <2>1. j \in 1 .. n /\ j \notin T /\ j <= Len(list)
    BY SMTT(30), <1>1, <1>2
  <2>2. ~(Priority[list[j]] > p)
    BY <2>1
  <2>3. list[j] \in Events /\ Priority[list[j]] \in Int
    BY SMTT(30), <2>1, EventAssumption
  <2> QED BY SMTT(30), <2>2, <2>3
<1>4. \E i \in 1 .. Len(list) + 1 :
          /\ i <= Len(list) => Priority[list[i]] > p
          /\ \A j \in 1 .. i - 1 : Priority[list[j]] <= p
  BY <1>1, <1>2, <1>3
<1> QED BY <1>4 DEF Position

\* An insertion leaves a longer list of events.
LEMMA InsertAtCorrect ==
    ASSUME NEW list \in Seq(Events), NEW k \in 1 .. Len(list) + 1, NEW e \in Events
    PROVE  InsertAt(list, k, e) \in Seq(Events) /\ InsertAt(list, k, e) # <<>>
<1> DEFINE front == SubSeq(list, 1, k - 1)
           back == SubSeq(list, k, Len(list))
<1>1. front \in Seq(Events) /\ back \in Seq(Events)
  BY SMTT(30)
<1> HIDE DEF front, back
<1>2. front \o <<e>> \in Seq(Events) /\ Len(front \o <<e>>) > 0
  BY SMTT(30), <1>1
<1> DEFINE head == front \o <<e>>
<1>3. ASSUME NEW h \in Seq(Events), Len(h) > 0
      PROVE  Len(h \o back) > 0 /\ h \o back \in Seq(Events)
  BY SMTT(30), <1>1, <1>3
<1>4. Len(head \o back) > 0 /\ head \o back \in Seq(Events)
  BY <1>2, <1>3
<1>5. InsertAt(list, k, e) = head \o back
  BY DEF InsertAt, front, back
<1> QED BY SMTT(30), <1>4, <1>5

\* A removal leaves a list of events.
LEMMA WithoutCorrect ==
    ASSUME NEW list \in Seq(Events), NEW e \in Elements(list)
    PROVE  Without(list, e) \in Seq(Events)
<1>1. IndexOf(list, e) \in DOMAIN list
  BY DEF IndexOf, Elements
<1> DEFINE i == IndexOf(list, e)
           front == SubSeq(list, 1, i - 1)
           back == SubSeq(list, i + 1, Len(list))
<1>2. i \in 1 .. Len(list) /\ Len(list) \in Nat
  BY SMTT(30), <1>1
<1> HIDE DEF i
<1>3. front \in Seq(Events) /\ back \in Seq(Events)
  BY SMTT(30), <1>2
<1> HIDE DEF front, back
<1>4. front \o back \in Seq(Events)
  BY SMTT(30), <1>3
<1> QED BY <1>4 DEF Without, front, back, i

\* Inserting an event for now or later keeps the map and its cached first cycle.
LEMMA InsertCorrect ==
    ASSUME EQInv, NEW e \in Events, NEW when \in Nat, when >= currentCycle
    PROVE  /\ GoodMap(WithEvent(eventMap, e, when))
           /\ Cached(WithEvent(eventMap, e, when), Earlier(when), currentCycle)
<1> DEFINE new == WithEvent(eventMap, e, when)
<1>1. DOMAIN new = DOMAIN eventMap \cup {when}
  BY DEF WithEvent
<1>2. DOMAIN eventMap \in SUBSET Nat /\ DOMAIN new \in SUBSET Nat
  BY <1>1 DEF EQInv, GoodMap
<1>3. \A c \in DOMAIN new : new[c] \in Seq(Events) /\ new[c] # <<>>
  <2> SUFFICES ASSUME NEW c \in DOMAIN new PROVE new[c] \in Seq(Events) /\ new[c] # <<>>
    OBVIOUS
  <2>1. CASE c # when
    BY <1>1, <2>1 DEF WithEvent, EQInv, GoodMap
  <2>2. CASE c = when /\ when \notin DOMAIN eventMap
    BY SMTT(30), <1>1, <2>2 DEF WithEvent
  <2>3. CASE c = when /\ when \in DOMAIN eventMap
    <3>1. eventMap[when] \in Seq(Events) /\ Priority[e] \in Int
      BY <2>3, EventAssumption DEF EQInv, GoodMap
    <3>2. Position(eventMap[when], Priority[e]) \in 1 .. Len(eventMap[when]) + 1
      BY <3>1, PositionCorrect
    <3>3. new[c] = InsertAt(eventMap[when], Position(eventMap[when], Priority[e]), e)
      BY <2>3, <1>1 DEF WithEvent
    <3> QED BY <3>1, <3>2, <3>3, InsertAtCorrect
  <2> QED BY <2>1, <2>2, <2>3
<1>4. new = [c \in DOMAIN new |-> new[c]]
  BY DEF WithEvent
<1>5. \A c \in DOMAIN new : c >= currentCycle
  BY <1>1 DEF EQInv, Cached
<1>6. Earlier(when) = FirstKey(new)
  <2> HIDE DEF new
  <2>1. CASE DOMAIN eventMap = {}
    <3>1. nextEventCycle = Never
      BY <2>1, <1>2, FirstKeyCorrect DEF EQInv, Cached
    <3>2. when \in DOMAIN new /\ \A d \in DOMAIN new : when <= d
      BY SMTT(30), <1>1, <2>1
    <3> QED BY <3>1, <3>2, <1>2, FirstKeyUnique DEF Earlier, After
  <2>2. CASE DOMAIN eventMap # {}
    <3>1. /\ nextEventCycle \in DOMAIN eventMap
          /\ \A d \in DOMAIN eventMap : nextEventCycle <= d
      BY <2>2, <1>2, FirstKeyCorrect DEF EQInv, Cached
    <3>2. nextEventCycle \in Nat /\ nextEventCycle # Never
      BY SMTT(30), <3>1, <1>2 DEF Never
    <3>3. CASE nextEventCycle > when
      <4>1. when \in DOMAIN new /\ \A d \in DOMAIN new : when <= d
        BY SMTT(30), <1>1, <1>2, <3>1, <3>2, <3>3
      <4> QED BY <4>1, <1>2, <3>3, FirstKeyUnique DEF Earlier, After
    <3>4. CASE ~(nextEventCycle > when)
      <4>1. nextEventCycle \in DOMAIN new /\ \A d \in DOMAIN new : nextEventCycle <= d
        BY SMTT(30), <1>1, <1>2, <3>1, <3>2, <3>4
      <4> QED BY <4>1, <1>2, <3>2, <3>4, FirstKeyUnique DEF Earlier, After
    <3> QED BY <3>3, <3>4
  <2> QED BY <2>1, <2>2
<1> QED BY <1>2, <1>3, <1>4, <1>5, <1>6 DEF GoodMap, Cached

\* Removing an event, and the cycle with its last event, keeps the map.
LEMMA RemoveCorrect ==
    ASSUME EQInv, NEW e, NEW when, RemoveEvent(e, when)
    PROVE  GoodMap(eventMap') /\ Cached(eventMap', nextEventCycle', currentCycle)
<1> DEFINE rest == Without(eventMap[when], e)
<1>1. when \in DOMAIN eventMap /\ eventMap[when] \in Seq(Events)
  BY DEF RemoveEvent, EQInv, GoodMap
<1>2. rest \in Seq(Events)
  BY <1>1, WithoutCorrect DEF RemoveEvent
<1>3. eventMap' = IF rest = <<>> THEN [c \in DOMAIN eventMap \ {when} |-> eventMap[c]]
                  ELSE [eventMap EXCEPT ![when] = rest]
  BY DEF RemoveEvent
<1> HIDE DEF rest
<1>4. GoodMap(eventMap') /\ DOMAIN eventMap' \in SUBSET DOMAIN eventMap
  <2>1. CASE rest = <<>>
    BY <1>3, <2>1 DEF EQInv, GoodMap
  <2>2. CASE rest # <<>>
    <3>1. eventMap' = [c \in DOMAIN eventMap |-> IF c = when THEN rest ELSE eventMap[c]]
      BY <1>1, <1>3, <2>2 DEF EQInv, GoodMap
    <3> QED BY <1>2, <2>2, <3>1 DEF EQInv, GoodMap
  <2> QED BY <2>1, <2>2
<1>5. nextEventCycle' = FirstKey(eventMap')
  BY DEF RemoveEvent
<1> QED BY <1>4, <1>5 DEF Cached, EQInv

\* The invariant holds of the empty queue.
LEMMA EQInvInit == EQInit => EQInv
<1> SUFFICES ASSUME EQInit PROVE EQInv
  OBVIOUS
<1>1. DOMAIN eventMap = {}
  BY DEF EQInit
<1>2. FirstKey(eventMap) = Never
  BY <1>1 DEF FirstKey
<1> QED BY <1>1, <1>2 DEF EQInit, EQInv, GoodMap, Cached

\* Every step keeps the cached cycle and the list being processed right.
LEMMA EQInvStep == EQInv /\ [EQNext]_eqVars => EQInv'
<1> SUFFICES ASSUME EQInv, [EQNext]_eqVars PROVE EQInv'
  OBVIOUS
<1>0. /\ currentCycle \in Nat /\ stepCycles \in Nat /\ GoodMap(eventMap)
      /\ Cached(eventMap, nextEventCycle, currentCycle)
  BY DEF EQInv
<1>n. nextEventCycle # Never => nextEventCycle \in Nat /\ nextEventCycle >= currentCycle
  BY <1>0, FirstKeyCorrect DEF GoodMap, Cached
<1>s. \A when \in Soon : when \in Nat /\ when >= currentCycle
  BY SMTT(30), <1>0, EventAssumption DEF Soon
<1>1. ASSUME NEW e \in Events, NEW when \in Soon, InsertEvent(e, when) PROVE EQInv'
  <2>1. GoodMap(eventMap') /\ Cached(eventMap', nextEventCycle', currentCycle)
    BY <1>1, <1>s, InsertCorrect DEF InsertEvent
  <2> QED BY <1>0, <1>1, <2>1 DEF InsertEvent, EQInv, Outside, GoodMap, Cached, FirstKey
<1>2. ASSUME NEW e \in Events, NEW when \in DOMAIN eventMap, RemoveEvent(e, when) PROVE EQInv'
  <2>1. GoodMap(eventMap') /\ Cached(eventMap', nextEventCycle', currentCycle)
    BY <1>2, RemoveCorrect
  <2> QED BY <1>0, <1>2, <2>1 DEF RemoveEvent, EQInv, Outside, GoodMap, Cached, FirstKey
<1>3. ASSUME NEW steps \in 0 .. MaxSteps, Loop(steps) PROVE EQInv'
  <2>1. steps \in Nat
    BY SMTT(30), EventAssumption
  <2> QED BY <1>0, <1>3, <2>1 DEF Loop, Process, EQInv, Outside, GoodMap, Cached, FirstKey
<1>4. CASE LoopIteration
  <2>1. CASE Skipped
    <3>1. ASSUME NEW c \in DOMAIN eventMap PROVE c >= currentCycle + stepCycles
      <4>1. DOMAIN eventMap \in SUBSET Nat /\ nextEventCycle = FirstKey(eventMap)
        BY <1>0 DEF GoodMap, Cached
      <4>2. nextEventCycle \in DOMAIN eventMap /\ nextEventCycle <= c
        BY <4>1, FirstKeyCorrect
      <4>3. nextEventCycle \in Nat /\ c \in Nat
        BY <4>1, <4>2
      <4>4. nextEventCycle > currentCycle + stepCycles
        BY SMTT(30), <2>1, <4>3 DEF Skipped, After, Never
      <4> QED BY SMTT(30), <1>0, <4>2, <4>3, <4>4
    <3> QED BY SMTT(30), <1>0, <1>4, <2>1, <3>1
            DEF LoopIteration, EQInv, GoodMap, Cached, FirstKey
  <2>2. CASE ~Skipped
    <3>1. nextEventCycle \in Nat /\ nextEventCycle >= currentCycle
          /\ nextEventCycle <= currentCycle + stepCycles
      BY SMTT(30), <1>0, <1>n, <2>2 DEF Skipped, After
    <3>2. \A c \in DOMAIN eventMap : c >= nextEventCycle
      BY <1>0, FirstKeyCorrect DEF GoodMap, Cached
    <3>3. /\ currentCycle' = nextEventCycle /\ processing' = nextEventCycle
          /\ stepCycles' = stepCycles - (nextEventCycle - currentCycle)
          /\ UNCHANGED <<eventMap, nextEventCycle>>
      BY <1>4, <2>2 DEF LoopIteration, Process
    <3>4. currentCycle' \in Nat /\ stepCycles' \in Nat
      BY SMTT(30), <1>0, <3>1, <3>3
    <3> QED BY <1>0, <3>2, <3>3, <3>4 DEF EQInv, GoodMap, Cached, FirstKey
  <2> QED BY <2>1, <2>2
<1>5. ASSUME NEW when \in Soon, NEW new \in {{}} \cup {{f} : f \in Events}, Handle(new, when)
      PROVE  EQInv'
  <2>1. UNCHANGED <<currentCycle, stepCycles, processing>> /\ processing # Never
    BY <1>5 DEF Handle
  <2>2. nextEventCycle = currentCycle /\ processing = currentCycle
    BY <2>1 DEF EQInv
  <2>3. CASE UNCHANGED <<eventMap, nextEventCycle>>
    BY <2>1, <2>3 DEF EQInv, GoodMap, Cached, FirstKey
  <2>4. ASSUME NEW f \in new, eventMap' = WithEvent(eventMap, f, when),
               nextEventCycle' = Earlier(when)
        PROVE  EQInv'
    <3>0. f \in Events
      BY <2>4
    <3>1. GoodMap(eventMap') /\ Cached(eventMap', nextEventCycle', currentCycle)
      BY <1>s, <3>0, <2>4, InsertCorrect
    <3>2. nextEventCycle' = nextEventCycle
      BY SMTT(30), <1>0, <1>s, <2>2, <2>4 DEF Earlier, After, Never
    <3> QED BY <1>0, <2>1, <2>2, <3>1, <3>2 DEF EQInv, GoodMap, Cached, FirstKey
  <2> QED BY <1>5, <2>3, <2>4 DEF Handle
<1>6. CASE EndProcess
  <2>1. /\ eventMap' = [c \in DOMAIN eventMap \ {nextEventCycle} |-> eventMap[c]]
        /\ nextEventCycle' = FirstKey(eventMap') /\ processing' = Never
        /\ UNCHANGED <<currentCycle, stepCycles>>
    BY <1>6 DEF EndProcess
  <2>2. GoodMap(eventMap') /\ Cached(eventMap', nextEventCycle', currentCycle)
    BY <1>0, <2>1 DEF GoodMap, Cached
  <2> QED BY <1>0, <2>1, <2>2 DEF EQInv, GoodMap, Cached, FirstKey
<1>7. CASE UNCHANGED eqVars
  BY SMTT(30), <1>7 DEF eqVars, EQInv, GoodMap, Cached, FirstKey
<1> QED BY <1>1, <1>2, <1>3, <1>4, <1>5, <1>6, <1>7 DEF EQNext

\* It therefore always holds.
LEMMA EQInvAlways == EQSpec => []EQInv
BY EQInvInit, EQInvStep, PTL DEF EQSpec

\* The cached nextEventCycle is always the first cycle of the map, so that Loop
\* never subtracts past zero and Process always finds a list.
THEOREM QueueNextIsEarliest == EQSpec => []NextIsEarliest
<1>1. EQInv => NextIsEarliest
  BY DEF EQInv, NextIsEarliest, GoodMap, Cached
<1> QED BY <1>1, EQInvAlways, PTL

\* Loop( steps ) advances the time by steps and never turns it back.
THEOREM QueueTimeAdvances == EQSpec => TimeAdvances
<1>1. ASSUME EQInv, [EQNext]_eqVars
      PROVE  [/\ currentCycle' >= currentCycle
              /\ stepCycles > 0 => currentCycle' + stepCycles' = currentCycle + stepCycles]_eqVars
  <2>0. currentCycle \in Nat /\ stepCycles \in Nat
    BY <1>1 DEF EQInv
  <2>n. nextEventCycle # Never => nextEventCycle \in Nat /\ nextEventCycle >= currentCycle
    BY <1>1, FirstKeyCorrect DEF EQInv, GoodMap, Cached
  <2>1. CASE LoopIteration
    BY SMTT(30), <2>0, <2>n, <2>1 DEF LoopIteration, Process, Skipped, After
  <2>2. CASE UNCHANGED <<currentCycle, stepCycles>>
    BY SMTT(30), <2>0, <2>2
  <2>3. ASSUME NEW steps, Loop(steps) PROVE stepCycles = 0 /\ currentCycle' = currentCycle
    BY <2>3 DEF Loop, Outside
  <2>4. ASSUME NEW e, NEW when, InsertEvent(e, when) \/ RemoveEvent(e, when) \/ Handle(e, when)
        PROVE  UNCHANGED <<currentCycle, stepCycles>>
    BY <2>4 DEF InsertEvent, RemoveEvent, Handle
  <2>5. EndProcess => UNCHANGED <<currentCycle, stepCycles>>
    BY DEF EndProcess
  <2>6. UNCHANGED eqVars => UNCHANGED <<currentCycle, stepCycles>>
    BY DEF eqVars
  <2>7. \/ UNCHANGED <<currentCycle, stepCycles>> \/ LoopIteration
        \/ stepCycles = 0 /\ currentCycle' = currentCycle
    BY <1>1, <2>3, <2>4, <2>5, <2>6 DEF EQNext
  <2>8. CASE stepCycles = 0 /\ currentCycle' = currentCycle
    BY SMTT(30), <2>0, <2>8
  <2> QED BY <2>1, <2>2, <2>7, <2>8
<1> QED BY <1>1, EQInvAlways, PTL DEF EQSpec, TimeAdvances

-----------------------------------------------------------------------------
(* The queue implements timed events. *)

\* No event has two places in the map.
Unique(map) ==
    \A c, d \in DOMAIN map : \A i \in 1 .. Len(map[c]), j \in 1 .. Len(map[d]) :
        map[c][i] = map[d][j] => c = d /\ i = j

\* Every list is in the order of the priorities.
Ordered(map) ==
    \A c \in DOMAIN map : \A i, j \in 1 .. Len(map[c]) :
        i <= j => Priority[map[c][i]] <= Priority[map[c][j]]

Outcomes == {"new", "waiting", "ran", "removed"}

\* What the refinement rests on, besides EQInv: each event is in one place, the
\* lists are ordered, and the iterator stands in its list or at the end of it.
QueueInv ==
    /\ EQInv
    /\ Unique(eventMap) /\ Ordered(eventMap)
    /\ outcome \in [Events -> Outcomes]
    /\ processing # Never => it \in 1 .. Len(eventMap[processing]) + 1

\* Waiting and Due of a map whose cycle from is processed from position k on.
WaitingIn(map, from, k, c) ==
    {map[c][i] : i \in {j \in DOMAIN map[c] : c = from => j >= k}}
DueIn(map, from, k, e) ==
    IF \E c \in DOMAIN map : e \in WaitingIn(map, from, k, c)
    THEN CHOOSE c \in DOMAIN map : e \in WaitingIn(map, from, k, c)
    ELSE Never

\* Event e waits for cycle c.
Holds(map, from, k, e, c) ==
    /\ c \in DOMAIN map
    /\ \E i \in 1 .. Len(map[c]) : map[c][i] = e /\ (c = from => i >= k)

\* The cycle an event waits for is well defined.
LEMMA DueIs ==
    ASSUME NEW map, GoodMap(map), Unique(map), NEW from, NEW k, NEW e
    PROVE  /\ \A c : Holds(map, from, k, e, c) => DueIn(map, from, k, e) = c
           /\ (\A c : ~Holds(map, from, k, e, c)) => DueIn(map, from, k, e) = Never
           /\ DueIn(map, from, k, e) \in Int
           /\ DueIn(map, from, k, e) # Never => Holds(map, from, k, e, DueIn(map, from, k, e))
<1>1. ASSUME NEW c \in DOMAIN map
      PROVE  e \in WaitingIn(map, from, k, c) <=> Holds(map, from, k, e, c)
  <2>1. DOMAIN map[c] = 1 .. Len(map[c])
    BY SMTT(30) DEF GoodMap
  <2> QED BY <2>1 DEF WaitingIn, Holds
<1>2. ASSUME NEW c, NEW d, Holds(map, from, k, e, c), Holds(map, from, k, e, d) PROVE c = d
  BY <1>2 DEF Holds, Unique
<1>3. ASSUME NEW c, Holds(map, from, k, e, c) PROVE DueIn(map, from, k, e) = c
  <2>1. c \in DOMAIN map /\ e \in WaitingIn(map, from, k, c)
    BY <1>1, <1>3 DEF Holds
  <2>2. DueIn(map, from, k, e) = CHOOSE d \in DOMAIN map : e \in WaitingIn(map, from, k, d)
    BY <2>1 DEF DueIn
  <2>3. DueIn(map, from, k, e) \in DOMAIN map /\ e \in WaitingIn(map, from, k, DueIn(map, from, k, e))
    BY <2>1, <2>2
  <2> QED BY <1>1, <1>2, <1>3, <2>3
<1>4. ASSUME \A c : ~Holds(map, from, k, e, c) PROVE DueIn(map, from, k, e) = Never
  BY <1>1, <1>4 DEF DueIn
<1>5. DueIn(map, from, k, e) \in Int
  <2>1. ASSUME NEW c, Holds(map, from, k, e, c) PROVE c \in Int
    BY SMTT(30), <2>1 DEF Holds, GoodMap
  <2>2. Never \in Int
    BY SMTT(30) DEF Never
  <2> QED BY <1>3, <1>4, <2>1, <2>2
<1>6. DueIn(map, from, k, e) # Never => Holds(map, from, k, e, DueIn(map, from, k, e))
  BY <1>3, <1>4
<1> QED BY <1>3, <1>4, <1>5, <1>6

\* An event that waits for the same cycles in two maps is due at the same cycle.
LEMMA SameDue ==
    ASSUME NEW map, GoodMap(map), Unique(map), NEW from, NEW k,
           NEW new, GoodMap(new), Unique(new), NEW from2, NEW k2, NEW e,
           \A c : Holds(map, from, k, e, c) <=> Holds(new, from2, k2, e, c)
    PROVE  DueIn(map, from, k, e) = DueIn(new, from2, k2, e)
<1>1. CASE \E c : Holds(map, from, k, e, c)
  BY <1>1, DueIs
<1>2. CASE \A c : ~Holds(map, from, k, e, c)
  BY <1>2, DueIs
<1> QED BY <1>1, <1>2

\* List n is list old with e put at position k, among the events of its priority
\* the last.
Shifted(old, n, k, e) ==
    /\ k \in 1 .. Len(old) + 1 /\ Len(n) = Len(old) + 1 /\ n[k] = e
    /\ \A i \in 1 .. k - 1 : n[i] = old[i] /\ Priority[old[i]] <= Priority[e]
    /\ \A i \in k + 1 .. Len(n) : n[i] = old[i - 1]
    /\ k <= Len(old) => Priority[old[k]] > Priority[e]

\* The entries of two lists in a row.
LEMMA Joined ==
    ASSUME NEW a \in Seq(Events), NEW b \in Seq(Events)
    PROVE  /\ a \o b \in Seq(Events) /\ Len(a \o b) = Len(a) + Len(b)
           /\ \A i \in 1 .. Len(a) : (a \o b)[i] = a[i]
           /\ \A i \in Len(a) + 1 .. Len(a) + Len(b) : (a \o b)[i] = b[i - Len(a)]
<1>1. /\ a \o b \in Seq(Events) /\ Len(a \o b) = Len(a) + Len(b)
      /\ \A i \in 1 .. Len(a) + Len(b) : (a \o b)[i] = IF i <= Len(a) THEN a[i] ELSE b[i - Len(a)]
  BY ConcatProperties
<1>2. Len(a) \in Nat /\ Len(b) \in Nat
  BY SMTT(30)
<1>3. ASSUME NEW i \in 1 .. Len(a) PROVE (a \o b)[i] = a[i]
  BY SMTT(30), <1>1, <1>2
<1>4. ASSUME NEW i \in Len(a) + 1 .. Len(a) + Len(b) PROVE (a \o b)[i] = b[i - Len(a)]
  BY SMTT(30), <1>1, <1>2
<1> QED BY <1>1, <1>3, <1>4

\* The entries of a list after an insertion at position k.
LEMMA InsertAtEntries ==
    ASSUME NEW list \in Seq(Events), NEW k \in 1 .. Len(list) + 1, NEW e \in Events
    PROVE  /\ Len(InsertAt(list, k, e)) = Len(list) + 1
           /\ InsertAt(list, k, e)[k] = e
           /\ \A i \in 1 .. k - 1 : InsertAt(list, k, e)[i] = list[i]
           /\ \A i \in k + 1 .. Len(list) + 1 : InsertAt(list, k, e)[i] = list[i - 1]
<1> DEFINE front == SubSeq(list, 1, k - 1)
           back == SubSeq(list, k, Len(list))
           one == <<e>>
<1>1. /\ front \in Seq(Events) /\ Len(front) = k - 1
      /\ \A i \in 1 .. k - 1 : front[i] = list[i]
  BY SMTT(30)
<1>2. /\ back \in Seq(Events) /\ Len(back) = Len(list) + 1 - k
      /\ \A i \in 1 .. Len(back) : back[i] = list[k + i - 1]
  BY SMTT(30)
<1>3. one \in Seq(Events) /\ Len(one) = 1 /\ one[1] = e
  BY SMTT(30)
<1>4. InsertAt(list, k, e) = (front \o one) \o back
  BY DEF InsertAt
<1> HIDE DEF front, back, one
<1>5. PICK h \in Seq(Events) : h = front \o one
  BY <1>1, <1>3, Joined
<1>6. PICK all \in Seq(Events) : all = h \o back
  BY <1>2, <1>5, Joined
<1>7. /\ Len(h) = Len(front) + Len(one)
      /\ \A i \in 1 .. Len(front) : h[i] = front[i]
      /\ \A i \in Len(front) + 1 .. Len(front) + Len(one) : h[i] = one[i - Len(front)]
  <2>1. front \in Seq(Events) /\ one \in Seq(Events)
    BY <1>1, <1>3
  <2>2. /\ Len(front \o one) = Len(front) + Len(one)
        /\ \A i \in 1 .. Len(front) : (front \o one)[i] = front[i]
        /\ \A i \in Len(front) + 1 .. Len(front) + Len(one) : (front \o one)[i] = one[i - Len(front)]
    BY <2>1, Joined
  <2> QED BY <2>2, <1>5
<1>8. /\ Len(all) = Len(h) + Len(back)
      /\ \A i \in 1 .. Len(h) : all[i] = h[i]
      /\ \A i \in Len(h) + 1 .. Len(h) + Len(back) : all[i] = back[i - Len(h)]
  <2>1. h \in Seq(Events) /\ back \in Seq(Events)
    BY <1>2, <1>5
  <2>2. /\ Len(h \o back) = Len(h) + Len(back)
        /\ \A i \in 1 .. Len(h) : (h \o back)[i] = h[i]
        /\ \A i \in Len(h) + 1 .. Len(h) + Len(back) : (h \o back)[i] = back[i - Len(h)]
    BY <2>1, Joined
  <2> QED BY ONLY ZenonT(30), <2>2, <1>6
<1>9. Len(h) = k /\ h[k] = e /\ \A i \in 1 .. k - 1 : h[i] = list[i]
  <2>1. k \in Nat /\ Len(list) \in Nat
    BY SMTT(30)
  <2>2. Len(h) = k /\ k \in Len(front) + 1 .. Len(front) + Len(one) /\ k - Len(front) = 1
    BY ONLY SMTT(30), <1>1, <1>3, <1>7, <2>1
  <2>3. h[k] = e
    BY <1>3, <1>7, <2>2
  <2> QED BY <1>1, <1>7, <2>2, <2>3
<1>10. ASSUME NEW i \in k + 1 .. Len(list) + 1 PROVE all[i] = list[i - 1]
  <2>1. i - k \in 1 .. Len(back) /\ k + (i - k) - 1 = i - 1
    BY SMTT(30), <1>2
  <2>2. all[i] = back[i - k]
    BY SMTT(30), <1>2, <1>8, <1>9
  <2> QED BY <1>2, <2>1, <2>2
<1>11. Len(all) = Len(list) + 1 /\ all[k] = e /\ \A i \in 1 .. k - 1 : all[i] = list[i]
  BY SMTT(30), <1>2, <1>8, <1>9
<1>12. all = InsertAt(list, k, e)
  BY <1>4, <1>5, <1>6
<1> QED BY <1>10, <1>11, <1>12

\* The list of a cycle, empty when it has no events.
ListAt(map, when) == IF when \in DOMAIN map THEN map[when] ELSE <<>>

\* Map new is map with e inserted for cycle when, at position k of its list.
Grown(map, new, when, k, e) ==
    /\ DOMAIN new = DOMAIN map \cup {when}
    /\ \A c \in DOMAIN map \ {when} : new[c] = map[c]
    /\ Shifted(ListAt(map, when), new[when], k, e)

\* Event e is nowhere in the map.
Absent(map, e) == \A c \in DOMAIN map : \A i \in 1 .. Len(map[c]) : map[c][i] # e

\* The list of a cycle is a list of events, empty when the cycle has none.
LEMMA ListAtTyped ==
    ASSUME NEW map, GoodMap(map), NEW when
    PROVE  ListAt(map, when) \in Seq(Events)
BY SMTT(30) DEF ListAt, GoodMap

\* What InsertEvent does to the map.
LEMMA InsertGrows ==
    ASSUME NEW map, GoodMap(map), NEW e \in Events, NEW when \in Nat
    PROVE  \E k : Grown(map, WithEvent(map, e, when), when, k, e)
<1> DEFINE new == WithEvent(map, e, when)
<1>1. DOMAIN new = DOMAIN map \cup {when} /\ \A c \in DOMAIN map \ {when} : new[c] = map[c]
  BY DEF WithEvent
<1>2. Priority[e] \in Int
  BY EventAssumption
<1>3. CASE when \notin DOMAIN map
  <2>1. new[when] = <<e>> /\ ListAt(map, when) = <<>>
    BY <1>3 DEF WithEvent, ListAt
  <2>2. Shifted(<<>>, <<e>>, 1, e)
    BY SMTT(30) DEF Shifted
  <2> QED BY <1>1, <2>1, <2>2 DEF Grown
<1>4. CASE when \in DOMAIN map
  <2> DEFINE list == map[when]
             k == Position(list, Priority[e])
  <2>1. list \in Seq(Events) /\ ListAt(map, when) = list
    BY <1>4 DEF GoodMap, ListAt
  <2>2. /\ k \in 1 .. Len(list) + 1
        /\ k <= Len(list) => Priority[list[k]] > Priority[e]
        /\ \A j \in 1 .. k - 1 : Priority[list[j]] <= Priority[e]
    BY <1>2, <2>1, PositionCorrect
  <2>3. new[when] = InsertAt(list, k, e)
    BY <1>4 DEF WithEvent
  <2> HIDE DEF list, k
  <2>4. /\ Len(InsertAt(list, k, e)) = Len(list) + 1
        /\ InsertAt(list, k, e)[k] = e
        /\ \A i \in 1 .. k - 1 : InsertAt(list, k, e)[i] = list[i]
        /\ \A i \in k + 1 .. Len(list) + 1 : InsertAt(list, k, e)[i] = list[i - 1]
    BY <2>1, <2>2, InsertAtEntries
  <2>5. Shifted(list, InsertAt(list, k, e), k, e)
    BY <2>2, <2>4 DEF Shifted
  <2> QED BY <1>1, <2>1, <2>3, <2>5 DEF Grown
<1> QED BY <1>3, <1>4

\* The entries of a list and of the list with an event put into it.
LEMMA ShiftedEntries ==
    ASSUME NEW old \in Seq(Events), NEW n, NEW k, NEW e, Shifted(old, n, k, e)
    PROVE  /\ \A i \in 1 .. Len(n) : i # k =>
                \E j \in 1 .. Len(old) : n[i] = old[j] /\ i = IF j < k THEN j ELSE j + 1
           /\ \A j \in 1 .. Len(old) : n[IF j < k THEN j ELSE j + 1] = old[j]
<1>1. k \in 1 .. Len(old) + 1 /\ Len(old) \in Nat /\ Len(n) = Len(old) + 1
  BY SMTT(30) DEF Shifted
<1>2. ASSUME NEW i \in 1 .. Len(n), i # k
      PROVE  \E j \in 1 .. Len(old) : n[i] = old[j] /\ i = IF j < k THEN j ELSE j + 1
  <2>1. CASE i < k
    BY SMTT(30), <1>1, <1>2, <2>1 DEF Shifted
  <2>2. CASE i > k
    <3>1. i - 1 \in 1 .. Len(old) /\ i \in k + 1 .. Len(n) /\ ~(i - 1 < k) /\ (i - 1) + 1 = i
      BY SMTT(30), <1>1, <1>2, <2>2
    <3> QED BY <3>1 DEF Shifted
  <2> QED BY SMTT(30), <1>1, <1>2, <2>1, <2>2
<1>3. ASSUME NEW j \in 1 .. Len(old) PROVE n[IF j < k THEN j ELSE j + 1] = old[j]
  <2>1. CASE j < k
    BY SMTT(30), <1>1, <2>1 DEF Shifted
  <2>2. CASE ~(j < k)
    <3>1. j + 1 \in k + 1 .. Len(n) /\ (j + 1) - 1 = j
      BY SMTT(30), <1>1, <2>2
    <3> QED BY <2>2, <3>1 DEF Shifted
  <2> QED BY <2>1, <2>2
<1> QED BY <1>2, <1>3

\* An insertion keeps the lists ordered.
LEMMA InsertOrdered ==
    ASSUME NEW map, GoodMap(map), Ordered(map), NEW e \in Events,
           NEW new, NEW when, NEW k, Grown(map, new, when, k, e)
    PROVE  Ordered(new)
<1> DEFINE old == ListAt(map, when)
           n == new[when]
<1>0. old \in Seq(Events) /\ Len(old) \in Nat /\ Shifted(old, n, k, e)
  BY SMTT(30), ListAtTyped DEF Grown
<1>o. \A i, j \in 1 .. Len(old) : i <= j => Priority[old[i]] <= Priority[old[j]]
  <2>1. CASE when \in DOMAIN map
    BY <2>1 DEF Ordered, ListAt
  <2>2. CASE when \notin DOMAIN map
    BY SMTT(30), <2>2 DEF ListAt
  <2> QED BY <2>1, <2>2
<1>p. Priority[e] \in Int /\ \A i \in 1 .. Len(old) : Priority[old[i]] \in Int
  BY SMTT(30), <1>0, EventAssumption
<1> HIDE DEF old, n
<1>e. \A i \in 1 .. Len(n) : i # k =>
          \E j \in 1 .. Len(old) : n[i] = old[j] /\ i = IF j < k THEN j ELSE j + 1
  BY SMTT(30), <1>0, ShiftedEntries
<1>k. k \in 1 .. Len(old) + 1 /\ Len(n) = Len(old) + 1 /\ n[k] = e
  BY <1>0 DEF Shifted
<1>l. \A j \in 1 .. Len(old) : j < k => Priority[old[j]] <= Priority[e]
  BY SMTT(30), <1>0, <1>k DEF Shifted
<1>r. \A j \in 1 .. Len(old) : j >= k => Priority[old[j]] > Priority[e]
  <2> SUFFICES ASSUME NEW j \in 1 .. Len(old), j >= k PROVE Priority[old[j]] > Priority[e]
    OBVIOUS
  <2>1. k \in 1 .. Len(old) /\ Priority[old[k]] > Priority[e]
    BY SMTT(30), <1>0, <1>k DEF Shifted
  <2>2. Priority[old[k]] <= Priority[old[j]]
    BY <1>o, <2>1
  <2> QED BY SMTT(30), <1>p, <2>1, <2>2
<1>1. ASSUME NEW i \in 1 .. Len(n), NEW j \in 1 .. Len(n), i <= j
      PROVE  Priority[n[i]] <= Priority[n[j]]
  <2>1. CASE i = k /\ j = k
    BY SMTT(30), <1>p, <1>k, <2>1
  <2>2. CASE i # k /\ j = k
    <3>1. PICK a \in 1 .. Len(old) : n[i] = old[a] /\ i = IF a < k THEN a ELSE a + 1
      BY <1>e, <2>2
    <3> QED BY SMTT(30), <1>1, <1>k, <1>l, <2>2, <3>1
  <2>3. CASE i = k /\ j # k
    <3>1. PICK b \in 1 .. Len(old) : n[j] = old[b] /\ j = IF b < k THEN b ELSE b + 1
      BY <1>e, <2>3
    <3>2. b >= k
      BY SMTT(30), <1>1, <1>k, <2>3, <3>1
    <3> QED BY SMTT(30), <1>p, <1>k, <1>r, <2>3, <3>1, <3>2
  <2>4. CASE i # k /\ j # k
    <3>1. PICK a \in 1 .. Len(old) : n[i] = old[a] /\ i = IF a < k THEN a ELSE a + 1
      BY <1>e, <2>4
    <3>2. PICK b \in 1 .. Len(old) : n[j] = old[b] /\ j = IF b < k THEN b ELSE b + 1
      BY <1>e, <2>4
    <3>3. a <= b
      BY SMTT(30), <1>0, <1>1, <1>k, <3>1, <3>2
    <3> QED BY <1>o, <3>1, <3>2, <3>3
  <2> QED BY <2>1, <2>2, <2>3, <2>4
<1>2. ASSUME NEW c \in DOMAIN new, c # when, NEW i \in 1 .. Len(new[c]), NEW j \in 1 .. Len(new[c]), i <= j
      PROVE  Priority[new[c][i]] <= Priority[new[c][j]]
  BY <1>2 DEF Grown, Ordered
<1> QED BY <1>1, <1>2 DEF Ordered, n

\* Where position j of the list of cycle c goes when position k of cycle when is taken.
Moved(c, j, when, k) == IF c # when \/ j < k THEN j ELSE j + 1

\* The places of the new map are those of the old one and the place of e.
LEMMA GrownPlaces ==
    ASSUME NEW map, GoodMap(map), NEW e, NEW new, NEW when, NEW k, Grown(map, new, when, k, e)
    PROVE  /\ when \in DOMAIN new /\ k \in 1 .. Len(new[when]) /\ new[when][k] = e
           /\ \A c \in DOMAIN new : \A i \in 1 .. Len(new[c]) :
                 (c = when /\ i = k) \/
                 (c \in DOMAIN map /\ \E j \in 1 .. Len(map[c]) :
                      new[c][i] = map[c][j] /\ i = Moved(c, j, when, k))
           /\ \A c \in DOMAIN map : \A j \in 1 .. Len(map[c]) :
                 /\ c \in DOMAIN new /\ Moved(c, j, when, k) \in 1 .. Len(new[c])
                 /\ new[c][Moved(c, j, when, k)] = map[c][j]
<1> DEFINE old == ListAt(map, when)
           n == new[when]
<1>0. /\ old \in Seq(Events) /\ Len(old) \in Nat /\ Shifted(old, n, k, e)
      /\ DOMAIN new = DOMAIN map \cup {when} /\ \A c \in DOMAIN map \ {when} : new[c] = map[c]
  BY SMTT(30), ListAtTyped DEF Grown
<1>1. /\ when \in DOMAIN map => old = map[when]
      /\ when \notin DOMAIN map => Len(old) = 0
  BY DEF ListAt
<1>t. \A c \in DOMAIN map : Len(map[c]) \in Nat
  BY SMTT(30) DEF GoodMap
<1> HIDE DEF old, n
<1>2. k \in 1 .. Len(old) + 1 /\ Len(n) = Len(old) + 1 /\ n[k] = e
  BY <1>0 DEF Shifted
<1>3. /\ \A i \in 1 .. Len(n) : i # k =>
            \E j \in 1 .. Len(old) : n[i] = old[j] /\ i = IF j < k THEN j ELSE j + 1
      /\ \A j \in 1 .. Len(old) : n[IF j < k THEN j ELSE j + 1] = old[j]
  BY <1>0, ShiftedEntries
<1>4. ASSUME NEW c \in DOMAIN new, NEW i \in 1 .. Len(new[c]), ~(c = when /\ i = k)
      PROVE  /\ c \in DOMAIN map
             /\ \E j \in 1 .. Len(map[c]) : new[c][i] = map[c][j] /\ i = Moved(c, j, when, k)
  <2>1. CASE c # when
    BY <1>0, <1>4, <2>1 DEF Moved
  <2>2. CASE c = when
    <3>1. i \in 1 .. Len(n) /\ i # k
      BY <1>4, <2>2 DEF n
    <3>2. PICK j \in 1 .. Len(old) : n[i] = old[j] /\ i = IF j < k THEN j ELSE j + 1
      BY <1>3, <3>1
    <3>3. when \in DOMAIN map
      BY SMTT(30), <1>1, <3>2
    <3> QED BY <1>1, <2>2, <3>2, <3>3 DEF Moved, n
  <2> QED BY <2>1, <2>2
<1>5. ASSUME NEW c \in DOMAIN map, NEW j \in 1 .. Len(map[c])
      PROVE  /\ c \in DOMAIN new /\ Moved(c, j, when, k) \in 1 .. Len(new[c])
             /\ new[c][Moved(c, j, when, k)] = map[c][j]
  <2>1. CASE c # when
    BY <1>0, <2>1 DEF Moved
  <2>2. CASE c = when
    BY SMTT(30), <1>0, <1>1, <1>2, <1>3, <1>t, <2>2 DEF Moved, n
  <2> QED BY <2>1, <2>2
<1>6. when \in DOMAIN new /\ k \in 1 .. Len(new[when]) /\ new[when][k] = e
  BY <1>0, <1>2 DEF n
<1> QED BY <1>4, <1>5, <1>6

\* An insertion of an event that is not in the map gives no event two places.
LEMMA InsertUnique ==
    ASSUME NEW map, GoodMap(map), Unique(map), NEW e, Absent(map, e),
           NEW new, NEW when, NEW k, Grown(map, new, when, k, e)
    PROVE  Unique(new)
<1>1. /\ when \in DOMAIN new /\ k \in 1 .. Len(new[when]) /\ new[when][k] = e
      /\ \A c \in DOMAIN new : \A i \in 1 .. Len(new[c]) :
            (c = when /\ i = k) \/
            (c \in DOMAIN map /\ \E j \in 1 .. Len(map[c]) :
                 new[c][i] = map[c][j] /\ i = Moved(c, j, when, k))
  BY SMTT(30), GrownPlaces
<1> SUFFICES ASSUME NEW c \in DOMAIN new, NEW d \in DOMAIN new,
                    NEW i \in 1 .. Len(new[c]), NEW j \in 1 .. Len(new[d]), new[c][i] = new[d][j]
             PROVE  c = d /\ i = j
  BY DEF Unique
<1>p. ASSUME NEW x \in DOMAIN new, NEW n \in 1 .. Len(new[x]), new[x][n] = e
      PROVE  x = when /\ n = k
  <2>1. ASSUME NEW m \in 1 .. Len(map[x]), x \in DOMAIN map PROVE new[x][n] # map[x][m]
    BY <1>p, <2>1 DEF Absent
  <2>2. \/ x = when /\ n = k
        \/ x \in DOMAIN map /\ \E m \in 1 .. Len(map[x]) : new[x][n] = map[x][m]
    BY <1>1
  <2> QED BY <2>1, <2>2
<1>2. CASE c = when /\ i = k
  BY <1>1, <1>2, <1>p
<1>3. CASE d = when /\ j = k
  BY <1>1, <1>3, <1>p
<1>4. CASE ~(c = when /\ i = k) /\ ~(d = when /\ j = k)
  <2>1. PICK a \in 1 .. Len(map[c]) : new[c][i] = map[c][a] /\ i = Moved(c, a, when, k)
    BY <1>1, <1>4
  <2>2. PICK b \in 1 .. Len(map[d]) : new[d][j] = map[d][b] /\ j = Moved(d, b, when, k)
    BY <1>1, <1>4
  <2>3. c \in DOMAIN map /\ d \in DOMAIN map
    BY <1>1, <1>4
  <2>4. c = d /\ a = b
    <3>1. map[c][a] = map[d][b]
      BY <2>1, <2>2
    <3> QED BY <2>3, <3>1 DEF Unique
  <2> QED BY <2>1, <2>2, <2>4
<1> QED BY <1>2, <1>3, <1>4

\* An insertion behind the iterator does not change what the others wait for.
LEMMA InsertHolds ==
    ASSUME NEW map, GoodMap(map), NEW e, NEW new, NEW when, NEW k, Grown(map, new, when, k, e),
           NEW from, NEW at \in Int, from = when => k >= at,
           NEW f, f # e, NEW c
    PROVE  Holds(map, from, at, f, c) <=> Holds(new, from, at, f, c)
<1>1. /\ when \in DOMAIN new /\ k \in 1 .. Len(new[when]) /\ new[when][k] = e
      /\ \A d \in DOMAIN new : \A i \in 1 .. Len(new[d]) :
            (d = when /\ i = k) \/
            (d \in DOMAIN map /\ \E j \in 1 .. Len(map[d]) :
                 new[d][i] = map[d][j] /\ i = Moved(d, j, when, k))
      /\ \A d \in DOMAIN map : \A j \in 1 .. Len(map[d]) :
            /\ d \in DOMAIN new /\ Moved(d, j, when, k) \in 1 .. Len(new[d])
            /\ new[d][Moved(d, j, when, k)] = map[d][j]
  BY SMTT(30), GrownPlaces
<1>2. ASSUME Holds(map, from, at, f, c) PROVE Holds(new, from, at, f, c)
  <2>1. PICK j \in 1 .. Len(map[c]) : map[c][j] = f /\ (c = from => j >= at)
    BY <1>2 DEF Holds
  <2>2. c \in DOMAIN new /\ Moved(c, j, when, k) \in 1 .. Len(new[c]) /\ new[c][Moved(c, j, when, k)] = f
    BY <1>1, <1>2, <2>1 DEF Holds
  <2>3. c = from => Moved(c, j, when, k) >= at
    BY SMTT(30), <2>1 DEF Moved
  <2> QED BY <2>2, <2>3 DEF Holds
<1>3. ASSUME Holds(new, from, at, f, c) PROVE Holds(map, from, at, f, c)
  <2>1. PICK i \in 1 .. Len(new[c]) : new[c][i] = f /\ (c = from => i >= at)
    BY <1>3 DEF Holds
  <2>2. c \in DOMAIN new /\ ~(c = when /\ i = k)
    BY <1>1, <1>3, <2>1 DEF Holds
  <2>3. PICK j \in 1 .. Len(map[c]) : new[c][i] = map[c][j] /\ i = Moved(c, j, when, k)
    BY <1>1, <2>2
  <2>4. c = from => j >= at
    <3>1. k \in Int
      BY SMTT(30), <1>1
    <3> QED BY SMTT(30), <2>1, <2>3, <3>1 DEF Moved
  <2> QED BY <1>1, <2>1, <2>2, <2>3, <2>4 DEF Holds
<1> QED BY <1>2, <1>3

\* The entries of a list without its event at position k.
LEMMA WithoutEntries ==
    ASSUME NEW list \in Seq(Events), NEW k \in 1 .. Len(list),
           \A j \in 1 .. Len(list) : list[j] = list[k] => j = k
    PROVE  /\ Without(list, list[k]) \in Seq(Events)
           /\ Len(Without(list, list[k])) = Len(list) - 1
           /\ \A i \in 1 .. Len(list) - 1 :
                 Without(list, list[k])[i] = list[IF i < k THEN i ELSE i + 1]
<1> DEFINE front == SubSeq(list, 1, k - 1)
           back == SubSeq(list, k + 1, Len(list))
<1>1. IndexOf(list, list[k]) = k
  BY SMTT(30) DEF IndexOf
<1>2. Without(list, list[k]) = front \o back
  BY <1>1 DEF Without
<1>3. /\ front \in Seq(Events) /\ Len(front) = k - 1
      /\ \A i \in 1 .. k - 1 : front[i] = list[i]
  BY SMTT(30)
<1>4. /\ back \in Seq(Events) /\ Len(back) = Len(list) - k
      /\ \A i \in 1 .. Len(list) - k : back[i] = list[k + i]
  <2>1. back \in Seq(Events) /\ Len(back) = Len(list) - k
    BY SMTT(30)
  <2>2. ASSUME NEW i \in 1 .. Len(list) - k PROVE back[i] = list[k + i]
    <3>1. back[i] = list[(k + 1) + i - 1] /\ (k + 1) + i - 1 = k + i
      BY SMTT(30)
    <3> QED BY <3>1
  <2> QED BY <2>1, <2>2
<1> HIDE DEF front, back
<1>5. PICK all \in Seq(Events) : all = front \o back
  <2>1. front \in Seq(Events) /\ back \in Seq(Events)
    BY <1>3, <1>4
  <2> QED BY <2>1, Joined
<1>6. /\ Len(all) = Len(front) + Len(back)
      /\ \A i \in 1 .. Len(front) : all[i] = front[i]
      /\ \A i \in Len(front) + 1 .. Len(front) + Len(back) : all[i] = back[i - Len(front)]
  <2>1. front \in Seq(Events) /\ back \in Seq(Events)
    BY <1>3, <1>4
  <2> QED BY <2>1, <1>5, Joined
<1>7. Len(all) = Len(list) - 1
  BY SMTT(30), <1>3, <1>4, <1>6
<1>8. ASSUME NEW i \in 1 .. Len(list) - 1 PROVE all[i] = list[IF i < k THEN i ELSE i + 1]
  <2>1. CASE i < k
    BY SMTT(30), <1>3, <1>6, <2>1
  <2>2. CASE ~(i < k)
    <3>1. /\ i \in Len(front) + 1 .. Len(front) + Len(back)
          /\ i - Len(front) = i - k + 1 /\ i - k + 1 \in 1 .. Len(list) - k /\ k + (i - k + 1) = i + 1
      BY SMTT(30), <1>3, <1>4, <2>2
    <3>2. all[i] = back[i - k + 1] /\ back[i - k + 1] = list[i + 1]
      BY <1>4, <1>6, <3>1
    <3> QED BY <2>2, <3>2
  <2> QED BY <2>1, <2>2
<1>9. all = Without(list, list[k])
  BY <1>2, <1>5
<1> QED BY <1>7, <1>8, <1>9

\* Map new is map without the event at position k of cycle when.
Shrunk(map, new, when, k) ==
    /\ DOMAIN new \subseteq DOMAIN map
    /\ \A c \in DOMAIN new : \A i \in 1 .. Len(new[c]) :
          /\ Moved(c, i, when, k) \in 1 .. Len(map[c])
          /\ new[c][i] = map[c][Moved(c, i, when, k)]
    /\ \A c \in DOMAIN map : \A j \in 1 .. Len(map[c]) : ~(c = when /\ j = k) =>
          c \in DOMAIN new /\ \E i \in 1 .. Len(new[c]) : j = Moved(c, i, when, k)

\* The map that is left when the list of cycle when becomes rest.
Relisted(map, when, rest) ==
    IF rest = <<>> THEN [c \in DOMAIN map \ {when} |-> map[c]] ELSE [map EXCEPT ![when] = rest]

\* What RemoveEvent does to the map.
LEMMA RemoveShrinks ==
    ASSUME NEW map, GoodMap(map), Unique(map), NEW when \in DOMAIN map, NEW k \in 1 .. Len(map[when]),
           NEW new, NEW rest, rest = Without(map[when], map[when][k]),
           new = Relisted(map, when, rest)
    PROVE  Shrunk(map, new, when, k)
<1> DEFINE list == map[when]
<1>0. list \in Seq(Events) /\ Len(list) \in Nat
  BY SMTT(30) DEF GoodMap
<1>m. map = [c \in DOMAIN map |-> map[c]]
  BY DEF GoodMap
<1>1. \A j \in 1 .. Len(list) : list[j] = list[k] => j = k
  BY DEF Unique
<1>2. /\ rest \in Seq(Events) /\ Len(rest) = Len(list) - 1
      /\ \A i \in 1 .. Len(list) - 1 : rest[i] = list[IF i < k THEN i ELSE i + 1]
  BY <1>0, <1>1, WithoutEntries
<1>3. CASE rest = <<>>
  <2>1. DOMAIN new = DOMAIN map \ {when} /\ \A c \in DOMAIN new : new[c] = map[c]
    BY <1>3 DEF Relisted
  <2>2. Len(rest) = 0
    BY SMTT(30), <1>3
  <2>3. Len(list) = 1 /\ k = 1
    <3>1. 0 = Len(list) - 1
      BY <1>2, <2>2
    <3>2. ASSUME NEW n \in Nat, 0 = n - 1 PROVE n = 1
      BY SMTT(30), <3>2
    <3>3. Len(list) = 1
      BY <1>0, <3>1, <3>2
    <3> QED BY SMTT(30), <3>3
  <2>4. \A c \in DOMAIN new : \A i : Moved(c, i, when, k) = i
    BY <2>1 DEF Moved
  <2>5. ASSUME NEW c \in DOMAIN map, NEW j \in 1 .. Len(map[c]), c \notin DOMAIN new
        PROVE  c = when /\ j = k
    <3>1. c = when
      BY <2>1, <2>5
    <3>2. j \in 1 .. 1 /\ k = 1
      BY <2>3, <3>1
    <3> QED BY SMTT(30), <3>1, <3>2
  <2> QED BY <2>1, <2>4, <2>5 DEF Shrunk
<1>4. CASE rest # <<>>
  <2>1. DOMAIN new = DOMAIN map /\ new[when] = rest /\ \A c \in DOMAIN map \ {when} : new[c] = map[c]
    BY <1>m, <1>4 DEF Relisted
  <2>2. ASSUME NEW c \in DOMAIN new, NEW i \in 1 .. Len(new[c])
        PROVE  /\ Moved(c, i, when, k) \in 1 .. Len(map[c])
               /\ new[c][i] = map[c][Moved(c, i, when, k)]
    <3>1. CASE c = when
      BY SMTT(30), <1>0, <1>2, <2>1, <3>1 DEF Moved
    <3>2. CASE c # when
      BY <2>1, <3>2 DEF Moved
    <3> QED BY <3>1, <3>2
  <2>3. ASSUME NEW c \in DOMAIN map, NEW j \in 1 .. Len(map[c]), ~(c = when /\ j = k)
        PROVE  \E i \in 1 .. Len(new[c]) : j = Moved(c, i, when, k)
    <3>1. CASE c # when
      BY <2>1, <3>1 DEF Moved
    <3>2. CASE c = when /\ j < k
      <4>1. j \in 1 .. Len(new[c]) /\ j = Moved(c, j, when, k)
        BY SMTT(30), <1>0, <1>2, <2>1, <3>2 DEF Moved
      <4> QED BY <4>1
    <3>3. CASE c = when /\ j > k
      <4>1. j - 1 \in 1 .. Len(new[c])
        BY SMTT(30), <1>0, <1>2, <2>1, <3>3
      <4>2. j = Moved(c, j - 1, when, k)
        BY SMTT(30), <1>0, <3>3 DEF Moved
      <4> QED BY <4>1, <4>2
    <3> QED BY SMTT(30), <1>0, <2>3, <3>1, <3>2, <3>3
  <2> QED BY <2>1, <2>2, <2>3 DEF Shrunk
<1> QED BY <1>3, <1>4

\* A removal keeps the lists ordered and the events apart.
LEMMA RemoveKeeps ==
    ASSUME NEW map, GoodMap(map), Unique(map), Ordered(map), NEW when, NEW k \in Int,
           NEW new, Shrunk(map, new, when, k)
    PROVE  Unique(new) /\ Ordered(new)
<1>1. DOMAIN new \subseteq DOMAIN map
  BY DEF Shrunk
<1>2. ASSUME NEW c \in DOMAIN new, NEW i \in 1 .. Len(new[c])
      PROVE  /\ Moved(c, i, when, k) \in 1 .. Len(map[c])
             /\ new[c][i] = map[c][Moved(c, i, when, k)]
  BY DEF Shrunk
<1>3. ASSUME NEW c, NEW i \in Int, NEW j \in Int
      PROVE  /\ i <= j => Moved(c, i, when, k) <= Moved(c, j, when, k)
             /\ Moved(c, i, when, k) = Moved(c, j, when, k) => i = j
  BY SMTT(30) DEF Moved
<1>4. ASSUME NEW c \in DOMAIN new, NEW d \in DOMAIN new,
             NEW i \in 1 .. Len(new[c]), NEW j \in 1 .. Len(new[d]), new[c][i] = new[d][j]
      PROVE  c = d /\ i = j
  <2>1. map[c][Moved(c, i, when, k)] = map[d][Moved(d, j, when, k)]
    BY <1>2, <1>4
  <2>2. c \in DOMAIN map /\ d \in DOMAIN map
    BY <1>1
  <2>3. Moved(c, i, when, k) \in 1 .. Len(map[c]) /\ Moved(d, j, when, k) \in 1 .. Len(map[d])
    BY <1>2
  <2>4. c = d /\ Moved(c, i, when, k) = Moved(d, j, when, k)
    BY <2>1, <2>2, <2>3 DEF Unique
  <2> QED BY SMTT(30), <1>3, <2>4
<1>5. ASSUME NEW c \in DOMAIN new, NEW i \in 1 .. Len(new[c]), NEW j \in 1 .. Len(new[c]), i <= j
      PROVE  Priority[new[c][i]] <= Priority[new[c][j]]
  <2>1. Moved(c, i, when, k) <= Moved(c, j, when, k)
    BY SMTT(30), <1>3, <1>5
  <2>2. Priority[map[c][Moved(c, i, when, k)]] <= Priority[map[c][Moved(c, j, when, k)]]
    BY <1>1, <1>2, <2>1 DEF Ordered
  <2> QED BY <1>2, <2>2
<1> QED BY <1>4, <1>5 DEF Unique, Ordered

\* An event that is not in the queue waits for no cycle.
LEMMA AbsentNotDue ==
    ASSUME NEW map, GoodMap(map), Unique(map), NEW from, NEW k, NEW e, Absent(map, e)
    PROVE  DueIn(map, from, k, e) = Never
<1>1. \A c : ~Holds(map, from, k, e, c)
  BY DEF Absent, Holds
<1> QED BY <1>1, DueIs

\* An event that is not inserted is nowhere in the map.
LEMMA NotInserted ==
    ASSUME GoodMap(eventMap), NEW e, e \notin Inserted
    PROVE  Absent(eventMap, e)
<1> SUFFICES ASSUME NEW c \in DOMAIN eventMap, NEW i \in 1 .. Len(eventMap[c]), eventMap[c][i] = e
             PROVE  FALSE
  BY DEF Absent
<1>1. i \in DOMAIN eventMap[c]
  BY SMTT(30) DEF GoodMap
<1>2. e \in Elements(eventMap[c])
  BY <1>1 DEF Elements
<1> QED BY <1>2 DEF Inserted

\* The cycle for which an event waits.
Awaits(e) == DueIn(eventMap, processing, it, e)

\* What the steps use of the invariant.
LEMMA QueueFacts ==
    ASSUME QueueInv
    PROVE  /\ GoodMap(eventMap) /\ Unique(eventMap) /\ Ordered(eventMap)
           /\ currentCycle \in Nat /\ DOMAIN eventMap \in SUBSET Nat
           /\ \A when \in Soon : when \in Nat /\ when >= currentCycle
           /\ \A c \in DOMAIN eventMap : eventMap[c] \in Seq(Events) /\ Len(eventMap[c]) \in Nat
           /\ processing # Never => /\ processing = currentCycle /\ processing \in DOMAIN eventMap
                                    /\ it \in 1 .. Len(eventMap[processing]) + 1
<1>1. /\ GoodMap(eventMap) /\ Unique(eventMap) /\ Ordered(eventMap)
      /\ currentCycle \in Nat /\ DOMAIN eventMap \in SUBSET Nat
      /\ \A c \in DOMAIN eventMap : eventMap[c] \in Seq(Events)
  BY DEF QueueInv, EQInv, GoodMap
<1>2. \A c \in DOMAIN eventMap : Len(eventMap[c]) \in Nat
  BY SMTT(30), <1>1
<1>3. \A when \in Soon : when \in Nat /\ when >= currentCycle
  BY SMTT(30), <1>1, EventAssumption DEF Soon
<1>4. ASSUME processing # Never PROVE processing = currentCycle /\ processing \in DOMAIN eventMap
  <2>1. processing = FirstKey(eventMap) /\ processing = currentCycle
    BY <1>4 DEF QueueInv, EQInv, Cached
  <2> QED BY <1>1, <1>4, <2>1, FirstKeyCorrect
<1>5. processing # Never => it \in 1 .. Len(eventMap[processing]) + 1
  BY DEF QueueInv
<1> QED BY <1>1, <1>2, <1>3, <1>4, <1>5

\* What the controllers' insertions do.
LEMMA InsertStep ==
    ASSUME QueueInv, EQInv', NEW e \in Events, NEW when \in Soon, InsertEvent(e, when)
    PROVE  /\ Unique(eventMap') /\ Ordered(eventMap')
           /\ Awaits(e) = Never /\ Awaits(e)' = when
           /\ \A f : f # e => Awaits(f)' = Awaits(f)
<1>1. /\ GoodMap(eventMap) /\ Unique(eventMap) /\ Ordered(eventMap)
      /\ when \in Nat /\ DOMAIN eventMap \in SUBSET Nat
  BY QueueFacts
<1>2. GoodMap(eventMap')
  BY DEF EQInv, GoodMap
<1>3. Absent(eventMap, e)
  BY <1>1, NotInserted DEF InsertEvent
<1>4. PICK k : Grown(eventMap, eventMap', when, k, e)
  BY <1>1, InsertGrows DEF InsertEvent
<1>5. Unique(eventMap') /\ Ordered(eventMap')
  BY <1>1, <1>3, <1>4, InsertUnique, InsertOrdered
<1>6. processing = Never /\ processing' = Never /\ it' = it
  BY DEF InsertEvent, Outside
<1>7. when \in DOMAIN eventMap' /\ k \in 1 .. Len(eventMap'[when]) /\ eventMap'[when][k] = e
  BY SMTT(30), <1>1, <1>4, GrownPlaces
<1>8. when # Never
  BY SMTT(30), <1>1 DEF Never
<1>9. Holds(eventMap', processing', it', e, when)
  BY <1>6, <1>7, <1>8 DEF Holds
<1>10. Awaits(e)' = when
  BY <1>2, <1>5, <1>9, DueIs DEF Awaits
<1>11. Awaits(e) = Never
  BY <1>1, <1>3, AbsentNotDue DEF Awaits
<1>12. ASSUME NEW f, f # e PROVE Awaits(f)' = Awaits(f)
  <2>1. \A c : Holds(eventMap, Never, 0, f, c) <=> Holds(eventMap', Never, 0, f, c)
    BY SMTT(30), <1>1, <1>4, <1>8, <1>12, InsertHolds
  <2>2. \A at : \A c : Holds(eventMap, Never, at, f, c) <=> Holds(eventMap, Never, 0, f, c)
    BY SMTT(30), <1>1 DEF Holds, Never
  <2>3. \A at : \A c : Holds(eventMap', Never, at, f, c) <=> Holds(eventMap', Never, 0, f, c)
    BY SMTT(30), <1>2 DEF Holds, Never, GoodMap
  <2>4. \A c : Holds(eventMap, processing, it, f, c) <=> Holds(eventMap', processing', it', f, c)
    BY <1>6, <2>1, <2>2, <2>3
  <2>5. DueIn(eventMap, processing, it, f) = DueIn(eventMap', processing', it', f)
    BY SMTT(30), <1>1, <1>2, <1>5, <2>4, SameDue
  <2> QED BY <2>5 DEF Awaits
<1> QED BY <1>5, <1>10, <1>11, <1>12

\* The place of an event.
LEMMA OnePlace ==
    ASSUME NEW map, Unique(map), NEW c \in DOMAIN map, NEW d \in DOMAIN map,
           NEW i \in 1 .. Len(map[c]), NEW j \in 1 .. Len(map[d]), map[c][i] = map[d][j]
    PROVE  c = d /\ i = j
BY DEF Unique

\* What the controllers' removals do.
LEMMA RemoveStep ==
    ASSUME QueueInv, EQInv', NEW e \in Events, NEW when \in DOMAIN eventMap, RemoveEvent(e, when)
    PROVE  /\ Unique(eventMap') /\ Ordered(eventMap')
           /\ Awaits(e) # Never /\ Awaits(e)' = Never
           /\ \A f : f # e => Awaits(f)' = Awaits(f)
<1>1. /\ GoodMap(eventMap) /\ Unique(eventMap) /\ Ordered(eventMap)
      /\ when \in Nat /\ DOMAIN eventMap \in SUBSET Nat
  BY QueueFacts
<1>2. GoodMap(eventMap')
  BY DEF EQInv, GoodMap
<1>3. PICK k \in 1 .. Len(eventMap[when]) : eventMap[when][k] = e
  <2>1. e \in Elements(eventMap[when]) /\ DOMAIN eventMap[when] = 1 .. Len(eventMap[when])
    BY SMTT(30), <1>1 DEF RemoveEvent, GoodMap
  <2> QED BY <2>1 DEF Elements
<1>4. Shrunk(eventMap, eventMap', when, k)
  <2> DEFINE rest == Without(eventMap[when], eventMap[when][k])
  <2>1. eventMap' = Relisted(eventMap, when, rest)
    BY <1>3 DEF RemoveEvent, Relisted
  <2> HIDE DEF rest
  <2> QED BY <1>1, <2>1, RemoveShrinks DEF rest
<1>k. k \in Int
  BY SMTT(30)
<1>5. Unique(eventMap') /\ Ordered(eventMap')
  BY <1>1, <1>4, <1>k, RemoveKeeps
<1>6. processing = Never /\ processing' = Never /\ it' = it
  BY DEF RemoveEvent, Outside
<1>7. when # Never
  BY SMTT(30), <1>1 DEF Never
<1>8. Holds(eventMap, processing, it, e, when)
  BY <1>3, <1>6, <1>7 DEF Holds
<1>9. Awaits(e) # Never
  BY <1>1, <1>7, <1>8, DueIs DEF Awaits
<1>s. ASSUME NEW c \in DOMAIN eventMap', NEW i \in 1 .. Len(eventMap'[c])
      PROVE  /\ c \in DOMAIN eventMap /\ Moved(c, i, when, k) \in 1 .. Len(eventMap[c])
             /\ eventMap'[c][i] = eventMap[c][Moved(c, i, when, k)]
             /\ ~(c = when /\ Moved(c, i, when, k) = k)
  <2>1. /\ c \in DOMAIN eventMap /\ Moved(c, i, when, k) \in 1 .. Len(eventMap[c])
        /\ eventMap'[c][i] = eventMap[c][Moved(c, i, when, k)]
    BY <1>4 DEF Shrunk
  <2>2. ~(c = when /\ Moved(c, i, when, k) = k)
    BY SMTT(30), <1>k DEF Moved
  <2> QED BY <2>1, <2>2
<1>10. Awaits(e)' = Never
  <2>1. ASSUME NEW c \in DOMAIN eventMap', NEW i \in 1 .. Len(eventMap'[c]), eventMap'[c][i] = e PROVE FALSE
    <3>1. eventMap[c][Moved(c, i, when, k)] = eventMap[when][k]
      BY <1>3, <1>s, <2>1
    <3>2. c \in DOMAIN eventMap /\ Moved(c, i, when, k) \in 1 .. Len(eventMap[c])
      BY <1>s
    <3>3. c = when /\ Moved(c, i, when, k) = k
      BY SMTT(30), <1>1, <3>1, <3>2, OnePlace
    <3> QED BY <1>s, <3>3
  <2>2. Absent(eventMap', e)
    BY <2>1 DEF Absent
  <2> QED BY <1>2, <1>5, <2>2, AbsentNotDue DEF Awaits
<1>11. ASSUME NEW f, f # e PROVE Awaits(f)' = Awaits(f)
  <2>1. ASSUME NEW c, Holds(eventMap, processing, it, f, c) PROVE Holds(eventMap', processing', it', f, c)
    <3>1. PICK j \in 1 .. Len(eventMap[c]) : eventMap[c][j] = f
      BY <2>1 DEF Holds
    <3>2. c \in DOMAIN eventMap /\ ~(c = when /\ j = k)
      BY <1>3, <1>11, <2>1, <3>1 DEF Holds
    <3>3. c \in DOMAIN eventMap' /\ \E i \in 1 .. Len(eventMap'[c]) : j = Moved(c, i, when, k)
      BY <1>4, <3>2 DEF Shrunk
    <3>4. PICK i \in 1 .. Len(eventMap'[c]) : j = Moved(c, i, when, k)
      BY <3>3
    <3>5. eventMap'[c][i] = f
      BY <1>s, <3>1, <3>3, <3>4
    <3>6. c # processing'
      BY SMTT(30), <1>1, <1>6, <3>2 DEF Never
    <3> QED BY <3>3, <3>5, <3>6 DEF Holds
  <2>2. ASSUME NEW c, Holds(eventMap', processing', it', f, c) PROVE Holds(eventMap, processing, it, f, c)
    <3>1. PICK i \in 1 .. Len(eventMap'[c]) : eventMap'[c][i] = f
      BY <2>2 DEF Holds
    <3>2. c \in DOMAIN eventMap'
      BY <2>2 DEF Holds
    <3>3. c \in DOMAIN eventMap /\ \E j \in 1 .. Len(eventMap[c]) : eventMap[c][j] = f
      BY <1>s, <3>1, <3>2
    <3>4. c # processing
      BY SMTT(30), <1>1, <1>6, <3>3 DEF Never
    <3> QED BY <3>3, <3>4 DEF Holds
  <2>3. DueIn(eventMap, processing, it, f) = DueIn(eventMap', processing', it', f)
    BY SMTT(30), <1>1, <1>2, <1>5, <2>1, <2>2, SameDue
  <2> QED BY <2>3 DEF Awaits
<1> QED BY <1>5, <1>9, <1>10, <1>11

\* Loop and the calls of Process it makes move no event.
LEMMA LoopStep ==
    ASSUME QueueInv, EQInv', eventMap' = eventMap,
           \/ processing' = processing /\ it' = it
           \/ processing = Never /\ it' = 1
    PROVE  \A f : Awaits(f)' = Awaits(f)
<1>1. GoodMap(eventMap) /\ Unique(eventMap) /\ DOMAIN eventMap \in SUBSET Nat
  BY QueueFacts
<1>2. CASE processing' = processing /\ it' = it
  BY <1>2 DEF Awaits
<1>3. CASE processing = Never /\ it' = 1
  <2> SUFFICES ASSUME NEW f PROVE DueIn(eventMap, processing, it, f) = DueIn(eventMap, processing', it', f)
    BY DEF Awaits
  <2>1. ASSUME NEW c PROVE Holds(eventMap, processing, it, f, c) <=> Holds(eventMap, processing', it', f, c)
    BY SMTT(30), <1>1, <1>3 DEF Holds, Never, GoodMap
  <2> QED BY SMTT(30), <1>1, <2>1, SameDue
<1> QED BY <1>2, <1>3

\* The end of Process forgets only events that have run.
LEMMA EndProcessStep ==
    ASSUME QueueInv, EQInv', EndProcess
    PROVE  Unique(eventMap') /\ Ordered(eventMap') /\ \A f : Awaits(f)' = Awaits(f)
<1>1. /\ GoodMap(eventMap) /\ Unique(eventMap) /\ Ordered(eventMap)
      /\ DOMAIN eventMap \in SUBSET Nat
      /\ processing # Never /\ processing \in DOMAIN eventMap
      /\ it \in 1 .. Len(eventMap[processing]) + 1 /\ it > Len(eventMap[processing])
      /\ Len(eventMap[processing]) \in Nat
  BY QueueFacts DEF EndProcess
<1>2. GoodMap(eventMap')
  BY DEF EQInv, GoodMap
<1>3. /\ DOMAIN eventMap' = DOMAIN eventMap \ {processing}
      /\ \A c \in DOMAIN eventMap' : eventMap'[c] = eventMap[c]
      /\ processing' = Never
  <2>1. processing = nextEventCycle
    BY <1>1 DEF QueueInv, EQInv
  <2> QED BY <2>1 DEF EndProcess
<1>4. Unique(eventMap') /\ Ordered(eventMap')
  <2>1. Unique(eventMap')
    BY SMTT(30), <1>1, <1>3 DEF Unique
  <2>2. Ordered(eventMap')
    BY <1>1, <1>3 DEF Ordered
  <2> QED BY <2>1, <2>2
<1>5. ASSUME NEW f, NEW c
      PROVE  Holds(eventMap, processing, it, f, c) <=> Holds(eventMap', processing', it', f, c)
  <2>1. CASE c = processing
    <3>1. ~Holds(eventMap', processing', it', f, c)
      BY <1>3, <2>1 DEF Holds
    <3>2. ~Holds(eventMap, processing, it, f, c)
      BY SMTT(30), <1>1, <2>1 DEF Holds
    <3> QED BY <3>1, <3>2
  <2>2. CASE c # processing
    <3>1. c \in DOMAIN eventMap => c # processing'
      BY SMTT(30), <1>1, <1>3 DEF Never
    <3> QED BY <1>3, <2>2, <3>1 DEF Holds
  <2> QED BY <2>1, <2>2
<1>6. ASSUME NEW f PROVE Awaits(f)' = Awaits(f)
  <2>1. DueIn(eventMap, processing, it, f) = DueIn(eventMap', processing', it', f)
    BY SMTT(30), <1>1, <1>2, <1>4, <1>5, SameDue
  <2> QED BY <2>1 DEF Awaits
<1> QED BY <1>4, <1>6

\* Whatever a handler inserts, its event stays where it is and the iterator goes
\* one step further.
LEMMA HandlePlaces ==
    ASSUME QueueInv, EQInv', NEW when \in Soon,
           NEW new \in {{}} \cup {{f} : f \in Events}, Handle(new, when)
    PROVE  /\ Unique(eventMap') /\ Ordered(eventMap') /\ it' = it + 1
           /\ it \in 1 .. Len(eventMap[processing]) /\ it \in 1 .. Len(eventMap'[processing])
           /\ processing \in DOMAIN eventMap'
           /\ eventMap'[processing][it] = eventMap[processing][it]
           /\ \/ new = {} /\ eventMap' = eventMap
              \/ \E f \in Events : \E k : /\ new = {f} /\ Absent(eventMap, f)
                                          /\ Grown(eventMap, eventMap', when, k, f)
                                          /\ processing = when => k >= it + 1
<1> DEFINE list == eventMap[processing]
           e == list[it]
<1>1. /\ GoodMap(eventMap) /\ Unique(eventMap) /\ Ordered(eventMap)
      /\ when \in Nat /\ DOMAIN eventMap \in SUBSET Nat
      /\ processing = currentCycle /\ processing \in DOMAIN eventMap
      /\ it \in 1 .. Len(list) /\ list \in Seq(Events) /\ Len(list) \in Nat
  BY SMTT(30), QueueFacts DEF Handle
<1>2. GoodMap(eventMap')
  BY DEF EQInv, GoodMap
<1>3. it' = IndexOf(eventMap'[processing], e) + 1 /\ \A f \in new : MayInsert(e, f, when)
  BY DEF Handle
<1>4. ASSUME Unique(eventMap'), processing \in DOMAIN eventMap',
             it \in 1 .. Len(eventMap'[processing]), eventMap'[processing][it] = e
      PROVE  it' = it + 1
  <2>1. \A j \in 1 .. Len(eventMap'[processing]) : eventMap'[processing][j] = e => j = it
    BY <1>4, OnePlace
  <2>2. DOMAIN eventMap'[processing] = 1 .. Len(eventMap'[processing])
    BY SMTT(30), <1>2, <1>4 DEF GoodMap
  <2>3. IndexOf(eventMap'[processing], e) = it
    BY <1>4, <2>1, <2>2 DEF IndexOf
  <2> QED BY <1>3, <2>3
<1>5. CASE new = {} /\ eventMap' = eventMap
  BY <1>1, <1>4, <1>5
<1>6. ASSUME NEW f \in new, new = {f}, eventMap' = WithEvent(eventMap, f, when)
      PROVE  /\ Unique(eventMap') /\ Ordered(eventMap') /\ processing \in DOMAIN eventMap'
             /\ it \in 1 .. Len(eventMap'[processing]) /\ eventMap'[processing][it] = e
             /\ \E k : /\ Absent(eventMap, f) /\ Grown(eventMap, eventMap', when, k, f)
                       /\ processing = when => k >= it + 1
  <2>1. f \in Events /\ e \in Events /\ Priority[f] \in Int /\ Priority[e] \in Int
    BY SMTT(30), <1>1, <1>6, EventAssumption
  <2>2. Absent(eventMap, f)
    BY <1>1, <1>3, NotInserted DEF MayInsert
  <2>3. PICK k : Grown(eventMap, eventMap', when, k, f)
    BY <1>1, <1>6, <2>1, InsertGrows
  <2>4. Unique(eventMap') /\ Ordered(eventMap')
    BY <1>1, <2>1, <2>2, <2>3, InsertUnique, InsertOrdered
  <2>5. ASSUME processing = when PROVE k >= it + 1
    <3>1. Shifted(list, eventMap'[when], k, f)
      BY <1>1, <2>3, <2>5 DEF Grown, ListAt
    <3>2. k \in 1 .. Len(list) + 1 /\ (k <= Len(list) => Priority[list[k]] > Priority[f])
      BY <3>1 DEF Shifted
    <3>3. Priority[f] >= Priority[e]
      BY SMTT(30), <1>1, <1>3, <2>5 DEF MayInsert
    <3>4. ASSUME k <= it PROVE FALSE
      <4>1. k \in 1 .. Len(list) /\ Priority[list[k]] > Priority[f]
        BY SMTT(30), <1>1, <3>2, <3>4
      <4>2. Priority[list[k]] <= Priority[list[it]]
        BY <1>1, <3>4, <4>1 DEF Ordered
      <4>3. Priority[list[k]] \in Int
        BY SMTT(30), <1>1, <4>1, EventAssumption
      <4> QED BY SMTT(30), <2>1, <3>3, <4>1, <4>2, <4>3
    <3> QED BY SMTT(30), <1>1, <3>2, <3>4
  <2>6. Moved(processing, it, when, k) = it
    <3>1. k \in Int
      BY SMTT(30), <2>3 DEF Grown, Shifted
    <3> QED BY SMTT(30), <1>1, <2>5, <3>1 DEF Moved
  <2>7. /\ processing \in DOMAIN eventMap' /\ Moved(processing, it, when, k) \in 1 .. Len(eventMap'[processing])
        /\ eventMap'[processing][Moved(processing, it, when, k)] = eventMap[processing][it]
    BY SMTT(30), <1>1, <2>3, GrownPlaces
  <2> QED BY <2>2, <2>3, <2>4, <2>5, <2>6, <2>7
<1>7. \/ new = {} /\ eventMap' = eventMap
      \/ \E f \in new : new = {f} /\ eventMap' = WithEvent(eventMap, f, when)
  BY DEF Handle
<1>8. CASE \E f \in new : new = {f} /\ eventMap' = WithEvent(eventMap, f, when)
  <2>1. PICK f \in new : new = {f} /\ eventMap' = WithEvent(eventMap, f, when)
    BY <1>8
  <2>2. f \in Events
    BY <2>1
  <2> QED BY <1>1, <1>4, <1>6, <2>1, <2>2
<1> QED BY <1>5, <1>7, <1>8

\* What a handler does: its event has run, what it inserts waits.
LEMMA HandleStep ==
    ASSUME QueueInv, EQInv', NEW when \in Soon,
           NEW new \in {{}} \cup {{f} : f \in Events}, Handle(new, when),
           NEW e, e = eventMap[processing][it]
    PROVE  /\ e \in Events /\ Awaits(e) = currentCycle /\ Awaits(e)' = Never
           /\ \A f \in Events : Awaits(f) = currentCycle => Priority[f] >= Priority[e]
           /\ \A f \in new : f # e /\ Awaits(f) = Never /\ Awaits(f)' = when
           /\ \A f : f # e /\ f \notin new => Awaits(f)' = Awaits(f)
<1>1. /\ GoodMap(eventMap) /\ Unique(eventMap) /\ Ordered(eventMap)
      /\ when \in Nat /\ DOMAIN eventMap \in SUBSET Nat
      /\ processing = currentCycle /\ processing \in DOMAIN eventMap
      /\ eventMap[processing] \in Seq(Events) /\ Len(eventMap[processing]) \in Nat
  BY QueueFacts DEF Handle
<1>2. GoodMap(eventMap') /\ processing' = processing
  BY DEF EQInv, GoodMap, Handle
<1>3. /\ Unique(eventMap') /\ Ordered(eventMap') /\ it' = it + 1
      /\ it \in 1 .. Len(eventMap[processing]) /\ it \in 1 .. Len(eventMap'[processing])
      /\ processing \in DOMAIN eventMap'
      /\ eventMap'[processing][it] = eventMap[processing][it]
  BY HandlePlaces
<1>4. \/ new = {} /\ eventMap' = eventMap
      \/ \E f \in Events : \E k : /\ new = {f} /\ Absent(eventMap, f)
                                  /\ Grown(eventMap, eventMap', when, k, f)
                                  /\ processing = when => k >= it + 1
  BY HandlePlaces
<1>5. e \in Events
  BY SMTT(30), <1>1, <1>3
<1>6. Awaits(e) = currentCycle
  <2>1. Holds(eventMap, processing, it, e, processing)
    BY SMTT(30), <1>1, <1>3 DEF Holds
  <2> QED BY <1>1, <2>1, DueIs DEF Awaits
<1>7. Awaits(e)' = Never
  <2>1. ASSUME NEW c, Holds(eventMap', processing', it', e, c) PROVE FALSE
    <3>1. c \in DOMAIN eventMap' /\ \E i \in 1 .. Len(eventMap'[c]) :
              eventMap'[c][i] = e /\ (c = processing => i >= it + 1)
      BY <1>2, <1>3, <2>1 DEF Holds
    <3>2. PICK i \in 1 .. Len(eventMap'[c]) : eventMap'[c][i] = e /\ (c = processing => i >= it + 1)
      BY <3>1
    <3>3. c = processing /\ i = it
      BY SMTT(30), <1>3, <3>1, <3>2, OnePlace
    <3> QED BY SMTT(30), <1>3, <3>2, <3>3
  <2> QED BY <1>2, <1>3, <2>1, DueIs DEF Awaits
<1>8. ASSUME NEW f \in Events, Awaits(f) = currentCycle PROVE Priority[f] >= Priority[e]
  <2>1. currentCycle # Never
    BY SMTT(30), <1>1 DEF Never
  <2>2. Holds(eventMap, processing, it, f, currentCycle)
    BY <1>1, <1>8, <2>1, DueIs DEF Awaits
  <2>3. PICK i \in 1 .. Len(eventMap[processing]) : eventMap[processing][i] = f /\ i >= it
    BY <1>1, <2>2 DEF Holds
  <2>4. Priority[eventMap[processing][it]] <= Priority[eventMap[processing][i]]
    BY <1>1, <1>3, <2>3 DEF Ordered
  <2>5. Priority[f] \in Int /\ Priority[e] \in Int
    BY <1>5, EventAssumption
  <2> QED BY <2>3, <2>4, <2>5
<1>9. ASSUME NEW f, f # e, NEW c
      PROVE  Holds(eventMap, processing, it, f, c) <=> Holds(eventMap, processing, it + 1, f, c)
  BY SMTT(30), <1>1, <1>3, <1>9 DEF Holds
<1>10. CASE new = {} /\ eventMap' = eventMap
  <2>1. ASSUME NEW f, f # e PROVE Awaits(f)' = Awaits(f)
    <3>1. DueIn(eventMap, processing, it, f) = DueIn(eventMap, processing, it + 1, f)
      BY SMTT(30), <1>1, <1>9, <2>1, SameDue
    <3> QED BY <1>2, <1>3, <1>10, <3>1 DEF Awaits
  <2> QED BY <1>5, <1>6, <1>7, <1>8, <1>10, <2>1
<1>11. ASSUME NEW f \in Events, NEW k, new = {f}, Absent(eventMap, f),
              Grown(eventMap, eventMap', when, k, f), processing = when => k >= it + 1
       PROVE  /\ f # e /\ Awaits(f) = Never /\ Awaits(f)' = when
              /\ \A g : g # e /\ g # f => Awaits(g)' = Awaits(g)
  <2>1. f # e
    BY <1>1, <1>3, <1>11 DEF Absent
  <2>2. Awaits(f) = Never
    BY <1>1, <1>11, AbsentNotDue DEF Awaits
  <2>3. when \in DOMAIN eventMap' /\ k \in 1 .. Len(eventMap'[when]) /\ eventMap'[when][k] = f
    BY SMTT(30), <1>1, <1>11, GrownPlaces
  <2>4. Holds(eventMap', processing', it', f, when)
    BY <1>2, <1>3, <1>11, <2>3 DEF Holds
  <2>5. Awaits(f)' = when
    BY <1>2, <1>3, <2>4, DueIs DEF Awaits
  <2>6. ASSUME NEW g, g # e, g # f PROVE Awaits(g)' = Awaits(g)
    <3>1. it + 1 \in Int
      BY SMTT(30), <1>3
    <3>2. ASSUME NEW c
          PROVE  Holds(eventMap, processing, it + 1, g, c) <=> Holds(eventMap', processing, it + 1, g, c)
      BY SMTT(30), <1>1, <1>11, <2>6, <3>1, InsertHolds
    <3>3. \A c : Holds(eventMap, processing, it, g, c) <=> Holds(eventMap', processing', it', g, c)
      BY <1>2, <1>3, <1>9, <2>6, <3>2
    <3>4. DueIn(eventMap, processing, it, g) = DueIn(eventMap', processing', it', g)
      BY SMTT(30), <1>1, <1>2, <1>3, <3>3, SameDue
    <3> QED BY <3>4 DEF Awaits
  <2> QED BY <2>1, <2>2, <2>5, <2>6
<1>12. CASE \E f \in Events : \E k : /\ new = {f} /\ Absent(eventMap, f)
                                     /\ Grown(eventMap, eventMap', when, k, f)
                                     /\ processing = when => k >= it + 1
  BY <1>5, <1>6, <1>7, <1>8, <1>11, <1>12
<1> QED BY <1>4, <1>10, <1>12

\* The invariant of the refinement holds of the empty queue.
LEMMA QueueInvInit == EQInit => QueueInv
<1> SUFFICES ASSUME EQInit PROVE QueueInv
  OBVIOUS
<1>1. EQInv
  BY EQInvInit
<1>2. DOMAIN eventMap = {} /\ processing = Never /\ outcome = [e \in Events |-> "new"]
  BY DEF EQInit
<1> QED BY <1>1, <1>2 DEF QueueInv, Unique, Ordered, Outcomes

\* Every step keeps the lists ordered, each event in one place and the iterator
\* within its list.
LEMMA QueueInvStep == QueueInv /\ [EQNext]_eqVars => QueueInv'
<1> SUFFICES ASSUME QueueInv, [EQNext]_eqVars PROVE QueueInv'
  OBVIOUS
<1>0. EQInv /\ EQInv'
  BY EQInvStep DEF QueueInv
<1>t. /\ outcome \in [Events -> Outcomes] /\ Unique(eventMap) /\ Ordered(eventMap)
      /\ processing # Never => it \in 1 .. Len(eventMap[processing]) + 1
  BY DEF QueueInv, Outcomes
<1>q. ASSUME Unique(eventMap'), Ordered(eventMap'), outcome' \in [Events -> Outcomes],
             processing' # Never => it' \in 1 .. Len(eventMap'[processing']) + 1
      PROVE  QueueInv'
  BY <1>0, <1>q DEF QueueInv, Unique, Ordered, Outcomes
<1>1. ASSUME NEW e \in Events, NEW when \in Soon, InsertEvent(e, when) PROVE QueueInv'
  <2>1. outcome' \in [Events -> Outcomes]
    BY <1>t, <1>1 DEF InsertEvent, Outcomes
  <2>2. processing' = Never
    BY <1>1 DEF InsertEvent, Outside
  <2> QED BY <1>0, <1>1, <1>q, <2>1, <2>2, InsertStep
<1>2. ASSUME NEW e \in Events, NEW when \in DOMAIN eventMap, RemoveEvent(e, when) PROVE QueueInv'
  <2>1. outcome' \in [Events -> Outcomes]
    BY <1>t, <1>2 DEF RemoveEvent, Outcomes
  <2>2. processing' = Never
    BY <1>2 DEF RemoveEvent, Outside
  <2> QED BY <1>0, <1>2, <1>q, <2>1, <2>2, RemoveStep
<1>3. ASSUME eventMap' = eventMap, outcome' = outcome,
             \/ processing' = processing /\ it' = it
             \/ processing' = nextEventCycle /\ it' = 1
      PROVE  QueueInv'
  <2>1. CASE processing' = processing /\ it' = it
    BY <1>t, <1>3, <1>q, <2>1
  <2>2. CASE processing' = nextEventCycle /\ it' = 1
    <3>1. processing' # Never => Len(eventMap[processing']) \in Nat
      <4> SUFFICES ASSUME nextEventCycle # Never PROVE Len(eventMap[nextEventCycle]) \in Nat
        BY <2>2
      <4>1. nextEventCycle \in DOMAIN eventMap
        BY <1>0, FirstKeyCorrect DEF EQInv, GoodMap, Cached
      <4> QED BY SMTT(30), <1>0, <4>1 DEF EQInv, GoodMap
    <3>2. processing' # Never => it' \in 1 .. Len(eventMap'[processing']) + 1
      BY SMTT(30), <1>3, <2>2, <3>1
    <3> QED BY <1>t, <1>3, <1>q, <3>2
  <2> QED BY <1>3, <2>1, <2>2
<1>4. ASSUME NEW steps \in 0 .. MaxSteps, Loop(steps) PROVE QueueInv'
  BY <1>3, <1>4 DEF Loop, Process
<1>5. CASE LoopIteration
  BY <1>3, <1>5 DEF LoopIteration, Process
<1>6. ASSUME NEW when \in Soon, NEW new \in {{}} \cup {{f} : f \in Events}, Handle(new, when)
      PROVE  QueueInv'
  <2>1. /\ Unique(eventMap') /\ Ordered(eventMap') /\ it' = it + 1
        /\ it \in 1 .. Len(eventMap'[processing])
    BY <1>0, <1>6, HandlePlaces
  <2>2. outcome' \in [Events -> Outcomes] /\ processing' = processing
    BY <1>t, <1>6 DEF Handle, Outcomes
  <2>3. it' \in 1 .. Len(eventMap'[processing']) + 1
    BY SMTT(30), <2>1, <2>2
  <2> QED BY <1>q, <2>1, <2>2, <2>3
<1>7. CASE EndProcess
  <2>1. outcome' = outcome /\ processing' = Never
    BY <1>7 DEF EndProcess
  <2> QED BY <1>0, <1>7, <1>q, <1>t, <2>1, EndProcessStep
<1>8. CASE UNCHANGED eqVars
  BY <1>3, <1>8 DEF eqVars
<1> QED BY <1>1, <1>2, <1>4, <1>5, <1>6, <1>7, <1>8 DEF EQNext

\* It therefore always holds.
LEMMA QueueInvAlways == EQSpec => []QueueInv
BY QueueInvInit, QueueInvStep, PTL DEF EQSpec

\* The queue implements timed events: an event runs once, at the cycle it was
\* inserted for and in the order of the priorities, whatever the handlers insert
\* into the list that Process walks over, and time passes no event that waits.
THEOREM QueueRefinement == EQSpec => ImplementsTimedEvents
<1> DEFINE due == [e \in Events |-> Due(e)]
<1>1. EQInit => Timed!TimedInit
  <2> SUFFICES ASSUME EQInit PROVE Timed!TimedInit
    OBVIOUS
  <2>1. DOMAIN eventMap = {} /\ currentCycle = 0 /\ outcome = [e \in Events |-> "new"]
    BY DEF EQInit
  <2>2. \A e : Due(e) = Never
    BY <2>1 DEF Due
  <2>3. due = [e \in Events |-> Never]
    BY <2>2
  <2> QED BY <2>1, <2>3 DEF Timed!TimedInit
<1>2. QueueInv /\ QueueInv' /\ [EQNext]_eqVars => [Timed!TimedNext]_(Timed!timedVars)
  <2> SUFFICES ASSUME QueueInv, QueueInv', [EQNext]_eqVars
               PROVE  Timed!TimedNext \/ UNCHANGED <<currentCycle, due, outcome>>
    BY DEF Timed!timedVars
  <2>0. EQInv' /\ EQInv
    BY DEF QueueInv
  <2>d. \A e : Due(e) = Awaits(e) /\ Due(e)' = Awaits(e)'
    BY DEF Awaits, Due, DueIn, Waiting, WaitingIn
  <2>a. ASSUME NEW e PROVE Awaits(e) \in Int /\ Awaits(e)' \in Int
    <3>1. GoodMap(eventMap) /\ Unique(eventMap) /\ GoodMap(eventMap') /\ Unique(eventMap')
      BY DEF QueueInv, EQInv, GoodMap, Unique
    <3> QED BY <3>1, DueIs DEF Awaits
  <2>t. due' \in [Events -> Int] /\ outcome' \in [Events -> {"new", "waiting", "ran", "removed"}]
    BY <2>d, <2>a DEF QueueInv, Outcomes
  <2>s. \A e \in Events : due[e] = Awaits(e) /\ due'[e] = Awaits(e)'
    BY <2>d
  <2>f. due = [e \in Events |-> due[e]] /\ due' = [e \in Events |-> due'[e]]
    OBVIOUS
  <2> HIDE DEF due
  <2>u. ASSUME \A e : Awaits(e)' = Awaits(e) PROVE due' = due
    BY <2>s, <2>f, <2>u
  <2>n. currentCycle \in Nat /\ outcome \in [Events -> {"new", "waiting", "ran", "removed"}]
    BY DEF QueueInv, EQInv, Outcomes
  <2>1. ASSUME NEW e \in Events, NEW when \in Soon, InsertEvent(e, when) PROVE Timed!Schedule
    <3>1. /\ Awaits(e) = Never /\ Awaits(e)' = when
          /\ \A f : f # e => Awaits(f)' = Awaits(f)
      BY <2>0, <2>1, InsertStep
    <3>2. outcome' = [outcome EXCEPT ![e] = "waiting"] /\ currentCycle' = currentCycle
      BY <2>1 DEF InsertEvent
    <3>3. when >= currentCycle
      BY QueueFacts
    <3>4. ASSUME NEW f \in Events PROVE Timed!LeftOrScheduled(f)
      <4>1. CASE f = e
        BY <2>n, <2>s, <3>1, <3>2, <3>3, <4>1 DEF Timed!LeftOrScheduled, due
      <4>2. CASE f # e
        BY <2>n, <2>s, <3>1, <3>2, <4>2 DEF Timed!LeftOrScheduled, due
      <4> QED BY <4>1, <4>2
    <3> QED BY <2>t, <3>2, <3>4 DEF Timed!Schedule, due
  <2>2. ASSUME NEW e \in Events, NEW when \in DOMAIN eventMap, RemoveEvent(e, when) PROVE Timed!Cancel(e)
    <3>1. /\ Awaits(e) # Never /\ Awaits(e)' = Never
          /\ \A f : f # e => Awaits(f)' = Awaits(f)
      BY <2>0, <2>2, RemoveStep
    <3>2. outcome' = [outcome EXCEPT ![e] = "removed"] /\ currentCycle' = currentCycle
      BY <2>2 DEF RemoveEvent
    <3>3. due' = [due EXCEPT ![e] = Never]
      BY SMTT(30), <2>s, <2>f, <3>1
    <3> QED BY <2>s, <3>1, <3>2, <3>3 DEF Timed!Cancel, due
  <2>3. ASSUME NEW steps \in 0 .. MaxSteps, Loop(steps) PROVE UNCHANGED <<currentCycle, due, outcome>>
    <3>1. /\ eventMap' = eventMap /\ UNCHANGED <<currentCycle, outcome>>
          /\ \/ processing' = processing /\ it' = it
             \/ processing = Never /\ it' = 1
      BY <2>3 DEF Loop, Process, Outside
    <3> QED BY <2>0, <2>u, <3>1, LoopStep
  <2>4. CASE LoopIteration
    <3>1. /\ eventMap' = eventMap /\ UNCHANGED outcome
          /\ \/ processing' = processing /\ it' = it
             \/ processing = Never /\ it' = 1
      BY <2>4 DEF LoopIteration, Process
    <3>2. due' = due
      BY <2>0, <2>u, <3>1, LoopStep
    <3>3. currentCycle' >= currentCycle
      <4>1. currentCycle \in Nat /\ currentCycle' \in Nat /\ stepCycles \in Nat
            /\ (nextEventCycle # Never => nextEventCycle >= currentCycle)
        BY <2>0, FirstKeyCorrect DEF EQInv, GoodMap, Cached
      <4> QED BY SMTT(30), <2>4, <4>1 DEF LoopIteration, Skipped, After
    <3>4. ASSUME NEW e \in Events, due[e] # Never PROVE due[e] >= currentCycle'
      <4>1. GoodMap(eventMap) /\ Unique(eventMap) /\ Awaits(e) # Never /\ due[e] = Awaits(e)
        BY <2>s, <3>4, QueueFacts
      <4>2. Awaits(e) \in DOMAIN eventMap
        BY <4>1, DueIs DEF Awaits, Holds
      <4>3. \A c \in DOMAIN eventMap' : c >= currentCycle'
        BY <2>0 DEF EQInv, Cached
      <4> QED BY <3>1, <4>1, <4>2, <4>3
    <3> QED BY <3>1, <3>2, <3>3, <3>4 DEF Timed!TimedNext, Timed!Advance, due
  <2>5. ASSUME NEW when \in Soon, NEW new \in {{}} \cup {{f} : f \in Events}, Handle(new, when)
        PROVE  \E e \in Events : Timed!Run(e)
    <3>0. PICK e \in Events : e = eventMap[processing][it]
      <4>1. /\ it \in 1 .. Len(eventMap[processing]) /\ processing \in DOMAIN eventMap
            /\ eventMap[processing] \in Seq(Events)
        BY SMTT(30), <2>5, QueueFacts DEF Handle
      <4> QED BY SMTT(30), <4>1
    <3>1. /\ e \in Events /\ Awaits(e) = currentCycle /\ Awaits(e)' = Never
          /\ \A f \in Events : Awaits(f) = currentCycle => Priority[f] >= Priority[e]
      BY <2>0, <2>5, <3>0, HandleStep
    <3>2. /\ \A f \in new : f # e /\ Awaits(f) = Never /\ Awaits(f)' = when
          /\ \A f : f # e /\ f \notin new => Awaits(f)' = Awaits(f)
      BY <2>0, <2>5, <3>0, HandleStep
    <3>3. /\ currentCycle' = currentCycle
          /\ outcome' = [f \in Events |-> IF f = e THEN "ran"
                                          ELSE IF f \in new THEN "waiting" ELSE outcome[f]]
      BY <2>5, <3>0 DEF Handle
    <3>4. when >= currentCycle
      BY QueueFacts
    <3>5. ASSUME NEW f \in Events \ {e} PROVE Timed!LeftOrScheduled(f)
      <4>1. CASE f \in new
        BY <2>s, <3>2, <3>3, <3>4, <4>1 DEF Timed!LeftOrScheduled, due
      <4>2. CASE f \notin new
        BY <2>s, <3>2, <3>3, <4>2 DEF Timed!LeftOrScheduled, due
      <4> QED BY <4>1, <4>2
    <3>6. due[e] = currentCycle /\ due'[e] = Never /\ outcome'[e] = "ran"
      BY <2>s, <3>1, <3>3
    <3>7. \A f \in Events : due[f] = currentCycle => Priority[f] >= Priority[e]
      BY <2>s, <3>1
    <3>8. Timed!Run(e)
      BY <2>t, <3>3, <3>5, <3>6, <3>7 DEF Timed!Run, due
    <3> QED BY <3>1, <3>8
  <2>6. CASE EndProcess
    <3>1. UNCHANGED <<currentCycle, outcome>>
      BY <2>6 DEF EndProcess
    <3> QED BY <2>0, <2>6, <2>u, <3>1, EndProcessStep
  <2>7. CASE UNCHANGED eqVars
    <3>1. UNCHANGED <<currentCycle, outcome>> /\ \A f : Awaits(f)' = Awaits(f)
      BY <2>7 DEF eqVars, Awaits
    <3> QED BY <2>u, <3>1
  <2> QED BY <2>1, <2>2, <2>3, <2>4, <2>5, <2>6, <2>7 DEF EQNext, Timed!TimedNext, due
<1> QED BY <1>1, <1>2, QueueInvAlways, PTL DEF EQSpec, ImplementsTimedEvents, Timed!TimedSpec
==============================================================================
