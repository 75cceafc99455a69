----------------------------- MODULE EventQueue -----------------------------
(***************************************************************************)
(* NVMain's event queue (src/EventQueue.cpp) as the execution-driven       *)
(* simulator uses it: NVMain::Cycle runs the controllers, which insert and *)
(* remove events, and then calls Loop, which processes the events that are *)
(* due.  Process walks over a live list: the handlers it calls insert      *)
(* events into the map, and into that very list, so each handler is a step *)
(* of its own.  In this mode an event is inserted with the priority it     *)
(* stores.                                                                 *)
(***************************************************************************)
EXTENDS Integers, Sequences, FiniteSets

CONSTANTS Events,     \* Event objects
          Priority,   \* priority of each: a small number goes first
          MaxCycle,   \* bound: the cycle at which Loop is called no more
          MaxDelay,   \* bound: how far ahead events are inserted
          MaxSteps    \* bound: steps of one call of Loop

ASSUME EventAssumption ==
    /\ Priority \in [Events -> Int]
    /\ MaxCycle \in Nat /\ MaxDelay \in Nat /\ MaxSteps \in Nat

VARIABLES
    eventMap,        \* cycle |-> list of events, for the cycles that have events
    nextEventCycle,  \* the cached first key of eventMap
    lastEventCycle,
    currentCycle,
    stepCycles,      \* Loop: steps still to go
    processing,      \* Process: the cycle whose list it walks over, or Never
    it,              \* Process: position of its iterator
    outcome          \* history: what became of each event

eqVars == <<eventMap, nextEventCycle, lastEventCycle, currentCycle, stepCycles,
            processing, it, outcome>>

\* std::numeric_limits<ncycle_t>::max( )
Never == -1

After(next, cycle) == next = Never \/ next > cycle

EQInit ==
    /\ eventMap = [c \in {} |-> <<>>]
    /\ nextEventCycle = Never
    /\ lastEventCycle = 0
    /\ currentCycle = 0
    /\ stepCycles = 0
    /\ processing = Never
    /\ it = 0
    /\ outcome = [e \in Events |-> "new"]

Elements(list) == {list[i] : i \in DOMAIN list}
Inserted == UNION {Elements(eventMap[c]) : c \in DOMAIN eventMap}

\* eventMap.begin( )->first
FirstKey(map) ==
    IF DOMAIN map = {} THEN Never
    ELSE CHOOSE c \in DOMAIN map : \A d \in DOMAIN map : c <= d

-----------------------------------------------------------------------------
\* Seeded fault: an event goes to the front of those with its priority.
PositionFront(list, p) ==
    CHOOSE k \in 1 .. Len(list) + 1 :
        /\ k <= Len(list) => Priority[list[k]] >= p
        /\ \A j \in 1 .. k - 1 : Priority[list[j]] < p

\* Before the first event with a greater priority number, or at the end.
Position(list, p) ==
    CHOOSE k \in 1 .. Len(list) + 1 :
        /\ k <= Len(list) => Priority[list[k]] > p
        /\ \A j \in 1 .. k - 1 : Priority[list[j]] <= p

InsertAt(list, k, e) == SubSeq(list, 1, k - 1) \o <<e>> \o SubSeq(list, k, Len(list))

\* eventMap after InsertEvent
WithEvent(map, e, when) ==
    [c \in DOMAIN map \cup {when} |->
        IF c # when THEN map[c]
        ELSE IF when \notin DOMAIN map THEN <<e>>
        ELSE InsertAt(map[when], Position(map[when], Priority[e]), e)]

\* Seeded fault: the cached cycle is not updated for an earlier event.
EarlierStale(when) == IF nextEventCycle = Never THEN when ELSE nextEventCycle

\* nextEventCycle after InsertEvent
Earlier(when) == IF After(nextEventCycle, when) THEN when ELSE nextEventCycle

\* The controllers run between two calls of Loop.
Outside == stepCycles = 0 /\ processing = Never

InsertEvent(e, when) ==
    /\ Outside
    /\ e \notin Inserted
    /\ eventMap' = WithEvent(eventMap, e, when)
    /\ nextEventCycle' = Earlier(when)
    /\ outcome' = [outcome EXCEPT ![e] = "waiting"]
    /\ UNCHANGED <<lastEventCycle, currentCycle, stepCycles, processing, it>>

\* The position of e in list
IndexOf(list, e) == CHOOSE i \in DOMAIN list : list[i] = e

Without(list, e) ==
    LET i == IndexOf(list, e) IN SubSeq(list, 1, i - 1) \o SubSeq(list, i + 1, Len(list))

RemoveEvent(e, when) ==
    /\ Outside
    /\ when \in DOMAIN eventMap /\ e \in Elements(eventMap[when])
    /\ LET rest == Without(eventMap[when], e)
       IN  eventMap' = IF rest = <<>>
                       THEN [c \in DOMAIN eventMap \ {when} |-> eventMap[c]]
                       ELSE [eventMap EXCEPT ![when] = rest]
    /\ nextEventCycle' = FirstKey(eventMap')
    /\ outcome' = [outcome EXCEPT ![e] = "removed"]
    /\ UNCHANGED <<lastEventCycle, currentCycle, stepCycles, processing, it>>

-----------------------------------------------------------------------------
Process ==
    /\ processing' = nextEventCycle
    /\ it' = 1
    /\ UNCHANGED <<eventMap, nextEventCycle, lastEventCycle, outcome>>

\* Loop( steps ) is called; with no steps it processes what is due now.
Loop(steps) ==
    /\ Outside
    /\ currentCycle + steps <= MaxCycle
    /\ \/ /\ steps = 0 /\ nextEventCycle = currentCycle
          /\ Process
          /\ UNCHANGED <<currentCycle, stepCycles>>
       \/ /\ steps > 0
          /\ stepCycles' = steps
          /\ UNCHANGED <<eventMap, nextEventCycle, lastEventCycle, currentCycle,
                         processing, it, outcome>>

\* No events in this step amount.
Skipped == After(nextEventCycle, currentCycle + stepCycles)

\* Seeded fault: the cycles up to the event are not taken off the steps.
LoopIterationAllSteps ==
    /\ stepCycles > 0 /\ processing = Never
    /\ IF Skipped
       THEN /\ currentCycle' = currentCycle + stepCycles
            /\ stepCycles' = 0
            /\ UNCHANGED <<eventMap, nextEventCycle, lastEventCycle, processing, it, outcome>>
       ELSE /\ currentCycle' = nextEventCycle
            /\ stepCycles' = stepCycles
            /\ Process

\* One iteration of the while loop.
LoopIteration ==
    /\ stepCycles > 0 /\ processing = Never
    /\ IF Skipped
       THEN /\ currentCycle' = currentCycle + stepCycles
            /\ stepCycles' = 0
            /\ UNCHANGED <<eventMap, nextEventCycle, lastEventCycle, processing, it, outcome>>
       ELSE /\ currentCycle' = nextEventCycle
            /\ stepCycles' = stepCycles - (nextEventCycle - currentCycle)
            /\ Process

\* What handlers insert: a response or a refresh pulse for a later cycle, or,
\* when tRP is 0, the end of an implicit precharge for this cycle.
MayInsert(e, f, when) ==
    /\ f \notin Inserted
    /\ \/ when > currentCycle
       \/ when = currentCycle /\ Priority[f] >= Priority[e]

\* The handler of the event at the iterator inserts the events of new.
Handle(new, when) ==
    LET list == eventMap[processing]
        e == list[it]
    IN  /\ processing # Never /\ it <= Len(list)
        /\ \A f \in new : MayInsert(e, f, when)
        /\ \/ new = {} /\ UNCHANGED <<eventMap, nextEventCycle>>
           \/ \E f \in new :
                 /\ new = {f}
                 /\ eventMap' = WithEvent(eventMap, f, when)
                 /\ nextEventCycle' = Earlier(when)
        /\ it' = IndexOf(eventMap'[processing], e) + 1
        /\ outcome' = [f \in Events |-> IF f = e THEN "ran"
                                        ELSE IF f \in new THEN "waiting" ELSE outcome[f]]
        /\ UNCHANGED <<lastEventCycle, currentCycle, stepCycles, processing>>

\* The end of Process, which erases the cycle that is first by now.
EndProcess ==
    /\ processing # Never /\ it > Len(eventMap[processing])
    /\ eventMap' = [c \in DOMAIN eventMap \ {nextEventCycle} |-> eventMap[c]]
    /\ lastEventCycle' = nextEventCycle
    /\ nextEventCycle' = FirstKey(eventMap')
    /\ processing' = Never
    /\ it' = 0
    /\ UNCHANGED <<currentCycle, stepCycles, outcome>>

Soon == currentCycle .. currentCycle + MaxDelay

EQNext ==
    \/ \E e \in Events, when \in Soon : InsertEvent(e, when)
    \/ \E e \in Events : \E when \in DOMAIN eventMap : RemoveEvent(e, when)
    \/ \E steps \in 0 .. MaxSteps : Loop(steps)
    \/ LoopIteration
    \/ \E when \in Soon : Handle({}, when) \/ \E f \in Events : Handle({f}, when)
    \/ EndProcess

EQSpec == EQInit /\ [][EQNext]_eqVars

-----------------------------------------------------------------------------
(* Properties. *)

\* Waiting in the queue: in a list, and not yet passed by the iterator.
Waiting(c) ==
    {eventMap[c][i] : i \in {j \in DOMAIN eventMap[c] : c = processing => j >= it}}

\* The cycle for which an event waits.
Due(e) ==
    IF \E c \in DOMAIN eventMap : e \in Waiting(c)
    THEN CHOOSE c \in DOMAIN eventMap : e \in Waiting(c)
    ELSE Never

\* The cached nextEventCycle is the first cycle of the map, none of its lists is
\* empty, and none is in the past: Loop subtracts currentCycle from it without a
\* sign, and Process asserts that the cycle has a list.
NextIsEarliest ==
    /\ nextEventCycle = FirstKey(eventMap)
    /\ \A c \in DOMAIN eventMap : c >= currentCycle /\ eventMap[c] # <<>>
    /\ processing # Never => processing = nextEventCycle /\ processing = currentCycle

\* Time never goes back, and Loop( steps ) advances it by steps: it is never
\* left with steps to go past the bound it was called with.
TimeAdvances ==
    [][/\ currentCycle' >= currentCycle
       /\ stepCycles > 0 => currentCycle' + stepCycles' = currentCycle + stepCycles]_eqVars

\* The queue implements timed events: no insertion, removal or handler makes an
\* event fire twice, at another cycle, out of order, or never, although handlers
\* insert into the list that Process is walking over.
Timed == INSTANCE TimedEvents
    WITH now <- currentCycle, due <- [e \in Events |-> Due(e)]

ImplementsTimedEvents == Timed!TimedSpec
=============================================================================
