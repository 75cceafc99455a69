---------------------------- MODULE TimedEvents ----------------------------
(***************************************************************************)
(* What an event queue promises, without lists, iterators and cached       *)
(* cycles: an event that is scheduled runs once, at the cycle it was       *)
(* scheduled for and not before an event of that cycle with a smaller      *)
(* priority number, unless it is cancelled; time passes no scheduled event.*)
(***************************************************************************)
EXTENDS Integers

CONSTANTS Events, Priority, Never

VARIABLES now,      \* the current cycle
          due,      \* the cycle each event is scheduled for, or Never
          outcome   \* what became of each event

timedVars == <<now, due, outcome>>

TimedInit ==
    /\ now = 0
    /\ due = [e \in Events |-> Never]
    /\ outcome = [e \in Events |-> "new"]

\* An event the step is not about is left alone, or scheduled for now or later.
LeftOrScheduled(f) ==
    \/ due'[f] = due[f] /\ outcome'[f] = outcome[f]
    \/ due[f] = Never /\ due'[f] >= now /\ outcome'[f] = "waiting"

Schedule ==
    /\ due' \in [Events -> Int] /\ outcome' \in [Events -> {"new", "waiting", "ran", "removed"}]
    /\ \A f \in Events : LeftOrScheduled(f)
    /\ UNCHANGED now

Cancel(e) ==
    /\ due[e] # Never
    /\ due' = [due EXCEPT ![e] = Never]
    /\ outcome' = [outcome EXCEPT ![e] = "removed"]
    /\ UNCHANGED now

Advance ==
    /\ now' >= now
    /\ \A e \in Events : due[e] # Never => due[e] >= now'
    /\ UNCHANGED <<due, outcome>>

Run(e) ==
    /\ due[e] = now
    /\ \A f \in Events : due[f] = now => Priority[f] >= Priority[e]
    /\ due' \in [Events -> Int] /\ outcome' \in [Events -> {"new", "waiting", "ran", "removed"}]
    /\ due'[e] = Never /\ outcome'[e] = "ran"
    /\ \A f \in Events \ {e} : LeftOrScheduled(f)
    /\ UNCHANGED now

TimedNext ==
    \/ Schedule
    \/ Advance
    \/ \E e \in Events : Cancel(e) \/ Run(e)

TimedSpec == TimedInit /\ [][TimedNext]_timedVars
=============================================================================
