-------------------------------- MODULE Bank --------------------------------
(***************************************************************************)
(* One DDR3Bank with its subarray (nvmain/Banks/DDR3Bank, src/SubArray):   *)
(* "distributed timing control" by next* timers, events for what ends      *)
(* later, implicit precharges, power-down, and writes that are paused or   *)
(* cancelled for an ACTIVATE.  A bank has one subarray unless MATHeight    *)
(* says otherwise.                                                         *)
(*                                                                         *)
(* A timer is the number of cycles it still has to run, an event carries   *)
(* the cycles until it is due.  NVMain runs the events of a cycle before   *)
(* the controller's turn in that cycle, and the controller issues at most  *)
(* one command to a bank and then time goes on.  Bursts have length one    *)
(* and there is no data encoder and no endurance model.                    *)
(***************************************************************************)
EXTENDS Integers, Sequences, FiniteSets, SequencesExt

CONSTANTS Rows, NoRow,
          Writes, NoWrite,   \* write requests of the controller
          MaxCancellations,
          CycleWidth,        \* bits of ncycle_t
          Parameters         \* the timings considered

C(q) == IF q.tBURST > q.tCCD THEN q.tBURST ELSE q.tCCD

\* What the code takes for granted of the configured timings.
ASSUME TimingAssumption ==
    \A q \in Parameters :
        /\ q.tBURST + q.tWTR >= C(q)
        /\ q.tAL + q.tBURST + q.tWR >= C(q)
        /\ q.UsePrecharge => q.tRP > 0
        /\ q.tCAS + q.tBURST + q.tRTRS >= q.tCWD
        /\ q.tRCD >= q.tAL

VARIABLES p,         \* Params
          bank,      \* DDR3Bank: state and timers
          sub,       \* SubArray: state and timers
          events,    \* in the order in which they were inserted
          request    \* what the write requests carry

bvars == <<p, bank, sub, events, request>>

Larger(x, y) == IF x > y THEN x ELSE y
Timers == {"act", "pre", "rd", "wr", "pd", "pu"}

\* MAX(next*, now + cycles) for the timers of d.
Hold(timer, d) == [t \in Timers |-> IF t \in DOMAIN d THEN Larger(timer[t], d[t]) ELSE timer[t]]
Elapse(timer) == [t \in Timers |-> Larger(timer[t] - 1, 0)]
Idle == [t \in Timers |-> 0]

\* A write that has not been issued yet; time (what its cells need) and covered
\* (what has been written of it) are history.
NoRequest == [status |-> "none", writeProgress |-> 0, paused |-> FALSE, cancellations |-> 0,
              forced |-> FALSE, time |-> 0, covered |-> 0]

BankInit ==
    /\ p \in Parameters
    /\ bank = [state |-> "closed", next |-> Idle]
    /\ sub = [state |-> "closed", openRow |-> NoRow, next |-> Idle, preWrite |-> Idle,
              writeRequest |-> NoWrite, isWriting |-> FALSE, writeCycle |-> FALSE,
              writeTimer |-> 0, writeEnd |-> 0]
    /\ events = <<>>
    /\ request = [w \in Writes |-> NoRequest]

Event(kind, w, cycles) == [kind |-> kind, write |-> w, in |-> cycles]
NoEventDue == \A i \in DOMAIN events : events[i].in > 0

\* The rest of the cycle: time goes on.
Tick(b, s, e) ==
    /\ bank' = [b EXCEPT !.next = Elapse(@)]
    /\ sub' = [s EXCEPT !.next = Elapse(@), !.preWrite = Elapse(@),
                        !.writeEnd = IF s.isWriting THEN @ - 1 ELSE 0]
    /\ events' = [i \in DOMAIN e |-> [e[i] EXCEPT !.in = @ - 1]]
    /\ UNCHANGED p

-----------------------------------------------------------------------------
(* Write pausing. *)

\* Cycles still to be written when a write is interrupted now: in the optimal
\* mode those not yet passed, else those since the last iteration began.
Remaining(s) ==
    LET elapsed == s.writeTimer - s.writeEnd
        last == p.iterations - 1
        passed == {k \in 0 .. last : k * p.tIteration <= elapsed}
        begun == CHOOSE k \in passed : \A j \in passed : j <= k
    IN  (IF p.optimal THEN s.writeEnd ELSE s.writeTimer - begun * p.tIteration)
        % (2 ^ CycleWidth)

\* Seeded fault: the iteration that is cut off is not repeated.
WriteProgressNow(s) == s.writeEnd % (2 ^ CycleWidth)
WriteProgress(s) == Remaining(s)

\* More than 40% written: pause, else cancel.
Pauses(s) == 10 * Remaining(s) < 6 * s.writeTimer

Interrupted(s) == p.WritePausing /\ s.isWriting

\* Seeded fault: the completion of an interrupted write is still announced.
EventsAfterPauseKept(s) ==
    IF Interrupted(s) THEN Append(events, Event("returned", s.writeRequest, 1)) ELSE events

\* CheckWritePausing: events, timers and request of the write in progress.
EventsAfterPause(s) ==
    IF Interrupted(s)
    THEN Append(SelectSeq(events, LAMBDA e : ~(e.kind = "write" /\ e.write = s.writeRequest)),
                Event("returned", s.writeRequest, 1))
    ELSE events

TimersAfterPause(s) == IF Interrupted(s) THEN s.preWrite ELSE s.next

RequestsAfterPause(s) ==
    IF ~Interrupted(s) THEN request
    ELSE [request EXCEPT ![s.writeRequest] =
            [@ EXCEPT !.writeProgress = WriteProgress(s),
                      !.paused = Pauses(s),
                      !.cancellations = IF Pauses(s) THEN @ ELSE @ + 1,
                      !.forced = @ \/ (~Pauses(s) /\ request[s.writeRequest].cancellations + 1
                                                     >= MaxCancellations),
                      !.covered = IF Pauses(s) THEN @ + s.writeTimer - Remaining(s) ELSE 0]]

-----------------------------------------------------------------------------
(* What a command does to the bank. *)

\* The bank follows READ_PRECHARGE and WRITE_PRECHARGE at once.
After(auto) == IF auto THEN "closed" ELSE "open"

BankActivate == [bank EXCEPT !.state = "open", !.next = Hold(@, [pd |-> p.tRCD])]

\* From the READ to the first data of a WRITE.
Turnaround == p.tCAS + p.tBURST + p.tRTRS - p.tCWD

BankRead(auto) ==
    [bank EXCEPT !.state = After(auto),
                 !.next = Hold(@, [pd |-> IF auto THEN p.tAL + p.tRTP + p.tRP ELSE p.tRDPDEN,
                                   rd |-> C(p), wr |-> Turnaround])]

BankWrite(auto) ==
    LET data == p.tCWD + p.tBURST
        access == [rd |-> data + p.tWTR, wr |-> C(p)]
        shut == Larger(bank.next["act"], p.tAL + data + p.tWR + p.tRP)
    IN  [bank EXCEPT !.state = After(auto),
                     !.next = IF auto THEN Hold([@ EXCEPT !["pd"] = shut], access)
                              ELSE Hold(Hold(@, access), [pd |-> p.tWRPDEN])]

BankPrecharge == [bank EXCEPT !.state = "closed", !.next = Hold(@, [pd |-> p.tRP])]

BankRefresh == [bank EXCEPT !.next = Hold(@, [pd |-> p.tRFC])]

BankPowerDown(slow) ==
    [state |-> CASE bank.state = "open" -> "PDA" [] slow -> "PDPS" [] OTHER -> "PDPF",
     next |-> Hold(bank.next, [pu |-> p.tPD])]

BankPowerUp ==
    [state |-> IF bank.state = "PDA" THEN "open" ELSE "closed",
     next |-> Hold(bank.next, [pd |-> p.tXP, act |-> p.tXP, pre |-> p.tXP, wr |-> p.tXP,
                               rd |-> IF bank.state = "PDPS" THEN p.tXPDLL ELSE p.tXP])]

-----------------------------------------------------------------------------
(* Commands: IsIssuable and IssueCommand of the bank and of the subarray. *)

Ready(t) == NoEventDue /\ bank.next[t] = 0 /\ sub.next[t] = 0
Forced == p.WritePausing /\ sub.isWriting /\ request[sub.writeRequest].forced

Activate(r, priority) ==
    /\ Ready("act") /\ bank.state \in {"open", "closed"}
    /\ p.UsePrecharge => sub.state = "closed"
    /\ ~Forced /\ (Interrupted(sub) => priority)
    /\ Tick(BankActivate,
            [sub EXCEPT !.state = "open", !.openRow = r, !.writeCycle = FALSE,
                        !.next = Hold(TimersAfterPause(sub),
                                      [pre |-> Larger(p.tRCD, p.tRAS), pd |-> Larger(p.tRCD, p.tRAS),
                                       rd |-> p.tRCD - p.tAL, wr |-> p.tRCD - p.tAL])],
            EventsAfterPause(sub))
    /\ request' = RequestsAfterPause(sub)

\* After an access with implicit precharge all timers wait for nextActivate.
Shut(timer, cycles) == LET act == Larger(timer["act"], cycles)
                       IN  Hold(timer, [act |-> act, pre |-> act, rd |-> act, wr |-> act])

Read(r, auto) ==
    LET timer == TimersAfterPause(sub)
    IN  /\ Ready("rd") /\ bank.state = "open" /\ sub.state = "open" /\ sub.openRow = r
        /\ ~Forced /\ (auto => p.UsePrecharge)
        /\ Tick(BankRead(auto),
                [sub EXCEPT !.next =
                    Hold(IF auto THEN Shut(timer, p.tAL + p.tRTP + p.tRP)
                         ELSE Hold(timer, [pre |-> p.tAL + p.tBURST + p.tRTP - p.tCCD,
                                           rd |-> C(p), wr |-> Turnaround]),
                         [pd |-> p.tCAS + p.tAL + p.tBURST + 1])],
                EventsAfterPause(sub)
                    \o (IF auto THEN <<Event("implicit", NoWrite, p.tAL + p.tRTP)>> ELSE <<>>)
                    \o <<Event("read", NoWrite, p.tCAS + p.tBURST)>>)
        /\ request' = RequestsAfterPause(sub)

\* The time a write needs: what is left of a paused one, else what its cells
\* need; with a write-back row buffer only the first write after an ACTIVATE.
WriteTime(w, cells) ==
    IF p.writeBack /\ sub.writeCycle THEN 0
    ELSE IF request[w].paused THEN request[w].writeProgress ELSE cells

\* Seeded fault: only the command, not the cells, holds back a PRECHARGE.
WriteTimersShort(auto, wt) ==
    LET data == p.tCWD + p.tBURST + wt
    IN  IF auto THEN Shut(sub.next, p.tAL + data + p.tWR + p.tRP)
        ELSE Hold(sub.next, [pre |-> p.tAL + p.tCWD + p.tBURST, rd |-> data + p.tWTR,
                             wr |-> C(p) + wt])

WriteTimers(auto, wt) ==
    LET data == p.tCWD + p.tBURST + wt
    IN  IF auto THEN Shut(sub.next, p.tAL + data + p.tWR + p.tRP)
        ELSE Hold(sub.next, [pre |-> p.tAL + data + p.tWR, rd |-> data + p.tWTR,
                             wr |-> C(p) + wt])

Write(w, r, auto, cells) ==
    LET wt == WriteTime(w, cells)
        timer == WriteTimers(auto, wt)
        fresh == ~request[w].paused
    IN  /\ Ready("wr") /\ bank.state = "open" /\ sub.state = "open" /\ sub.openRow = r
        /\ request[w].status # "busy" /\ (auto => p.UsePrecharge)
        /\ fresh /\ request[w].time > 0 => cells = request[w].time
        /\ Tick(BankWrite(auto),
                [sub EXCEPT !.preWrite = sub.next,
                            !.next = Hold(timer, [pd |-> timer["pre"]]),
                            !.writeRequest = w, !.isWriting = TRUE, !.writeCycle = TRUE,
                            !.writeTimer = wt, !.writeEnd = wt],
                events
                    \o (IF auto THEN <<Event("implicit", NoWrite, p.tAL + p.tCWD + p.tBURST + wt
                                                                  + p.tWR)>> ELSE <<>>)
                    \o <<Event("write", w, p.tCWD + C(p) + wt)>>)
        /\ request' = [request EXCEPT ![w] =
                          [@ EXCEPT !.status = "busy", !.paused = FALSE,
                                    !.writeProgress = IF p.writeBack THEN @ ELSE wt,
                                    !.time = IF fresh THEN wt ELSE @]]

\* PRECHARGE, and PRECHARGE_ALL for a bank with an active subarray: for one without
\* DDR3Bank would issue nothing, and no controller queues it then.
Precharge(cells) ==
    LET time == Larger(1, IF p.writeBack /\ sub.writeCycle THEN p.tRP + cells ELSE p.tRP)
    IN  /\ Ready("pre") /\ bank.state \in {"open", "closed"} /\ sub.state \in {"open", "closed"}
        /\ p.UsePrecharge
        /\ Tick(BankPrecharge,
                [sub EXCEPT !.state = "precharging", !.next = Hold(@, [act |-> time])],
                Append(events, Event("precharged", NoWrite, time)))
        /\ UNCHANGED request

Refresh ==
    /\ Ready("act") /\ bank.state \in {"open", "closed"} /\ sub.state = "closed"
    /\ Tick(BankRefresh,
            [sub EXCEPT !.state = "refreshing", !.next = Hold(@, [act |-> p.tRFC])],
            Append(events, Event("refreshed", NoWrite, p.tRFC)))
    /\ UNCHANGED request

PowerDown(slow) ==
    /\ p.UseLowPower
    /\ Ready("pd") /\ ~sub.isWriting /\ bank.state \in {"open", "closed"}
    /\ slow => p.SlowExit /\ bank.state = "closed"
    /\ Tick(BankPowerDown(slow), sub, events)
    /\ UNCHANGED request

PowerUp ==
    /\ NoEventDue /\ bank.next["pu"] = 0 /\ bank.state \in {"PDA", "PDPF", "PDPS"}
    /\ Tick(BankPowerUp, sub, events)
    /\ UNCHANGED request

\* A cycle without command.
Wait == NoEventDue /\ Tick(bank, sub, events) /\ UNCHANGED request

-----------------------------------------------------------------------------
(* Events: RequestComplete of the subarray, in the order of insertion. *)

\* "Don't set writing to false unless ... writeRequest would be the same".
StillWriting(w) == sub.isWriting /\ sub.writeRequest # w

Completed(e) ==
    CASE e.kind \in {"write", "returned"} ->
            [sub EXCEPT !.isWriting = StillWriting(e.write)]
      [] e.kind = "implicit" -> [sub EXCEPT !.state = "precharging"]
      [] e.kind \in {"precharged", "refreshed"} ->
            [sub EXCEPT !.state = "closed", !.openRow = NoRow]
      [] OTHER -> sub

RequestComplete ==
    \E i \in DOMAIN events :
        LET e == events[i]
            rest == RemoveAt(events, i)
        IN  /\ e.in = 0 /\ \A j \in 1 .. i - 1 : events[j].in > 0
            /\ sub' = Completed(e)
            /\ events' = IF e.kind = "implicit"
                         THEN Append(rest, Event("precharged", NoWrite, p.tRP)) ELSE rest
            /\ request' = CASE e.kind = "write" -> [request EXCEPT ![e.write] = NoRequest]
                             [] e.kind = "returned" -> [request EXCEPT ![e.write].status = "back"]
                             [] OTHER -> request
            /\ UNCHANGED <<p, bank>>

BankNext ==
    \/ \E r \in Rows, priority \in BOOLEAN : Activate(r, priority)
    \/ \E r \in Rows, auto \in BOOLEAN : Read(r, auto)
    \/ \E w \in Writes, r \in Rows, auto \in BOOLEAN, cells \in p.cells : Write(w, r, auto, cells)
    \/ \E cells \in p.cells : Precharge(cells)
    \/ Refresh
    \/ \E slow \in BOOLEAN : PowerDown(slow)
    \/ PowerUp
    \/ Wait
    \/ RequestComplete

BankSpec == BankInit /\ [][BankNext]_bvars

-----------------------------------------------------------------------------
(* Properties. *)

Pending(kinds) == {i \in DOMAIN events : events[i].kind \in kinds}

RB == INSTANCE RowBuffer
        WITH state <- IF Pending({"implicit"}) # {} THEN "precharging" ELSE sub.state,
             row <- IF Pending({"implicit"}) # {} \/ sub.state # "open" THEN NoRow ELSE sub.openRow,
             writing <- sub.isWriting /\ ~\E i \in Pending({"returned"}) :
                                              events[i].write = sub.writeRequest,
             serving <- Cardinality(Pending({"read", "write"})),
             down <- bank.state \in {"PDA", "PDPF", "PDPS"}

\* The timers keep the bank to what the controllers assume of it: no READ or
\* PRECHARGE cuts off a write, a row that closes by itself is closed before the
\* next ACTIVATE, nothing ends while the bank is powered down.
ImplementsRowBuffer == RB!RBSpec

\* A write in progress is announced once: a write that is paused, cancelled
\* or followed by another has one completion, and none is left behind.
OneCompletion ==
    \A w \in Writes :
        Cardinality({i \in Pending({"write", "returned"}) : events[i].write = w})
            = (IF request[w].status = "busy" THEN 1 ELSE 0)

\* However often a write is paused, what has been written and what it is
\* resumed with cover the time its cells need.
WriteTimeCovered ==
    \A w \in Writes :
        LET returned == \E i \in Pending({"returned"}) : events[i].write = w
        IN  ~p.writeBack /\ (request[w].paused \/ (request[w].status = "busy" /\ ~returned))
            => request[w].covered + request[w].writeProgress >= request[w].time
=============================================================================
