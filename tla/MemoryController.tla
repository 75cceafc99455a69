-------------------------- MODULE MemoryController --------------------------
(***************************************************************************)
(* A channel of NVMain: the base class of the memory controllers           *)
(* (src/MemoryController.cpp) over one rank of banks with one subarray     *)
(* each.  A controller schedules one request of a transaction queue per    *)
(* cycle: it turns the request into commands, appends them to the command  *)
(* queue of the bank and records, in effectiveRow, the row the bank will   *)
(* have open once they are issued.  It then issues at most one command     *)
(* whose bank accepts it.  Refreshes and power-downs of the rank are mixed *)
(* in.  The handlers are operators on the record of the whole channel; the *)
(* modules FRFCFS and WriteDrain hold the two controllers.                 *)
(*                                                                         *)
(* Timing is abstracted: a cycle is given the set of banks whose timers    *)
(* have run out, and what a timer protects is a condition on the state     *)
(* (StateAllows, MayPowerDown).                                            *)
(***************************************************************************)
EXTENDS Integers, Sequences, FiniteSets

CONSTANTS
    BANKS,                \* number of banks
    Rows, NoRow,          \* rows of a bank; p->ROWS: none
    Requests, NoRequest,  \* reads and writes from above
    BankOf, RowOf,        \* where the address of a request translates to
    IsRead,               \* READ or WRITE
    Queues,               \* the transaction queues
    StarvationThreshold,
    DelayedRefreshThreshold,
    MaxCancellations,
    Parameters            \* the configurations considered

Banks == 0 .. BANKS - 1

ASSUME ControllerAssumption ==
    /\ BANKS \in Nat \ {0}
    /\ NoRow \notin Rows /\ NoRequest \notin Requests
    /\ BankOf \in [Requests -> Banks] /\ RowOf \in [Requests -> Rows]
    /\ IsRead \in [Requests -> BOOLEAN]
    /\ StarvationThreshold \in Nat /\ MaxCancellations \in Nat
    /\ DelayedRefreshThreshold \in Nat \ {0}
    /\ \A q \in Parameters :
          /\ q.UsePrecharge \in BOOLEAN /\ q.UseRefresh \in BOOLEAN
          /\ q.UseLowPower \in BOOLEAN /\ q.WritePausing \in BOOLEAN
          /\ q.ClosePage \in 0 .. 2
          /\ q.BanksPerRefresh \in 1 .. BANKS /\ BANKS % q.BanksPerRefresh = 0

\* Refreshes are for memories with precharges, pausing is for memories without.
ASSUME FeatureAssumption ==
    \A q \in Parameters : /\ q.UseRefresh => q.UsePrecharge
                          /\ q.WritePausing => ~q.UsePrecharge

VARIABLES p,  \* Params of this simulation
          s   \* the channel

\* The head of the refresh group of a bank, and the group.
BankHead(b) == (b \div p.BanksPerRefresh) * p.BanksPerRefresh
Group(b) == {d \in Banks : BankHead(d) = BankHead(b)}

InitialChannel ==
    [transactionQueues |-> [q \in Queues |-> <<>>],
     fresh             |-> {},                     \* arrivalCycle is this cycle
     commandQueues     |-> [b \in Banks |-> <<>>],
     effectiveRow      |-> [b \in Banks |-> NoRow],
     starvationCounter |-> [b \in Banks |-> 0],
     delayedRefreshCounter |-> [b \in Banks |-> 0],  \* of the group b heads
     bankNeedRefresh   |-> [b \in Banks |-> FALSE],
     refreshQueued     |-> [b \in Banks |-> FALSE],
     nextRefreshBank   |-> 0,
     curQueue          |-> 0,
     rankPowerDown     |-> FALSE,
     issued            |-> {},                     \* FLAG_ISSUED
     forced            |-> {},                     \* FLAG_FORCED
     cancellations     |-> [r \in Requests |-> 0],
     bank              |-> [b \in Banks |-> "closed"],
     openRow           |-> [b \in Banks |-> NoRow],
     writing           |-> [b \in Banks |-> NoRequest],  \* isWriting, writeRequest
     serving           |-> {},                     \* requests whose response is to come
     failure           |-> "none"]

Command(type, row, req) == [type |-> type, row |-> row, req |-> req, priority |-> FALSE]

-----------------------------------------------------------------------------
(* Transaction queues and the choice of a request. *)

Enqueue(c, q, r) ==
    [c EXCEPT !.transactionQueues[q] = Append(@, r), !.fresh = @ \cup {r}]

Prequeue(c, q, r) == [c EXCEPT !.transactionQueues[q] = <<r>> \o @]

\* With one subarray, activateQueued, activeSubArray and a valid effectiveRow
\* are the same thing.
Active(c, b) == c.effectiveRow[b] # NoRow
Hit(c, r) == c.effectiveRow[BankOf[r]] = RowOf[r]

\* Seeded fault: requests are scheduled to banks with a queued refresh.
SchedulableDuringRefresh(c, r) ==
    /\ c.commandQueues[BankOf[r]] = <<>>
    /\ ~c.bankNeedRefresh[BankOf[r]]
    /\ r \notin c.fresh

\* What all the Find functions ask.
Schedulable(c, r) ==
    /\ c.commandQueues[BankOf[r]] = <<>>
    /\ ~c.bankNeedRefresh[BankOf[r]]
    /\ ~c.refreshQueued[BankOf[r]]
    /\ r \notin c.fresh

\* Positions of the requests that each Find function accepts.
At(c, q, S) == {i \in DOMAIN c.transactionQueues[q] :
                   c.transactionQueues[q][i] \in S /\ Schedulable(c, c.transactionQueues[q][i])}
FindStarvedRequest(c, q) ==
    At(c, q, {r \in Requests : /\ Active(c, BankOf[r]) /\ ~Hit(c, r)
                               /\ c.starvationCounter[BankOf[r]] >= StarvationThreshold})
FindRowBufferHit(c, q) == At(c, q, {r \in Requests : Hit(c, r)})
FindOldestReadyRequest(c, q) == At(c, q, {r \in Requests : Active(c, BankOf[r])})
FindClosedBankRequest(c, q) == At(c, q, {r \in Requests : ~Active(c, BankOf[r])})

First(S) == CHOOSE i \in S : \A j \in S : i <= j

\* IsLastRequest: rest is the queue without r.
IsLastRequest(rest, r) ==
    CASE p.ClosePage = 0 -> FALSE
      [] p.ClosePage = 1 -> \A i \in DOMAIN rest : BankOf[rest[i]] = BankOf[r]
                                                   => RowOf[rest[i]] # RowOf[r]
      [] OTHER           -> TRUE

-----------------------------------------------------------------------------
(* From a request to commands. *)

Access(r, last) ==
    Command(IF last THEN IF IsRead[r] THEN "READ_PRECHARGE" ELSE "WRITE_PRECHARGE"
            ELSE IF IsRead[r] THEN "READ" ELSE "WRITE", RowOf[r], r)

\* An ACTIVATE takes priority over a write in progress.
Activate(c, r) == [Command("ACTIVATE", RowOf[r], NoRequest)
                      EXCEPT !.priority = c.writing[BankOf[r]] # NoRequest]

\* Seeded fault: a row miss does not close the open row first.
IssueMemoryCommandsNoPrecharge(c, r, lastRequest) ==
    LET b == BankOf[r]
        last == lastRequest /\ p.UsePrecharge
    IN  IF ~Active(c, b)
        THEN [c EXCEPT !.commandQueues[b] = @ \o <<Activate(c, r), Access(r, last)>>,
                       !.effectiveRow[b] = IF last THEN NoRow ELSE RowOf[r],
                       !.starvationCounter[b] = 0]
        ELSE IF ~Hit(c, r)
        THEN [c EXCEPT !.commandQueues[b] = @ \o <<Activate(c, r), Access(r, FALSE)>>,
                       !.effectiveRow[b] = RowOf[r],
                       !.starvationCounter[b] = 0]
        ELSE [c EXCEPT !.commandQueues[b] = Append(@, Access(r, last)),
                       !.effectiveRow[b] = IF last THEN NoRow ELSE @]

\* A closed bank, a row miss, a row hit.  The counter only matters below the
\* threshold.
IssueMemoryCommands(c, r, lastRequest) ==
    LET b == BankOf[r]
        last == lastRequest /\ p.UsePrecharge
        precharge == Command("PRECHARGE", c.effectiveRow[b], NoRequest)
    IN  IF ~Active(c, b)
        THEN [c EXCEPT !.commandQueues[b] = @ \o <<Activate(c, r), Access(r, last)>>,
                       !.effectiveRow[b] = IF last THEN NoRow ELSE RowOf[r],
                       !.starvationCounter[b] = 0]
        ELSE IF ~Hit(c, r)
        THEN [c EXCEPT !.commandQueues[b] =
                           @ \o (IF p.UsePrecharge THEN <<precharge>> ELSE <<>>)
                             \o <<Activate(c, r), Access(r, FALSE)>>,
                       !.effectiveRow[b] = RowOf[r],
                       !.starvationCounter[b] = 0]
        ELSE [c EXCEPT !.commandQueues[b] = Append(@, Access(r, last)),
                       !.effectiveRow[b] = IF last THEN NoRow ELSE @,
                       !.starvationCounter[b] =
                           IF @ < StarvationThreshold THEN @ + 1 ELSE @,
                       !.failure = IF last /\ p.ClosePage = 2 THEN "assert" ELSE @]

\* Seeded fault: the request found is not taken off the transaction queue.
ScheduleAtKeeping(c, q, i) ==
    LET queue == c.transactionQueues[q]
    IN  IssueMemoryCommands(c, queue[i], IsLastRequest(queue, queue[i]))

\* The request at position i of queue q leaves it for the command queues.
ScheduleAt(c, q, i) ==
    LET queue == c.transactionQueues[q]
        rest == SubSeq(queue, 1, i - 1) \o SubSeq(queue, i + 1, Len(queue))
    IN  IssueMemoryCommands([c EXCEPT !.transactionQueues[q] = rest], queue[i],
                            IsLastRequest(rest, queue[i]))

-----------------------------------------------------------------------------
(* Refresh. *)

NeedRefresh(c, b) == p.UseRefresh /\ c.delayedRefreshCounter[BankHead(b)] >= DelayedRefreshThreshold

ProcessRefreshPulse(c, b) ==
    LET counted == [c EXCEPT !.delayedRefreshCounter[BankHead(b)] = @ + 1]
    IN  [counted EXCEPT !.bankNeedRefresh =
            [d \in Banks |-> @[d] \/ (d \in Group(b) /\ NeedRefresh(counted, b))]]

\* HandleRefresh for the group with head h: PRECHARGE_ALL for its active banks,
\* REFRESH for its head.
QueueRefresh(c, h) ==
    LET open(b) == p.UsePrecharge /\ b \in Group(h) /\ Active(c, b)
        pre(b) == IF open(b) THEN <<Command("PRECHARGE_ALL", NoRow, NoRequest)>> ELSE <<>>
        ref(b) == IF b = h THEN <<Command("REFRESH", NoRow, NoRequest)>> ELSE <<>>
        queued == [c EXCEPT
            !.commandQueues = [b \in Banks |-> @[b] \o pre(b) \o ref(b)],
            !.effectiveRow = [b \in Banks |-> IF open(b) THEN NoRow ELSE @[b]],
            !.refreshQueued = [b \in Banks |-> @[b] \/ b \in Group(h)],
            !.delayedRefreshCounter[h] = @ - 1,
            !.nextRefreshBank = IF @ + p.BanksPerRefresh >= BANKS THEN 0
                                ELSE @ + p.BanksPerRefresh]
    IN  [queued EXCEPT !.bankNeedRefresh =
            [b \in Banks |-> @[b] /\ (b \in Group(h) => NeedRefresh(queued, h))]]

\* The groups that need a refresh, in the order HandleRefresh looks at them.
RefreshTurn(c, h) == (h - c.nextRefreshBank + BANKS) % BANKS
RefreshHeads(c) == {h \in Banks : BankHead(h) = h /\ NeedRefresh(c, h)}
NextRefreshHead(c) ==
    CHOOSE h \in RefreshHeads(c) :
        \A g \in RefreshHeads(c) : RefreshTurn(c, h) <= RefreshTurn(c, g)

-----------------------------------------------------------------------------
(* The rank: what it accepts and what a command does to it. *)

RankQueueEmpty(c) == \A b \in Banks : c.commandQueues[b] = <<>>

\* The nextPowerDown timers and isWriting keep a busy rank up.
MayPowerDown(c) ==
    /\ c.serving = {}
    /\ \A b \in Banks : c.bank[b] \in {"open", "closed"}

\* Seeded fault: a powered-down rank is woken for a refresh only.
HandleLowPowerForRefresh(c, timer) ==
    IF ~(p.UseLowPower /\ timer) THEN c
    ELSE IF RefreshHeads(c) # {} THEN [c EXCEPT !.rankPowerDown = FALSE]
    ELSE IF c.rankPowerDown THEN c
    ELSE [c EXCEPT !.rankPowerDown = RankQueueEmpty(c) /\ MayPowerDown(c)]

\* timer: the power-up or power-down timers of the rank have run out.
HandleLowPower(c, timer) ==
    IF ~(p.UseLowPower /\ timer) THEN c
    ELSE IF RefreshHeads(c) # {} THEN [c EXCEPT !.rankPowerDown = FALSE]
    ELSE IF c.rankPowerDown THEN [c EXCEPT !.rankPowerDown = RankQueueEmpty(c)]
    ELSE [c EXCEPT !.rankPowerDown = RankQueueEmpty(c) /\ MayPowerDown(c)]

\* What the rank, the bank and the subarray ask of a command besides their
\* timers.  After a write, nextRead and nextPrecharge cover all of it.
StateAllows(c, b, cmd) ==
    /\ ~c.rankPowerDown
    /\ CASE cmd.type = "ACTIVATE" ->
              /\ c.bank[b] = "closed" \/ ~p.UsePrecharge
              /\ p.WritePausing /\ c.writing[b] # NoRequest
                 => c.writing[b] \notin c.forced /\ cmd.priority
         [] cmd.type \in {"READ", "READ_PRECHARGE"} ->
              c.bank[b] = "open" /\ c.openRow[b] = cmd.row /\ c.writing[b] = NoRequest
         [] cmd.type \in {"WRITE", "WRITE_PRECHARGE"} ->
              c.bank[b] = "open" /\ c.openRow[b] = cmd.row
         [] cmd.type \in {"PRECHARGE", "PRECHARGE_ALL"} ->
              c.bank[b] \in {"open", "closed"} /\ c.writing[b] = NoRequest
         [] cmd.type = "REFRESH" ->
              \A d \in Group(b) : c.bank[d] = "closed"

\* The reads that could pause a write: the bank accepts the read or an ACTIVATE
\* for it, with the timers of the banks in ready run out.
FindWriteStalledRead(c, q, ready) ==
    At(c, q, {r \in Requests : /\ p.WritePausing /\ IsRead[r]
                               /\ c.writing[BankOf[r]] # NoRequest
                               /\ BankOf[r] \in ready
                               /\ \E cmd \in {Access(r, FALSE), Activate(c, r)} :
                                     StateAllows(c, BankOf[r], cmd)})

\* IssueCommand of the rank, the bank and the subarray.
Execute(c, b, cmd) ==
    CASE cmd.type = "ACTIVATE" ->
           [c EXCEPT !.bank[b] = "open", !.openRow[b] = cmd.row]
      [] cmd.type \in {"READ", "WRITE"} ->
           [c EXCEPT !.serving = @ \cup {cmd.req},
                     !.writing[b] = IF IsRead[cmd.req] THEN @ ELSE cmd.req]
      [] cmd.type \in {"READ_PRECHARGE", "WRITE_PRECHARGE"} ->
           [c EXCEPT !.serving = @ \cup {cmd.req},
                     !.writing[b] = IF IsRead[cmd.req] THEN @ ELSE cmd.req,
                     !.bank[b] = "precharging", !.openRow[b] = NoRow]
      [] cmd.type \in {"PRECHARGE", "PRECHARGE_ALL"} ->
           [c EXCEPT !.bank[b] = "precharging", !.openRow[b] = NoRow]
      [] cmd.type = "REFRESH" ->
           [c EXCEPT !.bank = [d \in Banks |-> IF d \in Group(b) THEN "refreshing" ELSE @[d]]]

\* CheckWritePausing, when an ACTIVATE interrupts the write of b: the write is
\* paused, or cancelled and after too many cancellations forced, and comes back
\* to the head of its transaction queue in the same cycle.
PauseWrite(c, b, q, cancel) ==
    LET w == c.writing[b]
        count == c.cancellations[w] + 1
    IN  Prequeue([c EXCEPT !.writing[b] = NoRequest,
                           !.serving = @ \ {w},
                           !.cancellations[w] =
                               IF cancel /\ @ < MaxCancellations THEN @ + 1 ELSE @,
                           !.forced = IF cancel /\ count >= MaxCancellations
                                      THEN @ \cup {w} ELSE @], q, w)

ResetRefreshQueued(c, b) ==
    [c EXCEPT !.refreshQueued = [d \in Banks |-> @[d] /\ d \notin Group(b)],
              !.failure = IF \E d \in Group(b) : ~c.refreshQueued[d] THEN "assert" ELSE @]

\* What remove_if leaves of a command queue: the commands without FLAG_ISSUED.
NotIssued(queue, issued) ==
    LET left[n \in 0 .. Len(queue)] ==
            IF n = 0 THEN <<>>
            ELSE IF queue[n].req \in issued THEN left[n - 1]
            ELSE Append(left[n - 1], queue[n])
    IN  left[Len(queue)]

\* CleanupCallback, one cycle later: the command at the head of b and every
\* request with FLAG_ISSUED leave the command queues.
Cleanup(c, b) ==
    LET left(d) == IF d = b THEN Tail(c.commandQueues[d]) ELSE c.commandQueues[d]
    IN  [c EXCEPT !.commandQueues = [d \in Banks |-> NotIssued(left(d), c.issued)]]

\* MoveCurrentQueue: the comparison lets curQueue reach the number of queues.
MoveCurrentQueue(c) == [c EXCEPT !.curQueue = IF @ + 1 > BANKS THEN 0 ELSE @ + 1]

\* The head of the command queue of b goes to the rank.
IssueHead(c, b, q, cancel) ==
    LET cmd == c.commandQueues[b][1]
        pauses == p.WritePausing /\ cmd.type = "ACTIVATE" /\ c.writing[b] # NoRequest
        flagged == [c EXCEPT !.issued = IF cmd.req = NoRequest THEN @ ELSE @ \cup {cmd.req}]
        done == Execute(flagged, b, cmd)
        reset == IF cmd.type = "REFRESH" THEN ResetRefreshQueued(done, b) ELSE done
        moved == MoveCurrentQueue(Cleanup(reset, b))
    IN  IF pauses THEN PauseWrite(moved, b, q, cancel) ELSE moved

\* The queues whose head the rank accepts, and the first of them from curQueue.
Issuable(c, ready) ==
    {b \in ready : c.commandQueues[b] # <<>> /\ StateAllows(c, b, c.commandQueues[b][1])}
Turn(c, b) == (b - c.curQueue + 2 * BANKS) % BANKS

\* CycleCommandQueues, with the end of the cycle: what arrived in it is no
\* longer fresh.
CycleCommandQueues(c0, ready, timer, q, cancel) ==
    LET c == [HandleLowPower(c0, timer) EXCEPT !.fresh = {}]
        heads == Issuable(c, ready)
    IN  IF RefreshHeads(c) # {} THEN QueueRefresh(c, NextRefreshHead(c))
        ELSE IF heads = {} THEN c
        ELSE IssueHead(c, CHOOSE b \in heads : \A d \in heads : Turn(c, b) <= Turn(c, d),
                       q, cancel)

-----------------------------------------------------------------------------
(* The events of the rank. *)

\* A read or a write is answered.
Response(c, r) ==
    [c EXCEPT !.serving = @ \ {r},
              !.writing = [b \in Banks |-> IF @[b] = r THEN NoRequest ELSE @[b]]]

\* A precharge or a refresh of a bank ends.
Settled(c, b) == [c EXCEPT !.bank[b] = "closed"]

-----------------------------------------------------------------------------
(* Properties of the channel. *)

\* The row of bank b after its first n queued commands.
RowAfter(b) ==
    LET queue == s.commandQueues[b]
        row[n \in 0 .. Len(queue)] ==
            IF n = 0 THEN IF s.bank[b] = "open" THEN s.openRow[b] ELSE NoRow
            ELSE IF queue[n].type = "ACTIVATE" THEN queue[n].row
            ELSE IF queue[n].type \in {"READ", "WRITE"} THEN row[n - 1]
            ELSE NoRow
    IN  row

\* What a command needs of the row before it.
Legal(cmd, row) ==
    CASE cmd.type = "ACTIVATE" -> p.UsePrecharge => row = NoRow
      [] cmd.type \in {"READ", "READ_PRECHARGE", "WRITE", "WRITE_PRECHARGE"} -> row = cmd.row
      [] cmd.type = "REFRESH" -> row = NoRow
      [] OTHER -> TRUE

\* The row the controller believes a bank will have open, effectiveRow, is the
\* row the bank has open once its queued commands are issued, and each of those
\* commands finds the row it was queued for: hits, misses, implicit precharges
\* and the PRECHARGE_ALL of a refresh are all queued against a state that is
\* several commands ahead of the bank.
BeliefMatchesBanks ==
    \A b \in Banks :
        LET queue == s.commandQueues[b]
            row == RowAfter(b)
        IN  /\ row[Len(queue)] = s.effectiveRow[b]
            /\ \A n \in 1 .. Len(queue) : Legal(queue[n], row[n - 1])

Occurrences(q, r) ==
    Cardinality({i \in DOMAIN s.transactionQueues[q] : s.transactionQueues[q][i] = r})
    + Cardinality({n \in DOMAIN s.commandQueues[BankOf[r]] :
          s.commandQueues[BankOf[r]][n].req = r})
    + (IF r \in s.serving THEN 1 ELSE 0)

\* A timer is looked at only where its feature is in use.
Choices(feature) == IF feature THEN BOOLEAN ELSE {TRUE}
=============================================================================
