----------------------- MODULE MemoryController_proofs -----------------------
(***************************************************************************)
(* Proofs about a channel: what CycleCommandQueues keeps of it, whatever   *)
(* controller fills its queues.                                            *)
(***************************************************************************)
EXTENDS MemoryController, TLAPS

\* The prover of the leaves that do not name one.
USE ZenonT(30)

AnyRow == Rows \cup {NoRow}
AnyRequest == Requests \cup {NoRequest}
Accesses == {"READ", "READ_PRECHARGE", "WRITE", "WRITE_PRECHARGE"}
Types == Accesses \cup {"ACTIVATE", "PRECHARGE", "PRECHARGE_ALL", "REFRESH"}
Commands == [type : Types, row : AnyRow, req : AnyRequest, priority : BOOLEAN]

Channel ==
    [transactionQueues : [Queues -> Seq(Requests)],
     fresh             : SUBSET Requests,
     commandQueues     : [Banks -> Seq(Commands)],
     effectiveRow      : [Banks -> AnyRow],
     starvationCounter : [Banks -> Nat],
     delayedRefreshCounter : [Banks -> Nat],
     bankNeedRefresh   : [Banks -> BOOLEAN],
     refreshQueued     : [Banks -> BOOLEAN],
     nextRefreshBank   : Nat,
     curQueue          : Nat,
     rankPowerDown     : BOOLEAN,
     issued            : SUBSET Requests,
     forced            : SUBSET Requests,
     cancellations     : [Requests -> Nat],
     bank              : [Banks -> {"open", "closed", "precharging", "refreshing"}],
     openRow           : [Banks -> AnyRow],
     writing           : [Banks -> AnyRequest],
     serving           : SUBSET Requests,
     failure           : {"none", "assert"}]

\* The row a command leaves open where row was open before it.
After(cmd, row) ==
    CASE cmd.type = "ACTIVATE"          -> cmd.row
      [] cmd.type \in {"READ", "WRITE"} -> row
      [] OTHER                          -> NoRow

\* The commands of queue lead from row a to row z, each legal where it comes.
Leads(queue, a, z) ==
    \E row \in [0 .. Len(queue) -> AnyRow] :
        /\ row[0] = a /\ row[Len(queue)] = z
        /\ \A n \in 1 .. Len(queue) : /\ row[n] = After(queue[n], row[n - 1])
                                      /\ Legal(queue[n], row[n - 1])

BankRow(c, b) == IF c.bank[b] = "open" THEN c.openRow[b] ELSE NoRow

\* A command of the queue of bank b: accesses, and only they, are for a request.
Fits(cmd, b) ==
    /\ cmd.type \in Accesses <=> cmd.req # NoRequest
    /\ cmd.req # NoRequest => BankOf[cmd.req] = b
    /\ cmd.type = "REFRESH" => BankHead(b) = b /\ p.UseRefresh
    /\ cmd.type \in {"READ_PRECHARGE", "WRITE_PRECHARGE"} => p.UsePrecharge

\* The queue of bank b: one access at most, a REFRESH only at the end.
QueueFits(queue, b) ==
    /\ \A n \in 1 .. Len(queue) :
          /\ Fits(queue[n], b)
          /\ queue[n].type = "REFRESH" => n = Len(queue)
    /\ \A m, n \in 1 .. Len(queue) :
          queue[m].req # NoRequest /\ queue[n].req # NoRequest => m = n
    /\ ~p.UsePrecharge => /\ Len(queue) <= 2
                          /\ Len(queue) = 2 => queue[1].req = NoRequest

\* A REFRESH waits in the queue.
Waiting(queue) == Len(queue) > 0 /\ queue[Len(queue)].type = "REFRESH"

RefreshFits(c, b) ==
    /\ c.bankNeedRefresh[b] <=> NeedRefresh(c, b)
    /\ c.delayedRefreshCounter[b] <= DelayedRefreshThreshold
    /\ c.refreshQueued[b] <=> Waiting(c.commandQueues[BankHead(b)])
    /\ c.refreshQueued[b] => ~NeedRefresh(c, b) /\ ~Active(c, b)

\* What every bank keeps.
BankGood(c, b) ==
    /\ QueueFits(c.commandQueues[b], b)
    /\ Leads(c.commandQueues[b], BankRow(c, b), c.effectiveRow[b])
    /\ RefreshFits(c, b)
    /\ p.UsePrecharge /\ p.ClosePage = 2 => ~Active(c, b)

InTransactions(c, q, r) == \E i \in 1 .. Len(c.transactionQueues[q]) :
                            c.transactionQueues[q][i] = r

InCommands(c, r) == \E n \in 1 .. Len(c.commandQueues[BankOf[r]]) :
                        c.commandQueues[BankOf[r]][n].req = r

\* Where a request is, when writes are not paused.
Placed(c, q, st, r) ==
    /\ InTransactions(c, q, r) => st = "accepted" /\ ~InCommands(c, r)
    /\ InCommands(c, r) => st = "accepted"
    /\ InTransactions(c, q, r) \/ InCommands(c, r) => r \notin c.issued
    /\ r \in c.issued => st # "new"
    /\ r \in c.serving => st = "accepted" /\ r \in c.issued
    /\ st = "accepted" => InTransactions(c, q, r) \/ InCommands(c, r) \/ r \in c.serving

EachOnce(queue) == \A i, j \in 1 .. Len(queue) : queue[i] = queue[j] => i = j

AllPlaced(c, q, st) ==
    ~p.WritePausing => /\ EachOnce(c.transactionQueues[q])
                       /\ \A r \in Requests : Placed(c, q, st[r], r)

Good(c) == /\ c \in Channel
           /\ c.failure = "none"
           /\ \A b \in Banks : BankGood(c, b)

-----------------------------------------------------------------------------
(* Parameters, groups of banks, and the least element of a set of numbers. *)

\* The parameters of a simulation.
LEMMA ParametersTyped ==
    ASSUME p \in Parameters
    PROVE  /\ p.UsePrecharge \in BOOLEAN /\ p.UseRefresh \in BOOLEAN
           /\ p.UseLowPower \in BOOLEAN /\ p.WritePausing \in BOOLEAN
           /\ p.BanksPerRefresh \in Nat \ {0}
           /\ p.UseRefresh => p.UsePrecharge
           /\ p.WritePausing => ~p.UsePrecharge
  BY SMTT(30), ControllerAssumption, FeatureAssumption

\* The head of the group of a bank is a bank, and the head of its own group.
LEMMA HeadOfGroup ==
    ASSUME p \in Parameters, NEW b \in Banks
    PROVE  BankHead(b) \in Banks /\ BankHead(BankHead(b)) = BankHead(b)
<1> DEFINE k == p.BanksPerRefresh
           d == b \div k
<1>1. k \in Nat /\ k > 0 /\ b \in Nat /\ b < BANKS /\ BANKS \in Nat
  BY SMTT(30), ParametersTyped, ControllerAssumption DEF Banks
<1>2. d \in Nat /\ d * k <= b /\ d * k \in Nat
  BY SMTT(30), <1>1
<1>3. (d * k) \div k = d
  BY SMTT(30), <1>1, <1>2
<1> QED BY SMTT(30), <1>1, <1>2, <1>3 DEF BankHead, Banks

\* Every set of natural numbers that is not empty has a least element.  The lemmas
\* that choose a least element take this as a hypothesis; LeastNumber proves it.
LeastNumbers == \A T \in SUBSET Nat : T # {} => \E n \in T : \A m \in T : n <= m

-----------------------------------------------------------------------------
(* What two channels may have in common. *)

SameFlags(c, d) ==
    /\ d.bankNeedRefresh = c.bankNeedRefresh
    /\ d.refreshQueued = c.refreshQueued
    /\ d.delayedRefreshCounter = c.delayedRefreshCounter

SameBanks(c, d) == d.bank = c.bank /\ d.openRow = c.openRow

SameRequests(c, d) ==
    d.transactionQueues = c.transactionQueues /\ d.issued = c.issued /\ d.serving = c.serving

\* Good does not look at the transaction queues and the requests.
SameBelow(c, d) ==
    /\ d.commandQueues = c.commandQueues /\ d.effectiveRow = c.effectiveRow
    /\ SameFlags(c, d) /\ SameBanks(c, d)
    /\ d.failure = c.failure

\* A channel stays good when only its transaction queues and timers change.
LEMMA GoodBelow ==
    ASSUME NEW c, Good(c), NEW d \in Channel, SameBelow(c, d)
    PROVE  Good(d)
<1>1. ASSUME NEW b \in Banks PROVE BankGood(d, b)
  <2>1. BankGood(c, b)
    BY DEF Good
  <2> QED BY <2>1 DEF BankGood, BankRow, RefreshFits, NeedRefresh, Active,
                                   SameBelow, SameFlags, SameBanks
<1> QED BY <1>1 DEF Good, SameBelow

\* Where the requests are depends on the queues and the flags of requests only.
LEMMA PlacedAlike ==
    ASSUME NEW c, NEW q, NEW st, AllPlaced(c, q, st), NEW d, SameRequests(c, d),
           \A r \in Requests : InCommands(d, r) <=> InCommands(c, r)
    PROVE  AllPlaced(d, q, st)
<1>1. /\ d.transactionQueues = c.transactionQueues /\ d.issued = c.issued
      /\ d.serving = c.serving
  BY DEF SameRequests
<1>2. ASSUME NEW r PROVE InTransactions(d, q, r) <=> InTransactions(c, q, r)
  BY <1>1 DEF InTransactions
<1>3. ASSUME ~p.WritePausing
      PROVE  /\ EachOnce(d.transactionQueues[q])
             /\ \A r \in Requests : Placed(d, q, st[r], r)
  <2>1. EachOnce(c.transactionQueues[q]) /\ \A r \in Requests : Placed(c, q, st[r], r)
    BY <1>3 DEF AllPlaced
  <2>2. ASSUME NEW r \in Requests PROVE Placed(d, q, st[r], r)
    <3>1. Placed(c, q, st[r], r) /\ (InCommands(d, r) <=> InCommands(c, r))
      BY <2>1
    <3> QED BY <1>1, <1>2, <3>1 DEF Placed
  <2> QED BY <1>1, <2>1, <2>2
<1> QED BY <1>3 DEF AllPlaced

\* Requests keep their places when no queue changes.
LEMMA PlacedSame ==
    ASSUME NEW c, NEW q, NEW st, AllPlaced(c, q, st), NEW d,
           SameRequests(c, d), d.commandQueues = c.commandQueues
    PROVE  AllPlaced(d, q, st)
<1>1. \A r \in Requests : InCommands(d, r) <=> InCommands(c, r)
  BY DEF InCommands
<1> QED BY <1>1, PlacedAlike

BankStates == {"open", "closed", "precharging", "refreshing"}

-----------------------------------------------------------------------------
(* Queues of commands: the rows they lead through. *)

\* The elements of a command queue are commands.
LEMMA CommandOfQueue ==
    ASSUME NEW queue \in Seq(Commands), NEW n \in 1 .. Len(queue)
    PROVE  queue[n] \in Commands
  BY SMTT(30)

\* The row a command leaves open is a row or none.
LEMMA AfterTyped ==
    ASSUME NEW cmd \in Commands, NEW a \in AnyRow
    PROVE  After(cmd, a) \in AnyRow
  BY DEF After, Commands, AnyRow

\* Command makes commands.
LEMMA CommandTyped ==
    ASSUME NEW type \in Types, NEW row \in AnyRow, NEW req \in AnyRequest
    PROVE  Command(type, row, req) \in Commands
  BY DEF Command, Commands

\* PRECHARGE and PRECHARGE_ALL.
LEMMA PrechargeBehaves ==
    ASSUME p \in Parameters, NEW type \in {"PRECHARGE", "PRECHARGE_ALL"},
           NEW old \in AnyRow, NEW b \in Banks
    PROVE  LET cmd == Command(type, old, NoRequest)
           IN  /\ cmd \in Commands /\ cmd.req = NoRequest /\ cmd.type = type
               /\ Fits(cmd, b)
               /\ \A row : Legal(cmd, row) /\ After(cmd, row) = NoRow
<1> DEFINE cmd == Command(type, old, NoRequest)
<1>1. cmd \in Commands
  BY CommandTyped DEF Types, AnyRequest
<1>2. cmd.type = type /\ cmd.req = NoRequest
  BY DEF Command
<1> HIDE DEF cmd
<1>3. Fits(cmd, b)
  BY <1>2 DEF Fits, Accesses
<1>4. ASSUME NEW row PROVE Legal(cmd, row) /\ After(cmd, row) = NoRow
  BY <1>2 DEF Legal, After
<1> QED BY <1>1, <1>2, <1>3, <1>4 DEF cmd

\* With no command queued the row reached is the one started from.
LEMMA LeadsEmpty ==
    ASSUME NEW a, NEW z, Leads(<<>>, a, z)
    PROVE  a = z
  BY DEF Leads

\* A command that is legal at the end of a queue can be appended to it.
LEMMA LeadsAppend ==
    ASSUME NEW queue \in Seq(Commands), NEW cmd \in Commands, NEW a, NEW z \in AnyRow,
           Leads(queue, a, z), Legal(cmd, z)
    PROVE  Leads(Append(queue, cmd), a, After(cmd, z))
<1> DEFINE long == Append(queue, cmd)
           N == Len(queue)
<1>1. PICK row \in [0 .. N -> AnyRow] :
         /\ row[0] = a /\ row[N] = z
         /\ \A n \in 1 .. N : /\ row[n] = After(queue[n], row[n - 1])
                              /\ Legal(queue[n], row[n - 1])
  BY DEF Leads
<1> DEFINE more == [n \in 0 .. N + 1 |-> IF n = N + 1 THEN After(cmd, z) ELSE row[n]]
<1>2. N \in Nat /\ Len(long) = N + 1 /\ long[N + 1] = cmd /\ \A n \in 1 .. N : long[n] = queue[n]
  BY SMTT(30)
<1>3. more \in [0 .. Len(long) -> AnyRow]
  BY SMTT(30), <1>2, AfterTyped
<1>4. more[0] = a /\ more[Len(long)] = After(cmd, z)
  BY SMTT(30), <1>1, <1>2
<1>5. ASSUME NEW n \in 1 .. Len(long)
      PROVE  more[n] = After(long[n], more[n - 1]) /\ Legal(long[n], more[n - 1])
  <2>1. CASE n = N + 1
    <3>1. more[n - 1] = z /\ more[n] = After(cmd, z) /\ long[n] = cmd
      BY SMTT(30), <1>1, <1>2, <2>1
    <3> QED BY <3>1
  <2>2. CASE n # N + 1
    <3>1. n \in 1 .. N /\ more[n - 1] = row[n - 1] /\ more[n] = row[n] /\ long[n] = queue[n]
      BY SMTT(30), <1>2, <2>2
    <3> QED BY <1>1, <3>1
  <2> QED BY <2>1, <2>2
<1> HIDE DEF more, long
<1>6. Leads(long, a, After(cmd, z))
  BY <1>3, <1>4, <1>5 DEF Leads
<1> QED BY <1>6 DEF long

\* The first command is legal, and the others lead on from the row it leaves.
LEMMA LeadsTail ==
    ASSUME NEW queue \in Seq(Commands), queue # <<>>, NEW a, NEW z, Leads(queue, a, z)
    PROVE  Legal(queue[1], a) /\ Leads(Tail(queue), After(queue[1], a), z)
<1> DEFINE rest == Tail(queue)
           N == Len(queue)
<1>1. PICK row \in [0 .. N -> AnyRow] :
         /\ row[0] = a /\ row[N] = z
         /\ \A n \in 1 .. N : /\ row[n] = After(queue[n], row[n - 1])
                              /\ Legal(queue[n], row[n - 1])
  BY DEF Leads
<1> DEFINE less == [n \in 0 .. N - 1 |-> row[n + 1]]
<1>2. N \in Nat /\ N > 0 /\ Len(rest) = N - 1 /\ \A n \in 1 .. N - 1 : rest[n] = queue[n + 1]
  BY SMTT(30)
<1>3. 1 - 1 = 0 /\ 1 \in 1 .. N /\ row[1] = After(queue[1], a) /\ Legal(queue[1], a)
  BY SMTT(30), <1>1, <1>2
<1>4. less \in [0 .. Len(rest) -> AnyRow]
  BY SMTT(30), <1>2
<1>5. less[0] = After(queue[1], a) /\ less[Len(rest)] = z
  BY SMTT(30), <1>1, <1>2, <1>3
<1>6. ASSUME NEW n \in 1 .. Len(rest)
      PROVE  less[n] = After(rest[n], less[n - 1]) /\ Legal(rest[n], less[n - 1])
  <2>1. n + 1 \in 1 .. N /\ less[n] = row[n + 1] /\ less[n - 1] = row[n + 1 - 1]
        /\ rest[n] = queue[n + 1]
    BY SMTT(30), <1>2
  <2> QED BY SMTT(30), <1>1, <2>1
<1> QED BY <1>3, <1>4, <1>5, <1>6 DEF Leads

-----------------------------------------------------------------------------
(* Power-down. *)

PowerUpdate(c, x) == [c EXCEPT !.rankPowerDown = x]

FreshUpdate(c) == [c EXCEPT !.fresh = {}]

\* A power-down or power-up of the rank and the end of a cycle concern neither
\* the banks nor the queues.
LEMMA PowerOnly ==
    ASSUME NEW c \in Channel, NEW x \in BOOLEAN
    PROVE  /\ PowerUpdate(c, x) \in Channel
           /\ SameBelow(c, PowerUpdate(c, x)) /\ SameRequests(c, PowerUpdate(c, x))
<1>1. PowerUpdate(c, x) \in Channel
  BY ZenonT(60) DEF Channel, PowerUpdate
<1>2. SameBelow(c, PowerUpdate(c, x)) /\ SameRequests(c, PowerUpdate(c, x))
  BY DEF Channel, PowerUpdate, SameBelow, SameRequests, SameFlags, SameBanks
<1> QED BY <1>1, <1>2

\* Clearing the requests that arrived in this cycle changes nothing else.
LEMMA FreshOnly ==
    ASSUME NEW c \in Channel
    PROVE  /\ FreshUpdate(c) \in Channel
           /\ SameBelow(c, FreshUpdate(c)) /\ SameRequests(c, FreshUpdate(c))
<1>0. {} \in SUBSET Requests
  OBVIOUS
<1>1. FreshUpdate(c) \in Channel
  BY ZenonT(60), <1>0 DEF Channel, FreshUpdate
<1>2. SameBelow(c, FreshUpdate(c)) /\ SameRequests(c, FreshUpdate(c))
  BY DEF Channel, FreshUpdate, SameBelow, SameRequests, SameFlags, SameBanks
<1> QED BY <1>1, <1>2

\* The channel when a cycle turns to the command queues.
LEMMA LowPowerGood ==
    ASSUME NEW c, Good(c), NEW q, NEW st, AllPlaced(c, q, st), NEW timer
    PROVE  /\ Good(FreshUpdate(HandleLowPower(c, timer)))
           /\ AllPlaced(FreshUpdate(HandleLowPower(c, timer)), q, st)
<1> DEFINE o == HandleLowPower(c, timer)
           d == FreshUpdate(o)
<1>0. c \in Channel
  BY DEF Good
<1>1. o = c \/ \E x \in BOOLEAN : o = PowerUpdate(c, x)
  <2> DEFINE x == RankQueueEmpty(c)
             y == RankQueueEmpty(c) /\ MayPowerDown(c)
  <2>1. x \in BOOLEAN /\ y \in BOOLEAN /\ FALSE \in BOOLEAN
    BY DEF RankQueueEmpty
  <2>2. \/ o = c \/ o = PowerUpdate(c, FALSE)
        \/ o = PowerUpdate(c, x) \/ o = PowerUpdate(c, y)
    BY DEF HandleLowPower, PowerUpdate
  <2> HIDE DEF x, y, o
  <2> QED BY <2>1, <2>2
<1> HIDE DEF o
<1>2. o \in Channel /\ SameBelow(c, o) /\ SameRequests(c, o)
  <2>1. CASE o = c
    BY <1>0, <2>1 DEF SameBelow, SameRequests, SameFlags, SameBanks
  <2>2. ASSUME NEW x \in BOOLEAN, o = PowerUpdate(c, x)
        PROVE  o \in Channel /\ SameBelow(c, o) /\ SameRequests(c, o)
    BY <1>0, <2>2, PowerOnly
  <2> QED BY <1>1, <2>1, <2>2
<1>3. d \in Channel /\ SameBelow(o, d) /\ SameRequests(o, d)
  BY <1>2, FreshOnly
<1> HIDE DEF d
<1>4. SameBelow(c, d) /\ SameRequests(c, d)
  BY <1>2, <1>3 DEF SameBelow, SameRequests, SameFlags, SameBanks
<1>5. Good(d)
  BY <1>3, <1>4, GoodBelow
<1>6. d.commandQueues = c.commandQueues
  BY <1>4 DEF SameBelow
<1>7. AllPlaced(d, q, st)
  BY <1>4, <1>6, PlacedSame
<1> QED BY <1>5, <1>7 DEF d, o

-----------------------------------------------------------------------------
(* Refreshes. *)

\* The banks HandleRefresh closes for the group with head h.
Opened(c, h, b) == p.UsePrecharge /\ b \in Group(h) /\ Active(c, b)

CloseFor(c, h, b) ==
    IF Opened(c, h, b) THEN <<Command("PRECHARGE_ALL", NoRow, NoRequest)>> ELSE <<>>

RefreshFor(h, b) == IF b = h THEN <<Command("REFRESH", NoRow, NoRequest)>> ELSE <<>>

\* d is c after the refresh of the group with head h has been queued.
RefreshIsQueued(c, d, h) ==
    /\ d \in Channel
    /\ d.commandQueues = [b \in Banks |-> c.commandQueues[b] \o CloseFor(c, h, b)
                                          \o RefreshFor(h, b)]
    /\ d.effectiveRow = [b \in Banks |-> IF Opened(c, h, b) THEN NoRow ELSE c.effectiveRow[b]]
    /\ d.refreshQueued = [b \in Banks |-> c.refreshQueued[b] \/ b \in Group(h)]
    /\ d.delayedRefreshCounter =
          [c.delayedRefreshCounter EXCEPT ![h] = c.delayedRefreshCounter[h] - 1]
    /\ d.bankNeedRefresh = [b \in Banks |-> c.bankNeedRefresh[b] /\ b \notin Group(h)]
    /\ SameBanks(c, d) /\ SameRequests(c, d)
    /\ d.failure = c.failure

\* QueueRefresh closes the open banks of the group and appends one REFRESH to
\* the queue of its head.
LEMMA QueueRefreshFields ==
    ASSUME p \in Parameters, NEW c, Good(c), NEW h \in Banks, BankHead(h) = h, NeedRefresh(c, h)
    PROVE  RefreshIsQueued(c, QueueRefresh(c, h), h)
<1> DEFINE CQ == [b \in Banks |-> c.commandQueues[b] \o CloseFor(c, h, b) \o RefreshFor(h, b)]
           ER == [b \in Banks |-> IF Opened(c, h, b) THEN NoRow ELSE c.effectiveRow[b]]
           RQ == [b \in Banks |-> c.refreshQueued[b] \/ b \in Group(h)]
           DC == [c.delayedRefreshCounter EXCEPT ![h] = c.delayedRefreshCounter[h] - 1]
           NB == IF c.nextRefreshBank + p.BanksPerRefresh >= BANKS THEN 0
                 ELSE c.nextRefreshBank + p.BanksPerRefresh
           o == [c EXCEPT !.commandQueues = CQ, !.effectiveRow = ER, !.refreshQueued = RQ,
                          !.delayedRefreshCounter = DC, !.nextRefreshBank = NB]
           BN == [b \in Banks |-> c.bankNeedRefresh[b] /\ b \notin Group(h)]
<1>1. c \in Channel /\ BankGood(c, h)
  BY DEF Good
<1>2. CQ \in [Banks -> Seq(Commands)]
  <2>1. /\ Command("PRECHARGE_ALL", NoRow, NoRequest) \in Commands
        /\ Command("REFRESH", NoRow, NoRequest) \in Commands
    BY CommandTyped DEF Types, AnyRow, AnyRequest
  <2>2. ASSUME NEW b \in Banks
        PROVE  c.commandQueues[b] \o CloseFor(c, h, b) \o RefreshFor(h, b) \in Seq(Commands)
    <3>1. c.commandQueues[b] \in Seq(Commands)
      BY <1>1 DEF Channel
    <3>2. CloseFor(c, h, b) \in Seq(Commands) /\ RefreshFor(h, b) \in Seq(Commands)
      BY SMTT(30), <2>1 DEF CloseFor, RefreshFor
    <3> QED BY SMTT(30), <3>1, <3>2
  <2> QED BY <2>2
<1>3. ER \in [Banks -> AnyRow]
  BY <1>1 DEF Channel, AnyRow
<1>4. RQ \in [Banks -> BOOLEAN] /\ BN \in [Banks -> BOOLEAN]
  BY <1>1 DEF Channel
<1>5. /\ c.delayedRefreshCounter \in [Banks -> Nat]
      /\ c.delayedRefreshCounter[h] = DelayedRefreshThreshold
      /\ DelayedRefreshThreshold \in Nat \ {0}
  BY SMTT(30), <1>1, ControllerAssumption DEF BankGood, RefreshFits, NeedRefresh, Channel
<1>6. DC \in [Banks -> Nat] /\ DC[h] < DelayedRefreshThreshold
  BY SMTT(30), <1>5
<1>7. NB \in Nat
  BY SMTT(30), <1>1, ParametersTyped DEF Channel
<1>8. o.bankNeedRefresh = c.bankNeedRefresh /\ o.delayedRefreshCounter = DC
  <2> HIDE DEF CQ, ER, RQ, DC, NB
  <2> QED BY <1>1 DEF Channel
<1>9. NeedRefresh(o, h) = FALSE
  <2> HIDE DEF o, DC
  <2>1. o.delayedRefreshCounter[BankHead(h)] = DC[h]
    BY <1>8
  <2>2. ~(DC[h] >= DelayedRefreshThreshold)
    BY SMTT(30), <1>5, <1>6
  <2> QED BY <2>1, <2>2 DEF NeedRefresh
<1>10. QueueRefresh(c, h) =
          [o EXCEPT !.bankNeedRefresh =
              [b \in Banks |-> o.bankNeedRefresh[b] /\ (b \in Group(h) => NeedRefresh(o, h))]]
  BY DEF QueueRefresh, CloseFor, RefreshFor, Opened
<1> HIDE DEF CQ, ER, RQ, DC, NB
<1>11. o \in Channel
  BY ZenonT(60), <1>1, <1>2, <1>3, <1>4, <1>6, <1>7 DEF Channel
<1>12. [b \in Banks |-> o.bankNeedRefresh[b] /\ (b \in Group(h) => NeedRefresh(o, h))] = BN
  <2> HIDE DEF o
  <2> QED BY <1>8, <1>9
<1>13. QueueRefresh(c, h) = [o EXCEPT !.bankNeedRefresh = BN]
  BY <1>10, <1>12
<1> DEFINE d == QueueRefresh(c, h)
<1>14. /\ o.commandQueues = CQ /\ o.effectiveRow = ER /\ o.refreshQueued = RQ
       /\ o.delayedRefreshCounter = DC /\ SameBanks(c, o) /\ SameRequests(c, o)
       /\ o.failure = c.failure
  BY <1>1 DEF Channel, SameBanks, SameRequests
<1> HIDE DEF o, BN, d
<1>15. d \in Channel
  BY ZenonT(60), <1>4, <1>11, <1>13 DEF Channel, d
<1>16. /\ d.commandQueues = CQ /\ d.effectiveRow = ER /\ d.refreshQueued = RQ
       /\ d.delayedRefreshCounter = DC /\ d.bankNeedRefresh = BN
       /\ d.failure = c.failure
  BY <1>11, <1>13, <1>14 DEF Channel, d
<1>17. SameBanks(c, d) /\ SameRequests(c, d)
  BY <1>11, <1>13, <1>14 DEF Channel, d, SameBanks, SameRequests
<1> QED BY <1>15, <1>16, <1>17 DEF RefreshIsQueued, d, CQ, ER, RQ, DC, BN

\* The queue has a command for request x.
HasRequest(queue, x) == \E n \in 1 .. Len(queue) : queue[n].req = x

\* A command that is not an access can be put behind a queue without a REFRESH.
LEMMA AppendFits ==
    ASSUME NEW queue \in Seq(Commands), NEW b, QueueFits(queue, b), ~Waiting(queue),
           p.UsePrecharge, NEW cmd \in Commands, Fits(cmd, b), cmd.req = NoRequest
    PROVE  /\ Append(queue, cmd) \in Seq(Commands)
           /\ QueueFits(Append(queue, cmd), b)
           /\ Waiting(Append(queue, cmd)) <=> cmd.type = "REFRESH"
<1> DEFINE long == Append(queue, cmd)
           N == Len(queue)
<1>1. /\ N \in Nat /\ long \in Seq(Commands) /\ Len(long) = N + 1
      /\ long[N + 1] = cmd /\ \A n \in 1 .. N : long[n] = queue[n]
  BY SMTT(30)
<1> HIDE DEF long
<1>2. Waiting(long) <=> cmd.type = "REFRESH"
  BY SMTT(30), <1>1 DEF Waiting
<1>3. ASSUME NEW n \in 1 .. N + 1
      PROVE  Fits(long[n], b) /\ (long[n].type = "REFRESH" => n = N + 1)
  <2>1. CASE n = N + 1
    BY <1>1, <2>1
  <2>2. CASE n \in 1 .. N
    <3>1. queue[n].type # "REFRESH" /\ Fits(queue[n], b)
      BY SMTT(30), <2>2 DEF QueueFits, Waiting
    <3> QED BY <1>1, <2>2, <3>1
  <2> QED BY SMTT(30), <1>1, <2>1, <2>2
<1>4. ASSUME NEW m \in 1 .. N + 1, NEW n \in 1 .. N + 1,
             long[m].req # NoRequest, long[n].req # NoRequest
      PROVE  m = n
  <2>1. m \in 1 .. N /\ n \in 1 .. N
    BY SMTT(30), <1>1, <1>4
  <2>2. queue[m].req # NoRequest /\ queue[n].req # NoRequest
    BY <1>1, <1>4, <2>1
  <2> QED BY <2>1, <2>2 DEF QueueFits
<1>5. QueueFits(long, b)
  BY <1>1, <1>3, <1>4 DEF QueueFits
<1> QED BY <1>1, <1>2, <1>5 DEF long

\* A command for no request moves no request.
LEMMA AppendRequests ==
    ASSUME NEW queue \in Seq(Commands), NEW cmd \in Commands, cmd.req = NoRequest,
           NEW x, x # NoRequest
    PROVE  HasRequest(Append(queue, cmd), x) <=> HasRequest(queue, x)
<1> DEFINE long == Append(queue, cmd)
           N == Len(queue)
<1>1. /\ N \in Nat /\ Len(long) = N + 1
      /\ long[N + 1] = cmd /\ \A n \in 1 .. N : long[n] = queue[n]
  BY SMTT(30)
<1> HIDE DEF long
<1>2. HasRequest(long, x) <=> HasRequest(queue, x)
  BY SMTT(30), <1>1 DEF HasRequest
<1> QED BY <1>2 DEF long

\* A queue of bank b that leads from row a to row z.
Runs(queue, b, a, z) ==
    queue \in Seq(Commands) /\ QueueFits(queue, b) /\ Leads(queue, a, z)

\* What the refresh of the group of h makes of the queue of bank b.
Refreshing(c, h, b, queue, a) ==
    /\ Runs(queue \o CloseFor(c, h, b) \o RefreshFor(h, b), b, a, NoRow)
    /\ Waiting(queue \o CloseFor(c, h, b) \o RefreshFor(h, b)) <=> b = h
    /\ \A x : x # NoRequest =>
          (HasRequest(queue \o CloseFor(c, h, b) \o RefreshFor(h, b), x)
             <=> HasRequest(queue, x))

\* What HandleRefresh does to the queue of a bank of the group.
LEMMA RefreshRuns ==
    ASSUME p \in Parameters, p.UseRefresh, NEW c, NEW h \in Banks, BankHead(h) = h,
           NEW b \in Group(h), NEW queue, NEW a, c.effectiveRow[b] \in AnyRow,
           Runs(queue, b, a, c.effectiveRow[b]), ~Waiting(queue)
    PROVE  Refreshing(c, h, b, queue, a)
<1> DEFINE pre == Command("PRECHARGE_ALL", NoRow, NoRequest)
           ref == Command("REFRESH", NoRow, NoRequest)
           mid == queue \o CloseFor(c, h, b)
           all == mid \o RefreshFor(h, b)
<1>0. p.UsePrecharge /\ NoRow \in AnyRow /\ b \in Banks
  BY ParametersTyped DEF AnyRow, Group
<1>1. /\ pre \in Commands /\ pre.req = NoRequest /\ pre.type = "PRECHARGE_ALL"
      /\ Fits(pre, b) /\ \A row : Legal(pre, row) /\ After(pre, row) = NoRow
  BY <1>0, PrechargeBehaves
<1>2. /\ ref \in Commands /\ ref.req = NoRequest /\ ref.type = "REFRESH"
      /\ (b = h => Fits(ref, b)) /\ Legal(ref, NoRow) /\ After(ref, NoRow) = NoRow
  <2>0. "REFRESH" \in Types /\ NoRequest \in AnyRequest
    BY DEF Types, AnyRequest
  <2>1. ref \in Commands
    BY <1>0, <2>0, CommandTyped
  <2>2. ref.type = "REFRESH" /\ ref.req = NoRequest
    BY DEF Command
  <2> HIDE DEF ref
  <2> QED BY <2>1, <2>2 DEF Fits, Accesses, Legal, After
<1> HIDE DEF pre, ref
<1>3. /\ queue \in Seq(Commands) /\ QueueFits(queue, b)
      /\ Leads(queue, a, c.effectiveRow[b]) /\ ~Waiting(queue)
  BY DEF Runs
<1>4. /\ mid \in Seq(Commands) /\ QueueFits(mid, b) /\ Leads(mid, a, NoRow) /\ ~Waiting(mid)
      /\ \A x : x # NoRequest => (HasRequest(mid, x) <=> HasRequest(queue, x))
  <2>1. CASE c.effectiveRow[b] = NoRow
    <3>1. CloseFor(c, h, b) = <<>>
      BY <2>1 DEF CloseFor, Opened, Active
    <3>2. mid = queue
      BY SMTT(30), <1>3, <3>1
    <3> QED BY <1>3, <2>1, <3>2
  <2>2. CASE c.effectiveRow[b] # NoRow
    <3>1. CloseFor(c, h, b) = <<pre>>
      BY <1>0, <2>2 DEF CloseFor, Opened, Active, pre
    <3>2. mid = Append(queue, pre)
      BY SMTT(30), <1>1, <1>3, <3>1
    <3> HIDE DEF mid
    <3>3. mid \in Seq(Commands) /\ QueueFits(mid, b) /\ ~Waiting(mid)
      BY <1>0, <1>1, <1>3, <3>2, AppendFits
    <3>4. Leads(mid, a, After(pre, c.effectiveRow[b]))
      BY <1>1, <1>3, <3>2, LeadsAppend
    <3>5. ASSUME NEW x, x # NoRequest PROVE HasRequest(mid, x) <=> HasRequest(queue, x)
      BY <1>1, <1>3, <3>2, <3>5, AppendRequests
    <3> QED BY <1>1, <3>3, <3>4, <3>5
  <2> QED BY <2>1, <2>2
<1> HIDE DEF mid
<1>5. /\ all \in Seq(Commands) /\ QueueFits(all, b) /\ Leads(all, a, NoRow)
      /\ (Waiting(all) <=> b = h)
      /\ \A x : x # NoRequest => (HasRequest(all, x) <=> HasRequest(mid, x))
  <2>1. CASE b # h
    <3>1. RefreshFor(h, b) = <<>>
      BY <2>1 DEF RefreshFor
    <3>2. all = mid
      BY SMTT(30), <1>4, <3>1
    <3> QED BY <1>4, <2>1, <3>2
  <2>2. CASE b = h
    <3>1. RefreshFor(h, b) = <<ref>>
      BY <2>2 DEF RefreshFor, ref
    <3>2. all = Append(mid, ref)
      BY SMTT(30), <1>2, <1>4, <3>1
    <3> HIDE DEF all
    <3>3. all \in Seq(Commands) /\ QueueFits(all, b) /\ Waiting(all)
      BY <1>0, <1>2, <1>4, <2>2, <3>2, AppendFits
    <3>4. Leads(all, a, After(ref, NoRow))
      BY <1>0, <1>2, <1>4, <3>2, LeadsAppend
    <3>5. ASSUME NEW x, x # NoRequest PROVE HasRequest(all, x) <=> HasRequest(mid, x)
      BY <1>2, <1>4, <3>2, <3>5, AppendRequests
    <3> QED BY <1>2, <2>2, <3>3, <3>4, <3>5
  <2> QED BY <2>1, <2>2
<1> HIDE DEF all
<1>6. Runs(all, b, a, NoRow) /\ (Waiting(all) <=> b = h)
  BY <1>5 DEF Runs
<1>7. \A x : x # NoRequest => (HasRequest(all, x) <=> HasRequest(queue, x))
  BY <1>4, <1>5
<1> QED BY <1>6, <1>7 DEF all, mid, Refreshing

\* Queueing a refresh keeps the channel good and the requests where they are.
LEMMA RefreshQueuedGood ==
    ASSUME p \in Parameters, NEW c, Good(c), NEW q, NEW st, AllPlaced(c, q, st),
           NEW h \in Banks, BankHead(h) = h, NeedRefresh(c, h),
           NEW d, RefreshIsQueued(c, d, h)
    PROVE  Good(d) /\ AllPlaced(d, q, st)
<1> DEFINE T == DelayedRefreshThreshold
<1>1. /\ d \in Channel /\ SameBanks(c, d) /\ SameRequests(c, d) /\ d.failure = c.failure
      /\ d.refreshQueued = [b \in Banks |-> c.refreshQueued[b] \/ b \in Group(h)]
      /\ d.delayedRefreshCounter =
            [c.delayedRefreshCounter EXCEPT ![h] = c.delayedRefreshCounter[h] - 1]
      /\ d.bankNeedRefresh = [b \in Banks |-> c.bankNeedRefresh[b] /\ b \notin Group(h)]
      /\ d.effectiveRow = [b \in Banks |-> IF Opened(c, h, b) THEN NoRow ELSE c.effectiveRow[b]]
  BY DEF RefreshIsQueued
<1>2. ASSUME NEW b \in Banks
      PROVE  d.commandQueues[b] = c.commandQueues[b] \o CloseFor(c, h, b) \o RefreshFor(h, b)
  <2>1. d.commandQueues = [x \in Banks |-> c.commandQueues[x] \o CloseFor(c, h, x)
                                           \o RefreshFor(h, x)]
    BY DEF RefreshIsQueued
  <2> QED BY <2>1
<1>3. /\ p.UseRefresh /\ p.UsePrecharge /\ h \in Group(h) /\ c \in Channel
      /\ \A b \in Banks : BankGood(c, b)
  BY ParametersTyped DEF NeedRefresh, Group, Good
<1>4. /\ c.delayedRefreshCounter \in [Banks -> Nat] /\ T \in Nat \ {0}
      /\ c.delayedRefreshCounter[h] = T
  <2>1. BankGood(c, h)
    BY <1>3
  <2> QED BY SMTT(30), <1>3, <2>1, ControllerAssumption DEF BankGood, RefreshFits, NeedRefresh, Channel
<1>5. ASSUME NEW b \in Banks
      PROVE  /\ d.delayedRefreshCounter[b] <= T
             /\ b \in Group(h) => /\ NeedRefresh(c, b) /\ ~NeedRefresh(d, b) /\ BankHead(b) = h
             /\ b \notin Group(h) => /\ NeedRefresh(d, b) <=> NeedRefresh(c, b)
                                     /\ BankHead(b) \notin Group(h) /\ BankHead(b) # h
  <2>0. BankHead(b) \in Banks /\ BankHead(BankHead(b)) = BankHead(b)
    BY HeadOfGroup
  <2>1. d.delayedRefreshCounter[b] <= T
    BY SMTT(30), <1>1, <1>3, <1>4 DEF BankGood, RefreshFits
  <2>2. ASSUME b \in Group(h)
        PROVE  NeedRefresh(c, b) /\ ~NeedRefresh(d, b) /\ BankHead(b) = h
    BY SMTT(30), <1>1, <1>4, <2>2 DEF NeedRefresh, Group
  <2>3. ASSUME b \notin Group(h)
        PROVE  /\ NeedRefresh(d, b) <=> NeedRefresh(c, b)
               /\ BankHead(b) \notin Group(h) /\ BankHead(b) # h
    BY SMTT(30), <1>1, <1>4, <2>0, <2>3 DEF NeedRefresh, Group
  <2> QED BY <2>1, <2>2, <2>3
<1>6. ASSUME NEW b \in Banks, b \notin Group(h)
      PROVE  d.commandQueues[b] = c.commandQueues[b] /\ d.effectiveRow[b] = c.effectiveRow[b]
  <2>1. CloseFor(c, h, b) = <<>> /\ RefreshFor(h, b) = <<>> /\ ~Opened(c, h, b)
    BY <1>3, <1>6 DEF CloseFor, RefreshFor, Opened
  <2>2. c.commandQueues[b] \in Seq(Commands)
    BY <1>3 DEF Channel
  <2>3. d.commandQueues[b] = c.commandQueues[b] \o <<>> \o <<>>
    BY <1>2, <2>1
  <2>4. d.commandQueues[b] = c.commandQueues[b]
    BY SMTT(30), <2>2, <2>3
  <2>5. d.effectiveRow[b] = c.effectiveRow[b]
    BY <1>1, <2>1
  <2> QED BY <2>4, <2>5
<1>7. ASSUME NEW b \in Banks, b \in Group(h)
      PROVE  /\ Runs(d.commandQueues[b], b, BankRow(c, b), NoRow)
             /\ Waiting(d.commandQueues[b]) <=> b = h
             /\ \A x : x # NoRequest =>
                   (HasRequest(d.commandQueues[b], x) <=> HasRequest(c.commandQueues[b], x))
             /\ d.effectiveRow[b] = NoRow
  <2>1. c.commandQueues[b] \in Seq(Commands) /\ c.effectiveRow[b] \in AnyRow
    BY <1>3 DEF Channel
  <2>2. BankGood(c, b)
    BY <1>3
  <2>3. ~Waiting(c.commandQueues[h])
    BY <1>5, <1>7, <2>2 DEF BankGood, RefreshFits
  <2>4. ~Waiting(c.commandQueues[b])
    <3>1. ASSUME Waiting(c.commandQueues[b]) PROVE b = h
      <4>1. Len(c.commandQueues[b]) \in 1 .. Len(c.commandQueues[b])
        BY SMTT(30), <2>1, <3>1 DEF Waiting
      <4>2. BankHead(b) = b
        BY <2>2, <3>1, <4>1 DEF BankGood, QueueFits, Fits, Waiting
      <4> QED BY <1>5, <1>7, <4>2
    <3> QED BY <2>3, <3>1
  <2>5. Runs(c.commandQueues[b], b, BankRow(c, b), c.effectiveRow[b])
    BY <2>1, <2>2, <2>4 DEF Runs, BankGood
  <2>6. Refreshing(c, h, b, c.commandQueues[b], BankRow(c, b))
    BY <1>3, <1>7, <2>1, <2>4, <2>5, RefreshRuns
  <2>7. d.effectiveRow[b] = NoRow
    BY SMTT(30), <1>1, <1>3, <1>7 DEF Opened, Active
  <2> QED BY <1>2, <2>6, <2>7 DEF Refreshing
<1>8. ASSUME NEW b \in Banks PROVE BankGood(d, b)
  <2>1. BankGood(c, b)
    BY <1>3
  <2>2. BankRow(d, b) = BankRow(c, b)
    BY <1>1 DEF BankRow, SameBanks
  <2>3. CASE b \in Group(h)
    <3>1. /\ Runs(d.commandQueues[b], b, BankRow(c, b), NoRow)
          /\ Waiting(d.commandQueues[h])
          /\ d.effectiveRow[b] = NoRow
      BY <1>3, <1>7, <2>3
    <3>2. ~d.bankNeedRefresh[b] /\ d.refreshQueued[b]
      BY <1>1, <2>3
    <3>3. RefreshFits(d, b)
      BY <1>5, <2>3, <3>1, <3>2 DEF RefreshFits, Runs, Active
    <3> QED BY <2>2, <3>1, <3>3 DEF BankGood, Runs, Active
  <2>4. CASE b \notin Group(h)
    <3>1. /\ d.commandQueues[b] = c.commandQueues[b]
          /\ d.effectiveRow[b] = c.effectiveRow[b]
      BY <1>6, <2>4
    <3>2. BankHead(b) \in Banks
      BY HeadOfGroup
    <3>3. d.commandQueues[BankHead(b)] = c.commandQueues[BankHead(b)]
      BY <1>5, <1>6, <2>4, <3>2
    <3>4. /\ d.bankNeedRefresh[b] <=> c.bankNeedRefresh[b]
          /\ d.refreshQueued[b] <=> c.refreshQueued[b]
      BY <1>1, <2>4
    <3>5. RefreshFits(c, b)
      BY <2>1 DEF BankGood
    <3>6. RefreshFits(d, b)
      BY <1>5, <2>4, <3>1, <3>3, <3>4, <3>5 DEF RefreshFits, Active
    <3> QED BY <2>1, <2>2, <3>1, <3>6 DEF BankGood, Active
  <2> QED BY <2>3, <2>4
<1>9. Good(d)
  BY <1>1, <1>8 DEF Good
<1>10. ASSUME NEW x \in Requests PROVE InCommands(d, x) <=> InCommands(c, x)
  <2>1. x # NoRequest /\ BankOf[x] \in Banks
    BY ControllerAssumption
  <2>2. HasRequest(d.commandQueues[BankOf[x]], x) <=> HasRequest(c.commandQueues[BankOf[x]], x)
    BY <1>6, <1>7, <2>1
  <2> QED BY <2>2 DEF HasRequest, InCommands
<1>11. AllPlaced(d, q, st)
  BY <1>1, <1>10, PlacedAlike
<1> QED BY <1>9, <1>11

\* HandleRefresh finds a group that needs a refresh, if there is one.
LEMMA RefreshHeadChosen ==
    ASSUME LeastNumbers, NEW c \in Channel, RefreshHeads(c) # {}
    PROVE  NextRefreshHead(c) \in RefreshHeads(c)
<1> DEFINE T == {RefreshTurn(c, h) : h \in RefreshHeads(c)}
<1>1. ASSUME NEW h \in RefreshHeads(c) PROVE RefreshTurn(c, h) \in Nat
  <2>1. h \in 0 .. BANKS - 1 /\ BANKS \in Nat \ {0}
    BY ControllerAssumption DEF RefreshHeads, Banks
  <2>2. c.nextRefreshBank \in Nat
    BY DEF Channel
  <2> QED BY SMTT(30), <2>1, <2>2 DEF RefreshTurn
<1>2. T \in SUBSET Nat /\ T # {}
  BY <1>1
<1>3. PICK n \in T : \A m \in T : n <= m
  BY <1>2 DEF LeastNumbers
<1>4. \E h \in RefreshHeads(c) : \A g \in RefreshHeads(c) : RefreshTurn(c, h) <= RefreshTurn(c, g)
  BY <1>3
<1> QED BY <1>4 DEF NextRefreshHead

-----------------------------------------------------------------------------
(* What a cleanup leaves of a queue. *)

\* The recursion of NotIssued: left satisfies left = Filtered(queue, I, left).
Filtered(queue, I, left) ==
    [n \in 0 .. Len(queue) |-> IF n = 0 THEN <<>>
                               ELSE IF queue[n].req \in I THEN left[n - 1]
                               ELSE Append(left[n - 1], queue[n])]

\* NotIssued, the CleanupCallback of a command queue, satisfies its recursion.
LEMMA NotIssuedRecursion ==
    ASSUME NEW queue, NEW I, \E left : left = Filtered(queue, I, left)
    PROVE  \E left : /\ left = Filtered(queue, I, left)
                     /\ NotIssued(queue, I) = left[Len(queue)]
<1> DEFINE chosen == CHOOSE left : left = Filtered(queue, I, left)
<1>1. chosen = Filtered(queue, I, chosen)
  OBVIOUS
<1>2. NotIssued(queue, I) = chosen[Len(queue)]
  BY DEF NotIssued, Filtered
<1> QED BY <1>1, <1>2

\* Where only the last command can have been issued, the others are left.
LEMMA LastIssued ==
    ASSUME LeastNumbers, NEW queue \in Seq(Commands), NEW I,
           \A n \in 1 .. Len(queue) - 1 : queue[n].req \notin I
    PROVE  NotIssued(queue, I) = IF Len(queue) > 0 /\ queue[Len(queue)].req \in I
                                 THEN SubSeq(queue, 1, Len(queue) - 1) ELSE queue
<1> DEFINE N == Len(queue)
           K == IF N > 0 /\ queue[N].req \in I THEN N - 1 ELSE N
           size(n) == IF n = N THEN K ELSE n
           prefix == [n \in 0 .. N |-> SubSeq(queue, 1, size(n))]
<1>0. N \in Nat /\ K \in 0 .. N /\ (N = 0 => K = 0)
  BY SMTT(30)
<1>a. SubSeq(queue, 1, 0) = <<>> /\ SubSeq(queue, 1, N) = queue
  BY SMTT(30)
<1>b. ASSUME NEW n \in 1 .. N
      PROVE  IF queue[n].req \in I THEN size(n) = n - 1 /\ size(n - 1) = n - 1
             ELSE size(n) = n /\ size(n - 1) = n - 1
  <2>1. CASE n = N
    BY SMTT(30), <2>1
  <2>2. CASE n # N
    <3>1. n \in 1 .. N - 1
      BY SMTT(30), <2>2
    <3> QED BY SMTT(30), <2>2, <3>1
  <2> QED BY <2>1, <2>2
<1>c. ASSUME NEW n \in 1 .. N
      PROVE  SubSeq(queue, 1, n) = Append(SubSeq(queue, 1, n - 1), queue[n])
  BY SMTT(30)
<1>d. size(0) = 0 /\ size(N) = K
  BY <1>0
<1> HIDE DEF size
<1>1. prefix = Filtered(queue, I, prefix)
  <2>1. ASSUME NEW n \in 0 .. N
        PROVE  prefix[n] = IF n = 0 THEN <<>>
                           ELSE IF queue[n].req \in I THEN prefix[n - 1]
                           ELSE Append(prefix[n - 1], queue[n])
    <3>1. CASE n = 0
      BY <3>1, <1>a, <1>d
    <3>2. CASE n # 0
      <4>1. n \in 1 .. N /\ n - 1 \in 0 .. N
        BY SMTT(30), <3>2
      <4>2. prefix[n - 1] = SubSeq(queue, 1, n - 1)
        BY <4>1, <1>b
      <4> QED BY <3>2, <4>1, <4>2, <1>b, <1>c
    <3> HIDE DEF prefix
    <3> QED BY <3>1, <3>2
  <2>2. prefix = [n \in 0 .. N |-> prefix[n]]
    OBVIOUS
  <2> HIDE DEF prefix
  <2>3. [n \in 0 .. N |-> prefix[n]] = Filtered(queue, I, prefix)
    BY <2>1 DEF Filtered
  <2> QED BY <2>2, <2>3
<1> HIDE DEF prefix
<1>2. PICK left : left = Filtered(queue, I, left) /\ NotIssued(queue, I) = left[N]
  BY <1>1, NotIssuedRecursion
<1>3. ASSUME NEW n \in 0 .. N
      PROVE  left[n] = IF n = 0 THEN <<>> ELSE IF queue[n].req \in I THEN left[n - 1]
                       ELSE Append(left[n - 1], queue[n])
  <2>1. left[n] = Filtered(queue, I, left)[n]
    BY <1>2
  <2>2. Filtered(queue, I, left)[n] =
            IF n = 0 THEN <<>> ELSE IF queue[n].req \in I THEN left[n - 1]
            ELSE Append(left[n - 1], queue[n])
    BY DEF Filtered
  <2> QED BY <2>1, <2>2
<1> DEFINE wrong == {n \in 0 .. N : left[n] # SubSeq(queue, 1, size(n))}
<1>4. wrong = {}
  <2> SUFFICES ASSUME wrong # {} PROVE FALSE
    OBVIOUS
  <2>0. wrong \in SUBSET Nat
    BY SMTT(30), <1>0
  <2>1. PICK n \in wrong : \A m \in wrong : n <= m
    BY <2>0 DEF LeastNumbers
  <2>2. n # 0
    <3>1. 0 \in 0 .. N
      BY SMTT(30), <1>0
    <3>2. left[0] = <<>>
      BY <1>3, <3>1
    <3>3. left[n] # SubSeq(queue, 1, size(n))
      BY <2>1
    <3> QED BY <3>2, <3>3, <1>a, <1>d
  <2>3. n \in 1 .. N /\ n - 1 \in 0 .. N /\ n - 1 \notin wrong
    BY SMTT(30), <1>0, <2>1, <2>2
  <2>4. left[n - 1] = SubSeq(queue, 1, n - 1)
    BY <2>3, <1>b
  <2>5. left[n] = IF queue[n].req \in I THEN left[n - 1] ELSE Append(left[n - 1], queue[n])
    BY <1>3, <2>2
  <2>6. left[n] = SubSeq(queue, 1, size(n))
    BY <2>3, <2>4, <2>5, <1>b, <1>c
  <2> QED BY <2>1, <2>6
<1>5. left[N] = SubSeq(queue, 1, K)
  BY SMTT(30), <1>0, <1>4, <1>d
<1> QED BY <1>2, <1>5, <1>a

\* The first command leaves.
LEMMA TailRuns ==
    ASSUME NEW queue, NEW b, NEW a, NEW z, Runs(queue, b, a, z), queue # <<>>
    PROVE  /\ Runs(Tail(queue), b, After(queue[1], a), z)
           /\ Waiting(Tail(queue)) <=> Waiting(queue) /\ queue[1].type # "REFRESH"
<1> DEFINE rest == Tail(queue)
           N == Len(queue)
<1>0. queue \in Seq(Commands) /\ QueueFits(queue, b) /\ Leads(queue, a, z)
  BY DEF Runs
<1>1. /\ N \in Nat /\ N > 0 /\ rest \in Seq(Commands) /\ Len(rest) = N - 1
      /\ \A n \in 1 .. N - 1 : rest[n] = queue[n + 1]
  BY SMTT(30), <1>0
<1>2. Leads(rest, After(queue[1], a), z)
  BY <1>0, LeadsTail
<1> HIDE DEF rest
<1>3. ASSUME NEW n \in 1 .. Len(rest)
      PROVE  Fits(rest[n], b) /\ (rest[n].type = "REFRESH" => n = Len(rest))
  <2>1. n + 1 \in 1 .. N /\ rest[n] = queue[n + 1]
    BY SMTT(30), <1>1
  <2>2. Fits(queue[n + 1], b) /\ (queue[n + 1].type = "REFRESH" => n + 1 = N)
    BY <1>0, <2>1 DEF QueueFits
  <2> QED BY SMTT(30), <1>1, <2>1, <2>2
<1>4. ASSUME NEW m \in 1 .. Len(rest), NEW n \in 1 .. Len(rest),
             rest[m].req # NoRequest, rest[n].req # NoRequest
      PROVE  m = n
  <2>1. m + 1 \in 1 .. N /\ rest[m] = queue[m + 1] /\ n + 1 \in 1 .. N /\ rest[n] = queue[n + 1]
    BY SMTT(30), <1>1
  <2>2. m + 1 = n + 1
    BY <1>0, <1>4, <2>1 DEF QueueFits
  <2> QED BY SMTT(30), <1>1, <2>2
<1>5. ~p.UsePrecharge => Len(rest) <= 2 /\ Len(rest) # 2
  BY SMTT(30), <1>0, <1>1 DEF QueueFits
<1>6. QueueFits(rest, b)
  BY <1>3, <1>4, <1>5 DEF QueueFits
<1>7. Waiting(rest) <=> Waiting(queue) /\ queue[1].type # "REFRESH"
  <2>1. CASE N = 1
    BY SMTT(30), <1>1, <2>1 DEF Waiting
  <2>2. CASE N > 1
    <3>1. rest[Len(rest)] = queue[N]
      BY SMTT(30), <1>1, <2>2
    <3>2. 1 \in 1 .. N /\ 1 # N
      BY SMTT(30), <1>1, <2>2
    <3>3. queue[1].type # "REFRESH"
      BY <1>0, <3>2 DEF QueueFits
    <3> QED BY SMTT(30), <1>1, <2>2, <3>1, <3>3 DEF Waiting
  <2> QED BY SMTT(30), <1>1, <2>1, <2>2
<1> QED BY <1>1, <1>2, <1>6, <1>7 DEF Runs, rest

\* The elements of a queue without its last.
LEMMA FrontElements ==
    ASSUME NEW queue \in Seq(Commands), NEW k \in Nat, Len(queue) = k + 1
    PROVE  /\ SubSeq(queue, 1, k) \in Seq(Commands) /\ Len(SubSeq(queue, 1, k)) = k
           /\ \A n \in 1 .. k : SubSeq(queue, 1, k)[n] = queue[n]
  BY SMTT(30)

\* A READ or WRITE at the end of a queue leaves.
LEMMA FrontRuns ==
    ASSUME NEW queue, NEW b, NEW a, NEW z, Runs(queue, b, a, z), Len(queue) > 0,
           queue[Len(queue)].type \in {"READ", "WRITE"}
    PROVE  /\ Runs(SubSeq(queue, 1, Len(queue) - 1), b, a, z)
           /\ ~Waiting(queue) /\ ~Waiting(SubSeq(queue, 1, Len(queue) - 1))
<1> DEFINE N == Len(queue)
           rest == SubSeq(queue, 1, N - 1)
<1>0. queue \in Seq(Commands) /\ QueueFits(queue, b) /\ Leads(queue, a, z)
  BY DEF Runs
<1>1. /\ N \in Nat /\ N > 0 /\ rest \in Seq(Commands) /\ Len(rest) = N - 1
      /\ \A n \in 1 .. N - 1 : rest[n] = queue[n]
  <2>1. N \in Nat /\ N > 0 /\ N - 1 \in Nat /\ N = (N - 1) + 1
    BY SMTT(30), <1>0
  <2> QED BY <1>0, <2>1, FrontElements
<1> HIDE DEF rest
<1>2. PICK row \in [0 .. N -> AnyRow] :
         /\ row[0] = a /\ row[N] = z
         /\ \A n \in 1 .. N : /\ row[n] = After(queue[n], row[n - 1])
                              /\ Legal(queue[n], row[n - 1])
  BY <1>0 DEF Leads
<1>3. row[N - 1] = z
  <2>1. N \in 1 .. N
    BY SMTT(30), <1>1
  <2>2. row[N] = After(queue[N], row[N - 1])
    BY <1>2, <2>1
  <2> QED BY <1>2, <2>2 DEF After
<1> DEFINE less == [n \in 0 .. N - 1 |-> row[n]]
<1>4. less \in [0 .. Len(rest) -> AnyRow] /\ less[0] = a /\ less[Len(rest)] = z
  BY SMTT(30), <1>1, <1>2, <1>3
<1>5. ASSUME NEW n \in 1 .. Len(rest)
      PROVE  less[n] = After(rest[n], less[n - 1]) /\ Legal(rest[n], less[n - 1])
  <2>1. n \in 1 .. N /\ less[n] = row[n] /\ less[n - 1] = row[n - 1] /\ rest[n] = queue[n]
    BY SMTT(30), <1>1
  <2> QED BY <1>2, <2>1
<1> HIDE DEF less
<1>6. Leads(rest, a, z)
  BY <1>4, <1>5 DEF Leads
<1>7. ASSUME NEW n \in 1 .. Len(rest)
      PROVE  n \in 1 .. N /\ rest[n] = queue[n] /\ rest[n].type # "REFRESH"
  <2>1. n \in 1 .. N /\ n # N /\ rest[n] = queue[n]
    BY SMTT(30), <1>1
  <2> QED BY <1>0, <2>1 DEF QueueFits
<1>8. QueueFits(rest, b)
  <2>1. ~p.UsePrecharge => Len(rest) <= 2 /\ Len(rest) # 2
    BY SMTT(30), <1>0, <1>1 DEF QueueFits
  <2>2. ASSUME NEW n \in 1 .. Len(rest) PROVE Fits(rest[n], b)
    BY <1>0, <1>7 DEF QueueFits
  <2>3. ASSUME NEW m \in 1 .. Len(rest), NEW n \in 1 .. Len(rest),
               rest[m].req # NoRequest, rest[n].req # NoRequest
        PROVE  m = n
    BY <1>0, <1>7, <2>3 DEF QueueFits
  <2> QED BY <1>7, <2>1, <2>2, <2>3 DEF QueueFits
<1>9. ~Waiting(rest) /\ ~Waiting(queue)
  BY SMTT(30), <1>1, <1>7 DEF Waiting
<1> QED BY <1>1, <1>6, <1>8, <1>9 DEF Runs, rest

\* What a cleanup leaves of a queue.  Without write pausing nothing in the queues
\* has been issued; with it a queued READ or WRITE may have been.
Cleaned(queue, I, b, a, z) ==
    /\ Runs(NotIssued(queue, I), b, a, z)
    /\ Waiting(NotIssued(queue, I)) <=> Waiting(queue)
    /\ ~p.WritePausing => NotIssued(queue, I) = queue

\* The cleanup of a command queue keeps what the queue leads to; without write
\* pausing it finds nothing to remove.
LEMMA CleanupRuns ==
    ASSUME LeastNumbers, p \in Parameters, NEW queue, NEW b, NEW a, NEW z, Runs(queue, b, a, z),
           NEW I \in SUBSET Requests,
           ~p.WritePausing => \A n \in 1 .. Len(queue) : queue[n].req \notin I
    PROVE  Cleaned(queue, I, b, a, z)
<1> DEFINE N == Len(queue)
           x == NotIssued(queue, I)
<1>0. /\ queue \in Seq(Commands) /\ QueueFits(queue, b) /\ N \in Nat
      /\ NoRequest \notin I
  BY SMTT(30), ControllerAssumption DEF Runs
<1>1. \A n \in 1 .. N - 1 : queue[n].req \notin I
  <2>1. CASE ~p.WritePausing
    BY SMTT(30), <1>0, <2>1
  <2>2. CASE p.WritePausing
    <3>1. N <= 2 /\ (N = 2 => queue[1].req = NoRequest)
      BY <1>0, <2>2, ParametersTyped DEF QueueFits
    <3>2. ASSUME NEW n \in 1 .. N - 1 PROVE queue[n].req \notin I
      <4>1. N \in Nat /\ N <= 2
        BY <1>0, <3>1
      <4> HIDE DEF N
      <4>2. n = 1 /\ N = 2
        BY ONLY <4>1, n \in 1 .. N - 1
      <4> QED BY <1>0, <3>1, <4>2
    <3> QED BY <3>2
  <2> QED BY <2>1, <2>2
<1>2. x = IF N > 0 /\ queue[N].req \in I THEN SubSeq(queue, 1, N - 1) ELSE queue
  BY <1>0, <1>1, LastIssued
<1> HIDE DEF x
<1>3. CASE ~(N > 0 /\ queue[N].req \in I)
  <2>1. x = queue
    BY <1>2, <1>3
  <2> QED BY <2>1 DEF Cleaned, x
<1>4. CASE N > 0 /\ queue[N].req \in I
  <2>1. x = SubSeq(queue, 1, N - 1) /\ N \in 1 .. N
    BY SMTT(30), <1>0, <1>2, <1>4
  <2>2. p.WritePausing /\ ~p.UsePrecharge
    BY <1>4, <2>1, ParametersTyped
  <2>3. Fits(queue[N], b) /\ queue[N].req # NoRequest
    BY <1>0, <1>4, <2>1 DEF QueueFits
  <2>4. queue[N].type \in {"READ", "WRITE"}
    BY <2>2, <2>3 DEF Fits, Accesses
  <2>5. /\ Runs(SubSeq(queue, 1, N - 1), b, a, z)
        /\ ~Waiting(queue) /\ ~Waiting(SubSeq(queue, 1, N - 1))
    BY <1>4, <2>4, FrontRuns
  <2> QED BY <2>1, <2>2, <2>5 DEF Cleaned, x
<1> QED BY <1>3, <1>4

-----------------------------------------------------------------------------
(* What the rank does with a command. *)

\* What the rank leaves alone.
Spared(c, d) ==
    /\ d \in Channel
    /\ d.commandQueues = c.commandQueues /\ d.effectiveRow = c.effectiveRow
    /\ SameFlags(c, d) /\ d.transactionQueues = c.transactionQueues
    /\ d.issued = c.issued /\ d.failure = c.failure

OpenUpdate(c, b, row) == [c EXCEPT !.bank[b] = "open", !.openRow[b] = row]

ServeUpdate(c, b, reqs, w) == [c EXCEPT !.serving = reqs, !.writing[b] = w]

ServeCloseUpdate(c, b, reqs, w) ==
    [c EXCEPT !.serving = reqs, !.writing[b] = w, !.bank[b] = "precharging", !.openRow[b] = NoRow]

CloseUpdate(c, b) == [c EXCEPT !.bank[b] = "precharging", !.openRow[b] = NoRow]

RefreshUpdate(c, banks) == [c EXCEPT !.bank = banks]

\* What an activated bank changes.
LEMMA OpenFields ==
    ASSUME NEW c \in Channel, NEW b \in Banks, NEW row \in AnyRow
    PROVE  /\ Spared(c, OpenUpdate(c, b, row))
           /\ OpenUpdate(c, b, row).bank = [c.bank EXCEPT ![b] = "open"]
           /\ OpenUpdate(c, b, row).openRow = [c.openRow EXCEPT ![b] = row]
           /\ OpenUpdate(c, b, row).serving = c.serving
           /\ OpenUpdate(c, b, row).writing = c.writing
<1>1. OpenUpdate(c, b, row) \in Channel
  BY ZenonT(60) DEF Channel, OpenUpdate
<1> QED BY <1>1 DEF Channel, OpenUpdate, Spared, SameFlags

\* What an access changes.
LEMMA ServeFields ==
    ASSUME NEW c \in Channel, NEW b \in Banks, NEW reqs \in SUBSET Requests, NEW w \in AnyRequest
    PROVE  /\ Spared(c, ServeUpdate(c, b, reqs, w))
           /\ ServeUpdate(c, b, reqs, w).bank = c.bank
           /\ ServeUpdate(c, b, reqs, w).openRow = c.openRow
           /\ ServeUpdate(c, b, reqs, w).serving = reqs
<1>1. ServeUpdate(c, b, reqs, w) \in Channel
  BY ZenonT(60) DEF Channel, ServeUpdate
<1> QED BY <1>1 DEF Channel, ServeUpdate, Spared, SameFlags

\* What an access with an implicit precharge changes.
LEMMA ServeCloseFields ==
    ASSUME NEW c \in Channel, NEW b \in Banks, NEW reqs \in SUBSET Requests, NEW w \in AnyRequest
    PROVE  /\ Spared(c, ServeCloseUpdate(c, b, reqs, w))
           /\ ServeCloseUpdate(c, b, reqs, w).bank = [c.bank EXCEPT ![b] = "precharging"]
           /\ ServeCloseUpdate(c, b, reqs, w).openRow = [c.openRow EXCEPT ![b] = NoRow]
           /\ ServeCloseUpdate(c, b, reqs, w).serving = reqs
<1>0. NoRow \in AnyRow
  BY DEF AnyRow
<1>1. ServeCloseUpdate(c, b, reqs, w) \in Channel
  BY ZenonT(60), <1>0 DEF Channel, ServeCloseUpdate
<1> QED BY <1>1 DEF Channel, ServeCloseUpdate, Spared, SameFlags

\* What a precharge changes.
LEMMA CloseFields ==
    ASSUME NEW c \in Channel, NEW b \in Banks
    PROVE  /\ Spared(c, CloseUpdate(c, b))
           /\ CloseUpdate(c, b).bank = [c.bank EXCEPT ![b] = "precharging"]
           /\ CloseUpdate(c, b).openRow = [c.openRow EXCEPT ![b] = NoRow]
           /\ CloseUpdate(c, b).serving = c.serving
<1>0. NoRow \in AnyRow
  BY DEF AnyRow
<1>1. CloseUpdate(c, b) \in Channel
  BY ZenonT(60), <1>0 DEF Channel, CloseUpdate
<1> QED BY <1>1 DEF Channel, CloseUpdate, Spared, SameFlags

\* What a refresh of a group changes.
LEMMA RefreshFields ==
    ASSUME NEW c \in Channel, NEW banks \in [Banks -> BankStates]
    PROVE  /\ Spared(c, RefreshUpdate(c, banks))
           /\ RefreshUpdate(c, banks).bank = banks
           /\ RefreshUpdate(c, banks).openRow = c.openRow
           /\ RefreshUpdate(c, banks).serving = c.serving
<1>1. RefreshUpdate(c, banks) \in Channel
  BY ZenonT(60) DEF Channel, RefreshUpdate, BankStates
<1>2. RefreshUpdate(c, banks).bank = banks
  BY DEF Channel, RefreshUpdate
<1>3. /\ RefreshUpdate(c, banks).openRow = c.openRow
      /\ RefreshUpdate(c, banks).serving = c.serving
  BY DEF Channel, RefreshUpdate
<1>4. Spared(c, RefreshUpdate(c, banks))
  <2> DEFINE d == RefreshUpdate(c, banks)
  <2>1. d.commandQueues = c.commandQueues /\ d.effectiveRow = c.effectiveRow
    BY DEF Channel, RefreshUpdate
  <2>2. SameFlags(c, d)
    BY DEF Channel, RefreshUpdate, SameFlags
  <2>3. /\ d.transactionQueues = c.transactionQueues /\ d.issued = c.issued
        /\ d.failure = c.failure
    BY DEF Channel, RefreshUpdate
  <2> QED BY <1>1, <2>1, <2>2, <2>3 DEF Spared
<1> QED BY <1>2, <1>3, <1>4

\* d is c after the rank has executed a command of bank b.
Executed(c, d, b, cmd) ==
    /\ Spared(c, d)
    /\ d.serving = c.serving \cup ({cmd.req} \ {NoRequest})
    /\ cmd.type = "ACTIVATE" => d.writing = c.writing
    /\ \A e \in Banks : BankRow(d, e) = IF e = b THEN After(cmd, BankRow(c, b)) ELSE BankRow(c, e)

\* A command the bank accepts leaves open the row that After says, and starts
\* serving the request it is for.
LEMMA ExecuteBehaves ==
    ASSUME p \in Parameters, NEW c \in Channel, NEW b \in Banks, NEW cmd \in Commands,
           Fits(cmd, b), StateAllows(c, b, cmd)
    PROVE  Executed(c, Execute(c, b, cmd), b, cmd)
<1> DEFINE d == Execute(c, b, cmd)
           reqs == c.serving \cup {cmd.req}
           w == IF IsRead[cmd.req] THEN c.writing[b] ELSE cmd.req
<1>0. /\ c.bank \in [Banks -> BankStates] /\ c.openRow \in [Banks -> AnyRow]
      /\ c.serving \in SUBSET Requests /\ c.writing[b] \in AnyRequest
      /\ cmd.row \in AnyRow /\ cmd.req \in AnyRequest /\ cmd.type \in Types
  BY DEF Channel, Commands, BankStates
<1>1. CASE cmd.type = "ACTIVATE"
  <2>1. d = OpenUpdate(c, b, cmd.row)
    BY <1>1 DEF Execute, OpenUpdate
  <2> HIDE DEF d
  <2>2. /\ Spared(c, d) /\ d.serving = c.serving /\ d.writing = c.writing
        /\ d.bank = [c.bank EXCEPT ![b] = "open"] /\ d.openRow = [c.openRow EXCEPT ![b] = cmd.row]
    <3> DEFINE o == OpenUpdate(c, b, cmd.row)
    <3>1. /\ Spared(c, o) /\ o.serving = c.serving /\ o.writing = c.writing
          /\ o.bank = [c.bank EXCEPT ![b] = "open"] /\ o.openRow = [c.openRow EXCEPT ![b] = cmd.row]
      BY SMTT(30), <1>0, OpenFields
    <3> QED BY <2>1, <3>1
  <2>3. d.serving = c.serving \cup ({cmd.req} \ {NoRequest})
    BY <1>1, <2>2 DEF Fits, Accesses
  <2>4. ASSUME NEW e \in Banks
        PROVE  BankRow(d, e) = IF e = b THEN After(cmd, BankRow(c, b)) ELSE BankRow(c, e)
    BY <1>0, <1>1, <2>2 DEF BankRow, After
  <2> QED BY <2>2, <2>3, <2>4 DEF Executed, d
<1>2. CASE cmd.type \in {"READ", "WRITE"}
  <2>0. cmd.req # NoRequest /\ reqs \in SUBSET Requests /\ w \in AnyRequest
        /\ reqs = c.serving \cup ({cmd.req} \ {NoRequest}) /\ cmd.type # "ACTIVATE"
    BY <1>0, <1>2 DEF Fits, Accesses, AnyRequest
  <2>1. d = ServeUpdate(c, b, reqs, w)
    BY <1>2 DEF Execute, ServeUpdate
  <2> HIDE DEF d, reqs, w
  <2>2. Spared(c, d) /\ d.serving = reqs /\ d.bank = c.bank /\ d.openRow = c.openRow
    <3> DEFINE o == ServeUpdate(c, b, reqs, w)
    <3>1. Spared(c, o) /\ o.serving = reqs /\ o.bank = c.bank /\ o.openRow = c.openRow
      BY SMTT(30), <2>0, ServeFields
    <3> QED BY <2>1, <3>1
  <2>3. After(cmd, BankRow(c, b)) = BankRow(c, b)
    BY <1>2 DEF After
  <2>4. ASSUME NEW e \in Banks
        PROVE  BankRow(d, e) = IF e = b THEN After(cmd, BankRow(c, b)) ELSE BankRow(c, e)
    BY <2>2, <2>3 DEF BankRow
  <2> QED BY <2>0, <2>2, <2>4 DEF Executed, d
<1>3. CASE cmd.type \in {"READ_PRECHARGE", "WRITE_PRECHARGE"}
  <2>0. cmd.req # NoRequest /\ reqs \in SUBSET Requests /\ w \in AnyRequest
        /\ reqs = c.serving \cup ({cmd.req} \ {NoRequest}) /\ cmd.type # "ACTIVATE"
    BY <1>0, <1>3 DEF Fits, Accesses, AnyRequest
  <2>1. d = ServeCloseUpdate(c, b, reqs, w)
    BY <1>3 DEF Execute, ServeCloseUpdate
  <2> HIDE DEF d, reqs, w
  <2>2. /\ Spared(c, d) /\ d.serving = reqs /\ d.bank = [c.bank EXCEPT ![b] = "precharging"]
        /\ d.openRow = [c.openRow EXCEPT ![b] = NoRow]
    <3> DEFINE o == ServeCloseUpdate(c, b, reqs, w)
    <3>1. /\ Spared(c, o) /\ o.serving = reqs /\ o.bank = [c.bank EXCEPT ![b] = "precharging"]
          /\ o.openRow = [c.openRow EXCEPT ![b] = NoRow]
      BY SMTT(30), <2>0, ServeCloseFields
    <3> QED BY <2>1, <3>1
  <2>3. ASSUME NEW e \in Banks
        PROVE  BankRow(d, e) = IF e = b THEN After(cmd, BankRow(c, b)) ELSE BankRow(c, e)
    BY <1>0, <1>3, <2>2 DEF BankRow, After
  <2> QED BY <2>0, <2>2, <2>3 DEF Executed, d
<1>4. CASE cmd.type \in {"PRECHARGE", "PRECHARGE_ALL"}
  <2>0. c.serving = c.serving \cup ({cmd.req} \ {NoRequest}) /\ cmd.type # "ACTIVATE"
    BY <1>0, <1>4 DEF Fits, Accesses
  <2>1. d = CloseUpdate(c, b)
    BY <1>4 DEF Execute, CloseUpdate
  <2> HIDE DEF d
  <2>2. /\ Spared(c, d) /\ d.serving = c.serving /\ d.bank = [c.bank EXCEPT ![b] = "precharging"]
        /\ d.openRow = [c.openRow EXCEPT ![b] = NoRow]
    BY <2>0, <2>1, CloseFields
  <2>3. ASSUME NEW e \in Banks
        PROVE  BankRow(d, e) = IF e = b THEN After(cmd, BankRow(c, b)) ELSE BankRow(c, e)
    BY <1>0, <1>4, <2>2 DEF BankRow, After
  <2> QED BY <2>0, <2>2, <2>3 DEF Executed, d
<1>5. CASE cmd.type = "REFRESH"
  <2> DEFINE banks == [e \in Banks |-> IF e \in Group(b) THEN "refreshing" ELSE c.bank[e]]
  <2>0. c.serving = c.serving \cup ({cmd.req} \ {NoRequest}) /\ cmd.type # "ACTIVATE"
        /\ banks \in [Banks -> BankStates]
    BY <1>0, <1>5 DEF Fits, Accesses, BankStates
  <2>1. d = RefreshUpdate(c, banks)
    BY <1>5 DEF Execute, RefreshUpdate
  <2> HIDE DEF d, banks
  <2>2. /\ Spared(c, d) /\ d.serving = c.serving /\ d.bank = banks
        /\ d.openRow = c.openRow
    BY <2>0, <2>1, RefreshFields
  <2>3. \A e \in Group(b) : c.bank[e] = "closed"
    BY <1>5 DEF StateAllows
  <2>4. ASSUME NEW e \in Banks
        PROVE  BankRow(d, e) = IF e = b THEN After(cmd, BankRow(c, b)) ELSE BankRow(c, e)
    <3>1. b \in Group(b)
      BY DEF Group
    <3>2. After(cmd, BankRow(c, b)) = NoRow
      BY <1>5 DEF After
    <3> QED BY <2>2, <2>3, <3>1, <3>2 DEF BankRow, banks
  <2> QED BY <2>0, <2>2, <2>4 DEF Executed, d
<1> QED BY <1>0, <1>1, <1>2, <1>3, <1>4, <1>5 DEF Types, Accesses

-----------------------------------------------------------------------------
(* Issuing the head of a queue. *)

Marked(I, cmd) == I \cup ({cmd.req} \ {NoRequest})

FlagUpdate(c, I) == [c EXCEPT !.issued = I]

ResetUpdate(c, flags) == [c EXCEPT !.refreshQueued = flags, !.failure = c.failure]

MoveUpdate(c, queues, n) == [c EXCEPT !.commandQueues = queues, !.curQueue = n]

\* What marking the request of a command as issued changes.
LEMMA FlagFields ==
    ASSUME NEW c \in Channel, NEW I \in SUBSET Requests
    PROVE  /\ FlagUpdate(c, I) \in Channel /\ SameBelow(c, FlagUpdate(c, I))
           /\ FlagUpdate(c, I).transactionQueues = c.transactionQueues
           /\ FlagUpdate(c, I).serving = c.serving /\ FlagUpdate(c, I).writing = c.writing
           /\ FlagUpdate(c, I).issued = I
<1>1. FlagUpdate(c, I) \in Channel
  BY ZenonT(60) DEF Channel, FlagUpdate
<1>2. SameBelow(c, FlagUpdate(c, I))
  BY DEF Channel, FlagUpdate, SameBelow, SameFlags, SameBanks
<1>3. /\ FlagUpdate(c, I).transactionQueues = c.transactionQueues
      /\ FlagUpdate(c, I).serving = c.serving /\ FlagUpdate(c, I).writing = c.writing
      /\ FlagUpdate(c, I).issued = I
  BY DEF Channel, FlagUpdate
<1> QED BY <1>1, <1>2, <1>3

\* What ResetRefreshQueued changes.
LEMMA ResetFields ==
    ASSUME NEW c \in Channel, NEW flags \in [Banks -> BOOLEAN]
    PROVE  /\ ResetUpdate(c, flags) \in Channel /\ SameBanks(c, ResetUpdate(c, flags))
           /\ SameRequests(c, ResetUpdate(c, flags))
           /\ ResetUpdate(c, flags).commandQueues = c.commandQueues
           /\ ResetUpdate(c, flags).effectiveRow = c.effectiveRow
           /\ ResetUpdate(c, flags).bankNeedRefresh = c.bankNeedRefresh
           /\ ResetUpdate(c, flags).delayedRefreshCounter = c.delayedRefreshCounter
           /\ ResetUpdate(c, flags).refreshQueued = flags
           /\ ResetUpdate(c, flags).writing = c.writing
           /\ ResetUpdate(c, flags).failure = c.failure
<1>0. c.failure \in {"none", "assert"}
  BY DEF Channel
<1>1. ResetUpdate(c, flags) \in Channel
  BY ZenonT(60), <1>0 DEF Channel, ResetUpdate
<1> QED BY <1>1 DEF Channel, ResetUpdate, SameRequests, SameBanks

\* What removing the command and moving to the next queue change.
LEMMA MoveFields ==
    ASSUME NEW c \in Channel, NEW queues \in [Banks -> Seq(Commands)], NEW n \in Nat
    PROVE  /\ MoveUpdate(c, queues, n) \in Channel /\ SameBanks(c, MoveUpdate(c, queues, n))
           /\ SameRequests(c, MoveUpdate(c, queues, n)) /\ SameFlags(c, MoveUpdate(c, queues, n))
           /\ MoveUpdate(c, queues, n).commandQueues = queues
           /\ MoveUpdate(c, queues, n).effectiveRow = c.effectiveRow
           /\ MoveUpdate(c, queues, n).writing = c.writing
           /\ MoveUpdate(c, queues, n).failure = c.failure
<1>1. MoveUpdate(c, queues, n) \in Channel
  BY ZenonT(60) DEF Channel, MoveUpdate
<1> QED BY <1>1 DEF Channel, MoveUpdate, SameRequests, SameBanks, SameFlags

\* The queue of bank e when the head of bank b has left.
Left(c, b, e) == IF e = b THEN Tail(c.commandQueues[e]) ELSE c.commandQueues[e]

\* The head of the command queue of b goes to the rank.
Done(c, b, cmd) == Execute([c EXCEPT !.issued = IF cmd.req = NoRequest THEN c.issued
                                                ELSE c.issued \cup {cmd.req}], b, cmd)

Reset(c, b, cmd) == IF cmd.type = "REFRESH" THEN ResetRefreshQueued(Done(c, b, cmd), b)
                    ELSE Done(c, b, cmd)

Moved(c, b, cmd) == MoveCurrentQueue(Cleanup(Reset(c, b, cmd), b))

\* The rank has executed a command: the row, and the request in service.
LEMMA DoneBehaves ==
    ASSUME p \in Parameters, NEW c \in Channel, NEW b \in Banks, NEW cmd \in Commands,
           Fits(cmd, b), StateAllows(c, b, cmd)
    PROVE  /\ Spared(FlagUpdate(c, Marked(c.issued, cmd)), Done(c, b, cmd))
           /\ SameFlags(c, Done(c, b, cmd))
           /\ Done(c, b, cmd).commandQueues = c.commandQueues
           /\ Done(c, b, cmd).effectiveRow = c.effectiveRow
           /\ Done(c, b, cmd).transactionQueues = c.transactionQueues
           /\ Done(c, b, cmd).failure = c.failure
           /\ Done(c, b, cmd).issued = Marked(c.issued, cmd)
           /\ Done(c, b, cmd).serving = Marked(c.serving, cmd)
           /\ cmd.type = "ACTIVATE" => Done(c, b, cmd).writing = c.writing
           /\ \A e \in Banks : BankRow(Done(c, b, cmd), e) =
                                 IF e = b THEN After(cmd, BankRow(c, b)) ELSE BankRow(c, e)
<1> DEFINE I == Marked(c.issued, cmd)
           o == FlagUpdate(c, I)
           d == Done(c, b, cmd)
<1>1. I \in SUBSET Requests /\ I = IF cmd.req = NoRequest THEN c.issued ELSE c.issued \cup {cmd.req}
  BY SMTT(30) DEF Channel, Marked, Commands, AnyRequest
<1>2. d = Execute(o, b, cmd)
  BY <1>1 DEF Done, FlagUpdate
<1> HIDE DEF I, o, d
<1>3. /\ o \in Channel /\ SameBelow(c, o) /\ o.transactionQueues = c.transactionQueues
      /\ o.serving = c.serving /\ o.writing = c.writing /\ o.issued = I
  BY <1>1, FlagFields DEF o
<1>4. StateAllows(o, b, cmd)
  <2>1. o.rankPowerDown = c.rankPowerDown /\ o.forced = c.forced
    BY <1>1 DEF o, FlagUpdate, Channel
  <2>2. o.bank = c.bank /\ o.openRow = c.openRow
    BY <1>3 DEF SameBelow, SameBanks
  <2> QED BY <1>3, <2>1, <2>2 DEF StateAllows
<1>5. Executed(o, d, b, cmd)
  BY <1>2, <1>3, <1>4, ExecuteBehaves
<1>6. \A e \in Banks : BankRow(o, e) = BankRow(c, e)
  BY <1>3 DEF BankRow, SameBelow, SameBanks
<1>7. /\ Spared(o, d) /\ d.serving = Marked(o.serving, cmd)
      /\ cmd.type = "ACTIVATE" => d.writing = o.writing
      /\ \A e \in Banks : BankRow(d, e) = IF e = b THEN After(cmd, BankRow(o, b)) ELSE BankRow(o, e)
  BY <1>5 DEF Executed, Marked
<1>8. SameFlags(c, d)
  BY <1>3, <1>7 DEF Spared, SameBelow, SameFlags
<1>9. /\ d.commandQueues = c.commandQueues /\ d.effectiveRow = c.effectiveRow
      /\ d.transactionQueues = c.transactionQueues /\ d.failure = c.failure /\ d.issued = I
  BY <1>3, <1>7 DEF Spared, SameBelow
<1>10. /\ d.serving = Marked(c.serving, cmd)
       /\ cmd.type = "ACTIVATE" => d.writing = c.writing
  BY <1>3, <1>7
<1>11. ASSUME NEW e \in Banks
       PROVE  BankRow(d, e) = IF e = b THEN After(cmd, BankRow(c, b)) ELSE BankRow(c, e)
  <2>1. BankRow(d, e) = IF e = b THEN After(cmd, BankRow(o, b)) ELSE BankRow(o, e)
    BY <1>7
  <2> QED BY <1>6, <2>1
<1> QED BY <1>7, <1>8, <1>9, <1>10, <1>11 DEF o, d, I

\* Nothing is issued in the queues that a cleanup is given, without write pausing.
LEMMA LeftNotIssued ==
    ASSUME p \in Parameters, NEW c, Good(c), NEW q, NEW st, AllPlaced(c, q, st), ~p.WritePausing,
           NEW b \in Banks, c.commandQueues[b] # <<>>, NEW e \in Banks,
           NEW n \in 1 .. Len(Left(c, b, e))
    PROVE  Left(c, b, e)[n].req \notin Marked(c.issued, c.commandQueues[b][1])
<1> DEFINE queue == c.commandQueues[e]
           cmd == c.commandQueues[b][1]
           k == IF e = b THEN n + 1 ELSE n
           req == queue[k].req
<1>0. /\ c \in Channel /\ BankGood(c, b) /\ BankGood(c, e)
      /\ \A r \in Requests : Placed(c, q, st[r], r)
  BY DEF Good, AllPlaced
<1>1. /\ queue \in Seq(Commands) /\ c.commandQueues[b] \in Seq(Commands)
      /\ c.issued \in SUBSET Requests
  BY <1>0 DEF Channel
<1>2. k \in 1 .. Len(queue) /\ Left(c, b, e)[n] = queue[k]
  <2>1. CASE e = b
    <3>1. Left(c, b, e) = Tail(queue)
      BY <2>1 DEF Left
    <3> QED BY SMTT(30), <1>1, <2>1, <3>1
  <2>2. CASE e # b
    BY <1>1, <2>2 DEF Left
  <2> QED BY <2>1, <2>2
<1>3. 1 \in 1 .. Len(c.commandQueues[b]) /\ (e = b => k # 1)
  BY SMTT(30), <1>1, <1>2
<1>4. queue[k] \in Commands /\ cmd \in Commands
  BY <1>1, <1>2, <1>3, CommandOfQueue
<1>5. req \in AnyRequest /\ NoRequest \notin Requests
  BY <1>4, ControllerAssumption DEF Commands
<1>a. Left(c, b, e)[n].req = req
  BY <1>2
<1>b. req \in Marked(c.issued, cmd) =>
         req # NoRequest /\ req \in Requests /\ (req \in c.issued \/ req = cmd.req)
  <2>1. req \in c.issued => req \in Requests
    BY <1>1
  <2>2. req # NoRequest => req \in Requests
    BY <1>5 DEF AnyRequest
  <2> HIDE DEF req, cmd
  <2> QED BY ONLY ZenonT(30), <1>5, <2>1, <2>2 DEF Marked
<1> SUFFICES ASSUME req \in Marked(c.issued, cmd) PROVE FALSE
  BY <1>a
<1>c. req # NoRequest /\ req \in Requests
  BY <1>b
<1>6. Fits(queue[k], e) /\ Fits(cmd, b)
  BY <1>0, <1>2, <1>3 DEF BankGood, QueueFits
<1>7. BankOf[req] = e
  BY <1>6, <1>c DEF Fits
<1>8. InCommands(c, req)
  BY <1>2, <1>7, <1>c DEF InCommands
<1>9. req \notin c.issued
  BY <1>0, <1>8, <1>c DEF Placed
<1>10. req # cmd.req
  <2>1. CASE e = b
    BY <1>0, <1>2, <1>3, <1>c, <2>1 DEF BankGood, QueueFits
  <2>2. CASE e # b
    BY <1>6, <1>7, <1>c, <2>2 DEF Fits
  <2> QED BY <2>1, <2>2
<1> QED BY <1>b, <1>9, <1>10

RowThen(c, b, cmd, e) == IF e = b THEN After(cmd, BankRow(c, b)) ELSE BankRow(c, e)

\* A REFRESH goes on waiting unless it is the command issued.
StillWaiting(c, b, cmd, e) ==
    Waiting(Left(c, b, e)) <=> /\ Waiting(c.commandQueues[e])
                               /\ e = b => cmd.type # "REFRESH"

\* What the cleanup after the issue of the head of bank b makes of the queue of e.
LEMMA LeftCleaned ==
    ASSUME LeastNumbers, p \in Parameters, NEW c, Good(c), NEW q, NEW st, AllPlaced(c, q, st),
           NEW b \in Banks, c.commandQueues[b] # <<>>, NEW cmd, cmd = c.commandQueues[b][1],
           NEW e \in Banks
    PROVE  /\ Cleaned(Left(c, b, e), Marked(c.issued, cmd), e, RowThen(c, b, cmd, e),
                      c.effectiveRow[e])
           /\ StillWaiting(c, b, cmd, e)
<1> DEFINE x == Left(c, b, e)
           I == Marked(c.issued, cmd)
           a == RowThen(c, b, cmd, e)
           z == c.effectiveRow[e]
<1>0. c \in Channel /\ BankGood(c, b) /\ BankGood(c, e)
  BY DEF Good
<1>1. c.commandQueues[e] \in Seq(Commands) /\ c.commandQueues[b] \in Seq(Commands)
  BY <1>0 DEF Channel
<1>2. I \in SUBSET Requests
  <2>1. 1 \in 1 .. Len(c.commandQueues[b])
    BY SMTT(30), <1>1
  <2>2. cmd \in Commands
    BY <1>1, <2>1, CommandOfQueue
  <2> QED BY <1>0, <2>2 DEF Marked, Channel, Commands, AnyRequest
<1>3. Runs(c.commandQueues[e], e, BankRow(c, e), z)
  BY <1>0, <1>1 DEF Runs, BankGood
<1>4. /\ Runs(x, e, a, z)
      /\ Waiting(x) <=> Waiting(c.commandQueues[e]) /\ (e = b => cmd.type # "REFRESH")
  <2>1. CASE e = b
    <3>1. x = Tail(c.commandQueues[e]) /\ a = After(c.commandQueues[e][1], BankRow(c, e))
      BY <2>1 DEF Left, RowThen
    <3>2. /\ Runs(Tail(c.commandQueues[e]), e, After(c.commandQueues[e][1], BankRow(c, e)), z)
          /\ Waiting(Tail(c.commandQueues[e]))
             <=> Waiting(c.commandQueues[e]) /\ c.commandQueues[e][1].type # "REFRESH"
      BY <1>3, <2>1, TailRuns
    <3> QED BY <2>1, <3>1, <3>2
  <2>2. CASE e # b
    <3>1. x = c.commandQueues[e] /\ a = BankRow(c, e)
      BY <2>2 DEF Left, RowThen
    <3> QED BY <1>3, <2>2, <3>1
  <2> QED BY <2>1, <2>2
<1>5. ~p.WritePausing => \A n \in 1 .. Len(x) : x[n].req \notin I
  BY LeftNotIssued
<1> HIDE DEF x, I, a, z
<1>6. Cleaned(x, I, e, a, z)
  BY <1>2, <1>4, <1>5, CleanupRuns
<1>7. StillWaiting(c, b, cmd, e)
  BY <1>4 DEF StillWaiting, x
<1> QED BY <1>6, <1>7 DEF x, I, a, z

\* ResetRefreshQueued finds the flags of the group set: its assertion holds.
LEMMA GroupFlagged ==
    ASSUME p \in Parameters, NEW c, Good(c), NEW b \in Banks, c.commandQueues[b] # <<>>,
           c.commandQueues[b][1].type = "REFRESH"
    PROVE  \A e \in Group(b) : c.refreshQueued[e]
<1> DEFINE queue == c.commandQueues[b]
<1>1. BankGood(c, b) /\ queue \in Seq(Commands)
  BY DEF Good, Channel
<1>2. 1 \in 1 .. Len(queue)
  BY SMTT(30), <1>1
<1>3. Fits(queue[1], b) /\ 1 = Len(queue)
  BY <1>1, <1>2 DEF BankGood, QueueFits
<1>4. Waiting(queue) /\ BankHead(b) = b
  BY SMTT(30), <1>3 DEF Waiting, Fits
<1>5. ASSUME NEW e \in Group(b) PROVE c.refreshQueued[e]
  <2>1. e \in Banks /\ BankHead(e) = b
    BY <1>4 DEF Group
  <2>2. BankGood(c, e)
    BY <2>1 DEF Good
  <2> QED BY <1>4, <2>1, <2>2 DEF BankGood, RefreshFits
<1> QED BY <1>5

\* The state between the rank and the cleanup.
ResetDone(c, d, b, cmd) ==
    /\ d \in Channel
    /\ d.issued = Marked(c.issued, cmd) /\ d.serving = Marked(c.serving, cmd)
    /\ d.transactionQueues = c.transactionQueues /\ d.commandQueues = c.commandQueues
    /\ \A e \in Banks :
          /\ BankRow(d, e) = RowThen(c, b, cmd, e)
          /\ d.refreshQueued[e] <=> /\ c.refreshQueued[e]
                                    /\ cmd.type = "REFRESH" => e \notin Group(b)
    /\ d.effectiveRow = c.effectiveRow /\ d.failure = c.failure
    /\ d.bankNeedRefresh = c.bankNeedRefresh
    /\ d.delayedRefreshCounter = c.delayedRefreshCounter
    /\ cmd.type = "ACTIVATE" => d.writing = c.writing

\* Issuing the REFRESH of a group clears the flags of the group; its assertion
\* holds because all of them were set.
LEMMA ResetBehaves ==
    ASSUME p \in Parameters, NEW c, Good(c), NEW b \in Banks, NEW cmd \in Commands,
           Fits(cmd, b), StateAllows(c, b, cmd),
           cmd.type = "REFRESH" => \A e \in Group(b) : c.refreshQueued[e]
    PROVE  ResetDone(c, Reset(c, b, cmd), b, cmd)
<1> DEFINE o == Done(c, b, cmd)
           d == Reset(c, b, cmd)
<1>0. c \in Channel
  BY DEF Good
<1>1. /\ Spared(FlagUpdate(c, Marked(c.issued, cmd)), o)
      /\ SameFlags(c, o) /\ o.commandQueues = c.commandQueues /\ o.effectiveRow = c.effectiveRow
      /\ o.transactionQueues = c.transactionQueues /\ o.failure = c.failure
      /\ o.issued = Marked(c.issued, cmd) /\ o.serving = Marked(c.serving, cmd)
      /\ cmd.type = "ACTIVATE" => o.writing = c.writing
      /\ \A e \in Banks : BankRow(o, e) = RowThen(c, b, cmd, e)
  BY <1>0, DoneBehaves DEF RowThen
<1>2. o \in Channel
  BY <1>1 DEF Spared
<1>3. CASE cmd.type # "REFRESH"
  <2>1. d = o
    BY <1>3 DEF Reset
  <2> HIDE DEF d, o
  <2>2. ResetDone(c, o, b, cmd)
    BY <1>1, <1>2, <1>3 DEF ResetDone, SameFlags
  <2> QED BY <2>1, <2>2 DEF d
<1>4. CASE cmd.type = "REFRESH"
  <2> DEFINE flags == [e \in Banks |-> o.refreshQueued[e] /\ e \notin Group(b)]
  <2>1. d = ResetRefreshQueued(o, b)
    BY <1>4 DEF Reset
  <2> HIDE DEF d, o
  <2>2. o.refreshQueued = c.refreshQueued
    BY <1>1 DEF SameFlags
  <2>3. ~\E e \in Group(b) : ~o.refreshQueued[e]
    BY <1>4, <2>2
  <2>4. d = ResetUpdate(o, flags)
    BY <2>1, <2>3 DEF ResetRefreshQueued, ResetUpdate
  <2>5. flags \in [Banks -> BOOLEAN]
    BY <1>2
  <2>6. \A e \in Banks : flags[e] <=> c.refreshQueued[e] /\ e \notin Group(b)
    BY <2>2
  <2> HIDE DEF flags
  <2> DEFINE u == ResetUpdate(o, flags)
  <2>7. /\ u \in Channel /\ SameBanks(o, u) /\ SameRequests(o, u)
        /\ u.commandQueues = o.commandQueues /\ u.effectiveRow = o.effectiveRow
        /\ u.bankNeedRefresh = o.bankNeedRefresh
        /\ u.delayedRefreshCounter = o.delayedRefreshCounter
        /\ u.refreshQueued = flags /\ u.writing = o.writing /\ u.failure = o.failure
    BY <1>2, <2>5, ResetFields
  <2> HIDE DEF u
  <2>8. \A e \in Banks : BankRow(u, e) = RowThen(c, b, cmd, e)
    BY <1>1, <2>7 DEF SameBanks, BankRow
  <2>9. ResetDone(c, u, b, cmd)
    BY <1>1, <1>4, <2>6, <2>7, <2>8 DEF ResetDone, SameFlags, SameRequests
  <2> QED BY <2>4, <2>9 DEF d, u
<1> QED BY <1>3, <1>4

\* The state after the cleanup.
HeadGone(c, d, b, cmd) ==
    /\ d \in Channel
    /\ d.issued = Marked(c.issued, cmd) /\ d.serving = Marked(c.serving, cmd)
    /\ d.transactionQueues = c.transactionQueues
    /\ \A e \in Banks :
          /\ d.commandQueues[e] = NotIssued(Left(c, b, e), Marked(c.issued, cmd))
          /\ BankRow(d, e) = RowThen(c, b, cmd, e)
          /\ d.refreshQueued[e] <=> /\ c.refreshQueued[e]
                                    /\ cmd.type = "REFRESH" => e \notin Group(b)
    /\ d.effectiveRow = c.effectiveRow /\ d.failure = c.failure
    /\ d.bankNeedRefresh = c.bankNeedRefresh
    /\ d.delayedRefreshCounter = c.delayedRefreshCounter
    /\ cmd.type = "ACTIVATE" => d.writing = c.writing

\* Issuing the first command of a queue: what is changed in all.
LEMMA MovedBehaves ==
    ASSUME p \in Parameters, NEW c, Good(c), NEW b \in Banks, NEW cmd \in Commands,
           Fits(cmd, b), StateAllows(c, b, cmd),
           cmd.type = "REFRESH" => \A e \in Group(b) : c.refreshQueued[e],
           \A e \in Banks : NotIssued(Left(c, b, e), Marked(c.issued, cmd)) \in Seq(Commands)
    PROVE  HeadGone(c, Moved(c, b, cmd), b, cmd)
<1> DEFINE o == Reset(c, b, cmd)
           d == Moved(c, b, cmd)
           queues == [e \in Banks |-> NotIssued(Left(o, b, e), o.issued)]
           n == IF o.curQueue + 1 > BANKS THEN 0 ELSE o.curQueue + 1
           u == [o EXCEPT !.commandQueues = queues]
<1>1. ResetDone(c, o, b, cmd)
  BY ResetBehaves
<1>2. d = MoveCurrentQueue(Cleanup(o, b))
  BY DEF Moved
<1> HIDE DEF o, d
<1>3. o \in Channel /\ o.issued = Marked(c.issued, cmd) /\ o.commandQueues = c.commandQueues
  BY <1>1 DEF ResetDone
<1>4. \A e \in Banks : Left(o, b, e) = Left(c, b, e)
  BY <1>3 DEF Left
<1>5. \A e \in Banks : queues[e] = NotIssued(Left(c, b, e), Marked(c.issued, cmd))
  BY <1>3, <1>4
<1>6. queues \in [Banks -> Seq(Commands)]
  BY <1>5
<1>7. Cleanup(o, b) = u
  BY DEF Cleanup, Left
<1> HIDE DEF queues
<1>8. u.curQueue = o.curQueue /\ o.curQueue \in Nat
  BY <1>3 DEF Channel
<1>9. n \in Nat
  BY SMTT(30), <1>8, ControllerAssumption
<1>10. d = [u EXCEPT !.curQueue = n]
  <2> HIDE DEF u
  <2> QED BY <1>2, <1>7, <1>8 DEF MoveCurrentQueue
<1> HIDE DEF n
<1>11. d = MoveUpdate(o, queues, n)
  <2>1. [u EXCEPT !.curQueue = n] = [o EXCEPT !.commandQueues = queues, !.curQueue = n]
    OBVIOUS
  <2> QED BY <1>10, <2>1 DEF MoveUpdate
<1> DEFINE v == MoveUpdate(o, queues, n)
<1>12. /\ v \in Channel /\ SameBanks(o, v) /\ SameRequests(o, v) /\ SameFlags(o, v)
       /\ v.commandQueues = queues /\ v.effectiveRow = o.effectiveRow
       /\ v.writing = o.writing /\ v.failure = o.failure
  BY <1>3, <1>6, <1>9, MoveFields
<1> HIDE DEF v, u
<1>13. \A e \in Banks : BankRow(v, e) = RowThen(c, b, cmd, e)
  BY <1>1, <1>12 DEF SameBanks, BankRow, ResetDone
<1>14. HeadGone(c, v, b, cmd)
  BY <1>1, <1>5, <1>12, <1>13 DEF HeadGone, ResetDone, SameFlags, SameRequests
<1> QED BY <1>11, <1>14 DEF d, v

\* Issuing a command keeps the channel good.
LEMMA HeadGoneGood ==
    ASSUME LeastNumbers, p \in Parameters, NEW c, Good(c), NEW q, NEW st, AllPlaced(c, q, st),
           NEW b \in Banks, c.commandQueues[b] # <<>>, NEW cmd, cmd = c.commandQueues[b][1],
           NEW d, HeadGone(c, d, b, cmd)
    PROVE  Good(d)
<1> DEFINE I == Marked(c.issued, cmd)
<1>0. /\ d \in Channel /\ d.effectiveRow = c.effectiveRow /\ d.failure = c.failure
      /\ d.bankNeedRefresh = c.bankNeedRefresh
      /\ d.delayedRefreshCounter = c.delayedRefreshCounter
  BY DEF HeadGone
<1>1. ASSUME NEW e \in Banks
      PROVE  /\ Cleaned(Left(c, b, e), I, e, BankRow(d, e), d.effectiveRow[e])
             /\ d.commandQueues[e] = NotIssued(Left(c, b, e), I)
             /\ d.refreshQueued[e] <=> /\ c.refreshQueued[e]
                                       /\ cmd.type = "REFRESH" => e \notin Group(b)
  <2>1. Cleaned(Left(c, b, e), I, e, RowThen(c, b, cmd, e), c.effectiveRow[e])
    BY LeftCleaned
  <2>2. BankRow(d, e) = RowThen(c, b, cmd, e)
    BY DEF HeadGone
  <2>3. /\ d.commandQueues[e] = NotIssued(Left(c, b, e), I)
        /\ d.refreshQueued[e] <=> /\ c.refreshQueued[e]
                                  /\ cmd.type = "REFRESH" => e \notin Group(b)
    BY DEF HeadGone
  <2> QED BY <1>0, <2>1, <2>2, <2>3
<1>2. ASSUME NEW e \in Banks
      PROVE  Waiting(d.commandQueues[e]) <=> /\ Waiting(c.commandQueues[e])
                                             /\ e = b => cmd.type # "REFRESH"
  <2>1. StillWaiting(c, b, cmd, e)
    BY LeftCleaned
  <2> QED BY <1>1, <2>1 DEF Cleaned, StillWaiting
<1>3. ASSUME cmd.type = "REFRESH" PROVE BankHead(b) = b
  <2>1. BankGood(c, b) /\ c.commandQueues[b] \in Seq(Commands)
    BY DEF Good, Channel
  <2>2. 1 \in 1 .. Len(c.commandQueues[b])
    BY SMTT(30), <2>1
  <2> QED BY <1>3, <2>1, <2>2 DEF BankGood, QueueFits, Fits
<1>4. ASSUME NEW e \in Banks PROVE BankGood(d, e)
  <2>1. BankGood(c, e)
    BY DEF Good
  <2>2. BankHead(e) \in Banks
    BY HeadOfGroup
  <2>3. Runs(d.commandQueues[e], e, BankRow(d, e), d.effectiveRow[e])
    BY <1>1 DEF Cleaned
  <2>4. NeedRefresh(d, e) <=> NeedRefresh(c, e)
    BY <1>0 DEF NeedRefresh
  <2>5. Active(d, e) <=> Active(c, e)
    BY <1>0 DEF Active
  <2>6. RefreshFits(c, e)
    BY <2>1 DEF BankGood
  <2>7. d.refreshQueued[e] <=> Waiting(d.commandQueues[BankHead(e)])
    <3>1. c.refreshQueued[e] <=> Waiting(c.commandQueues[BankHead(e)])
      BY <2>6 DEF RefreshFits
    <3>2. CASE cmd.type # "REFRESH"
      BY <1>1, <1>2, <2>2, <3>1, <3>2
    <3>3. CASE cmd.type = "REFRESH"
      <4>1. e \in Group(b) <=> BankHead(e) = b
        BY <1>3, <3>3 DEF Group
      <4> QED BY <1>1, <1>2, <2>2, <3>1, <3>3, <4>1
    <3> QED BY <3>2, <3>3
  <2>8. d.refreshQueued[e] => c.refreshQueued[e]
    BY <1>1
  <2>9. RefreshFits(d, e)
    BY <1>0, <2>4, <2>5, <2>6, <2>7, <2>8 DEF RefreshFits
  <2> QED BY <2>1, <2>3, <2>5, <2>9 DEF BankGood, Runs
<1> QED BY <1>0, <1>4 DEF Good

\* Issuing an access moves its request from the commands to the rank.
LEMMA HeadGonePlaced ==
    ASSUME LeastNumbers, p \in Parameters, NEW c, Good(c), NEW q, NEW st, AllPlaced(c, q, st),
           NEW b \in Banks, c.commandQueues[b] # <<>>, NEW cmd, cmd = c.commandQueues[b][1],
           NEW d, HeadGone(c, d, b, cmd)
    PROVE  AllPlaced(d, q, st)
<1> SUFFICES ASSUME ~p.WritePausing
             PROVE  /\ EachOnce(d.transactionQueues[q])
                    /\ \A x \in Requests : Placed(d, q, st[x], x)
  BY DEF AllPlaced
<1>0. /\ d.issued = Marked(c.issued, cmd) /\ d.serving = Marked(c.serving, cmd)
      /\ d.transactionQueues = c.transactionQueues
  BY DEF HeadGone
<1>1. EachOnce(c.transactionQueues[q]) /\ \A x \in Requests : Placed(c, q, st[x], x)
  BY DEF AllPlaced
<1>2. ASSUME NEW e \in Banks PROVE d.commandQueues[e] = Left(c, b, e)
  <2>1. Cleaned(Left(c, b, e), Marked(c.issued, cmd), e, RowThen(c, b, cmd, e),
                c.effectiveRow[e])
    BY LeftCleaned
  <2>2. d.commandQueues[e] = NotIssued(Left(c, b, e), Marked(c.issued, cmd))
    BY DEF HeadGone
  <2> QED BY <2>1, <2>2 DEF Cleaned
<1>3. c.commandQueues[b] \in Seq(Commands) /\ BankGood(c, b)
  BY DEF Good, Channel
<1>4. 1 \in 1 .. Len(c.commandQueues[b])
  BY SMTT(30), <1>3
<1>5. Fits(cmd, b) /\ cmd \in Commands
  <2>1. Fits(cmd, b)
    BY <1>3, <1>4 DEF BankGood, QueueFits
  <2>2. cmd \in Commands
    BY <1>3, <1>4, CommandOfQueue
  <2> QED BY <2>1, <2>2
<1>6. ASSUME NEW x \in Requests PROVE InCommands(d, x) <=> InCommands(c, x) /\ x # cmd.req
  <2>0. x # NoRequest /\ BankOf[x] \in Banks
    BY ControllerAssumption
  <2>1. CASE BankOf[x] # b
    <3>1. d.commandQueues[BankOf[x]] = c.commandQueues[BankOf[x]]
      BY <1>2, <2>0, <2>1 DEF Left
    <3>2. x # cmd.req
      BY <1>5, <2>0, <2>1 DEF Fits
    <3> QED BY <3>1, <3>2 DEF InCommands
  <2>2. CASE BankOf[x] = b
    <3> DEFINE queue == c.commandQueues[b]
               rest == Tail(queue)
    <3>1. d.commandQueues[b] = rest
      BY <1>2 DEF Left
    <3>2. /\ Len(queue) \in Nat /\ Len(rest) = Len(queue) - 1
          /\ \A n \in 1 .. Len(queue) - 1 : rest[n] = queue[n + 1]
      BY SMTT(30), <1>3
    <3> HIDE DEF rest
    <3>3. ASSUME NEW n \in 1 .. Len(rest), rest[n].req = x
          PROVE  InCommands(c, x) /\ x # cmd.req
      <4>1. n + 1 \in 1 .. Len(queue) /\ n + 1 # 1 /\ queue[n + 1].req = x
        BY SMTT(30), <3>2, <3>3
      <4>2. InCommands(c, x)
        BY <2>2, <4>1 DEF InCommands
      <4>3. x # cmd.req
        BY <1>3, <1>4, <2>0, <4>1 DEF BankGood, QueueFits
      <4> QED BY <4>2, <4>3
    <3>4. ASSUME NEW n \in 1 .. Len(queue), queue[n].req = x, x # cmd.req
          PROVE  \E m \in 1 .. Len(rest) : rest[m].req = x
      <4>1. n # 1
        BY <3>4
      <4>2. n - 1 \in 1 .. Len(rest) /\ rest[n - 1] = queue[n]
        BY SMTT(30), <3>2, <4>1
      <4> QED BY <3>4, <4>2
    <3>5. InCommands(d, x) => InCommands(c, x) /\ x # cmd.req
      BY <2>2, <3>1, <3>3 DEF InCommands
    <3>6. InCommands(c, x) /\ x # cmd.req => InCommands(d, x)
      BY <2>2, <3>1, <3>4 DEF InCommands
    <3> QED BY <3>5, <3>6
  <2> QED BY <2>1, <2>2
<1>7. ASSUME NEW x PROVE InTransactions(d, q, x) <=> InTransactions(c, q, x)
  BY <1>0 DEF InTransactions
<1>8. ASSUME NEW x \in Requests PROVE Placed(d, q, st[x], x)
  <2>1. Placed(c, q, st[x], x)
    BY <1>1
  <2>2. x # NoRequest
    BY ControllerAssumption
  <2>3. CASE x = cmd.req
    <3>1. BankOf[x] = b
      BY <1>5, <2>2, <2>3 DEF Fits
    <3>2. InCommands(c, x)
      BY <1>4, <2>3, <3>1 DEF InCommands
    <3>3. x \in d.issued /\ x \in d.serving /\ ~InCommands(d, x)
      BY <1>0, <1>6, <2>2, <2>3 DEF Marked
    <3>4. st[x] = "accepted" /\ ~InTransactions(d, q, x)
      BY <1>7, <2>1, <3>2 DEF Placed
    <3>5. st[x] # "new"
      BY <3>4
    <3> QED BY <3>3, <3>4, <3>5 DEF Placed
  <2>4. CASE x # cmd.req
    <3>1. (x \in d.issued <=> x \in c.issued) /\ (x \in d.serving <=> x \in c.serving)
      BY <1>0, <2>4 DEF Marked
    <3> QED BY <1>6, <1>7, <2>1, <2>4, <3>1 DEF Placed
  <2> QED BY <2>3, <2>4
<1> QED BY <1>0, <1>1, <1>8

PauseUpdate(c, b, w, counts, forced, transactions) ==
    [c EXCEPT !.writing[b] = NoRequest, !.serving = c.serving \ {w}, !.cancellations = counts,
              !.forced = forced, !.transactionQueues = transactions]

\* What cancelling or pausing a write changes.
LEMMA PauseFields ==
    ASSUME NEW c \in Channel, NEW b \in Banks, NEW w, NEW counts \in [Requests -> Nat],
           NEW forced \in SUBSET Requests, NEW transactions \in [Queues -> Seq(Requests)]
    PROVE  /\ PauseUpdate(c, b, w, counts, forced, transactions) \in Channel
           /\ SameBelow(c, PauseUpdate(c, b, w, counts, forced, transactions))
<1>0. NoRequest \in AnyRequest /\ c.serving \ {w} \in SUBSET Requests
  BY DEF AnyRequest, Channel
<1>1. PauseUpdate(c, b, w, counts, forced, transactions) \in Channel
  BY ZenonT(60), <1>0 DEF Channel, PauseUpdate
<1>2. SameBelow(c, PauseUpdate(c, b, w, counts, forced, transactions))
  BY DEF Channel, PauseUpdate, SameBelow, SameFlags, SameBanks
<1> QED BY <1>1, <1>2

\* A paused or cancelled write goes back to the transactions; the banks and their
\* queues stay as they are.
LEMMA PauseGood ==
    ASSUME p \in Parameters, p.WritePausing, NEW c, Good(c), NEW q \in Queues,
           NEW b \in Banks, c.writing[b] # NoRequest, NEW cancel, NEW st
    PROVE  Good(PauseWrite(c, b, q, cancel)) /\ AllPlaced(PauseWrite(c, b, q, cancel), q, st)
<1> DEFINE w == c.writing[b]
           count == c.cancellations[w] + 1
           counts == [c.cancellations EXCEPT ![w] =
                         IF cancel /\ c.cancellations[w] < MaxCancellations
                         THEN c.cancellations[w] + 1 ELSE c.cancellations[w]]
           forced == IF cancel /\ count >= MaxCancellations THEN c.forced \cup {w} ELSE c.forced
           o == [c EXCEPT !.writing[b] = NoRequest, !.serving = c.serving \ {w},
                          !.cancellations = counts, !.forced = forced]
           transactions == [c.transactionQueues EXCEPT ![q] = <<w>> \o c.transactionQueues[q]]
           d == PauseWrite(c, b, q, cancel)
<1>1. c \in Channel /\ q \in Queues
  BY DEF Good
<1>2. /\ w \in Requests /\ c.cancellations \in [Requests -> Nat] /\ c.forced \in SUBSET Requests
      /\ c.transactionQueues \in [Queues -> Seq(Requests)]
  BY <1>1 DEF Channel, AnyRequest
<1>3. counts \in [Requests -> Nat] /\ forced \in SUBSET Requests
      /\ transactions \in [Queues -> Seq(Requests)]
  BY SMTT(30), <1>1, <1>2
<1>4. d = Prequeue(o, q, w)
  BY DEF PauseWrite
<1> HIDE DEF counts, forced, w
<1>5. o.transactionQueues = c.transactionQueues
  BY <1>1 DEF Channel
<1>6. d = [o EXCEPT !.transactionQueues[q] = <<w>> \o o.transactionQueues[q]]
  BY <1>4 DEF Prequeue
<1>7. d = [o EXCEPT !.transactionQueues = transactions]
  <2> HIDE DEF o, d
  <2> QED BY <1>5, <1>6
<1>8. d = PauseUpdate(c, b, w, counts, forced, transactions)
  <2> HIDE DEF d, transactions
  <2> QED BY <1>1, <1>7 DEF PauseUpdate
<1> HIDE DEF d, transactions, o
<1>9. d \in Channel /\ SameBelow(c, d)
  BY <1>1, <1>3, <1>8, PauseFields
<1>10. Good(d)
  BY <1>9, GoodBelow
<1> QED BY <1>10 DEF AllPlaced, d

\* The head of a queue whose command the rank accepts is issued.
LEMMA IssueHeadGood ==
    ASSUME LeastNumbers, p \in Parameters, NEW c, Good(c),
           NEW q \in Queues, NEW st, AllPlaced(c, q, st),
           NEW b \in Banks, c.commandQueues[b] # <<>>,
           StateAllows(c, b, c.commandQueues[b][1]), NEW cancel
    PROVE  Good(IssueHead(c, b, q, cancel)) /\ AllPlaced(IssueHead(c, b, q, cancel), q, st)
<1> DEFINE cmd == c.commandQueues[b][1]
           o == Moved(c, b, cmd)
           d == IssueHead(c, b, q, cancel)
           pauses == p.WritePausing /\ cmd.type = "ACTIVATE" /\ c.writing[b] # NoRequest
<1>1. d = IF pauses THEN PauseWrite(o, b, q, cancel) ELSE o
  BY DEF IssueHead, Moved, Reset, Done
<1>2. c.commandQueues[b] \in Seq(Commands) /\ BankGood(c, b)
  BY DEF Good, Channel
<1>3. 1 \in 1 .. Len(c.commandQueues[b])
  BY SMTT(30), <1>2
<1>4. cmd \in Commands
  BY <1>2, <1>3, CommandOfQueue
<1>5. Fits(cmd, b)
  BY <1>2, <1>3 DEF BankGood, QueueFits
<1>6. cmd.type = "REFRESH" => \A e \in Group(b) : c.refreshQueued[e]
  BY GroupFlagged
<1>a. cmd = c.commandQueues[b][1] /\ StateAllows(c, b, cmd)
  OBVIOUS
<1> HIDE DEF cmd, d
<1>7. ASSUME NEW e \in Banks
      PROVE  NotIssued(Left(c, b, e), Marked(c.issued, cmd)) \in Seq(Commands)
  <2>1. Cleaned(Left(c, b, e), Marked(c.issued, cmd), e, RowThen(c, b, cmd, e),
                c.effectiveRow[e])
    BY <1>a, LeftCleaned
  <2> QED BY <2>1 DEF Cleaned, Runs
<1>8. HeadGone(c, o, b, cmd)
  BY <1>4, <1>5, <1>6, <1>7, <1>a, MovedBehaves
<1> HIDE DEF o
<1>9. Good(o) /\ AllPlaced(o, q, st)
  BY <1>8, <1>a, HeadGoneGood, HeadGonePlaced
<1>10. CASE ~pauses
  <2>1. d = o
    BY <1>1, <1>10
  <2> QED BY <1>9, <2>1 DEF d
<1>11. CASE pauses
  <2>1. d = PauseWrite(o, b, q, cancel)
    BY <1>1, <1>11
  <2>2. o.writing[b] # NoRequest /\ p.WritePausing
    BY <1>8, <1>11 DEF HeadGone
  <2>3. Good(PauseWrite(o, b, q, cancel)) /\ AllPlaced(PauseWrite(o, b, q, cancel), q, st)
    BY <1>9, <2>2, PauseGood
  <2> QED BY <2>1, <2>3 DEF d
<1> QED BY <1>10, <1>11

-----------------------------------------------------------------------------
(* A cycle of the command queues. *)

FirstHead(c, heads) == CHOOSE b \in heads : \A d \in heads : Turn(c, b) <= Turn(c, d)

\* A queue whose head can be issued is found, if there is one.
LEMMA HeadChosen ==
    ASSUME LeastNumbers, NEW c \in Channel, NEW heads \in SUBSET Banks, heads # {}
    PROVE  FirstHead(c, heads) \in heads
<1> DEFINE T == {Turn(c, b) : b \in heads}
<1>1. ASSUME NEW b \in heads PROVE Turn(c, b) \in Nat
  BY SMTT(30), ControllerAssumption DEF Turn, Channel, Banks
<1>2. T \in SUBSET Nat /\ T # {}
  BY <1>1
<1>3. PICK n \in T : \A m \in T : n <= m
  BY <1>2 DEF LeastNumbers
<1>4. \E b \in heads : \A d \in heads : Turn(c, b) <= Turn(c, d)
  BY <1>3
<1> QED BY <1>4 DEF FirstHead

\* The second half of a cycle.
LEMMA CommandQueuesGood ==
    ASSUME LeastNumbers, p \in Parameters, NEW c0, Good(c0),
           NEW q \in Queues, NEW st, AllPlaced(c0, q, st),
           NEW ready \in SUBSET Banks, NEW timer, NEW cancel
    PROVE  /\ Good(CycleCommandQueues(c0, ready, timer, q, cancel))
           /\ AllPlaced(CycleCommandQueues(c0, ready, timer, q, cancel), q, st)
<1> DEFINE c == FreshUpdate(HandleLowPower(c0, timer))
           heads == Issuable(c, ready)
           d == CycleCommandQueues(c0, ready, timer, q, cancel)
<1>1. d = IF RefreshHeads(c) # {} THEN QueueRefresh(c, NextRefreshHead(c))
          ELSE IF heads = {} THEN c
          ELSE IssueHead(c, FirstHead(c, heads), q, cancel)
  BY DEF CycleCommandQueues, FreshUpdate, FirstHead
<1>2. Good(c) /\ AllPlaced(c, q, st)
  BY LowPowerGood
<1> HIDE DEF c, d
<1>3. c \in Channel
  BY <1>2 DEF Good
<1>4. CASE RefreshHeads(c) # {}
  <2> DEFINE h == NextRefreshHead(c)
  <2>1. d = QueueRefresh(c, h)
    BY <1>1, <1>4
  <2>2. h \in RefreshHeads(c)
    BY <1>3, <1>4, RefreshHeadChosen
  <2> HIDE DEF h
  <2>3. h \in Banks /\ BankHead(h) = h /\ NeedRefresh(c, h)
    BY <2>2 DEF RefreshHeads
  <2>4. RefreshIsQueued(c, QueueRefresh(c, h), h)
    BY <1>2, <2>3, QueueRefreshFields
  <2>5. Good(QueueRefresh(c, h)) /\ AllPlaced(QueueRefresh(c, h), q, st)
    BY <1>2, <2>3, <2>4, RefreshQueuedGood
  <2> QED BY <2>1, <2>5 DEF d
<1>5. CASE RefreshHeads(c) = {} /\ heads = {}
  <2>1. d = c
    BY <1>1, <1>5
  <2> QED BY <1>2, <2>1 DEF d
<1>6. CASE RefreshHeads(c) = {} /\ heads # {}
  <2> DEFINE b == FirstHead(c, heads)
  <2>1. d = IssueHead(c, b, q, cancel)
    BY <1>1, <1>6
  <2>2. heads \in SUBSET Banks
    BY DEF Issuable
  <2>3. b \in heads
    <3> HIDE DEF heads
    <3> QED BY <1>3, <1>6, <2>2, HeadChosen
  <2> HIDE DEF b
  <2>4. b \in Banks /\ c.commandQueues[b] # <<>> /\ StateAllows(c, b, c.commandQueues[b][1])
    BY <2>2, <2>3 DEF Issuable
  <2>5. Good(IssueHead(c, b, q, cancel)) /\ AllPlaced(IssueHead(c, b, q, cancel), q, st)
    BY <1>2, <2>4, IssueHeadGood
  <2> QED BY <2>1, <2>5 DEF d
<1> QED BY <1>4, <1>5, <1>6
=============================================================================
