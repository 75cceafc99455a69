---------------------------- MODULE FRFCFS_proofs ----------------------------
(***************************************************************************)
(* Proofs about the FRFCFS controller over a rank of banks, for every      *)
(* number of banks, rows and requests and all parameters.                  *)
(***************************************************************************)
EXTENDS FRFCFS, MemoryController_proofs

\* The prover of the leaves that do not name one.
USE ZenonT(30)

Statuses == [Requests -> {"new", "accepted", "done"}]

\* The inductive invariant.  The bound variables let a proof speak of the channel
\* after a step under the parameters before it.
FRInv ==
    /\ p \in Parameters
    /\ \E c, st : c = s /\ st = status /\ st \in Statuses /\ Good(c) /\ AllPlaced(c, "mem", st)

-----------------------------------------------------------------------------
(* What follows from the invariant. *)

\* The recursion of Cardinality, which counts the places and the refreshes in the properties.
Counted(S, count) ==
    [T \in SUBSET S |-> IF T = {} THEN 0 ELSE 1 + count[T \ {CHOOSE x : x \in T}]]

\* Cardinality satisfies its recursion.
LEMMA CardinalityRecursion ==
    ASSUME NEW S, \E count : count = Counted(S, count)
    PROVE  \E count : count = Counted(S, count) /\ Cardinality(S) = count[S]
<1> DEFINE chosen == CHOOSE count : count = Counted(S, count)
<1>1. chosen = Counted(S, chosen)
  OBVIOUS
<1>2. Cardinality(S) = chosen[S]
  BY DEF Cardinality, Counted
<1> QED BY <1>1, <1>2

\* The empty set and the sets of one element have these sizes.
LEMMA SmallSet == Cardinality({}) = 0 /\ \A x : Cardinality({x}) = 1
<1>1. Cardinality({}) = 0
  <2> DEFINE count == [T \in SUBSET {} |-> 0]
  <2>1. count = Counted({}, count)
    BY DEF Counted
  <2>2. PICK f : f = Counted({}, f) /\ Cardinality({}) = f[{}]
    BY <2>1, CardinalityRecursion
  <2>3. f[{}] = 0
    BY ONLY ZenonT(30), <2>2 DEF Counted
  <2> QED BY <2>2, <2>3
<1>2. ASSUME NEW x PROVE Cardinality({x}) = 1
  <2> DEFINE count == [T \in SUBSET {x} |-> IF T = {} THEN 0 ELSE 1]
  <2>1. \A T \in SUBSET {x} : T # {} => T \ {CHOOSE y : y \in T} = {}
    <3> SUFFICES ASSUME NEW T \in SUBSET {x}, T # {} PROVE T \ {CHOOSE y : y \in T} = {}
      OBVIOUS
    <3>1. (CHOOSE y : y \in T) \in T
      OBVIOUS
    <3> QED BY <3>1
  <2>2. {} \in SUBSET {x} /\ {x} \in SUBSET {x} /\ {x} # {}
    OBVIOUS
  <2>3. ASSUME NEW f, NEW T \in SUBSET {x}
        PROVE  Counted({x}, f)[T] = IF T = {} THEN 0 ELSE 1 + f[{}]
    <3>1. Counted({x}, f)[T] = IF T = {} THEN 0 ELSE 1 + f[T \ {CHOOSE y : y \in T}]
      BY DEF Counted
    <3>2. CASE T = {}
      BY <3>1, <3>2
    <3>3. CASE T # {}
      BY <2>1, <3>1, <3>3
    <3> QED BY <3>2, <3>3
  <2>4. \A f : Counted({x}, f) = [T \in SUBSET {x} |-> Counted({x}, f)[T]]
    BY SMTT(30) DEF Counted
  <2>5. count = Counted({x}, count)
    <3>1. ASSUME NEW T \in SUBSET {x} PROVE count[T] = Counted({x}, count)[T]
      <4>1. count[{}] = 0 /\ count[T] = IF T = {} THEN 0 ELSE 1
        BY <2>2
      <4>2. Counted({x}, count)[T] = IF T = {} THEN 0 ELSE 1 + count[{}]
        <5> HIDE DEF count
        <5> QED BY <2>3
      <4> HIDE DEF count
      <4> QED BY SMTT(30), <4>1, <4>2
    <3>2. count = [T \in SUBSET {x} |-> count[T]]
      OBVIOUS
    <3> HIDE DEF count
    <3> QED BY <2>4, <3>1, <3>2
  <2>6. PICK f : f = Counted({x}, f) /\ Cardinality({x}) = f[{x}]
    BY <2>5, CardinalityRecursion
  <2>7. f[{}] = 0 /\ f[{x}] = 1 + f[{}]
    BY <2>2, <2>3, <2>6
  <2> HIDE DEF count
  <2> QED BY ONLY <2>6, <2>7
<1> QED BY <1>1, <1>2

\* The recursion of RowAfter.
RowSteps(b, row) ==
    [n \in 0 .. Len(s.commandQueues[b]) |->
        IF n = 0 THEN IF s.bank[b] = "open" THEN s.openRow[b] ELSE NoRow
        ELSE IF s.commandQueues[b][n].type = "ACTIVATE" THEN s.commandQueues[b][n].row
        ELSE IF s.commandQueues[b][n].type \in {"READ", "WRITE"} THEN row[n - 1]
        ELSE NoRow]

\* RowAfter satisfies its recursion.
LEMMA RowAfterRecursion ==
    ASSUME NEW b, \E row : row = RowSteps(b, row)
    PROVE  RowAfter(b) = RowSteps(b, RowAfter(b))
<1> DEFINE chosen == CHOOSE row : row = RowSteps(b, row)
<1>1. chosen = RowSteps(b, chosen)
  OBVIOUS
<1>2. RowAfter(b) = chosen
  BY DEF RowAfter, RowSteps
<1> QED BY <1>1, <1>2

\* The rows that Leads promises are the rows of RowAfter.
LEMMA RowAfterIs ==
    ASSUME LeastNumbers, NEW b \in Banks, s \in Channel,
           NEW row \in [0 .. Len(s.commandQueues[b]) -> AnyRow], row[0] = BankRow(s, b),
           \A n \in 1 .. Len(s.commandQueues[b]) : row[n] = After(s.commandQueues[b][n], row[n - 1])
    PROVE  \A n \in 0 .. Len(s.commandQueues[b]) : RowAfter(b)[n] = row[n]
<1> DEFINE queue == s.commandQueues[b]
           N == Len(queue)
           f == RowAfter(b)
<1>0. N \in Nat
  BY SMTT(30) DEF Channel
<1>1. ASSUME NEW g, NEW n \in 0 .. N
      PROVE  RowSteps(b, g)[n] = IF n = 0 THEN BankRow(s, b) ELSE After(queue[n], g[n - 1])
  BY DEF RowSteps, BankRow, After
<1>2. \A g : RowSteps(b, g) = [n \in 0 .. N |-> RowSteps(b, g)[n]]
  BY DEF RowSteps
<1>3. row = RowSteps(b, row)
  <2>1. ASSUME NEW n \in 0 .. N PROVE row[n] = RowSteps(b, row)[n]
    <3>1. CASE n = 0
      BY <1>1, <3>1
    <3>2. CASE n # 0
      <4>1. n \in 1 .. N
        BY SMTT(30), <3>2
      <4> QED BY <1>1, <3>2, <4>1
    <3> QED BY <3>1, <3>2
  <2>2. row = [n \in 0 .. N |-> row[n]]
    OBVIOUS
  <2> QED BY <1>2, <2>1, <2>2
<1>4. f = RowSteps(b, f)
  BY <1>3, RowAfterRecursion
<1> HIDE DEF f
<1>5. ASSUME NEW n \in 0 .. N
      PROVE  f[n] = IF n = 0 THEN BankRow(s, b) ELSE After(queue[n], f[n - 1])
  BY <1>1, <1>4
<1> DEFINE wrong == {n \in 0 .. N : f[n] # row[n]}
<1>6. wrong = {}
  <2> SUFFICES ASSUME wrong # {} PROVE FALSE
    OBVIOUS
  <2>0. wrong \in SUBSET Nat
    BY SMTT(30), <1>0
  <2>1. PICK n \in wrong : \A m \in wrong : n <= m
    BY <2>0 DEF LeastNumbers
  <2>2. n \in 0 .. N /\ f[n] # row[n]
    BY <2>1
  <2>3. n # 0
    BY <1>5, <2>2
  <2>4. n \in 1 .. N /\ n - 1 \in 0 .. N /\ n - 1 \notin wrong
    BY SMTT(30), <1>0, <2>0, <2>1, <2>2, <2>3
  <2>5. f[n - 1] = row[n - 1]
    BY <2>4
  <2> HIDE DEF wrong
  <2> QED BY <1>5, <2>2, <2>3, <2>4, <2>5
<1>7. \A n \in 0 .. N : f[n] = row[n]
  BY <1>6
<1> QED BY <1>7 DEF f

\* The invariant implies that the believed rows are those the queues lead to.
LEMMA BeliefFollows ==
    ASSUME LeastNumbers, FRInv
    PROVE  BeliefMatchesBanks
<1>0. Good(s)
  BY DEF FRInv
<1>1. s \in Channel
  BY <1>0 DEF Good
<1>2. ASSUME NEW b \in Banks
      PROVE  /\ RowAfter(b)[Len(s.commandQueues[b])] = s.effectiveRow[b]
             /\ \A n \in 1 .. Len(s.commandQueues[b]) :
                   Legal(s.commandQueues[b][n], RowAfter(b)[n - 1])
  <2> DEFINE queue == s.commandQueues[b]
             N == Len(queue)
  <2>0. N \in Nat
    BY SMTT(30), <1>1 DEF Channel
  <2>1. Leads(queue, BankRow(s, b), s.effectiveRow[b])
    BY <1>0 DEF Good, BankGood
  <2>2. PICK row \in [0 .. N -> AnyRow] :
           /\ row[0] = BankRow(s, b) /\ row[N] = s.effectiveRow[b]
           /\ \A n \in 1 .. N : /\ row[n] = After(queue[n], row[n - 1])
                                /\ Legal(queue[n], row[n - 1])
    BY <2>1 DEF Leads
  <2>3. \A n \in 0 .. N : RowAfter(b)[n] = row[n]
    BY <1>1, <2>2, RowAfterIs
  <2>4. N \in 0 .. N /\ \A n \in 1 .. N : n - 1 \in 0 .. N
    BY SMTT(30), <2>0
  <2> QED BY <2>2, <2>3, <2>4
<1> QED BY <1>2 DEF BeliefMatchesBanks

\* A REFRESH is the last command of its queue or the queue has none.
LEMMA RefreshesOfQueue ==
    ASSUME s \in Channel, NEW b \in Banks, QueueFits(s.commandQueues[b], b)
    PROVE  Refreshes(b) = IF Waiting(s.commandQueues[b])
                          THEN {Len(s.commandQueues[b])} ELSE {}
<1> DEFINE queue == s.commandQueues[b]
<1>1. queue \in Seq(Commands) /\ Len(queue) \in Nat /\ DOMAIN queue = 1 .. Len(queue)
  BY SMTT(30) DEF Channel
<1>2. \A n \in 1 .. Len(queue) : queue[n].type = "REFRESH" => n = Len(queue)
  BY DEF QueueFits
<1>3. Refreshes(b) = {n \in 1 .. Len(queue) : queue[n].type = "REFRESH"}
  BY <1>1 DEF Refreshes
<1> HIDE DEF queue
<1> QED BY SMTT(30), <1>1, <1>2, <1>3 DEF Waiting, queue

\* The invariant implies that the refresh flags are those of the queues.
LEMMA RefreshFollows ==
    ASSUME FRInv
    PROVE  RefreshFlagsMatch
<1>0. p \in Parameters /\ Good(s)
  BY DEF FRInv
<1>1. s \in Channel /\ s.failure = "none"
  BY <1>0 DEF Good
<1>2. \A b \in Banks : QueueFits(s.commandQueues[b], b) /\ RefreshFits(s, b)
  BY <1>0 DEF Good, BankGood
<1>3. ASSUME NEW b \in Banks
      PROVE  Cardinality(Refreshes(b)) = 1 <=> Waiting(s.commandQueues[b])
  <2>1. CASE Waiting(s.commandQueues[b])
    <3>1. Refreshes(b) = {Len(s.commandQueues[b])}
      BY <1>1, <1>2, <2>1, RefreshesOfQueue
    <3>2. Cardinality(Refreshes(b)) = 1
      BY <3>1, SmallSet
    <3> QED BY <2>1, <3>2
  <2>2. CASE ~Waiting(s.commandQueues[b])
    <3>1. Refreshes(b) = {}
      BY <1>1, <1>2, <2>2, RefreshesOfQueue
    <3>2. Cardinality(Refreshes(b)) = 0
      BY <3>1, SmallSet
    <3>3. Cardinality(Refreshes(b)) # 1
      BY ONLY <3>2
    <3> QED BY <2>2, <3>3
  <2> QED BY <2>1, <2>2
<1>4. ASSUME NEW b \in Banks PROVE Refreshes(b) \subseteq {Len(s.commandQueues[b])}
  BY <1>1, <1>2, RefreshesOfQueue
<1>5. ASSUME NEW b \in Banks
      PROVE  /\ s.bankNeedRefresh[b] <=> NeedRefresh(s, b)
             /\ s.refreshQueued[b] <=> Cardinality(Refreshes(BankHead(b))) = 1
             /\ s.refreshQueued[b] => ~Active(s, b)
  <2>1. BankHead(b) \in Banks
    BY <1>0, HeadOfGroup
  <2> QED BY <1>2, <1>3, <2>1 DEF RefreshFits
<1> QED BY <1>1, <1>4, <1>5 DEF RefreshFlagsMatch

\* The number of places of a queue where something is that is there once at most.
LEMMA OnceCounted ==
    ASSUME NEW T, \A i, j \in T : i = j
    PROVE  Cardinality(T) = IF T = {} THEN 0 ELSE 1
<1>1. CASE T = {}
  BY <1>1, SmallSet
<1>2. CASE T # {}
  <2>1. PICK i : i \in T
    BY <1>2
  <2>2. T = {i}
    BY <2>1
  <2>3. Cardinality(T) = 1
    BY <2>2, SmallSet
  <2> QED BY <1>2, <2>3
<1> QED BY <1>1, <1>2

\* The invariant implies that an accepted request is in one place.
LEMMA PlaceFollows ==
    ASSUME FRInv
    PROVE  OnePlace
<1> SUFFICES ASSUME ~p.WritePausing, NEW r \in Requests
             PROVE  Occurrences("mem", r) = IF status[r] = "accepted" THEN 1 ELSE 0
  BY DEF OnePlace
<1>0. p \in Parameters /\ Good(s) /\ AllPlaced(s, "mem", status)
  BY DEF FRInv
<1>1. EachOnce(s.transactionQueues["mem"]) /\ Placed(s, "mem", status[r], r)
  BY <1>0 DEF AllPlaced
<1>2. s \in Channel /\ \A b \in Banks : QueueFits(s.commandQueues[b], b)
  BY <1>0 DEF Good, BankGood
<1> DEFINE b == BankOf[r]
           transactions == s.transactionQueues["mem"]
           commands == s.commandQueues[b]
           T == {i \in DOMAIN transactions : transactions[i] = r}
           C == {n \in DOMAIN commands : commands[n].req = r}
<1>3. b \in Banks /\ r # NoRequest /\ "mem" \in Queues
  BY ControllerAssumption, FRFCFSAssumption
<1>4. /\ DOMAIN transactions = 1 .. Len(transactions)
      /\ DOMAIN commands = 1 .. Len(commands)
  BY SMTT(30), <1>2, <1>3 DEF Channel
<1> HIDE DEF b, transactions, commands
<1>5. \A i, j \in T : i = j
  BY <1>1, <1>4 DEF EachOnce, transactions
<1>6. \A m, n \in C : m = n
  BY <1>2, <1>3, <1>4 DEF QueueFits, commands
<1>7. T # {} <=> InTransactions(s, "mem", r)
  BY <1>4 DEF InTransactions, transactions
<1>8. C # {} <=> InCommands(s, r)
  BY <1>4 DEF InCommands, commands, b
<1>9. Occurrences("mem", r) = Cardinality(T) + Cardinality(C) + (IF r \in s.serving THEN 1 ELSE 0)
  BY DEF Occurrences, transactions, commands, b
<1> HIDE DEF T, C
<1>10. /\ Cardinality(T) = IF T = {} THEN 0 ELSE 1
       /\ Cardinality(C) = IF C = {} THEN 0 ELSE 1
  BY <1>5, <1>6, OnceCounted
<1> QED BY SMTT(30), <1>1, <1>7, <1>8, <1>9, <1>10 DEF Placed

-----------------------------------------------------------------------------
(* The beginning. *)

\* With no command queued the row stays what it is.
LEMMA LeadsNowhere ==
    ASSUME NEW a \in AnyRow
    PROVE  Leads(<<>>, a, a)
<1> DEFINE row == [n \in 0 .. 0 |-> a]
<1>1. row \in [0 .. Len(<<>>) -> AnyRow] /\ row[0] = a /\ Len(<<>>) = 0
  BY SMTT(30)
<1> HIDE DEF row
<1>2. \A n \in 1 .. Len(<<>>) : FALSE
  BY SMTT(30), <1>1
<1> QED BY <1>1, <1>2 DEF Leads

\* The channel as SetConfig leaves it is a channel.
LEMMA InitialTyped == InitialChannel \in Channel
<1> DEFINE c == InitialChannel
<1>1. /\ c.transactionQueues \in [Queues -> Seq(Requests)] /\ c.fresh \in SUBSET Requests
      /\ c.commandQueues \in [Banks -> Seq(Commands)] /\ c.effectiveRow \in [Banks -> AnyRow]
      /\ c.starvationCounter \in [Banks -> Nat] /\ c.delayedRefreshCounter \in [Banks -> Nat]
      /\ c.bankNeedRefresh \in [Banks -> BOOLEAN] /\ c.refreshQueued \in [Banks -> BOOLEAN]
  BY SMTT(30) DEF InitialChannel, AnyRow
<1>2. /\ c.nextRefreshBank \in Nat /\ c.curQueue \in Nat /\ c.rankPowerDown \in BOOLEAN
      /\ c.issued \in SUBSET Requests /\ c.forced \in SUBSET Requests
      /\ c.cancellations \in [Requests -> Nat]
      /\ c.bank \in [Banks -> {"open", "closed", "precharging", "refreshing"}]
      /\ c.openRow \in [Banks -> AnyRow] /\ c.writing \in [Banks -> AnyRequest]
      /\ c.serving \in SUBSET Requests /\ c.failure \in {"none", "assert"}
  BY DEF InitialChannel, AnyRow, AnyRequest
<1> QED BY ZenonT(60), <1>1, <1>2 DEF InitialChannel, Channel

\* The invariant holds at first: empty queues, closed banks.
LEMMA InitGood == FRInit => FRInv
<1> SUFFICES ASSUME FRInit PROVE FRInv
  OBVIOUS
<1> DEFINE c == InitialChannel
<1>0. p \in Parameters /\ s = c /\ status = [r \in Requests |-> "new"]
  BY DEF FRInit
<1>1. status \in Statuses
  BY <1>0 DEF Statuses
<1>2. c \in Channel
  BY InitialTyped
<1>3. /\ c.failure = "none" /\ c.issued = {} /\ c.serving = {}
      /\ c.transactionQueues["mem"] = <<>>
      /\ \A b \in Banks : /\ c.commandQueues[b] = <<>> /\ c.effectiveRow[b] = NoRow
                          /\ c.delayedRefreshCounter[b] = 0 /\ c.bankNeedRefresh[b] = FALSE
                          /\ c.refreshQueued[b] = FALSE /\ c.bank[b] = "closed"
  BY FRFCFSAssumption DEF InitialChannel
<1> HIDE DEF c
<1>4. ASSUME NEW b \in Banks PROVE BankGood(c, b)
  <2>0. BankHead(b) \in Banks
    BY <1>0, HeadOfGroup
  <2>1. QueueFits(c.commandQueues[b], b)
    BY SMTT(30), <1>3 DEF QueueFits
  <2>2. BankRow(c, b) = NoRow
    BY <1>3 DEF BankRow
  <2>3. Leads(c.commandQueues[b], BankRow(c, b), c.effectiveRow[b])
    <3>1. Leads(<<>>, NoRow, NoRow)
      BY LeadsNowhere DEF AnyRow
    <3> QED BY <1>3, <2>2, <3>1
  <2>4. ~NeedRefresh(c, b) /\ ~Active(c, b) /\ ~Waiting(c.commandQueues[BankHead(b)])
    BY SMTT(30), <1>3, <2>0, ControllerAssumption DEF NeedRefresh, Active, Waiting
  <2>5. RefreshFits(c, b)
    BY SMTT(30), <1>3, <2>4, ControllerAssumption DEF RefreshFits
  <2> QED BY <2>1, <2>3, <2>4, <2>5 DEF BankGood
<1>5. Good(c)
  BY <1>2, <1>3, <1>4 DEF Good
<1>6. EachOnce(c.transactionQueues["mem"])
  BY SMTT(30), <1>3 DEF EachOnce
<1>7. ASSUME NEW r \in Requests PROVE Placed(c, "mem", status[r], r)
  <2>1. status[r] = "new" /\ status[r] # "accepted"
    BY <1>0
  <2>2. 1 .. Len(c.transactionQueues["mem"]) = {} /\ 1 .. Len(c.commandQueues[BankOf[r]]) = {}
    BY SMTT(30), <1>3, ControllerAssumption
  <2>3. ~InTransactions(c, "mem", r) /\ ~InCommands(c, r)
    BY <2>2 DEF InTransactions, InCommands
  <2> QED BY <1>3, <2>1, <2>3 DEF Placed
<1>8. AllPlaced(c, "mem", status)
  BY <1>6, <1>7 DEF AllPlaced
<1> QED BY <1>0, <1>1, <1>5, <1>8 DEF FRInv

-----------------------------------------------------------------------------
(* Arrivals, answers, settled banks and refresh pulses. *)

EnqueueUpdate(c, queue, arrived) ==
    [c EXCEPT !.transactionQueues["mem"] = queue, !.fresh = arrived]

\* What accepting a request changes.
LEMMA EnqueueFields ==
    ASSUME NEW c \in Channel, NEW queue \in Seq(Requests), NEW arrived \in SUBSET Requests
    PROVE  /\ EnqueueUpdate(c, queue, arrived) \in Channel
           /\ SameBelow(c, EnqueueUpdate(c, queue, arrived))
           /\ EnqueueUpdate(c, queue, arrived).transactionQueues["mem"] = queue
           /\ EnqueueUpdate(c, queue, arrived).issued = c.issued
           /\ EnqueueUpdate(c, queue, arrived).serving = c.serving
<1>0. "mem" \in Queues
  BY FRFCFSAssumption
<1>1. EnqueueUpdate(c, queue, arrived) \in Channel
  BY ZenonT(60), <1>0 DEF Channel, EnqueueUpdate
<1>2. SameBelow(c, EnqueueUpdate(c, queue, arrived))
  BY DEF Channel, EnqueueUpdate, SameBelow, SameFlags, SameBanks
<1>3. /\ EnqueueUpdate(c, queue, arrived).transactionQueues["mem"] = queue
      /\ EnqueueUpdate(c, queue, arrived).issued = c.issued
      /\ EnqueueUpdate(c, queue, arrived).serving = c.serving
  BY <1>0 DEF Channel, EnqueueUpdate
<1> QED BY <1>1, <1>2, <1>3

\* A new request joins the transactions.
LEMMA EnqueueGood ==
    ASSUME p \in Parameters, NEW c, Good(c), NEW st \in [Requests -> {"new", "accepted", "done"}],
           AllPlaced(c, "mem", st), NEW r \in Requests, st[r] = "new"
    PROVE  /\ Good(Enqueue(c, "mem", r))
           /\ AllPlaced(Enqueue(c, "mem", r), "mem", [st EXCEPT ![r] = "accepted"])
<1> DEFINE tq == c.transactionQueues["mem"]
           long == Append(tq, r)
           arrived == c.fresh \cup {r}
           d == Enqueue(c, "mem", r)
           now == [st EXCEPT ![r] = "accepted"]
<1>0. c \in Channel /\ tq \in Seq(Requests) /\ long \in Seq(Requests) /\ arrived \in SUBSET Requests
  BY SMTT(30), FRFCFSAssumption DEF Good, Channel
<1>1. d = EnqueueUpdate(c, long, arrived)
  BY DEF Enqueue, EnqueueUpdate
<1> HIDE DEF d, arrived
<1>2. /\ d \in Channel /\ SameBelow(c, d) /\ d.transactionQueues["mem"] = long
      /\ d.issued = c.issued /\ d.serving = c.serving
  <2> HIDE DEF long
  <2>1. /\ EnqueueUpdate(c, long, arrived) \in Channel
        /\ SameBelow(c, EnqueueUpdate(c, long, arrived))
        /\ EnqueueUpdate(c, long, arrived).transactionQueues["mem"] = long
        /\ EnqueueUpdate(c, long, arrived).issued = c.issued
        /\ EnqueueUpdate(c, long, arrived).serving = c.serving
    BY <1>0, EnqueueFields
  <2> QED BY <1>1, <2>1
<1>3. Good(d)
  BY <1>2, GoodBelow
<1>4. ASSUME ~p.WritePausing
      PROVE  /\ EachOnce(d.transactionQueues["mem"])
             /\ \A x \in Requests : Placed(d, "mem", now[x], x)
  <2>1. EachOnce(tq) /\ \A x \in Requests : Placed(c, "mem", st[x], x)
    BY <1>4 DEF AllPlaced
  <2>2. ~InTransactions(c, "mem", r) /\ ~InCommands(c, r) /\ r \notin c.issued /\ r \notin c.serving
    BY <2>1 DEF Placed
  <2>3. /\ Len(tq) \in Nat /\ Len(long) = Len(tq) + 1 /\ long[Len(tq) + 1] = r
        /\ \A n \in 1 .. Len(tq) : long[n] = tq[n]
    BY SMTT(30), <1>0
  <2> HIDE DEF long
  <2>4. \A n \in 1 .. Len(tq) : tq[n] # r
    BY <2>2 DEF InTransactions
  <2>a. \A n \in 1 .. Len(long) : n \in 1 .. Len(tq) \/ n = Len(tq) + 1
    BY ONLY SMTT(30), <2>3
  <2>5. EachOnce(long)
    BY <2>1, <2>3, <2>4, <2>a DEF EachOnce
  <2>6. \A x : (\E i \in 1 .. Len(long) : long[i] = x)
               <=> x = r \/ \E i \in 1 .. Len(tq) : tq[i] = x
    BY SMTT(30), <2>3
  <2>7. \A x : InTransactions(d, "mem", x) <=> x = r \/ InTransactions(c, "mem", x)
    BY <1>2, <2>6 DEF InTransactions
  <2>8. \A x : InCommands(d, x) <=> InCommands(c, x)
    BY <1>2 DEF SameBelow, InCommands
  <2>9. ASSUME NEW x \in Requests PROVE Placed(d, "mem", now[x], x)
    <3>1. CASE x = r
      <4>1. now[x] = "accepted" /\ InTransactions(d, "mem", x) /\ ~InCommands(d, x)
            /\ x \notin d.issued /\ x \notin d.serving
        BY <1>2, <2>2, <2>7, <2>8, <3>1
      <4> QED BY <4>1 DEF Placed
    <3>2. CASE x # r
      <4>1. now[x] = st[x] /\ Placed(c, "mem", st[x], x)
        BY <2>1, <3>2
      <4> QED BY <1>2, <2>7, <2>8, <3>2, <4>1 DEF Placed
    <3> QED BY <3>1, <3>2
  <2> QED BY <1>2, <2>5, <2>9
<1> HIDE DEF now
<1>5. AllPlaced(d, "mem", now)
  BY <1>4 DEF AllPlaced
<1> QED BY <1>3, <1>5 DEF d, now

\* A request is answered.
ResponseUpdate(c, reqs, writing) == [c EXCEPT !.serving = reqs, !.writing = writing]

\* What the answer to a request changes.
LEMMA ResponseFields ==
    ASSUME NEW c \in Channel, NEW reqs \in SUBSET Requests, NEW writing \in [Banks -> AnyRequest]
    PROVE  /\ ResponseUpdate(c, reqs, writing) \in Channel
           /\ SameBelow(c, ResponseUpdate(c, reqs, writing))
           /\ ResponseUpdate(c, reqs, writing).transactionQueues = c.transactionQueues
           /\ ResponseUpdate(c, reqs, writing).issued = c.issued
           /\ ResponseUpdate(c, reqs, writing).serving = reqs
<1>1. ResponseUpdate(c, reqs, writing) \in Channel
  BY ZenonT(60) DEF Channel, ResponseUpdate
<1>2. SameBelow(c, ResponseUpdate(c, reqs, writing))
  BY DEF Channel, ResponseUpdate, SameBelow, SameFlags, SameBanks
<1>3. /\ ResponseUpdate(c, reqs, writing).transactionQueues = c.transactionQueues
      /\ ResponseUpdate(c, reqs, writing).issued = c.issued
      /\ ResponseUpdate(c, reqs, writing).serving = reqs
  BY DEF Channel, ResponseUpdate
<1> QED BY <1>1, <1>2, <1>3

\* The answer to a request keeps the channel good; the request is done.
LEMMA ResponseGood ==
    ASSUME p \in Parameters, NEW c, Good(c), NEW st \in [Requests -> {"new", "accepted", "done"}],
           AllPlaced(c, "mem", st), NEW r \in Requests, r \in c.serving
    PROVE  /\ Good(Response(c, r))
           /\ AllPlaced(Response(c, r), "mem", [st EXCEPT ![r] = "done"])
<1> DEFINE reqs == c.serving \ {r}
           writing == [b \in Banks |-> IF c.writing[b] = r THEN NoRequest ELSE c.writing[b]]
           d == Response(c, r)
           now == [st EXCEPT ![r] = "done"]
<1>0. c \in Channel /\ reqs \in SUBSET Requests /\ writing \in [Banks -> AnyRequest]
  BY DEF Good, Channel, AnyRequest
<1>1. d = ResponseUpdate(c, reqs, writing)
  BY DEF Response, ResponseUpdate
<1> HIDE DEF d, writing, reqs
<1>2. /\ d \in Channel /\ SameBelow(c, d) /\ d.transactionQueues = c.transactionQueues
      /\ d.issued = c.issued /\ d.serving = reqs
  <2>1. /\ ResponseUpdate(c, reqs, writing) \in Channel
        /\ SameBelow(c, ResponseUpdate(c, reqs, writing))
        /\ ResponseUpdate(c, reqs, writing).transactionQueues = c.transactionQueues
        /\ ResponseUpdate(c, reqs, writing).issued = c.issued
        /\ ResponseUpdate(c, reqs, writing).serving = reqs
    BY <1>0, ResponseFields
  <2> QED BY <1>1, <2>1
<1>3. Good(d)
  BY <1>2, GoodBelow
<1>4. ASSUME ~p.WritePausing
      PROVE  /\ EachOnce(d.transactionQueues["mem"])
             /\ \A x \in Requests : Placed(d, "mem", now[x], x)
  <2>1. EachOnce(c.transactionQueues["mem"]) /\ \A x \in Requests : Placed(c, "mem", st[x], x)
    BY <1>4 DEF AllPlaced
  <2>2. \A x : /\ InTransactions(d, "mem", x) <=> InTransactions(c, "mem", x)
               /\ InCommands(d, x) <=> InCommands(c, x)
    BY <1>2 DEF InTransactions, InCommands, SameBelow
  <2>3. ASSUME NEW x \in Requests PROVE Placed(d, "mem", now[x], x)
    <3>1. CASE x = r
      <4>1. now[x] = "done" /\ x \notin d.serving
        BY <1>2, <3>1 DEF reqs
      <4>2. ~InTransactions(d, "mem", x) /\ ~InCommands(d, x)
        BY <2>1, <2>2, <3>1 DEF Placed
      <4>3. now[x] # "new" /\ now[x] # "accepted"
        BY <4>1
      <4> QED BY <4>1, <4>2, <4>3 DEF Placed
    <3>2. CASE x # r
      <4>1. now[x] = st[x] /\ Placed(c, "mem", st[x], x) /\ (x \in d.serving <=> x \in c.serving)
        BY <1>2, <2>1, <3>2 DEF reqs
      <4> QED BY <1>2, <2>2, <4>1 DEF Placed
    <3> QED BY <3>1, <3>2
  <2> QED BY <1>2, <2>1, <2>3
<1> HIDE DEF now
<1>5. AllPlaced(d, "mem", now)
  BY <1>4 DEF AllPlaced
<1> QED BY <1>3, <1>5 DEF d, now

\* A precharge or a refresh ends.
LEMMA SettledGood ==
    ASSUME p \in Parameters, NEW c, Good(c), NEW st, AllPlaced(c, "mem", st), NEW b \in Banks,
           c.bank[b] \in {"precharging", "refreshing"}
    PROVE  Good(Settled(c, b)) /\ AllPlaced(Settled(c, b), "mem", st)
<1> DEFINE d == Settled(c, b)
<1>0. c \in Channel
  BY DEF Good
<1>1. d \in Channel
  BY ZenonT(60), <1>0 DEF Channel, Settled
<1>2. /\ d.commandQueues = c.commandQueues /\ d.effectiveRow = c.effectiveRow
      /\ SameFlags(c, d) /\ d.failure = c.failure
      /\ d.bank = [c.bank EXCEPT ![b] = "closed"] /\ d.openRow = c.openRow
  BY <1>0 DEF Channel, Settled, SameFlags
<1>3. SameRequests(c, d)
  BY <1>0 DEF Channel, Settled, SameRequests
<1>4. c.bank \in [Banks -> BankStates]
  BY <1>0 DEF Channel, BankStates
<1> HIDE DEF d
<1>5. ASSUME NEW e \in Banks PROVE BankGood(d, e)
  <2>1. BankGood(c, e)
    BY DEF Good
  <2>2. BankRow(d, e) = BankRow(c, e)
    BY <1>2, <1>4 DEF BankRow
  <2> QED BY <1>2, <2>1, <2>2 DEF BankGood, RefreshFits, NeedRefresh, Active, SameFlags
<1>6. Good(d)
  BY <1>1, <1>2, <1>5 DEF Good
<1>7. AllPlaced(d, "mem", st)
  BY <1>2, <1>3, PlacedSame
<1> QED BY <1>6, <1>7 DEF d

\* A refresh pulse of a group that needs no refresh and waits for none.
PulseUpdate(c, counters, need) ==
    [c EXCEPT !.delayedRefreshCounter = counters, !.bankNeedRefresh = need]

\* What a refresh pulse changes.
LEMMA PulseFields ==
    ASSUME NEW c \in Channel, NEW counters \in [Banks -> Nat], NEW need \in [Banks -> BOOLEAN]
    PROVE  /\ PulseUpdate(c, counters, need) \in Channel
           /\ SameBanks(c, PulseUpdate(c, counters, need))
           /\ SameRequests(c, PulseUpdate(c, counters, need))
           /\ PulseUpdate(c, counters, need).commandQueues = c.commandQueues
           /\ PulseUpdate(c, counters, need).effectiveRow = c.effectiveRow
           /\ PulseUpdate(c, counters, need).refreshQueued = c.refreshQueued
           /\ PulseUpdate(c, counters, need).failure = c.failure
           /\ PulseUpdate(c, counters, need).delayedRefreshCounter = counters
           /\ PulseUpdate(c, counters, need).bankNeedRefresh = need
<1>1. PulseUpdate(c, counters, need) \in Channel
  BY ZenonT(60) DEF Channel, PulseUpdate
<1>2. /\ SameBanks(c, PulseUpdate(c, counters, need))
      /\ SameRequests(c, PulseUpdate(c, counters, need))
  BY DEF Channel, PulseUpdate, SameBanks, SameRequests
<1>3. /\ PulseUpdate(c, counters, need).commandQueues = c.commandQueues
      /\ PulseUpdate(c, counters, need).effectiveRow = c.effectiveRow
      /\ PulseUpdate(c, counters, need).refreshQueued = c.refreshQueued
      /\ PulseUpdate(c, counters, need).failure = c.failure
  BY DEF Channel, PulseUpdate
<1>4. /\ PulseUpdate(c, counters, need).delayedRefreshCounter = counters
      /\ PulseUpdate(c, counters, need).bankNeedRefresh = need
  BY DEF Channel, PulseUpdate
<1> QED BY <1>1, <1>2, <1>3, <1>4

\* A refresh pulse of a group with no refresh pending keeps the channel good:
\* the counter goes up together with the flag.
LEMMA PulseGood ==
    ASSUME p \in Parameters, p.UseRefresh, NEW c, Good(c), NEW st, AllPlaced(c, "mem", st),
           NEW b \in Banks, BankHead(b) = b, ~c.bankNeedRefresh[b], ~c.refreshQueued[b]
    PROVE  Good(ProcessRefreshPulse(c, b)) /\ AllPlaced(ProcessRefreshPulse(c, b), "mem", st)
<1> DEFINE d == ProcessRefreshPulse(c, b)
           T == DelayedRefreshThreshold
           counters == [c.delayedRefreshCounter EXCEPT ![b] = c.delayedRefreshCounter[b] + 1]
           o == [c EXCEPT !.delayedRefreshCounter = counters]
           full == NeedRefresh(o, b)
           need == [e \in Banks |-> c.bankNeedRefresh[e] \/ (e \in Group(b) /\ full)]
<1>0. c \in Channel /\ BankGood(c, b) /\ T \in Nat /\ c.delayedRefreshCounter \in [Banks -> Nat]
  BY ControllerAssumption DEF Good, Channel
<1>1. counters \in [Banks -> Nat] /\ need \in [Banks -> BOOLEAN]
  BY SMTT(30), <1>0 DEF Channel, NeedRefresh
<1>2. c.delayedRefreshCounter[b] < T /\ counters[b] <= T
  BY SMTT(30), <1>0 DEF BankGood, RefreshFits, NeedRefresh
<1>3. \A e \in Banks : e # b => counters[e] = c.delayedRefreshCounter[e]
  BY <1>0
<1>4. counters[b] = c.delayedRefreshCounter[b] + 1
  BY <1>0
<1>5. o.bankNeedRefresh = c.bankNeedRefresh /\ o.delayedRefreshCounter = counters
  <2> HIDE DEF counters
  <2> QED BY <1>0 DEF Channel
<1>6. d = [o EXCEPT !.bankNeedRefresh =
              [e \in Banks |-> o.bankNeedRefresh[e] \/ (e \in Group(b) /\ NeedRefresh(o, b))]]
  BY DEF ProcessRefreshPulse
<1>7. d = [o EXCEPT !.bankNeedRefresh = need]
  <2> HIDE DEF o, counters, d
  <2> QED BY <1>5, <1>6
<1>8. full <=> counters[b] >= T
  <2> HIDE DEF o, counters
  <2> QED BY <1>5 DEF NeedRefresh
<1>n. \A e \in Banks : need[e] <=> c.bankNeedRefresh[e] \/ (e \in Group(b) /\ counters[b] >= T)
  <2> HIDE DEF full, counters
  <2> QED BY <1>8
<1> HIDE DEF counters, need, full
<1>9. d = PulseUpdate(c, counters, need)
  <2>1. [o EXCEPT !.bankNeedRefresh = need] = PulseUpdate(c, counters, need)
    BY DEF PulseUpdate
  <2> HIDE DEF o, d
  <2> QED BY <1>7, <2>1
<1> HIDE DEF o, d
<1>10. /\ d \in Channel /\ SameBanks(c, d) /\ SameRequests(c, d)
       /\ d.commandQueues = c.commandQueues /\ d.effectiveRow = c.effectiveRow
       /\ d.refreshQueued = c.refreshQueued /\ d.failure = c.failure
       /\ d.delayedRefreshCounter = counters /\ d.bankNeedRefresh = need
  <2> DEFINE u == PulseUpdate(c, counters, need)
  <2>1. /\ u \in Channel /\ SameBanks(c, u) /\ SameRequests(c, u)
        /\ u.commandQueues = c.commandQueues /\ u.effectiveRow = c.effectiveRow
        /\ u.refreshQueued = c.refreshQueued /\ u.failure = c.failure
        /\ u.delayedRefreshCounter = counters /\ u.bankNeedRefresh = need
    BY SMTT(30), <1>0, <1>1, PulseFields
  <2> HIDE DEF u
  <2> QED BY <1>9, <2>1 DEF u
<1>11. ASSUME NEW e \in Banks PROVE BankGood(d, e)
  <2>1. BankGood(c, e)
    BY DEF Good
  <2>2. BankRow(d, e) = BankRow(c, e) /\ (Active(d, e) <=> Active(c, e))
    BY <1>10 DEF BankRow, SameBanks, Active
  <2>3. RefreshFits(c, e) /\ RefreshFits(c, b)
    BY <1>0, <2>1 DEF BankGood
  <2>4. BankHead(e) \in Banks
    BY HeadOfGroup
  <2>5. d.delayedRefreshCounter[e] <= T
    BY <1>2, <1>3, <1>10, <2>3 DEF RefreshFits
  <2>6. (d.bankNeedRefresh[e] <=> NeedRefresh(d, e)) /\ (d.refreshQueued[e] => ~NeedRefresh(d, e))
    <3>1. CASE e \in Group(b)
      <4>1. BankHead(e) = b
        BY <3>1 DEF Group
      <4>2. NeedRefresh(d, e) <=> counters[b] >= T
        BY <1>10, <4>1 DEF NeedRefresh
      <4>3. ~NeedRefresh(c, e)
        BY SMTT(30), <1>0, <1>2, <4>1 DEF NeedRefresh
      <4>4. ~c.bankNeedRefresh[e] /\ ~c.refreshQueued[e]
        BY <2>3, <4>1, <4>3 DEF RefreshFits
      <4> QED BY <1>10, <1>n, <3>1, <4>2, <4>4
    <3>2. CASE e \notin Group(b)
      <4>1. BankHead(e) # b
        BY <3>2 DEF Group
      <4>2. NeedRefresh(d, e) <=> NeedRefresh(c, e)
        BY <1>3, <1>10, <2>4, <4>1 DEF NeedRefresh
      <4> QED BY <1>10, <1>n, <2>3, <3>2, <4>2 DEF RefreshFits
    <3> QED BY <3>1, <3>2
  <2>7. RefreshFits(d, e)
    BY <1>10, <2>2, <2>3, <2>5, <2>6 DEF RefreshFits
  <2> QED BY <1>10, <2>1, <2>2, <2>7 DEF BankGood
<1>12. Good(d)
  BY <1>10, <1>11 DEF Good
<1>13. AllPlaced(d, "mem", st)
  BY <1>10, PlacedSame
<1> QED BY <1>12, <1>13 DEF d

-----------------------------------------------------------------------------
(* Scheduling: the commands IssueMemoryCommands queues for a request. *)

\* The access made for a request is legal in the row of the request and leaves
\* it open, or closes it when it precharges implicitly.
LEMMA AccessBehaves ==
    ASSUME p \in Parameters, NEW r \in Requests, NEW last \in BOOLEAN, last => p.UsePrecharge
    PROVE  /\ Access(r, last) \in Commands /\ Access(r, last).req = r
           /\ Fits(Access(r, last), BankOf[r])
           /\ Access(r, last).type \in Accesses
           /\ Legal(Access(r, last), RowOf[r])
           /\ After(Access(r, last), RowOf[r]) = IF last THEN NoRow ELSE RowOf[r]
<1> DEFINE type == IF last THEN IF IsRead[r] THEN "READ_PRECHARGE" ELSE "WRITE_PRECHARGE"
                   ELSE IF IsRead[r] THEN "READ" ELSE "WRITE"
           cmd == Command(type, RowOf[r], r)
<1>1. Access(r, last) = cmd
  BY DEF Access
<1>2. type \in Accesses /\ (type \in {"READ_PRECHARGE", "WRITE_PRECHARGE"} <=> last)
      /\ (type \in {"READ", "WRITE"} <=> ~last)
  BY DEF Accesses
<1> HIDE DEF type
<1>3. RowOf[r] \in Rows /\ r # NoRequest /\ BankOf[r] \in Banks
  BY ControllerAssumption
<1>4. cmd \in Commands
  BY <1>2, <1>3, CommandTyped DEF Types, AnyRow, AnyRequest
<1>5. cmd.type = type /\ cmd.row = RowOf[r] /\ cmd.req = r
  BY DEF Command
<1> HIDE DEF cmd
<1>6. Fits(cmd, BankOf[r])
  BY <1>2, <1>3, <1>5 DEF Fits, Accesses
<1>7. Legal(cmd, RowOf[r])
  BY <1>2, <1>5 DEF Legal, Accesses
<1>8. After(cmd, RowOf[r]) = IF last THEN NoRow ELSE RowOf[r]
  BY <1>2, <1>5 DEF After, Accesses
<1> QED BY <1>1, <1>2, <1>4, <1>5, <1>6, <1>7, <1>8

\* The ACTIVATE made for a request opens the row of the request.
LEMMA ActivateBehaves ==
    ASSUME p \in Parameters, NEW c, NEW r \in Requests
    PROVE  /\ Activate(c, r) \in Commands /\ Activate(c, r).req = NoRequest
           /\ Fits(Activate(c, r), BankOf[r])
           /\ Activate(c, r).type = "ACTIVATE"
           /\ \A row : (p.UsePrecharge => row = NoRow) => Legal(Activate(c, r), row)
           /\ \A row : After(Activate(c, r), row) = RowOf[r]
<1> DEFINE cmd == Activate(c, r)
<1>1. RowOf[r] \in Rows
  BY ControllerAssumption
<1>2. cmd = [type |-> "ACTIVATE", row |-> RowOf[r], req |-> NoRequest,
             priority |-> c.writing[BankOf[r]] # NoRequest]
  BY SMTT(30) DEF Activate, Command
<1>3. cmd \in Commands /\ cmd.type = "ACTIVATE" /\ cmd.row = RowOf[r] /\ cmd.req = NoRequest
  BY SMTT(30), <1>1, <1>2 DEF Commands, Types, AnyRow, AnyRequest
<1> HIDE DEF cmd
<1>4. Fits(cmd, BankOf[r])
  BY <1>3 DEF Fits, Accesses
<1>5. ASSUME NEW row, p.UsePrecharge => row = NoRow PROVE Legal(cmd, row)
  BY <1>3, <1>5 DEF Legal
<1>6. ASSUME NEW row PROVE After(cmd, row) = RowOf[r]
  BY <1>3 DEF After
<1> QED BY <1>3, <1>4, <1>5, <1>6 DEF cmd

\* A row hit: the access alone.
LEMMA OneCommand ==
    ASSUME NEW q \in Seq(Commands), Len(q) = 1, NEW b, NEW a \in AnyRow,
           Fits(q[1], b), Legal(q[1], a), q[1].type # "REFRESH"
    PROVE  /\ QueueFits(q, b) /\ ~Waiting(q)
           /\ Leads(q, a, After(q[1], a))
<1>1. q[1] \in Commands /\ After(q[1], a) \in AnyRow
  BY SMTT(30), AfterTyped
<1> DEFINE row == [n \in 0 .. Len(q) |-> IF n = 0 THEN a ELSE After(q[1], a)]
<1>2. row \in [0 .. Len(q) -> AnyRow] /\ row[0] = a /\ row[Len(q)] = After(q[1], a)
  BY SMTT(30), <1>1
<1>3. ASSUME NEW n \in 1 .. Len(q)
      PROVE  row[n] = After(q[n], row[n - 1]) /\ Legal(q[n], row[n - 1])
  <2>1. n = 1 /\ n - 1 = 0 /\ row[1] = After(q[1], a) /\ row[0] = a
    BY SMTT(30)
  <2> QED BY <2>1
<1> HIDE DEF row
<1>4. Leads(q, a, After(q[1], a))
  BY <1>2, <1>3 DEF Leads
<1>5. QueueFits(q, b) /\ ~Waiting(q)
  BY SMTT(30) DEF QueueFits, Waiting
<1> QED BY <1>4, <1>5

\* A closed bank: ACTIVATE and the access.
LEMMA TwoCommands ==
    ASSUME NEW q \in Seq(Commands), Len(q) = 2, NEW b, NEW a \in AnyRow,
           Fits(q[1], b), Fits(q[2], b), Legal(q[1], a), Legal(q[2], After(q[1], a)),
           q[1].req = NoRequest, q[1].type # "REFRESH", q[2].type # "REFRESH"
    PROVE  /\ QueueFits(q, b) /\ ~Waiting(q)
           /\ Leads(q, a, After(q[2], After(q[1], a)))
<1> DEFINE a1 == After(q[1], a)
           a2 == After(q[2], a1)
<1>1. q[1] \in Commands /\ q[2] \in Commands
  <2>1. 1 \in 1 .. Len(q) /\ 2 \in 1 .. Len(q)
    BY SMTT(30)
  <2> QED BY <2>1, CommandOfQueue
<1>2. a1 \in AnyRow /\ a2 \in AnyRow
  BY <1>1, AfterTyped
<1>a. a1 = After(q[1], a) /\ a2 = After(q[2], a1) /\ Legal(q[2], a1)
  OBVIOUS
<1> HIDE DEF a1, a2
<1> DEFINE row == [n \in 0 .. Len(q) |-> IF n = 0 THEN a ELSE IF n = 1 THEN a1 ELSE a2]
<1>3. row \in [0 .. Len(q) -> AnyRow] /\ row[0] = a /\ row[Len(q)] = a2
  BY SMTT(30), <1>2
<1>4. ASSUME NEW n \in 1 .. Len(q)
      PROVE  row[n] = After(q[n], row[n - 1]) /\ Legal(q[n], row[n - 1])
  <2>1. \/ n = 1 /\ n - 1 = 0 /\ row[n] = a1 /\ row[n - 1] = a
        \/ n = 2 /\ n - 1 = 1 /\ row[n] = a2 /\ row[n - 1] = a1
    BY SMTT(30)
  <2> QED BY <2>1, <1>a
<1> HIDE DEF row
<1>5. Leads(q, a, a2)
  BY <1>3, <1>4 DEF Leads
<1>6. QueueFits(q, b) /\ ~Waiting(q)
  BY SMTT(30) DEF QueueFits, Waiting
<1> QED BY <1>5, <1>6, <1>a

\* A row miss: PRECHARGE, ACTIVATE and the access.
LEMMA ThreeCommands ==
    ASSUME NEW q \in Seq(Commands), Len(q) = 3, NEW b, NEW a \in AnyRow, p.UsePrecharge,
           Fits(q[1], b), Fits(q[2], b), Fits(q[3], b), Legal(q[1], a),
           Legal(q[2], After(q[1], a)), Legal(q[3], After(q[2], After(q[1], a))),
           q[1].req = NoRequest, q[2].req = NoRequest,
           q[1].type # "REFRESH", q[2].type # "REFRESH", q[3].type # "REFRESH"
    PROVE  /\ QueueFits(q, b) /\ ~Waiting(q)
           /\ Leads(q, a, After(q[3], After(q[2], After(q[1], a))))
<1> DEFINE a1 == After(q[1], a)
           a2 == After(q[2], a1)
           a3 == After(q[3], a2)
<1>1. q[1] \in Commands /\ q[2] \in Commands /\ q[3] \in Commands
  <2>1. 1 \in 1 .. Len(q) /\ 2 \in 1 .. Len(q) /\ 3 \in 1 .. Len(q)
    BY SMTT(30)
  <2> QED BY <2>1, CommandOfQueue
<1>2. a1 \in AnyRow /\ a2 \in AnyRow /\ a3 \in AnyRow
  BY <1>1, AfterTyped
<1>a. a1 = After(q[1], a) /\ a2 = After(q[2], a1) /\ a3 = After(q[3], a2)
      /\ Legal(q[2], a1) /\ Legal(q[3], a2)
  OBVIOUS
<1> HIDE DEF a1, a2, a3
<1> DEFINE row == [n \in 0 .. Len(q) |-> IF n = 0 THEN a ELSE IF n = 1 THEN a1
                                         ELSE IF n = 2 THEN a2 ELSE a3]
<1>3. row \in [0 .. Len(q) -> AnyRow] /\ row[0] = a /\ row[Len(q)] = a3
  BY SMTT(30), <1>2
<1>4. ASSUME NEW n \in 1 .. Len(q)
      PROVE  row[n] = After(q[n], row[n - 1]) /\ Legal(q[n], row[n - 1])
  <2>1. CASE n = 1
    <3>1. n - 1 = 0 /\ row[n] = a1 /\ row[n - 1] = a
      BY SMTT(30), <2>1
    <3> QED BY <2>1, <3>1, <1>a
  <2>2. CASE n = 2
    <3>1. n - 1 = 1 /\ row[n] = a2 /\ row[n - 1] = a1
      BY SMTT(30), <2>2
    <3> QED BY <2>2, <3>1, <1>a
  <2>3. CASE n = 3
    <3>1. n - 1 = 2 /\ row[n] = a3 /\ row[n - 1] = a2
      BY SMTT(30), <2>3
    <3> QED BY <2>3, <3>1, <1>a
  <2> QED BY SMTT(30), <2>1, <2>2, <2>3
<1> HIDE DEF row
<1>5. Leads(q, a, a3)
  BY <1>3, <1>4 DEF Leads
<1>6. QueueFits(q, b) /\ ~Waiting(q)
  BY SMTT(30) DEF QueueFits, Waiting
<1> QED BY <1>5, <1>6, <1>a

\* d is c with another queue and row for bank b.
SetQueue(c, d, b, queue, row) ==
    /\ d \in Channel
    /\ d.commandQueues = [c.commandQueues EXCEPT ![b] = queue]
    /\ d.effectiveRow = [c.effectiveRow EXCEPT ![b] = row]
    /\ SameFlags(c, d) /\ SameBanks(c, d) /\ SameRequests(c, d)

\* The updates of IssueMemoryCommands: for a row hit and for the others.
HitUpdate(c, b, queue, row, count, result) ==
    [c EXCEPT !.commandQueues[b] = queue, !.effectiveRow[b] = row,
              !.starvationCounter[b] = count, !.failure = result]

MissUpdate(c, b, queue, row, count) ==
    [c EXCEPT !.commandQueues[b] = queue, !.effectiveRow[b] = row,
              !.starvationCounter[b] = count]

\* A row hit sets the queue, the believed row and the starvation counter of
\* its bank, and the outcome of the assertion.
LEMMA SetQueueWhole ==
    ASSUME NEW c \in Channel, NEW b \in Banks, NEW queue \in Seq(Commands), NEW row \in AnyRow,
           NEW count \in Nat, NEW result \in {"none", "assert"}
    PROVE  /\ SetQueue(c, HitUpdate(c, b, queue, row, count, result), b, queue, row)
           /\ HitUpdate(c, b, queue, row, count, result).failure = result
<1> DEFINE d == HitUpdate(c, b, queue, row, count, result)
<1>1. d \in Channel
  BY ZenonT(60) DEF Channel, HitUpdate
<1>2. SetQueue(c, d, b, queue, row) /\ d.failure = result
  BY <1>1 DEF HitUpdate, Channel, SetQueue, SameFlags, SameBanks, SameRequests
<1> QED BY <1>2

\* A row miss sets the queue, the believed row and the starvation counter of
\* its bank.
LEMMA SetQueueOnly ==
    ASSUME NEW c \in Channel, NEW b \in Banks, NEW queue \in Seq(Commands), NEW row \in AnyRow,
           NEW count \in Nat
    PROVE  /\ SetQueue(c, MissUpdate(c, b, queue, row, count), b, queue, row)
           /\ MissUpdate(c, b, queue, row, count).failure = c.failure
<1> DEFINE d == MissUpdate(c, b, queue, row, count)
<1>1. d \in Channel
  BY ZenonT(60) DEF Channel, MissUpdate
<1>2. SetQueue(c, d, b, queue, row) /\ d.failure = c.failure
  BY <1>1 DEF MissUpdate, Channel, SetQueue, SameFlags, SameBanks, SameRequests
<1> QED BY <1>2

\* What a bank gets queued for request r where row a is open.
Serves(queue, r, a, z) ==
    /\ queue \in Seq(Commands) /\ z \in AnyRow
    /\ QueueFits(queue, BankOf[r]) /\ ~Waiting(queue)
    /\ Leads(queue, a, z)
    /\ p.UsePrecharge /\ p.ClosePage = 2 => z = NoRow
    /\ \E n \in 1 .. Len(queue) : queue[n].req = r
    /\ \A n \in 1 .. Len(queue) : queue[n].req \in {r, NoRequest}

\* The commands of a row hit serve the request.
LEMMA HitServes ==
    ASSUME p \in Parameters, NEW r \in Requests, NEW last \in BOOLEAN, last => p.UsePrecharge,
           p.UsePrecharge /\ p.ClosePage = 2 => last
    PROVE  Serves(<<Access(r, last)>>, r, RowOf[r], IF last THEN NoRow ELSE RowOf[r])
<1> DEFINE q == <<Access(r, last)>>
<1>0. RowOf[r] \in AnyRow /\ NoRow \in AnyRow
  BY ControllerAssumption DEF AnyRow
<1>1. q \in Seq(Commands) /\ Len(q) = 1 /\ q[1] = Access(r, last)
  BY SMTT(30), AccessBehaves
<1> HIDE DEF q
<1>2. q[1].type # "REFRESH" /\ q[1].req = r /\ Legal(q[1], RowOf[r]) /\ Fits(q[1], BankOf[r])
  BY SMTT(30), <1>1, AccessBehaves DEF Accesses
<1>3. QueueFits(q, BankOf[r]) /\ ~Waiting(q) /\ Leads(q, RowOf[r], After(q[1], RowOf[r]))
  BY <1>0, <1>1, <1>2, OneCommand
<1>4. After(q[1], RowOf[r]) = IF last THEN NoRow ELSE RowOf[r]
  BY SMTT(30), <1>1, AccessBehaves
<1>5. /\ \E n \in 1 .. Len(q) : q[n].req = r
      /\ \A n \in 1 .. Len(q) : q[n].req \in {r, NoRequest}
  BY SMTT(30), <1>1, <1>2
<1>6. Serves(q, r, RowOf[r], IF last THEN NoRow ELSE RowOf[r])
  BY <1>0, <1>1, <1>3, <1>4, <1>5 DEF Serves
<1> QED BY <1>6 DEF q

\* The commands for a closed bank serve the request.
LEMMA ClosedServes ==
    ASSUME p \in Parameters, NEW c, NEW r \in Requests, NEW last \in BOOLEAN,
           last => p.UsePrecharge, p.UsePrecharge /\ p.ClosePage = 2 => last,
           NEW a \in AnyRow, p.UsePrecharge => a = NoRow
    PROVE  Serves(<<Activate(c, r), Access(r, last)>>, r, a, IF last THEN NoRow ELSE RowOf[r])
<1> DEFINE q == <<Activate(c, r), Access(r, last)>>
<1>0. RowOf[r] \in AnyRow /\ NoRow \in AnyRow
  BY ControllerAssumption DEF AnyRow
<1>1. q \in Seq(Commands) /\ Len(q) = 2 /\ q[1] = Activate(c, r) /\ q[2] = Access(r, last)
  BY SMTT(30), AccessBehaves, ActivateBehaves
<1> HIDE DEF q
<1>2. q[2].type # "REFRESH" /\ q[2].req = r /\ Legal(q[2], RowOf[r]) /\ Fits(q[2], BankOf[r])
  BY SMTT(30), <1>1, AccessBehaves DEF Accesses
<1>3. q[1].type # "REFRESH" /\ q[1].req = NoRequest /\ Legal(q[1], a) /\ Fits(q[1], BankOf[r])
      /\ After(q[1], a) = RowOf[r]
  BY SMTT(30), <1>1, ActivateBehaves
<1>4. QueueFits(q, BankOf[r]) /\ ~Waiting(q) /\ Leads(q, a, After(q[2], After(q[1], a)))
  BY <1>1, <1>2, <1>3, TwoCommands
<1>5. After(q[2], After(q[1], a)) = IF last THEN NoRow ELSE RowOf[r]
  BY SMTT(30), <1>1, <1>3, AccessBehaves
<1>6. /\ \E n \in 1 .. Len(q) : q[n].req = r
      /\ \A n \in 1 .. Len(q) : q[n].req \in {r, NoRequest}
  BY SMTT(30), <1>1, <1>2, <1>3
<1>7. Serves(q, r, a, IF last THEN NoRow ELSE RowOf[r])
  BY <1>0, <1>1, <1>4, <1>5, <1>6 DEF Serves
<1> QED BY <1>7 DEF q

\* The commands of a row miss serve the request, from whatever row is open.
LEMMA MissServes ==
    ASSUME p \in Parameters, NEW c, NEW r \in Requests, p.UsePrecharge, p.ClosePage # 2,
           NEW a \in AnyRow, NEW last \in BOOLEAN, ~last
    PROVE  Serves(<<Command("PRECHARGE", a, NoRequest)>> \o <<Activate(c, r), Access(r, last)>>,
                  r, a, RowOf[r])
<1> DEFINE pre == Command("PRECHARGE", a, NoRequest)
           q == <<pre>> \o <<Activate(c, r), Access(r, last)>>
<1>0. RowOf[r] \in AnyRow /\ NoRow \in AnyRow /\ BankOf[r] \in Banks
  BY ControllerAssumption DEF AnyRow
<1>1. /\ pre \in Commands /\ pre.req = NoRequest /\ pre.type = "PRECHARGE"
      /\ Fits(pre, BankOf[r]) /\ Legal(pre, a) /\ After(pre, a) = NoRow
  BY <1>0, PrechargeBehaves
<1> DEFINE act == Activate(c, r)
           acc == Access(r, last)
<1>2. Activate(c, r) \in Commands /\ Access(r, last) \in Commands
  BY AccessBehaves, ActivateBehaves
<1>3. /\ q \in Seq(Commands) /\ Len(q) = 3
      /\ q[1] = pre /\ q[2] = Activate(c, r) /\ q[3] = Access(r, last)
  <2> HIDE DEF pre, act, acc
  <2>1. act \in Commands /\ acc \in Commands
    BY <1>2 DEF act, acc
  <2> DEFINE t == <<pre>> \o <<act, acc>>
  <2>2. t \in Seq(Commands) /\ Len(t) = 3 /\ t[1] = pre /\ t[2] = act /\ t[3] = acc
    BY SMTT(30), <1>1, <2>1
  <2> QED BY <2>2 DEF act, acc
<1> HIDE DEF pre
<1> HIDE DEF q
<1>4. q[3].type # "REFRESH" /\ q[3].req = r /\ Legal(q[3], RowOf[r]) /\ Fits(q[3], BankOf[r])
  <2>1. q[3] = Access(r, last)
    BY <1>3
  <2>2. /\ Access(r, last).req = r /\ Access(r, last).type \in Accesses
        /\ Legal(Access(r, last), RowOf[r]) /\ Fits(Access(r, last), BankOf[r])
    BY AccessBehaves
  <2>3. "REFRESH" \notin Accesses
    BY DEF Accesses
  <2> QED BY ONLY ZenonT(30), <2>1, <2>2, <2>3
<1>5. q[2].type # "REFRESH" /\ q[2].req = NoRequest /\ Legal(q[2], NoRow) /\ Fits(q[2], BankOf[r])
      /\ After(q[2], NoRow) = RowOf[r]
  BY SMTT(30), <1>3, ActivateBehaves
<1>6. After(q[1], a) = NoRow /\ q[1].type # "REFRESH" /\ q[1].req = NoRequest
  BY <1>1, <1>3
<1>7. QueueFits(q, BankOf[r]) /\ ~Waiting(q)
      /\ Leads(q, a, After(q[3], After(q[2], After(q[1], a))))
  BY <1>1, <1>3, <1>4, <1>5, <1>6, ThreeCommands
<1>8. After(q[3], After(q[2], After(q[1], a))) = RowOf[r]
  BY <1>3, <1>5, <1>6, AccessBehaves
<1>9. /\ \E n \in 1 .. Len(q) : q[n].req = r
      /\ \A n \in 1 .. Len(q) : q[n].req \in {r, NoRequest}
  BY SMTT(30), <1>3, <1>4, <1>5, <1>6
<1>10. Serves(q, r, a, RowOf[r])
  BY <1>0, <1>3, <1>7, <1>8, <1>9 DEF Serves
<1> QED BY <1>10 DEF q, pre

\* d is c after the commands for request r have been queued.
Queued(c, d, r) ==
    \E queue, row : /\ SetQueue(c, d, BankOf[r], queue, row)
                    /\ d.failure = c.failure
                    /\ Serves(queue, r, c.effectiveRow[BankOf[r]], row)

\* IssueMemoryCommands, at an empty queue, queues commands that serve the
\* request and start from the row the controller believes open.
LEMMA CommandsQueued ==
    ASSUME p \in Parameters, NEW c, Good(c), NEW r \in Requests, NEW lastRequest \in BOOLEAN,
           c.commandQueues[BankOf[r]] = <<>>, p.ClosePage = 2 => lastRequest
    PROVE  Queued(c, IssueMemoryCommands(c, r, lastRequest), r)
<1> DEFINE b == BankOf[r]
           last == lastRequest /\ p.UsePrecharge
           d == IssueMemoryCommands(c, r, lastRequest)
           a == c.effectiveRow[b]
           z == IF last THEN NoRow ELSE RowOf[r]
<1>1. /\ b \in Banks /\ c \in Channel /\ a \in AnyRow /\ c.failure \in {"none", "assert"} /\ 0 \in Nat
      /\ c.starvationCounter[b] \in Nat
  BY ControllerAssumption DEF Good, Channel
<1>2. /\ RowOf[r] \in Rows /\ RowOf[r] \in AnyRow /\ RowOf[r] # NoRow /\ z \in AnyRow
      /\ last \in BOOLEAN /\ (last => p.UsePrecharge)
      /\ (p.UsePrecharge /\ p.ClosePage = 2 => last)
  BY SMTT(30), ControllerAssumption, ParametersTyped DEF AnyRow
<1>3. p.UsePrecharge /\ p.ClosePage = 2 => a = NoRow
  BY <1>1 DEF Good, BankGood, Active
<1>c. ASSUME NEW x \in Seq(Commands) PROVE c.commandQueues[b] \o x = x
  BY SMTT(30)
<1>4. CASE a = NoRow
  <2> DEFINE q == <<Activate(c, r), Access(r, last)>>
  <2>1. Serves(q, r, a, z)
    BY <1>1, <1>2, <1>4, ClosedServes
  <2>2. q \in Seq(Commands)
    BY <2>1 DEF Serves
  <2>3. d = MissUpdate(c, b, c.commandQueues[b] \o q, z, 0)
    BY <1>4 DEF IssueMemoryCommands, Active, MissUpdate
  <2>4. c.commandQueues[b] \o q = q
    BY <1>c, <2>2
  <2> HIDE DEF q, z, d, b, a
  <2>5. SetQueue(c, d, b, q, z) /\ d.failure = c.failure
    <3>1. d = MissUpdate(c, b, q, z, 0)
      BY <2>3, <2>4
    <3>2. c \in Channel /\ b \in Banks /\ z \in AnyRow /\ 0 \in Nat
      BY <1>1, <1>2
    <3>3. /\ SetQueue(c, MissUpdate(c, b, q, z, 0), b, q, z)
          /\ MissUpdate(c, b, q, z, 0).failure = c.failure
      BY <2>2, <3>2, SetQueueOnly
    <3> QED BY <3>1, <3>3
  <2> QED BY <2>1, <2>5 DEF Queued, b, a, d
<1>5. CASE a # NoRow /\ a # RowOf[r] /\ p.UsePrecharge
  <2> DEFINE pre == <<Command("PRECHARGE", a, NoRequest)>>
             q == pre \o <<Activate(c, r), Access(r, FALSE)>>
  <2>0. p.ClosePage # 2 /\ FALSE \in BOOLEAN
    BY <1>3, <1>5
  <2>1. Serves(q, r, a, RowOf[r])
    BY <1>1, <1>5, <2>0, MissServes
  <2>2. q \in Seq(Commands)
    BY <2>1 DEF Serves
  <2>3. d = MissUpdate(c, b, c.commandQueues[b] \o pre \o <<Activate(c, r), Access(r, FALSE)>>,
                       RowOf[r], 0)
    BY <1>5 DEF IssueMemoryCommands, Active, Hit, MissUpdate
  <2>4. pre \in Seq(Commands)
    BY SMTT(30), <1>1, <2>0, PrechargeBehaves
  <2>5. c.commandQueues[b] \o pre \o <<Activate(c, r), Access(r, FALSE)>> = q
    BY <1>c, <2>4
  <2> HIDE DEF q, d, b, a
  <2>6. SetQueue(c, d, b, q, RowOf[r]) /\ d.failure = c.failure
    <3>1. d = MissUpdate(c, b, q, RowOf[r], 0)
      BY <2>3, <2>5
    <3>2. c \in Channel /\ b \in Banks /\ RowOf[r] \in AnyRow /\ 0 \in Nat
      BY <1>1, <1>2
    <3>3. /\ SetQueue(c, MissUpdate(c, b, q, RowOf[r], 0), b, q, RowOf[r])
          /\ MissUpdate(c, b, q, RowOf[r], 0).failure = c.failure
      BY <2>2, <3>2, SetQueueOnly
    <3> QED BY <3>1, <3>3
  <2> QED BY <2>1, <2>6 DEF Queued, b, a, d
<1>6. CASE a # NoRow /\ a # RowOf[r] /\ ~p.UsePrecharge
  <2> DEFINE q == <<Activate(c, r), Access(r, FALSE)>>
  <2>0. z = RowOf[r] /\ FALSE \in BOOLEAN /\ ~last
    BY <1>6
  <2>1. Serves(q, r, a, RowOf[r])
    <3>1. Serves(q, r, a, IF FALSE THEN NoRow ELSE RowOf[r])
      BY <1>1, <1>6, <2>0, ClosedServes
    <3> QED BY <3>1
  <2>2. q \in Seq(Commands)
    BY <2>1 DEF Serves
  <2>3. d = MissUpdate(c, b, c.commandQueues[b] \o <<>> \o q, RowOf[r], 0)
    BY <1>6 DEF IssueMemoryCommands, Active, Hit, MissUpdate
  <2>4. c.commandQueues[b] \o <<>> \o q = q
    BY SMTT(30), <1>c, <2>2
  <2> HIDE DEF q, d, b, a
  <2>5. SetQueue(c, d, b, q, RowOf[r]) /\ d.failure = c.failure
    <3>1. d = MissUpdate(c, b, q, RowOf[r], 0)
      BY <2>3, <2>4
    <3>2. c \in Channel /\ b \in Banks /\ RowOf[r] \in AnyRow /\ 0 \in Nat
      BY <1>1, <1>2
    <3>3. /\ SetQueue(c, MissUpdate(c, b, q, RowOf[r], 0), b, q, RowOf[r])
          /\ MissUpdate(c, b, q, RowOf[r], 0).failure = c.failure
      BY <2>2, <3>2, SetQueueOnly
    <3> QED BY <3>1, <3>3
  <2> QED BY <2>1, <2>5 DEF Queued, b, a, d
<1>7. CASE a # NoRow /\ a = RowOf[r]
  <2> DEFINE q == <<Access(r, last)>>
             y == IF last THEN NoRow ELSE a
             count == IF c.starvationCounter[b] < StarvationThreshold
                      THEN c.starvationCounter[b] + 1 ELSE c.starvationCounter[b]
             result == IF last /\ p.ClosePage = 2 THEN "assert" ELSE c.failure
  <2>1. Serves(q, r, RowOf[r], z)
    BY <1>2, HitServes
  <2>2. q \in Seq(Commands) /\ y = z /\ count \in Nat /\ result = c.failure
        /\ result \in {"none", "assert"}
    BY SMTT(30), <1>1, <1>2, <1>3, <1>7, <2>1 DEF Serves
  <2>3. d = HitUpdate(c, b, Append(c.commandQueues[b], Access(r, last)), y, count, result)
    BY <1>2, <1>7 DEF IssueMemoryCommands, Active, Hit, HitUpdate
  <2>4. Append(c.commandQueues[b], Access(r, last)) = q
    BY SMTT(30)
  <2> HIDE DEF q, d, b, a, z, y, count, result
  <2>5. SetQueue(c, d, b, q, z) /\ d.failure = result
    <3>1. d = HitUpdate(c, b, q, z, count, result)
      BY <2>2, <2>3, <2>4
    <3>2. c \in Channel /\ b \in Banks /\ z \in AnyRow
      BY <1>1, <1>2
    <3>3. /\ SetQueue(c, HitUpdate(c, b, q, z, count, result), b, q, z)
          /\ HitUpdate(c, b, q, z, count, result).failure = result
      BY <2>2, <3>2, SetQueueWhole
    <3> QED BY <3>1, <3>3
  <2> QED BY <1>7, <2>1, <2>2, <2>5 DEF Queued, b, a, d
<1> QED BY <1>4, <1>5, <1>6, <1>7

\* Scheduling a request keeps the channel good.
LEMMA QueuedGood ==
    ASSUME p \in Parameters, NEW c, Good(c), NEW r \in Requests, NEW d, Queued(c, d, r),
           c.commandQueues[BankOf[r]] = <<>>,
           ~c.bankNeedRefresh[BankOf[r]], ~c.refreshQueued[BankOf[r]]
    PROVE  Good(d)
<1> DEFINE e == BankOf[r]
<1>1. PICK queue, row : /\ SetQueue(c, d, e, queue, row)
                        /\ d.failure = c.failure
                        /\ Serves(queue, r, c.effectiveRow[e], row)
  BY DEF Queued
<1>2. d \in Channel /\ c \in Channel /\ d.failure = "none" /\ e \in Banks
  BY <1>1, ControllerAssumption DEF SetQueue, Good
<1> HIDE DEF e
<1>3. ASSUME NEW b \in Banks
      PROVE  /\ d.commandQueues[b] = IF b = e THEN queue ELSE c.commandQueues[b]
             /\ d.effectiveRow[b] = IF b = e THEN row ELSE c.effectiveRow[b]
  <2>1. c.commandQueues \in [Banks -> Seq(Commands)] /\ c.effectiveRow \in [Banks -> AnyRow]
    BY <1>2 DEF Channel
  <2>2. /\ d.commandQueues = [c.commandQueues EXCEPT ![e] = queue]
        /\ d.effectiveRow = [c.effectiveRow EXCEPT ![e] = row]
    BY <1>1 DEF SetQueue
  <2> QED BY <2>1, <2>2
<1>4. Serves(queue, r, c.effectiveRow[e], row) /\ ~Waiting(queue) /\ QueueFits(queue, e)
  BY <1>1 DEF Serves, e
<1>5. c.commandQueues[e] = <<>> /\ ~c.refreshQueued[e] /\ ~Waiting(c.commandQueues[e])
  BY SMTT(30) DEF e, Waiting
<1>6. ASSUME NEW b \in Banks PROVE BankGood(d, b)
  <2>1. BankGood(c, b) /\ BankGood(c, e)
    BY <1>2 DEF Good
  <2>2. /\ BankRow(d, b) = BankRow(c, b) /\ (NeedRefresh(d, b) <=> NeedRefresh(c, b))
        /\ d.refreshQueued = c.refreshQueued
    BY <1>1 DEF BankRow, NeedRefresh, SetQueue, SameBanks, SameFlags
  <2>3. QueueFits(d.commandQueues[b], b)
    BY <1>3, <1>4, <2>1 DEF BankGood
  <2>4. Leads(d.commandQueues[b], BankRow(d, b), d.effectiveRow[b])
    <3>1. CASE b # e
      BY <1>3, <2>1, <2>2, <3>1 DEF BankGood
    <3>2. CASE b = e
      <4>1. Leads(<<>>, BankRow(c, e), c.effectiveRow[e])
        BY <1>5, <2>1 DEF BankGood
      <4>2. BankRow(c, e) = c.effectiveRow[e]
        BY <4>1, LeadsEmpty
      <4> QED BY <1>3, <1>4, <2>2, <3>2, <4>2 DEF Serves
    <3> QED BY <3>1, <3>2
  <2>5. RefreshFits(d, b)
    <3>1. BankHead(b) \in Banks
      BY HeadOfGroup
    <3>2. Waiting(d.commandQueues[BankHead(b)]) <=> Waiting(c.commandQueues[BankHead(b)])
      BY <1>3, <1>4, <1>5, <3>1
    <3>3. d.refreshQueued[b] => ~Active(d, b)
      BY <1>3, <1>5, <2>1, <2>2 DEF BankGood, RefreshFits, Active
    <3> QED BY <1>1, <2>1, <2>2, <3>2, <3>3
            DEF BankGood, RefreshFits, SetQueue, SameFlags
  <2>6. p.UsePrecharge /\ p.ClosePage = 2 => ~Active(d, b)
    BY <1>3, <1>4, <2>1 DEF BankGood, Active, Serves
  <2> QED BY <2>3, <2>4, <2>5, <2>6 DEF BankGood
<1> QED BY <1>2, <1>6 DEF Good

-----------------------------------------------------------------------------
(* Scheduling: the request leaves its transaction queue. *)

\* The queue without its i-th element, as ScheduleAt forms it.
Without(queue, i) == SubSeq(queue, 1, i - 1) \o SubSeq(queue, i + 1, Len(queue))

\* The elements of a queue without its i-th.
LEMMA WithoutElements ==
    ASSUME NEW queue \in Seq(Requests), NEW i \in 1 .. Len(queue)
    PROVE  /\ Without(queue, i) \in Seq(Requests)
           /\ Len(Without(queue, i)) = Len(queue) - 1
           /\ \A j \in 1 .. Len(queue) - 1 :
                 Without(queue, i)[j] = queue[IF j < i THEN j ELSE j + 1]
<1> DEFINE x == SubSeq(queue, 1, i - 1)
           y == SubSeq(queue, i + 1, Len(queue))
<1>1. x \in Seq(Requests) /\ Len(x) = i - 1 /\ \A j \in 1 .. i - 1 : x[j] = queue[j]
  BY SMTT(30)
<1>2. y \in Seq(Requests) /\ Len(y) = Len(queue) - i
      /\ \A j \in 1 .. Len(queue) - i : y[j] = queue[i + j]
  BY SMTT(30)
<1> HIDE DEF x, y
<1>3. x \o y \in Seq(Requests) /\ Len(x \o y) = Len(queue) - 1
  BY SMTT(30), <1>1, <1>2
<1>4. ASSUME NEW j \in 1 .. Len(queue) - 1
      PROVE  (x \o y)[j] = queue[IF j < i THEN j ELSE j + 1]
  <2>1. CASE j < i
    BY SMTT(30), <1>1, <1>2, <2>1
  <2>2. CASE ~(j < i)
    <3>1. j - (i - 1) \in 1 .. Len(queue) - i /\ i + (j - (i - 1)) = j + 1
      BY SMTT(30), <2>2
    <3>2. (x \o y)[j] = y[j - (i - 1)]
      BY SMTT(30), <1>1, <1>2, <2>2
    <3> QED BY <1>2, <2>2, <3>1, <3>2
  <2> QED BY <2>1, <2>2
<1>5. Without(queue, i) = x \o y
  BY DEF Without, x, y
<1> QED BY <1>3, <1>4, <1>5

\* Only the i-th element is gone.
OnlyGone(queue, i) ==
    /\ EachOnce(Without(queue, i))
    /\ \A r : (\E j \in 1 .. Len(Without(queue, i)) : Without(queue, i)[j] = r)
              <=> r # queue[i] /\ \E j \in 1 .. Len(queue) : queue[j] = r

\* Taking an element off a queue without repetitions takes off all of it.
LEMMA WithoutOnce ==
    ASSUME NEW queue \in Seq(Requests), NEW i \in 1 .. Len(queue), EachOnce(queue)
    PROVE  OnlyGone(queue, i)
<1> DEFINE rest == Without(queue, i)
           at(j) == IF j < i THEN j ELSE j + 1
           N == Len(queue)
<1>1. /\ rest \in Seq(Requests) /\ Len(rest) = N - 1 /\ N \in Nat
      /\ \A j \in 1 .. N - 1 : rest[j] = queue[at(j)]
  BY SMTT(30), WithoutElements
<1> HIDE DEF rest
<1>2. \A j \in 1 .. N - 1 : at(j) \in 1 .. N /\ at(j) # i
  BY SMTT(30), <1>1
<1>3. \A j, k \in 1 .. N - 1 : at(j) = at(k) => j = k
  BY SMTT(30), <1>1
<1>4. \A k \in 1 .. N : k # i => \E j \in 1 .. N - 1 : at(j) = k
  <2>1. ASSUME NEW k \in 1 .. N, k # i PROVE \E j \in 1 .. N - 1 : at(j) = k
    <3>1. CASE k < i
      BY SMTT(30), <3>1, <1>1
    <3>2. CASE k > i
      <4>1. k - 1 \in 1 .. N - 1 /\ at(k - 1) = k
        BY SMTT(30), <1>1, <3>2
      <4> QED BY <4>1
    <3> QED BY SMTT(30), <2>1, <3>1, <3>2
  <2> QED BY <2>1
<1> HIDE DEF at
<1>5. EachOnce(rest)
  <2> SUFFICES ASSUME NEW j \in 1 .. N - 1, NEW k \in 1 .. N - 1, rest[j] = rest[k]
               PROVE  j = k
    BY <1>1 DEF EachOnce
  <2>1. queue[at(j)] = queue[at(k)] /\ at(j) \in 1 .. N /\ at(k) \in 1 .. N
    BY <1>1, <1>2
  <2>2. at(j) = at(k)
    BY <2>1 DEF EachOnce
  <2> QED BY <1>3, <2>2
<1>6. ASSUME NEW r, NEW j \in 1 .. Len(rest), rest[j] = r
      PROVE  r # queue[i] /\ \E k \in 1 .. N : queue[k] = r
  <2>1. at(j) \in 1 .. N /\ at(j) # i /\ queue[at(j)] = r
    BY <1>1, <1>2, <1>6
  <2> QED BY <2>1 DEF EachOnce
<1>7. ASSUME NEW r, r # queue[i], NEW k \in 1 .. N, queue[k] = r
      PROVE  \E j \in 1 .. Len(rest) : rest[j] = r
  <2>1. PICK j \in 1 .. N - 1 : at(j) = k
    BY <1>4, <1>7
  <2> QED BY <1>1, <1>7, <2>1
<1>8. ASSUME NEW r
      PROVE  (\E j \in 1 .. Len(rest) : rest[j] = r)
             <=> r # queue[i] /\ \E j \in 1 .. Len(queue) : queue[j] = r
  BY <1>6, <1>7
<1> QED BY <1>5, <1>8 DEF OnlyGone, rest

\* Under restricted close-page every request is the last one to its row.
LEMMA LastRequestTyped ==
    ASSUME p \in Parameters, NEW rest, NEW r
    PROVE  IsLastRequest(rest, r) \in BOOLEAN /\ (p.ClosePage = 2 => IsLastRequest(rest, r))
<1>1. p.ClosePage \in 0 .. 2
  BY ControllerAssumption
<1>2. CASE p.ClosePage = 0
  BY SMTT(30), <1>2 DEF IsLastRequest
<1>3. CASE p.ClosePage = 1
  BY SMTT(30), <1>3 DEF IsLastRequest
<1>4. CASE p.ClosePage = 2
  BY SMTT(30), <1>4 DEF IsLastRequest
<1> QED BY SMTT(30), <1>1, <1>2, <1>3, <1>4

\* The i-th transaction is taken off its queue.
TakeOff(c, i) ==
    [c EXCEPT !.transactionQueues["mem"] = Without(c.transactionQueues["mem"], i)]

\* Taking a request off the transaction queue leaves the rest of the channel
\* alone.
LEMMA TakeOffTyped ==
    ASSUME NEW c, Good(c), NEW i \in 1 .. Len(c.transactionQueues["mem"])
    PROVE  /\ Good(TakeOff(c, i)) /\ SameBelow(c, TakeOff(c, i))
           /\ TakeOff(c, i).transactionQueues["mem"] = Without(c.transactionQueues["mem"], i)
           /\ TakeOff(c, i).issued = c.issued /\ TakeOff(c, i).serving = c.serving
<1> DEFINE tq == c.transactionQueues["mem"]
           rest == Without(tq, i)
           d == TakeOff(c, i)
<1>1. c \in Channel /\ "mem" \in Queues
  BY FRFCFSAssumption DEF Good
<1>2. tq \in Seq(Requests)
  BY <1>1 DEF Channel
<1>3. rest \in Seq(Requests)
  BY <1>2, WithoutElements
<1> HIDE DEF rest
<1>4. d = [c EXCEPT !.transactionQueues["mem"] = rest]
  BY DEF TakeOff, rest
<1> HIDE DEF d
<1>5. d \in Channel
  BY ZenonT(60), <1>1, <1>3, <1>4 DEF Channel
<1>6. SameBelow(c, d) /\ d.transactionQueues["mem"] = rest
      /\ d.issued = c.issued /\ d.serving = c.serving
  BY <1>1, <1>4 DEF Channel, SameBelow, SameFlags, SameBanks
<1>7. Good(d)
  BY <1>5, <1>6, GoodBelow
<1> QED BY <1>6, <1>7 DEF d, rest

\* A request that is scheduled moves from the transactions to the commands.
LEMMA QueuedPlaced ==
    ASSUME p \in Parameters, NEW c, Good(c), NEW st, AllPlaced(c, "mem", st),
           NEW i \in 1 .. Len(c.transactionQueues["mem"]),
           NEW r \in Requests, r = c.transactionQueues["mem"][i],
           c.commandQueues[BankOf[r]] = <<>>,
           NEW d, Queued(TakeOff(c, i), d, r)
    PROVE  AllPlaced(d, "mem", st)
<1> SUFFICES ASSUME ~p.WritePausing
             PROVE  /\ EachOnce(d.transactionQueues["mem"])
                    /\ \A x \in Requests : Placed(d, "mem", st[x], x)
  BY DEF AllPlaced
<1> DEFINE e == BankOf[r]
           tq == c.transactionQueues["mem"]
<1>1. PICK queue, row : SetQueue(TakeOff(c, i), d, e, queue, row)
                        /\ Serves(queue, r, TakeOff(c, i).effectiveRow[e], row)
  BY DEF Queued
<1>2. EachOnce(tq) /\ \A x \in Requests : Placed(c, "mem", st[x], x)
  BY DEF AllPlaced
<1>3. e \in Banks /\ c.commandQueues \in [Banks -> Seq(Commands)] /\ tq \in Seq(Requests)
  BY ControllerAssumption, FRFCFSAssumption DEF Good, Channel
<1>4. /\ d.transactionQueues["mem"] = Without(tq, i)
      /\ d.issued = c.issued /\ d.serving = c.serving
      /\ d.commandQueues = [c.commandQueues EXCEPT ![e] = queue]
  <2> DEFINE o == TakeOff(c, i)
  <2>1. /\ SameBelow(c, o) /\ o.transactionQueues["mem"] = Without(tq, i)
        /\ o.issued = c.issued /\ o.serving = c.serving
    BY TakeOffTyped
  <2>2. SetQueue(o, d, e, queue, row)
    BY <1>1
  <2> HIDE DEF o, e, tq
  <2> QED BY <2>1, <2>2 DEF SetQueue, SameRequests, SameBelow
<1>w. OnlyGone(tq, i)
  BY <1>2, <1>3, WithoutOnce
<1>5. EachOnce(d.transactionQueues["mem"])
  BY <1>4, <1>w DEF OnlyGone
<1>6. \A x : InTransactions(d, "mem", x) <=> x # r /\ InTransactions(c, "mem", x)
  <2> DEFINE rest == Without(tq, i)
  <2>1. \A x : (\E j \in 1 .. Len(rest) : rest[j] = x)
               <=> x # tq[i] /\ \E j \in 1 .. Len(tq) : tq[j] = x
    BY <1>w DEF OnlyGone
  <2>2. d.transactionQueues["mem"] = rest /\ r = tq[i]
    BY <1>4
  <2> HIDE DEF rest
  <2> QED BY <2>1, <2>2 DEF InTransactions
<1>7. InTransactions(c, "mem", r) /\ ~InCommands(c, r)
  BY SMTT(30) DEF InTransactions, InCommands
<1>8. InCommands(d, r)
  <2>1. d.commandQueues[e] = queue
    BY <1>3, <1>4
  <2>2. \E n \in 1 .. Len(queue) : queue[n].req = r
    BY <1>1 DEF Serves
  <2> QED BY <2>1, <2>2 DEF InCommands
<1>9. ASSUME NEW x \in Requests, x # r PROVE InCommands(d, x) <=> InCommands(c, x)
  <2>0. x # NoRequest /\ BankOf[x] \in Banks
    BY ControllerAssumption
  <2>1. CASE BankOf[x] = e
    <3>0. 1 .. Len(c.commandQueues[BankOf[x]]) = {}
      BY SMTT(30), <2>1
    <3>1. ~InCommands(c, x)
      BY <3>0 DEF InCommands
    <3>2. d.commandQueues[BankOf[x]] = queue
      BY <1>3, <1>4, <2>1
    <3>3. ~InCommands(d, x)
      BY <1>1, <1>9, <2>0, <3>2 DEF InCommands, Serves
    <3> QED BY <3>1, <3>3
  <2>2. CASE BankOf[x] # e
    <3>1. d.commandQueues[BankOf[x]] = c.commandQueues[BankOf[x]]
      BY <1>3, <1>4, <2>0, <2>2
    <3> QED BY <3>1 DEF InCommands
  <2> QED BY <2>1, <2>2
<1>10. ASSUME NEW x \in Requests PROVE Placed(d, "mem", st[x], x)
  <2>1. Placed(c, "mem", st[x], x)
    BY <1>2
  <2>2. CASE x = r
    BY <1>4, <1>6, <1>7, <1>8, <2>1, <2>2 DEF Placed
  <2>3. CASE x # r
    <3>1. InCommands(d, x) <=> InCommands(c, x)
      BY <1>9, <2>3
    <3>2. InTransactions(d, "mem", x) <=> InTransactions(c, "mem", x)
      BY <1>6, <2>3
    <3> QED BY <1>4, <2>1, <3>1, <3>2 DEF Placed
  <2> QED BY <2>2, <2>3
<1> QED BY <1>5, <1>10

\* Scheduling a request whose bank is ready for it keeps the channel good and
\* every request in its place.
LEMMA ScheduleAtGood ==
    ASSUME p \in Parameters, NEW c, Good(c), NEW st, AllPlaced(c, "mem", st),
           NEW i \in 1 .. Len(c.transactionQueues["mem"]),
           Schedulable(c, c.transactionQueues["mem"][i])
    PROVE  Good(ScheduleAt(c, "mem", i)) /\ AllPlaced(ScheduleAt(c, "mem", i), "mem", st)
<1> DEFINE tq == c.transactionQueues["mem"]
           r == tq[i]
           o == TakeOff(c, i)
           lr == IsLastRequest(Without(tq, i), r)
           d == ScheduleAt(c, "mem", i)
<1>1. d = IssueMemoryCommands(o, r, lr)
  BY DEF ScheduleAt, TakeOff, Without
<1>2. r \in Requests /\ lr \in BOOLEAN /\ (p.ClosePage = 2 => lr)
  <2>1. tq \in Seq(Requests)
    BY FRFCFSAssumption DEF Good, Channel
  <2> QED BY SMTT(30), <2>1, LastRequestTyped
<1>3. Good(o) /\ SameBelow(c, o)
  BY TakeOffTyped
<1>4. /\ c.commandQueues[BankOf[r]] = <<>>
      /\ ~c.bankNeedRefresh[BankOf[r]] /\ ~c.refreshQueued[BankOf[r]]
  BY DEF Schedulable
<1>5. /\ o.commandQueues[BankOf[r]] = <<>>
      /\ ~o.bankNeedRefresh[BankOf[r]] /\ ~o.refreshQueued[BankOf[r]]
  BY <1>3, <1>4 DEF SameBelow, SameFlags
<1>e. r = c.transactionQueues["mem"][i]
  OBVIOUS
<1> HIDE DEF d, lr, r
<1>6. Queued(o, d, r)
  <2> HIDE DEF o
  <2>1. Queued(o, IssueMemoryCommands(o, r, lr), r)
    BY <1>2, <1>3, <1>5, CommandsQueued
  <2> QED BY <1>1, <2>1
<1>7. Good(d)
  <2> HIDE DEF o
  <2> QED BY <1>2, <1>3, <1>5, <1>6, QueuedGood
<1>8. AllPlaced(d, "mem", st)
  BY <1>2, <1>4, <1>6, <1>e, QueuedPlaced
<1> QED BY <1>7, <1>8 DEF d

\* First gives a member of a set of positions.
LEMMA FirstOf ==
    ASSUME LeastNumbers, NEW T \in SUBSET Nat, T # {}
    PROVE  First(T) \in T
<1>1. \E i \in T : \A j \in T : i <= j
  BY DEF LeastNumbers
<1> QED BY <1>1 DEF First

\* Cycle schedules no request or one whose bank is free.
Chosen(c, d) ==
    \/ d = c
    \/ \E i \in 1 .. Len(c.transactionQueues["mem"]) :
          Schedulable(c, c.transactionQueues["mem"][i]) /\ d = ScheduleAt(c, "mem", i)

\* The first request that a Find function finds is one that may be scheduled.
LEMMA AtChosen ==
    ASSUME LeastNumbers, NEW c \in Channel, NEW S, At(c, "mem", S) # {}
    PROVE  Chosen(c, ScheduleAt(c, "mem", First(At(c, "mem", S))))
<1> DEFINE T == At(c, "mem", S)
           i == First(T)
<1>1. T \in SUBSET Nat /\ \A k \in T : /\ k \in 1 .. Len(c.transactionQueues["mem"])
                                       /\ Schedulable(c, c.transactionQueues["mem"][k])
  <2>1. DOMAIN c.transactionQueues["mem"] = 1 .. Len(c.transactionQueues["mem"])
        /\ Len(c.transactionQueues["mem"]) \in Nat
    BY SMTT(30), FRFCFSAssumption DEF Channel
  <2> QED BY SMTT(30), <2>1 DEF At
<1> HIDE DEF T
<1>2. i \in T
  BY <1>1, FirstOf DEF T
<1> QED BY <1>1, <1>2 DEF Chosen, T

\* Whichever Find function answers in a cycle, what is scheduled may be
\* scheduled.
LEMMA ChooseChosen ==
    ASSUME LeastNumbers, NEW c \in Channel, NEW ready, NEW between
    PROVE  Chosen(c, Choose(c, ready, between))
<1> DEFINE starved == FindStarvedRequest(c, "mem")
           hits    == FindRowBufferHit(c, "mem")
           stalled == FindWriteStalledRead(c, "mem", ready)
           oldest  == FindOldestReadyRequest(c, "mem")
           closed  == FindClosedBankRequest(c, "mem")
           take(S) == ScheduleAt(c, "mem", First(S))
<1>1. /\ starved # {} => Chosen(c, take(starved))
      /\ hits # {} => Chosen(c, take(hits))
      /\ stalled # {} => Chosen(c, take(stalled))
      /\ oldest # {} => Chosen(c, take(oldest))
      /\ closed # {} => Chosen(c, take(closed))
  BY AtChosen DEF FindStarvedRequest, FindRowBufferHit, FindWriteStalledRead,
                              FindOldestReadyRequest, FindClosedBankRequest
<1>2. Chosen(c, c)
  BY DEF Chosen
<1> HIDE DEF starved, hits, stalled, oldest, closed, take
<1>3. Choose(c, ready, between) =
         CASE starved # {} -> take(starved)
           [] starved = {} /\ hits # {} -> take(hits)
           [] starved \cup hits = {} /\ stalled # {} -> IF between THEN take(stalled) ELSE c
           [] starved \cup hits \cup stalled = {} /\ oldest # {} -> take(oldest)
           [] starved \cup hits \cup stalled \cup oldest = {} /\ closed # {} -> take(closed)
           [] OTHER -> c
  BY DEF Choose, starved, hits, stalled, oldest, closed, take
<1>4. CASE starved # {}
  <2>1. Choose(c, ready, between) = take(starved)
    BY <1>3, <1>4
  <2> QED BY <1>1, <1>4, <2>1
<1>5. CASE starved = {} /\ hits # {}
  <2>1. Choose(c, ready, between) = take(hits)
    BY <1>3, <1>5
  <2> QED BY <1>1, <1>5, <2>1
<1>6. CASE starved = {} /\ hits = {} /\ stalled # {}
  <2>1. Choose(c, ready, between) = IF between THEN take(stalled) ELSE c
    BY <1>3, <1>6
  <2> QED BY <1>1, <1>2, <1>6, <2>1
<1>7. CASE starved = {} /\ hits = {} /\ stalled = {} /\ oldest # {}
  <2>1. Choose(c, ready, between) = take(oldest)
    BY <1>3, <1>7
  <2> QED BY <1>1, <1>7, <2>1
<1>8. CASE starved = {} /\ hits = {} /\ stalled = {} /\ oldest = {} /\ closed # {}
  <2>1. Choose(c, ready, between) = take(closed)
    BY <1>3, <1>8
  <2> QED BY <1>1, <1>8, <2>1
<1>9. CASE starved = {} /\ hits = {} /\ stalled = {} /\ oldest = {} /\ closed = {}
  <2>1. Choose(c, ready, between) = c
    BY <1>3, <1>9
  <2> QED BY <1>2, <2>1
<1> QED BY <1>4, <1>5, <1>6, <1>7, <1>8, <1>9

\* The scheduling half of a cycle keeps the channel good and every request in
\* its place.
LEMMA ChooseGood ==
    ASSUME LeastNumbers, p \in Parameters, NEW c, Good(c), NEW st,
           AllPlaced(c, "mem", st), NEW ready, NEW between
    PROVE  Good(Choose(c, ready, between)) /\ AllPlaced(Choose(c, ready, between), "mem", st)
<1> DEFINE d == Choose(c, ready, between)
<1>1. c \in Channel
  BY DEF Good
<1>2. Chosen(c, d)
  BY <1>1, ChooseChosen
<1> HIDE DEF d
<1>3. CASE d = c
  BY <1>3 DEF d
<1>4. CASE \E i \in 1 .. Len(c.transactionQueues["mem"]) :
              Schedulable(c, c.transactionQueues["mem"][i]) /\ d = ScheduleAt(c, "mem", i)
  <2>1. PICK i \in 1 .. Len(c.transactionQueues["mem"]) :
              Schedulable(c, c.transactionQueues["mem"][i]) /\ d = ScheduleAt(c, "mem", i)
    BY <1>4
  <2>2. Good(ScheduleAt(c, "mem", i)) /\ AllPlaced(ScheduleAt(c, "mem", i), "mem", st)
    BY <2>1, ScheduleAtGood
  <2> QED BY <2>1, <2>2 DEF d
<1> QED BY <1>2, <1>3, <1>4 DEF Chosen

-----------------------------------------------------------------------------
(* The invariant. *)

\* The parameters do not change; what is said of a channel with them does not either.
LEMMA ParametersStay ==
    ASSUME p' = p, NEW c, NEW st
    PROVE  (Good(c) => Good(c)') /\ (AllPlaced(c, "mem", st) => AllPlaced(c, "mem", st)')
<1>1. \A cmd, row : Legal(cmd, row)' <=> Legal(cmd, row)
  BY DEF Legal
<1>2. \A b : BankHead(b)' = BankHead(b)
  BY DEF BankHead
<1>3. \A cmd, b : Fits(cmd, b)' <=> Fits(cmd, b)
  BY <1>2 DEF Fits
<1>4. \A queue, b : QueueFits(queue, b)' <=> QueueFits(queue, b)
  BY <1>3 DEF QueueFits
<1>5. \A queue, a, z : Leads(queue, a, z)' <=> Leads(queue, a, z)
  BY <1>1 DEF Leads
<1>6. \A d, b : NeedRefresh(d, b)' <=> NeedRefresh(d, b)
  BY <1>2 DEF NeedRefresh
<1>7. \A d, b : RefreshFits(d, b)' <=> RefreshFits(d, b)
  BY <1>2, <1>6 DEF RefreshFits
<1>8. \A d, b : BankGood(d, b)' <=> BankGood(d, b)
  BY <1>4, <1>5, <1>7 DEF BankGood
<1>9. Good(c) => Good(c)'
  BY <1>8 DEF Good
<1>10. AllPlaced(c, "mem", st) => AllPlaced(c, "mem", st)'
  BY DEF AllPlaced
<1> QED BY <1>9, <1>10

\* A step to a good channel keeps the invariant.
LEMMA StepKeeps ==
    ASSUME p \in Parameters, p' = p, NEW c, NEW st \in Statuses, Good(c), AllPlaced(c, "mem", st),
           s' = c, status' = st
    PROVE  FRInv'
<1>1. Good(c)' /\ AllPlaced(c, "mem", st)'
  BY ParametersStay
<1> QED BY <1>1 DEF FRInv

\* Every step of the controller, the rank and the refresh pulses keeps the
\* invariant.
LEMMA NextKeeps ==
    ASSUME LeastNumbers, FRInv, [FRNext]_frVars PROVE FRInv'
<1>0. p \in Parameters /\ status \in Statuses /\ Good(s) /\ AllPlaced(s, "mem", status)
  BY DEF FRInv
<1>1. ASSUME NEW r \in Requests, IssueCommand(r) PROVE FRInv'
  <2> DEFINE now == [status EXCEPT ![r] = "accepted"]
  <2>1. p' = p /\ s' = Enqueue(s, "mem", r) /\ status' = now /\ status[r] = "new"
    BY <1>1 DEF IssueCommand
  <2>2. now \in Statuses
    BY <1>0 DEF Statuses
  <2>3. Good(Enqueue(s, "mem", r)) /\ AllPlaced(Enqueue(s, "mem", r), "mem", now)
    BY <1>0, <2>1, EnqueueGood DEF Statuses
  <2> HIDE DEF now
  <2> QED BY <1>0, <2>1, <2>2, <2>3, StepKeeps
<1>2. ASSUME NEW r \in Requests, RequestComplete(r) PROVE FRInv'
  <2> DEFINE now == [status EXCEPT ![r] = "done"]
  <2>1. p' = p /\ s' = Response(s, r) /\ status' = now /\ r \in s.serving
    BY <1>2 DEF RequestComplete
  <2>2. now \in Statuses
    BY <1>0 DEF Statuses
  <2>3. Good(Response(s, r)) /\ AllPlaced(Response(s, r), "mem", now)
    BY <1>0, <2>1, ResponseGood DEF Statuses
  <2> HIDE DEF now
  <2> QED BY <1>0, <2>1, <2>2, <2>3, StepKeeps
<1>3. ASSUME NEW ready \in SUBSET Banks, NEW timer, NEW between, NEW cancel,
             Cycle(ready, timer, between, cancel)
      PROVE  FRInv'
  <2> DEFINE c == Choose(s, ready, between)
             d == CycleCommandQueues(c, ready, timer, "mem", cancel)
  <2>1. p' = p /\ s' = d /\ status' = status
    BY <1>3 DEF Cycle
  <2>2. Good(c) /\ AllPlaced(c, "mem", status)
    BY <1>0, ChooseGood
  <2> HIDE DEF c
  <2>3. "mem" \in Queues
    BY FRFCFSAssumption
  <2>4. Good(d) /\ AllPlaced(d, "mem", status)
    BY <1>0, <2>2, <2>3, CommandQueuesGood
  <2> HIDE DEF d
  <2> QED BY <1>0, <2>1, <2>4, StepKeeps
<1>4. ASSUME NEW b \in Banks, BankSettles(b) PROVE FRInv'
  <2>1. /\ p' = p /\ s' = Settled(s, b) /\ status' = status
        /\ s.bank[b] \in {"precharging", "refreshing"}
    BY <1>4 DEF BankSettles
  <2>2. Good(Settled(s, b)) /\ AllPlaced(Settled(s, b), "mem", status)
    BY <1>0, <2>1, SettledGood
  <2> QED BY <1>0, <2>1, <2>2, StepKeeps
<1>5. ASSUME NEW b \in Banks, RefreshCallback(b) PROVE FRInv'
  <2>1. /\ p' = p /\ s' = ProcessRefreshPulse(s, b) /\ status' = status
        /\ p.UseRefresh /\ BankHead(b) = b /\ ~s.bankNeedRefresh[b] /\ ~s.refreshQueued[b]
    BY <1>5 DEF RefreshCallback
  <2>2. Good(ProcessRefreshPulse(s, b)) /\ AllPlaced(ProcessRefreshPulse(s, b), "mem", status)
    BY <1>0, <2>1, PulseGood
  <2> QED BY <1>0, <2>1, <2>2, StepKeeps
<1>6. ASSUME UNCHANGED frVars PROVE FRInv'
  <2>1. p' = p /\ s' = s /\ status' = status
    BY <1>6 DEF frVars
  <2> QED BY <1>0, <2>1, StepKeeps
<1> QED BY <1>1, <1>2, <1>3, <1>4, <1>5, <1>6 DEF FRNext

LOCAL INSTANCE WellFoundedInduction

\* The order of the natural numbers is well-founded.
LEMMA LeastNumber == LeastNumbers
<1> SUFFICES ASSUME NEW T \in SUBSET Nat, T # {}
             PROVE  \E n \in T : \A m \in T : n <= m
  BY DEF LeastNumbers
<1>1. PICK n \in T : \A m \in T : ~(<<m, n>> \in OpToRel(<, Nat))
  BY NatLessThanWellFounded, WFMin
<1>2. ASSUME NEW m \in T PROVE ~(m < n)
  BY <1>1 DEF OpToRel
<1> QED BY SMTT(30), <1>2

\* The invariant holds throughout.
THEOREM FRInvariant == FRSpec => []FRInv
<1>1. FRInv /\ [FRNext]_frVars => FRInv'
  BY LeastNumber, NextKeeps
<1> QED BY <1>1, InitGood, PTL DEF FRSpec

\* effectiveRow is the row the queued commands will leave open, and each of them
\* finds the row it was queued for.
THEOREM FRBelief == FRSpec => []BeliefMatchesBanks
<1>1. FRInv => BeliefMatchesBanks
  BY LeastNumber, BeliefFollows
<1> QED BY <1>1, FRInvariant, PTL

\* The refresh flags, the refresh counters and the queued REFRESH commands agree, and
\* the two assertions of the controller never fail.
THEOREM FRRefreshFlags == FRSpec => []RefreshFlagsMatch
<1>1. FRInv => RefreshFlagsMatch
  BY RefreshFollows
<1> QED BY <1>1, FRInvariant, PTL

\* No scheduling, refresh, precharge, power-down or cleanup loses or repeats a request.
THEOREM FROnePlace == FRSpec => []OnePlace
<1>1. FRInv => OnePlace
  BY PlaceFollows
<1> QED BY <1>1, FRInvariant, PTL
=============================================================================
