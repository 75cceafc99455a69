# Verification of the DRAM/NVM hybrid-memory simulator

TLA+ models, TLC runs and TLAPS proofs for the NVMain memory simulator as it is
extended here into a simulator of hybrid memory: page migration between a fast
(DRAM) and slow (NVM) channels, the controllers and banks below it, the object
that connects NVMain to gem5, and the memory-aware cache tags above it.

Run a check with `tlc -config X.cfg M`, a proof with `tlapm M_proofs.tla`.
`PROJECT.json` lists the runs, the theorems, the seeded faults each property
must catch, the source lines of every definition, the findings and the hazards.

## 1. The system and its parts

A memory request travels through these parts (paths below `src/nvmain/`, unless
they begin with `gem5-stable/`):

| part | source | modelled in |
|---|---|---|
| gem5 CPU, caches, ports, drain manager | `gem5-stable/` | only its side of the protocols (MemoryPort, MALRU) |
| hybrid-aware cache tags (MALRU) | `gem5-stable/src/mem/cache/tags/ma_lru.cc` | **MALRU** |
| gem5 memory object | `Simulators/gem5/nvmain_mem.cc` | **MemoryPort**, Checkpoint |
| trace-driven front end | `traceSim/traceMain.cpp` | partly, WriteDrain |
| NVMain top level: decode, route, complete | `NVM/nvmain.cpp` | partly, PageMigration |
| object tree and hooks | `src/NVMObject.cpp` | partly, PageMigration |
| ranking of pages by heat | `Utils/MultiQueueMigrator` | **RankingQueues** |
| page migration hook | `Utils/MultiQueueMigrator` | **PageMigration**, **MultiQueue** |
| migrating address decoder | `Decoders/MQMigrator` | **PageMigration**, **Checkpoint** |
| event queue | `src/EventQueue.cpp` | **EventQueue** |
| memory controllers | `src/MemoryController.cpp`, `MemControl/FRFCFS`, `MemControl/FRFCFS-WQF` | **MemoryController**, **FRFCFS**, **WriteDrain** |
| rank | `Ranks/StandardRank` | partly, MemoryController |
| banks, subarrays | `Banks/DDR3Bank`, `src/SubArray.cpp` | **Bank** |
| coin-toss migrator and its decoder | `Utils/CoinMigrator`, `Decoders/Migrator` | not modelled (same protocol) |
| address translation | `src/AddressTranslator.cpp`, `src/TranslationMethod.cpp` | not modelled |
| interconnects | `Interconnect/` | not modelled (fixed delay) |
| DRAM caches, prefetchers | `MemControl/LO-Cache` ..., `Prefetchers/` | not modelled (off here) |
| endurance, data encoders, statistics, configuration | `src/`, `DataEncoders/` | not modelled |

How they interact. A miss in the last cache becomes a packet for
`NVMainMemory::recvTimingReq`, which asks `IsIssuable` and issues a request to
NVMain or refuses the packet and owes the sender a retry. NVMain translates the
address with the migrating decoder and queues the request at the controller of
its channel. The migration hook runs before and after each issue and on each
completion: it counts the access, may pick the page for promotion together with
a victim in the fast channel, reads both pages, writes each to the place of the
other, and tells the decoder which state the pages are in. The controller
chooses a request per cycle, turns it into commands for its bank and issues them
when the timers of rank, bank and subarray allow; the subarray puts an event for
the completion into the event queue. A completed request goes back to the memory
object, which queues a response and calls a refused sender again. The cache
tells from the time a response took whether the block came from DRAM or NVM.

Everything runs in one thread. What interleaves are handlers: gem5 events, port
calls that re-enter a handler, events of NVMain that insert further events, and
completions in the order the controllers choose.

## 2. Modules

### RankingQueues: which pages are hot
`rankingQueues` (one list of entries per level), `DRAMPageList`,
`demotedDRAMList` and `currentTime` are the members of `MultiQueueMigrator`.
There is one action, `Account(p)`: the bookkeeping of `TryMigration` for a
request to page `p`, `JoinQueue` or `AccessPage` and then `CheckQueue` over all
levels. `CheckQueue` is a loop in the code and one function of the levels here;
a comment at the definition says why that is the same. `demotedDRAMList` only
grows because `RemoveFromList` takes its list by value.

### PageMigration: the swap protocol
Decoder (`migrationMap`, `migrationState`, `migrating`, `inputPage`,
`outputPage`), hook (`promotee`, `demotee`, `request` for `promoRequest` and
`demoRequest`, `buffered`, `currentPromotionPage`) and as much of the controllers
as both see: per channel a bounded queue shared by processor and migration
requests, then service in any order. A page is a frame and a channel, which is
what `GetAddressKey` encodes; frames are numbered in the order of `ChooseVictim`.

| action | code |
|---|---|
| `IssueCommand`, `IssueAndMigrate`, `IssueAndWait`, `IssueAndFail`, `IssueAndHang` | issue of a processor request with both hooks: the ways through `TryMigration` |
| `ScheduleCpu`, `ScheduleMigration` | a controller takes a request from its queue |
| `FirstReadComplete`, `SecondReadComplete`, `WriteComplete` | `RequestComplete` for a migration request |
| `CompleteAndIdle`, `CompleteAndRetry`, `CompleteAndCrash` | `RequestComplete` for any other request, with the retry of refused writes |

An assertion that a run can reach, a null dereference and an endless loop stop
the process: `failure` then names the reason and nothing else happens. Whether a
page is hot is left open (`hot \in BOOLEAN`), so what is proved here does not
depend on the ranking.

### PageSwap: what migration promises
The abstract specification: at most one slow and one fast page exchange their
channels at a time; each moves at once, in either order, at most once. In the
refinement mapping a page has moved when its state is `DONE`.

### MultiQueue: ranking and protocol together
Composes the two. `hot` becomes "found in queue `THRESHOLD_QUEUE` before this
access", and both parts share `DRAMPageList`. `served`, a history variable, holds
the pages that a request reached in memory (one that is answered from the
migration buffer reaches none, and the hook takes it for a request to page 0).

### Checkpoint: drain, checkpoint, restore
Adds the checkpoint file to PageMigration. `Drained` is what
`NVMainMemory::drain` waits for (no processor requests; migration requests may
be in flight). A restore starts a fresh process whose decoder has only the saved
map; it may also replace a process that stopped in mid-swap.

### MemoryPort: the gem5 memory object
`mem` is a record of the members of `NVMainMemory` and of the sender's state;
`queued` and `inService` together are `m_request_map`. The handlers are
operators from one state of the object to the next because `sendRetry` may call
`recvTimingReq` in the middle of `RequestComplete`. Actions: `Send`, `Idle`,
`Schedule`, `RequestComplete`, `Migrate` (slots taken by page migration),
`RespondEvent`, `recvRetry`, `drain`, `Resume` (gem5 resumes, perhaps in another
memory mode), `recvAtomic`. A write is answered at once
through a copy of its request; the copy lives only within `recvTimingReq`.

### TimedEvents, EventQueue: what happens when
`EventQueue` is the map from cycles to lists of events with its cached
`nextEventCycle`. `Loop(steps)` begins a call, `LoopIteration` jumps to the next
cycle with events or to the end, `Process` begins to walk over the list of the
cycle, `Handle` calls one event, whose handler may insert others into the map
and into the list being walked over, and `EndProcess` erases the list.
`InsertEvent` and `RemoveEvent` are the calls made by controllers between two
calls of `Loop`. Handlers insert responses and refresh
pulses for later cycles and, when `tRP` is 0, the end of an implicit precharge
for the current one, which goes behind the event being handled (`MayInsert`).
`TimedEvents` is the promise: an event is due at a cycle and runs exactly then,
once, after all due events of smaller priority, unless it is cancelled.

### MemoryController, FRFCFS, WriteDrain: a channel
`MemoryController` has the handlers of the base class over the record `s` of a
channel: transaction queues, a command queue per bank, `effectiveRow` and
`activateQueued`, starvation counters, refresh counters and the order of
refresh, power-down, and the state of the banks. `ScheduleAt` is a successful
search with everything that follows (`IssueMemoryCommands`, the bookkeeping of
the row, the removal from the queue); `CycleCommandQueues` is the whole turn of
refresh, low power and the round robin over command queues, with cleanup.
Timing is the input of a cycle: `ready` is the set of banks whose timers ran
out, `timer` says whether those of the rank did, `between` whether a write is
between two iterations, `cancel` whether a paused write is cancelled. What a
timer protects is a condition on the state (`StateAllows`).

`FRFCFS` is the controller with one queue and `Cycle` in the order of its
searches. `WriteDrain` is the one with read and write queues, watermarks and
forced writes, below the trace front end: `Drain` and the wait at the end of a
trace are actions of it. The state of a bank in these modules is what Bank
implements.

### RowBuffer, Bank: distributed timing
`Bank` is one `DDR3Bank` with its subarray. Timers (`nextActivate`, ...) are
relative: the cycles they still run; events carry the cycles until they are due.
The actions are `Activate`, `Read`, `Write`, `Precharge`, `Refresh`,
`PowerDown`, `PowerUp`, `Wait` (a cycle without a command) and
`RequestComplete` (the event that is due). An action has the conditions of
`IsIssuable` of both objects in its guard and takes a cycle. `CycleWidth` is the
width of the unsigned `ncycle_t`. `request` carries what a write takes along when
it is interrupted (`writeProgress`, flags, cancellations). `RowBuffer` is the
bank the controllers reckon with: open, closed, precharging or refreshing, with
a number of accesses being served.

### MALRU: cache tags that know the memory
One sampled set of the cache. `blks` is the set in LRU order, `addrList` the
send and receive times of misses, `sampling` the queue of samples, the reuse
stacks and histograms. `Hit`, `Miss`, `Writeback`, `Response` and `Snoop` are
what `Cache<MALRU>` does with the set on an access, a miss that joins or opens an
MSHR, a writeback from above, a response (a fill or not) or a snoop; each includes
the sampling it triggers. Requests are cacheable, come from above and carry block
addresses, as they do in the second- and third-level caches the tags are meant for:
`insertSendTime` records the address of the request, `insertRecvTime` looks for the
aligned address of the response, and an unaligned request would not be found. A
writeback that finds no block to replace while a miss of its block is under way is
left out: it would become a target of the MSHR and be answered, which a packet that
needs no response does not allow. Stacks and counters are allocated with `new` and
not cleared, so Init leaves them arbitrary. `recency` (which of two addresses was
touched last), `made` and two fields of `sampling` are history.

`MC*` modules give TLC its model values. `*_proofs` modules hold the proofs.
Definitions marked "Seeded fault" are not used by any specification: each is a
plausible bug in the definition that follows it, and putting it in that
definition's place must violate the property named in `PROJECT.json`.

## 3. Runs

Passing runs:

| run | module, configuration | what it shows |
|---|---|---|
| ranking | MCRankingQueues, RankingQueues.cfg | one entry per page, fronts expire first, counts justify levels, only expired pages are forgotten |
| migration | MCPageMigration, PageMigration.cfg | the inductive invariant `SwapInv` (hook and decoder agree, migrations do not overlap); no request is lost, duplicated or too early; channels stay balanced; migrated pages stay; refinement of PageSwap; a migration ends, even when full queues refuse its writes, or the process has failed |
| multiqueue | MCMultiQueue, MultiQueue.cfg | the composition implements RankingQueues; promoted pages have the count of the threshold queue and are still ranked; no page that served the processor from fast memory is demoted, through any number of migrations |
| port | MCMemoryPort, MemoryPort.cfg | each packet is answered once; a refused sender, an outstanding request and a queued response each have an event that goes on with them; no deadlock; accepted packets are answered, refused senders get their retry |
| eventqueue | MCEventQueue, EventQueue.cfg | the cached next cycle is right; time advances by the steps asked for; refinement of TimedEvents |
| frfcfs | MCFRFCFS, FRFCFS.cfg | the controller's picture of each row is what the bank will have; refresh flags, counters and queued REFRESH commands fit; a request is in one place; all are answered and all refreshes issued |
| writedrain | MCWriteDrain, WriteDrain.cfg | writes of a drain are never interrupted; reads are answered in spite of drains; a trace that ends outside a drain is drained |
| malru | MCMALRU, MALRU.cfg | no tag twice in a set; invalid blocks are evicted first; LRU order; a response to a cacheable demand miss finds its entry; samples are replayed in order, with their exact reuse distance, and counted once |
| bank | MCBank, Bank.cfg | the timers of bank and subarray implement RowBuffer; a write has one completion however often it is interrupted, and its cells get their time |

Runs in which TLC finds what a comment or a document says to be violated by what
the code does (quotations under "findings"):

| run | what the code does |
|---|---|
| translation_survives | a restore brings back the migration map without states, so every migrated page is looked for in its old channel |
| drain_signalled | the drain state is checked while the completed request is still in the map; a drain that waits for a write is never reported as done |
| cancelled_write_kept | a write keeps `FLAG_ISSUED` when it is paused or cancelled and put back; when it is scheduled again, the next cleanup takes it out of the command queue before it was issued, and it is lost |

### Bounds, and why they are enough
- `MaxTime = 11` accesses, three levels, `LifeTime = 1`, two fast pages and a
  slow one: long enough to reach the top level (4 accesses), expire, move down,
  and climb again, with two pages of one queue expiring in either order.
- `MaxRequests` bounds the requests of the processor and is the only bound of
  PageMigration; migration requests are not bounded. With two frames in three
  channels, two migrations fit in a run, and `QueueSize = 2` lets processor
  requests fill a queue so that one or both writes are refused, and the victim
  search wraps around onto a page demoted before. The composition has two frames in
  two channels and six requests: `QueueNum = 2` makes level 1 the threshold queue,
  so that a page is hot at its third access, and a second migration starts after
  the first with accessed pages to step over, or finds no victim at all.
- MemoryPort has two reads, a write, a writeback and a packet that is neither,
  each sent once; `QueueSize = 2` with one slot for migration gives full queues
  with and without its help. An inhibited packet, which is only counted, is left
  out of the run to make room for liveness; the proofs cover it.
- EventQueue: four events of three priorities (two share one), insertion up to 2
  cycles ahead, calls of 0 to 2 steps, three cycles. An event may be inserted
  again after it ran, so lists of up to four events meet in one cycle.
- FRFCFS: two banks with two rows, a row hit, a conflict and another bank among
  four requests, a queue of two, one refresh pulse per group (that a group's pulses
  come only after its last REFRESH was issued is an assumption on the timing,
  `tREFI` being long, and a guard of `RefreshCallback`; the code does not test it,
  and the proofs make the same assumption for any number of pulses), and four
  configurations: open page with both banks in one refresh group; relaxed close
  page with power-down; restricted close page with a group per bank; NVM with
  write pausing. `StarvationThreshold = 1` makes starvation happen.
- WriteDrain: five requests, write queue and high watermark 2, low watermark 0:
  two writes begin a drain, a third one waits outside or for the final drain.
- Bank: two rows, two writes, six sets of timings. Two are those of the
  repository (DDR3 defaults; `PCM_ISSCC_2012_4GB.config`); the others are small,
  so that pausing, cancelling and write-back row buffers interleave with
  everything else. Real PCM timings with pausing give millions of states and no
  other orders. `CycleWidth = 16` is wide enough for every sum and narrow enough
  for TLC; the one subtraction that wraps does so at any width.
- MALRU: four tags for a set of three ways, five accesses, two MSHRs, one
  block taken away or not delivered, and sampling intervals of two: evictions,
  shared and deferred misses, writebacks during a miss and the reset of the
  histograms all happen. The uninitialised stacks hold no tag of the set here,
  which makes the tags symmetric; the theorems of MALRU_proofs cover every
  content.
- Symmetry is used nowhere else: pages are ordered by the victim search, requests
  differ in bank and row, and liveness does not allow it.

`CHECK_DEADLOCK FALSE` is set where the model stops because its last request,
access or cycle is used up or the process has failed. In the port runs and in
Bank, which go on for ever, deadlock is checked.

### Fairness
- PageMigration: weak fairness of each controller's scheduling, each migration
  request's steps and the completion of processor requests. `FRFCFS::Cycle`
  looks for starved requests before row-buffer hits, so nothing waits for ever
  (`RequestsAnswered` of FRFCFS checks this), and every issued command has a
  completion event. Nothing is assumed of the processor: it may stop, and a
  refused write must be retried all the same. Its traffic is bounded by
  `MaxRequests`: `MigrationEnds` does not say that a refused write gets into a
  queue that unending traffic keeps full.
- MemoryPort: weak fairness of scheduling and completion as above, of the
  response event (gem5 runs its events), and of a retry the peer takes (a peer
  that refused a response calls `recvRetry` when it can take one). Nothing is
  assumed of senders, drains or mode switches.
- FRFCFS and WriteDrain: weak fairness of the events (completions, ends of
  precharges and refreshes), and: cycles in which all timers have run out occur
  again and again. The simulator clocks the controller for ever, timers are set
  only by commands, and each is finite. Such a cycle need not change anything,
  so the variable `odd` flips with it: without it such a cycle would be a
  stuttering step, which no fairness condition can ask for. Cycles with other
  sets of ready banks may come in any number in between. In WriteDrain the front
  end stops cycling once the trace is drained.
- Nothing of the kind is assumed of EventQueue, MALRU and Bank, which are checked
  for safety and refinement only.

## 4. Proofs

TLAPS checks these for every value of the constants that satisfies the
assumptions of the module.

**RankingQueues_proofs** (`RankingAssumption`: fast pages are pages, at least
one level). `RankingUnique`, `RankingSorted`, `RankingTypeCorrect`. The
inductive invariant `RankingInv` adds to uniqueness and order that no entry
expires later than `currentTime + LifeTime`: only with that does pushing an
entry with a new expiration time to the back keep a queue sorted. Lemmas for
pushing, erasing and `CheckQueue` show that each keeps it. `RankingCounted`
(an entry above level 0 has the count that lifted it) adds the counts to the
invariant and needs that powers of two grow with the exponent, which is shown
through the cardinality of power sets. `RankingRemembers`, an action property,
follows an unexpired entry through `UpdateAccess` and `CheckQueue`.

**PageMigration_proofs** (`MigrationAssumption`: at least one frame, channel and
queue slot, and the promotion channel is a channel). The inductive invariant
`SwapInv` says that decoder states, hook flags and requests in flight fit one of
the phases idle, `Reading` and `Writing` of one migration; none of the safety
properties is inductive alone, since each handler trusts what the decoder, the
hook and the controllers hold about the same migration. From it follow
`MigrationTypeCorrect`, `HookAgrees`, `MigrationsDoNotOverlap`,
`RequestsSurvive`, `ReadBeforeOverwrite`, `MigratedForGood` and
`SwapRefinement`. Every step is first shown to be quiet, to start a migration or
to let one page arrive; the refinement needs only these three kinds.
`MigrationBalanced` (`ChannelsBalanced` for any number of frames and channels)
counts the pages by where they will be once the migration in progress is over:
with both entries of `migrationMap` set in one step, a migration exchanges one
page of two channels (`ExchangeBalanced`), and between migrations this is where
the pages are.

**MultiQueue_proofs.** `MigratorIsProtocol`: every step of the migrator with its
ranking queues is a step of the page-swap protocol, so the theorems above hold
of it. `MigratorRanks`: it implements RankingQueues. The theorems of
RankingQueues_proofs are then instantiated for the migrator, and
`MigratorPromotesHot` follows from `RankingCounted` that way.
`MigratorSparesServed` (`VictimUnused`) needs an invariant of its own, `ServedInv`:
a fast page that served the processor is in `DRAMPageList` or has been demoted, and
then the test behind `ChooseVictim` spares it; no step undoes either (`DoneStays`).

**MemoryPort_proofs** (`PortAssumption`: page migration alone does not fill a
queue; it has at most four requests per swap and a queue has 32 slots by
default). `PortInvariant`, `PortTypeOK`, `PortRetryIsComing`, `PortClockRuns`
and `PortResponseScheduled`. `Good` is what each handler keeps; `Held` adds that
a retry is due only while a request is queued, which holds right after a refusal
and is what survives the removal of the completed request, also when the sender
is refused again from within its retry. `PortInv` adds that atomic mode has no
outstanding requests, without which `recvAtomic` could stop the clock too early.
`PortAnsweredOnce` (`PacketAssumption`: a packet is one that the object answers or
one that it does not) has an invariant of its own, `OnceInv`: a packet is in one
place at a time (`Apart`), and the responses to it, taken or queued, are one when
it is owed one (`Answers`) and none otherwise (`OneEach`). Every handler moves at
most one packet and queues a response exactly when it becomes owed
(`MoveOneEach`); a packet that is refused and sent again from within its own
retry is still unsent (`RetriesOnce`).

**EventQueue_proofs** (`EventAssumption`: priorities are integers, bounds are
natural numbers). `QueueNextIsEarliest` and `QueueTimeAdvances`. The inductive
invariant `EQInv` consists of `GoodMap` (cycles of the map are not in the past,
their lists not empty), `Cached` (`nextEventCycle` is the first of them) and the
place of `Process`: it walks over the first list, which is that of the current
cycle. Without the last part the erase at the end of `Process`, which takes
`nextEventCycle` and not the cycle it began with, could drop events of another
cycle. `FirstKey` chooses the least cycle, which exists because the order of the
natural numbers is well-founded (`LeastElement`); `InsertCorrect` and
`RemoveCorrect` say what insertion and removal do to the map and its first
cycle. `QueueRefinement`: the queue implements TimedEvents. `QueueInv` adds that
each list is in priority order and that an event is in one list at most; each
action is then one abstract step or, as at the start and the end of `Process`,
none.

**MemoryController_proofs, FRFCFS_proofs** (`ControllerAssumption`,
`FRFCFSAssumption`, `FeatureAssumption`: refreshes only with precharges, write
pausing only without them; see section 5). `FRInvariant`, and from it `FRBelief`,
`FRRefreshFlags` and `FROnePlace`. The controller plans several commands ahead of
the banks, so what it believes (`effectiveRow`, the refresh flags) fits no bank
state but the one after the queued commands. The inductive invariant `FRInv`
therefore says of each bank that its commands lead, one legal row after the
other, from the row that is open to the row that is believed (`Leads`); that a
queue holds at most one access, and a REFRESH only at its end and only for the
head of a group (`QueueFits`); that flags, counters and that REFRESH agree for
the whole group (`RefreshFits`); and that each request is where its status says
(`Placed`). MemoryController_proofs has the lemmas about what every controller
inherits: what the PRECHARGE_ALL and REFRESH of a group append, what power-down
changes, what a bank does with the first command, and that the cleanup,
`NotIssued`, drops nothing that is still to be issued. FRFCFS_proofs adds
enqueueing, what scheduling a hit, a closed bank or a miss appends, and the
theorems. The invariant was checked with TLC on the instance of the run first.

**MALRU_proofs** (`MALRUAssumption`: at least one way; the initial contents of
the stacks are tags or garbage, those of the counters natural numbers). All
seven invariants of the run, in two parts.
- The set: `SetOneCopy`, `SetInvalidEvictedFirst`, `SetRecency`. The invariant
  `SetInv` adds to `OneCopyIn` and `InOrder` that invalid blocks stand behind the
  valid ones (`InvalidLast`) and have no type (`InvalidUntyped`): `findVictim`
  spares a block at the LRU end by its type, so an invalid block with the type of
  its last contents would be passed over. `VictimCorrect`, `HeadGood`,
  `HeadInOrder`, `InvalidateGood` and `InsertGood` state what the choice of a
  victim, `moveToHead`, `invalidate` and `insertBlock` do to these facts.
- The samples: `SampleResponseExpected`, `SampleOrder`, `SampleDistanceExact`,
  `SampleHistogram`. That distances are exact says nothing of the stacks, so
  `GoodSampling` adds where each replayed tag is (`StacksFit`): the tags above it
  are those replayed since on that stack, or it has dropped out and there were at
  least `assoc` of them. `ReferenceGood` shows that one reference keeps this,
  `ReplayGood` that any number of them does, and `HitSampled`, `MissSampled` and
  `TypeSampled` what each operation does to the queue. `SampleInv` adds that
  replayed and queued samples are the accesses made (`Ordered`) and that entries
  of `addrList` and untyped samples are at least as many as the responses under
  way (`Expected`); it uses `SetInv`, since a hit is sampled with the type of its
  block. What the recursive `Total` and `Replay` compute is shown by least
  counterexamples (`LeastElement`) instead of induction.

**Only model-checked**
- Liveness: `MigrationEnds`, `AllAnswered`, `SenderGoesOn`, `RequestsAnswered`,
  `ReadsAnswered`, `DrainedOutsideDrain`. Temporal reasoning with fairness and
  `ENABLED` is beyond the prover.
- `NoWriteInterrupted` and `BeliefMatchesBanks` for the write-drain controller,
  and the bank's `OneCompletion`, `WriteTimeCovered` and `ImplementsRowBuffer`:
  not attempted.

## 5. What is not modelled, and what the models show besides

### Not modelled, and why
- **Time** above the bank. Cycles and latencies are abstracted to order in
  PageMigration and MemoryPort, and to "these banks are ready" in the
  controllers, which covers every timing. Bank has the timers of bank and
  subarray; those of the rank (tRRD, tFAW, turnaround) are among the reasons why
  a bank is not ready.
- **Data.** Page contents and addresses below the page are left out; the bit
  fields of an address key are a pair, and address translation as such is
  arithmetic without state.
- **Several ranks and subarrays, cached row buffers, bulk commands, prefetching,
  DRAM caches**: no hybrid configuration turns them on.
- **Unequal write iterations** of multi-level cells: a write is a number of equal
  pulses. `InitPD` is false in every configuration.
- **Atomic migration** (`IssueAtomic` with the hook): the gem5 object calls
  NVMain directly and no hook runs.
- **Event-driven mode** and its global event queue: off by default and in every
  configuration. **Two instances** of the memory object (memory above 3 GB): the
  second shares the map of the first; listed as a hazard.
- **The cost model of MALRU** (`calKeyDelay`, `calDistribution`, `calCost`, the
  threshold): floating point, and the border it computes is printed and not used.
- **Coin-toss migrator**: the protocol the multi-queue migrator was derived from.
- **Statistics, configuration, endurance, data encoders, interconnect delays**:
  no influence on control.
- **gem5** itself: upstream code; its ports, caches and drain protocol appear as
  the environment of MemoryPort and MALRU.

### Assumed of configurations
- A refresh interval is longer than a REFRESH waits in its command queue; a second
  one would fail the assertion of `ResetRefreshQueued`.
- `FeatureAssumption`. With `UsePrecharge` off and `UseRefresh` on no REFRESH
  becomes issuable. With `WritePausing` on, `UsePrecharge` on and a closed-page
  policy, the write that the cleanup drops (run cancelled_write_kept) may be the
  one whose implicit precharge `effectiveRow` already counts on, and
  `BeliefMatchesBanks` fails. No configuration in the repository sets
  `UsePrecharge` or `WritePausing`; they are on and off by default.
- The timings satisfy `TimingAssumption` of Bank.
- With write-back row buffers a precharge lasts `tRP` and the time of the cells,
  but the bank may be powered down after `tRP`; the write-back instance has no
  power-down.

### What the code does, as modelled, without a run of its own
Page migration:
- When both writes of a swap were refused, the retry (`MultiQueueMigrator.cpp:245`)
  uses `parent` after its first `IssueCommand` has cleared it (`CompleteAndCrash`).
- Once the victim search has gone round, it returns a page demoted earlier, and
  the assertion at line 385 fails (`IssueAndFail`); when every fast page has been
  accessed it does not end (`IssueAndHang`).
- The pre-issue hook (line 278) tests an address that is not translated yet, so
  requests for buffered pages go to the controllers.
- `Translate` of the decoder replaces the channel and keeps the frame; a promoted
  page then shares its place with another one, and accesses to a demoted page
  count for the slow page that shares its key.

Memory object: `drain` looks only at `m_request_map`, so the object reports itself
drained with responses still queued. After atomic accesses and a switch back to
timing mode within one clock period, `wakeup` schedules a clock event that is
still scheduled, which gem5 asserts against in debug builds.

Controllers and front end:
- A trace that ends during a drain may never be drained: `Drain` sets a flag that
  keeps the drain from being switched off (`FRFCFS-WQF.cpp:346`), so reads wait for
  ever. `ReadsAnswered` and `DrainedOutsideDrain` except it.
- The read-to-write turnaround of the rank (`StandardRank.cpp:350`) is pushed back by
  every read; a steady stream of reads to other banks can hold up a queued write.
- `SetConfig` of FRFCFS-WQF corrects one watermark or the other, not both.
- `IssueMemoryCommands` marks every activation of a writing subarray as priority,
  so an ordinary row miss also pauses writes.

Bank: a write in optimal mode that is interrupted between the end of its last
iteration and its event has a remaining time that wraps around, and is cancelled
rather than finished. The test for the last iteration of a paused write never
holds. `READ_PRECHARGE` does not wait for `tRAS`. None of these
breaks a property above; they cost simulated time.

MALRU: a miss that joins another one and a writeback passed on to the memory
leave samples that no response types, so replay stops behind them and the queues
grow; `addrList` never shrinks. A response for which no send time was recorded
(uncacheable reads, prefetches) would fail the assertion of `insertRecvTime`; the
model has cacheable demand accesses only. Stacks and counters start
uninitialised. A block written back while its miss has no answer counts as NVM.
The tags are commented out in the repository's configurations.

## 6. Plan

1. **Composition** of FRFCFS with MemoryPort in place of the latter's one queue,
   and of Bank below FRFCFS in place of the set of ready banks.
2. **More proofs**: the invariant of MemoryController_proofs for the write-drain
   controller; `ImplementsRowBuffer`.
3. **Translation** as pure operators: `Translate` and `ReverseTranslate` are
   inverse over bounded field widths; address keys are unique.
4. The coin-toss migrator as a second implementation of PageSwap.
