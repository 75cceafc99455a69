--------------------------- MODULE PageMigration ---------------------------
(***************************************************************************)
(* The page-swap protocol of the hybrid memory: the migrating decoder      *)
(* (Decoders/MQMigrator), the hook that drives it                          *)
(* (Utils/MultiQueueMigrator: TryMigration, ChooseVictim, RequestComplete) *)
(* and what both see of NVMain and its memory controllers: bounded         *)
(* transaction queues that are served out of order.                        *)
(*                                                                         *)
(* A page is a frame (row, bank, rank and subarray) of a channel; this     *)
(* pair is what GetAddressKey encodes.  Frames are numbered in the order   *)
(* in which ChooseVictim visits them, so frame 0 has all fields zero.      *)
(* Whether a page is hot is left open here: the parameter hot of the       *)
(* issuing actions is decided by the ranking queues, see MultiQueue.       *)
(* Assertions of the code that a run can reach are modelled as failures    *)
(* of the process, and so are a null dereference and an endless loop.      *)
(***************************************************************************)
EXTENDS Integers, FiniteSets

CONSTANTS NumFrames,         \* pages per channel (totalPromotionPages)
          NumChannels,       \* CHANNELS
          PromotionChannel,  \* the fast channel
          QueueSize,         \* transaction queue size of a controller
          MaxRequests        \* bound: requests the processor sends in a run

ASSUME MigrationAssumption ==
    /\ NumFrames \in Nat \ {0}
    /\ NumChannels \in Nat \ {0}
    /\ PromotionChannel \in 0 .. NumChannels - 1
    /\ QueueSize \in Nat \ {0}

VARIABLES
    migrationMap,          \* new channel of a page, NoChannel if it has no entry
    migrationState,        \* MQMigratorState of a page, UNKNOWN if it has no entry
    migrating,             \* a migration is in progress
    inputPage, outputPage, \* its pages, as the decoder knows them
    promotee, demotee,     \* its pages, as the hook knows them
    request,               \* promoRequest and demoRequest
    buffered,              \* promoBuffered and demoBuffered
    currentPromotionPage,  \* where ChooseVictim continues
    DRAMPageList,          \* promotion-channel pages the processor has accessed
    cpuQueued,             \* processor requests in the queue of each channel
    cpuInService,          \* processor requests that left the queues
    sent,                  \* processor requests sent so far
    failure                \* "none", or what stopped the process

decoderVars == <<migrationMap, migrationState, migrating, inputPage, outputPage>>
hookVars == <<promotee, demotee, request, buffered, currentPromotionPage>>
cpuVars == <<cpuQueued, cpuInService, sent>>
vars == <<decoderVars, hookVars, DRAMPageList, cpuVars, failure>>

Frames == 0 .. NumFrames - 1
Channels == 0 .. NumChannels - 1
Pages == Frames \X Channels
NoChannel == -1
Fast(p) == p[2] = PromotionChannel

\* The address fields of a request NVMain has not translated yet.
ZeroPage == <<0, 0>>

States == {"UNKNOWN", "READING", "BUFFERED", "WRITING", "DONE"}
Sides == {"promo", "demo"}
Requests == [page : Pages, type : {"READ", "WRITE"},
             stage : {"none", "queued", "inService"}]

Init ==
    /\ migrationMap = [p \in Pages |-> NoChannel]
    /\ migrationState = [p \in Pages |-> "UNKNOWN"]
    /\ migrating = FALSE
    /\ inputPage = ZeroPage /\ outputPage = ZeroPage
    /\ promotee = ZeroPage /\ demotee = ZeroPage
    /\ request = [s \in Sides |-> [page |-> ZeroPage, type |-> "READ", stage |-> "none"]]
    /\ buffered = [s \in Sides |-> FALSE]
    /\ currentPromotionPage = 0
    /\ DRAMPageList = {}
    /\ cpuQueued = [c \in Channels |-> 0]
    /\ cpuInService = 0
    /\ sent = 0
    /\ failure = "none"

-----------------------------------------------------------------------------
\* The decoder.

IsMigrated(p) == migrationMap[p] # NoChannel /\ migrationState[p] = "DONE"
IsBuffered(p) == migrationMap[p] # NoChannel
                    /\ migrationState[p] \in {"BUFFERED", "WRITING"}

\* Only the channel of a migrated page changes, never its frame.
Translate(p) == <<p[1], IF IsMigrated(p) THEN migrationMap[p] ELSE p[2]>>

\* Seeded fault: both pages are sent to the promotion channel.
StartMigrationBothUp(promo, demo) ==
    /\ migrationMap' = [migrationMap EXCEPT ![promo] = demo[2], ![demo] = demo[2]]
    /\ migrationState' = [migrationState EXCEPT ![promo] = "READING", ![demo] = "READING"]
    /\ migrating' = TRUE
    /\ inputPage' = promo
    /\ outputPage' = demo

StartMigration(promo, demo) ==
    /\ migrationMap' = [migrationMap EXCEPT ![promo] = demo[2], ![demo] = promo[2]]
    /\ migrationState' = [migrationState EXCEPT ![promo] = "READING", ![demo] = "READING"]
    /\ migrating' = TRUE
    /\ inputPage' = promo
    /\ outputPage' = demo

\* Seeded fault: the migration is over when one of its pages is DONE.
SetMigrationStateEither(new) ==
    /\ migrationState' = new
    /\ migrating' = (migrating /\ ~(new[inputPage] = "DONE" \/ new[outputPage] = "DONE"))
    /\ UNCHANGED <<migrationMap, inputPage, outputPage>>

\* One or more calls of SetMigrationState that leave the states new; a
\* migration whose two pages are DONE is over.
SetMigrationState(new) ==
    /\ migrationState' = new
    /\ migrating' = (migrating /\ ~(new[inputPage] = "DONE" /\ new[outputPage] = "DONE"))
    /\ UNCHANGED <<migrationMap, inputPage, outputPage>>

-----------------------------------------------------------------------------
\* A processor request.  The frontends send one only when IsIssuable said so.

\* IsIssuable of a memory controller, with queued processor requests per channel.
HasRoom(queued, c) ==
    queued[c] + Cardinality({s \in Sides : /\ request[s].stage = "queued"
                                           /\ request[s].page[2] = c}) < QueueSize

\* The pre-issue hook looks at address fields that NVMain::IssueCommand fills in
\* only afterwards, so it sees every request for page p as one for ZeroPage.
Untranslated(p) == ZeroPage

ShortCircuited(p) == IsBuffered(Untranslated(p))

\* The request to page p is queued, or answered from the migration buffer.
Admit(p) ==
    /\ failure = "none"
    /\ sent < MaxRequests
    /\ HasRoom(cpuQueued, Translate(p)[2])
    /\ sent' = sent + 1
    /\ IF ShortCircuited(p)
       THEN cpuInService' = cpuInService + 1 /\ UNCHANGED cpuQueued
       ELSE /\ cpuQueued' = [cpuQueued EXCEPT ![Translate(p)[2]] = @ + 1]
            /\ UNCHANGED cpuInService

\* The page the post-issue hook takes the request for.
Seen(p) == IF ShortCircuited(p) THEN Untranslated(p) ELSE Translate(p)

MigrationPossible(p) == ~migrating /\ ~IsMigrated(p) /\ ~Fast(p)

IssueCommand(p, hot) ==
    /\ Admit(p)
    /\ ~(hot /\ MigrationPossible(Seen(p)))
    /\ DRAMPageList' = DRAMPageList \cup {q \in {Seen(p)} : Fast(q)}
    /\ UNCHANGED <<decoderVars, hookVars, failure>>

\* Where the next search starts after the k-th frame was taken.
Advance(k) == (currentPromotionPage + k + 1) % NumFrames

\* The k-th frame of the promotion channel from the current one.
Visited(k) == <<(currentPromotionPage + k) % NumFrames, PromotionChannel>>

\* Seeded fault: an accessed page is skipped once, not as often as needed.
ChooseVictimOneSkip(p, hot) ==
    /\ Admit(p)
    /\ hot /\ MigrationPossible(Seen(p))
    /\ promotee' = Seen(p)
    /\ LET k == IF Visited(0) \in DRAMPageList THEN 1 ELSE 0
       IN  demotee' = Visited(k) /\ currentPromotionPage' = Advance(k)
    /\ UNCHANGED <<DRAMPageList, buffered>>

\* The request to p sets off a migration; promotee and demotee are chosen.
ChooseVictim(p, hot) ==
    /\ Admit(p)
    /\ hot /\ MigrationPossible(Seen(p))
    /\ promotee' = Seen(p)
    /\ \E k \in Frames :
          /\ Visited(k) \notin DRAMPageList
          /\ \A j \in 0 .. k - 1 : Visited(j) \in DRAMPageList
          /\ demotee' = Visited(k)
          /\ currentPromotionPage' = Advance(k)
    /\ UNCHANGED <<DRAMPageList, buffered>>

\* Seeded fault: only the queue of the promotee's channel is asked.
CheckIssuableOne == HasRoom(cpuQueued', promotee'[2])

CheckIssuable == HasRoom(cpuQueued', promotee'[2]) /\ HasRoom(cpuQueued', demotee'[2])

\* A migration read given to NVMain; nobody looks at the result of the call.
MigrationRead(p) ==
    [page |-> p, type |-> "READ",
     stage |-> IF HasRoom(cpuQueued', p[2]) THEN "queued" ELSE "none"]

\* Seeded fault: the victim is not tested for an earlier migration.
IssueAndMigrateAnyVictim(p, hot) ==
    /\ ChooseVictim(p, hot)
    /\ CheckIssuable
    /\ StartMigration(promotee', demotee')
    /\ request' = [s \in Sides |->
                      MigrationRead(IF s = "promo" THEN promotee' ELSE demotee')]
    /\ UNCHANGED failure

IssueAndMigrate(p, hot) ==
    /\ ChooseVictim(p, hot)
    /\ ~IsMigrated(demotee')
    /\ CheckIssuable
    /\ StartMigration(promotee', demotee')
    /\ request' = [s \in Sides |->
                      MigrationRead(IF s = "promo" THEN promotee' ELSE demotee')]
    /\ UNCHANGED failure

\* queueWaits++
IssueAndWait(p, hot) ==
    /\ ChooseVictim(p, hot)
    /\ ~IsMigrated(demotee')
    /\ ~CheckIssuable
    /\ UNCHANGED <<decoderVars, request, failure>>

\* assert( migratorTranslator->IsMigrated( demotee ) == false )
IssueAndFail(p, hot) ==
    /\ ChooseVictim(p, hot)
    /\ IsMigrated(demotee')
    /\ failure' = "victimMigrated"
    /\ UNCHANGED <<decoderVars, request>>

\* Every page of the promotion channel is in DRAMPageList: the loop never ends.
IssueAndHang(p, hot) ==
    /\ Admit(p)
    /\ hot /\ MigrationPossible(Seen(p))
    /\ \A k \in Frames : Visited(k) \in DRAMPageList
    /\ failure' = "noVictim"
    /\ UNCHANGED <<decoderVars, hookVars, DRAMPageList>>

-----------------------------------------------------------------------------
\* The memory controllers: a queued request is taken in any order.

ScheduleCpu(c) ==
    /\ failure = "none"
    /\ cpuQueued[c] > 0
    /\ cpuQueued' = [cpuQueued EXCEPT ![c] = @ - 1]
    /\ cpuInService' = cpuInService + 1
    /\ UNCHANGED <<decoderVars, hookVars, DRAMPageList, sent, failure>>

ScheduleMigration(s) ==
    /\ failure = "none"
    /\ request[s].stage = "queued"
    /\ request' = [request EXCEPT ![s].stage = "inService"]
    /\ UNCHANGED <<decoderVars, promotee, demotee, buffered, currentPromotionPage,
                   DRAMPageList, cpuVars, failure>>

-----------------------------------------------------------------------------
\* RequestComplete.

Other(s) == IF s = "promo" THEN "demo" ELSE "promo"

Completes(s, type) ==
    /\ failure = "none"
    /\ request[s].stage = "inService"
    /\ request[s].type = type
    /\ UNCHANGED <<promotee, demotee, currentPromotionPage, DRAMPageList, cpuVars, failure>>

\* Seeded fault: the writes do not wait for the other read.
BufferCompleteAlways(s) == TRUE

\* Whether the hook finds the other page of the swap buffered.
BufferComplete(s) == IsBuffered(IF s = "promo" THEN demotee ELSE promotee)

FirstReadComplete(s) ==
    /\ Completes(s, "READ")
    /\ ~BufferComplete(s)
    /\ SetMigrationState([migrationState EXCEPT ![request[s].page] = "BUFFERED"])
    /\ request' = [request EXCEPT ![s].stage = "none"]
    /\ UNCHANGED buffered

\* Both pages are buffered: the addresses are swapped and the writes issued; a
\* write that its controller refuses stays with the hook.
SecondReadComplete(s) ==
    LET target == [t \in Sides |-> request[Other(t)].page]
        issued == {t \in Sides : HasRoom(cpuQueued, target[t][2])}
        read == [migrationState EXCEPT ![request[s].page] = "BUFFERED"]
    IN  /\ Completes(s, "READ")
        /\ BufferComplete(s)
        /\ SetMigrationState([p \in Pages |->
              IF \E t \in issued : p = target[t] THEN "WRITING" ELSE read[p]])
        /\ request' = [t \in Sides |->
              [page |-> target[t], type |-> "WRITE",
               stage |-> IF t \in issued THEN "queued" ELSE "none"]]
        /\ buffered' = [t \in Sides |-> t \notin issued]

WriteComplete(s) ==
    /\ Completes(s, "WRITE")
    /\ SetMigrationState([migrationState EXCEPT ![request[s].page] = "DONE"])
    /\ request' = [request EXCEPT ![s].stage = "none"]
    /\ UNCHANGED buffered

\* Any other request completes; the hook tries to issue a write it still holds.
CpuCompletes ==
    /\ failure = "none"
    /\ cpuInService > 0
    /\ cpuInService' = cpuInService - 1
    /\ UNCHANGED <<decoderVars, promotee, demotee, currentPromotionPage,
                   DRAMPageList, cpuQueued, sent>>

CompleteAndIdle ==
    /\ CpuCompletes
    /\ \A s \in Sides : ~buffered[s]
    /\ UNCHANGED <<request, buffered, failure>>

\* Seeded fault: the write stays marked as buffered after it was issued.
TryWriteStillBuffered(s) ==
    IF HasRoom(cpuQueued, request[s].page[2])
    THEN /\ request' = [request EXCEPT ![s].stage = "queued"]
         /\ UNCHANGED buffered
    ELSE UNCHANGED <<request, buffered>>

\* Seeded fault: a refused write is forgotten instead of kept for later.
TryWriteOnce(s) ==
    /\ request' = [request EXCEPT ![s].stage =
          IF HasRoom(cpuQueued, request[s].page[2]) THEN "queued" ELSE "none"]
    /\ buffered' = [buffered EXCEPT ![s] = FALSE]

TryWrite(s) ==
    IF HasRoom(cpuQueued, request[s].page[2])
    THEN /\ request' = [request EXCEPT ![s].stage = "queued"]
         /\ buffered' = [buffered EXCEPT ![s] = FALSE]
    ELSE UNCHANGED <<request, buffered>>

CompleteAndRetry(s) ==
    /\ CpuCompletes
    /\ buffered[s] /\ ~buffered[Other(s)]
    /\ TryWrite(s)
    /\ UNCHANGED failure

\* Issuing the promotion write runs this hook again for the controller and so
\* clears parent, which the code dereferences for the demotion write.
CompleteAndCrash ==
    /\ CpuCompletes
    /\ \A s \in Sides : buffered[s]
    /\ TryWrite("promo")
    /\ failure' = "nullParent"

-----------------------------------------------------------------------------
Issue(p, hot) ==
    \/ IssueCommand(p, hot)
    \/ IssueAndMigrate(p, hot)
    \/ IssueAndWait(p, hot)
    \/ IssueAndFail(p, hot)
    \/ IssueAndHang(p, hot)

Complete ==
    \/ CompleteAndIdle
    \/ \E s \in Sides : CompleteAndRetry(s)
    \/ CompleteAndCrash

MigrationStep(s) ==
    \/ ScheduleMigration(s)
    \/ FirstReadComplete(s)
    \/ SecondReadComplete(s)
    \/ WriteComplete(s)

Next ==
    \/ \E p \in Pages, hot \in BOOLEAN : Issue(p, hot)
    \/ \E c \in Channels : ScheduleCpu(c)
    \/ \E s \in Sides : MigrationStep(s)
    \/ Complete

Spec == Init /\ [][Next]_vars

\* The controllers keep working: starved requests are scheduled first
\* (FindStarvedRequest) and every issued command completes by an event.
Fairness ==
    /\ \A c \in Channels : WF_vars(ScheduleCpu(c))
    /\ \A s \in Sides : WF_vars(MigrationStep(s))
    /\ WF_vars(Complete)

FairSpec == Spec /\ Fairness

-----------------------------------------------------------------------------
(* Properties. *)

\* Every variable of the decoder, the hook and the queues has its type.
TypeOK ==
    /\ migrationMap \in [Pages -> Channels \cup {NoChannel}]
    /\ migrationState \in [Pages -> States]
    /\ migrating \in BOOLEAN
    /\ inputPage \in Pages /\ outputPage \in Pages
    /\ promotee \in Pages /\ demotee \in Pages
    /\ request \in [Sides -> Requests]
    /\ buffered \in [Sides -> BOOLEAN]
    /\ currentPromotionPage \in Frames
    /\ DRAMPageList \subseteq {p \in Pages : Fast(p)}
    /\ cpuQueued \in [Channels -> Nat]
    /\ cpuInService \in Nat
    /\ sent \in Nat
    /\ failure \in {"none", "victimMigrated", "noVictim", "nullParent"}

InFlight(s) == request[s].stage # "none"

\* While a migration is in progress the hook and the decoder mean the same two
\* pages, one slow and one fast, although TryMigration overwrites promotee and
\* demotee before it knows whether a migration can start (l. 372-380).
HookAgreesWithDecoder ==
    migrating => /\ promotee = inputPage /\ demotee = outputPage
                 /\ ~Fast(promotee) /\ Fast(demotee)

\* TryMigration's assert( !promoBuffered && !demoBuffered ) (l. 361): a write
\* that waits in the hook, or any migration request that is still queued or
\* served, belongs to a migration in progress.
NothingLeftBehind ==
    ~migrating => \A s \in Sides : ~buffered[s] /\ ~InFlight(s)

\* No request of a migration is lost or duplicated: a page is READING exactly
\* while its read is queued or served; a buffered page whose write is due is
\* written by exactly one request, which is in flight or held by the hook.
\* This is what makes the asserts of SetMigrationState (MQMigrator l. 121-122)
\* and RequestComplete (l. 161) hold.
NoRequestLost ==
    /\ \A p \in Pages : migrationState[p] = "READING" <=>
          \E s \in Sides : InFlight(s) /\ request[s].type = "READ" /\ request[s].page = p
    /\ \A s \in Sides : ~(buffered[s] /\ InFlight(s))
    /\ \A s \in Sides : request[s].type = "WRITE" /\ (buffered[s] \/ InFlight(s)) =>
          /\ migrationState[request[s].page] \in {"BUFFERED", "WRITING"}
          /\ request[Other(s)].page # request[s].page

\* A page is overwritten only after both pages have been read: while a write of
\* a migration is queued or served no page is still being read.
NoOverwriteBeforeRead ==
    \A s \in Sides : InFlight(s) /\ request[s].type = "WRITE" =>
        \A p \in Pages : migrationState[p] # "READING"

\* Between migrations every channel serves as many pages as it has frames:
\* each promotion is paid for by one demotion to the channel it came from.
ChannelsBalanced ==
    ~migrating => \A c \in Channels :
        Cardinality({p \in Pages : Translate(p)[2] = c}) = NumFrames

\* A page that has migrated stays where it is: no later migration changes its
\* state or its channel (StartMigration is given only unmigrated pages, and
\* SetMigrationState never takes a DONE page back).
DoneIsFinal ==
    [][\A p \in Pages : IsMigrated(p) =>
          migrationState'[p] = "DONE" /\ migrationMap'[p] = migrationMap[p]]_vars

\* A migration that has started ends, or the process has failed: a write the
\* controllers refused is issued when some other request completes.
MigrationEnds == migrating ~> (~migrating \/ failure # "none")

\* The protocol implements the abstract swap: a page counts as moved when its
\* state becomes DONE, the moment from which Translate redirects it.
Swap == INSTANCE PageSwap
    WITH FastChannel <- PromotionChannel,
         home <- [p \in Pages |-> Translate(p)[2]],
         pair <- <<inputPage, outputPage>>,
         pending <- {p \in {inputPage, outputPage} : migrating /\ ~IsMigrated(p)}

ImplementsSwap == Swap!SwapSpec
-----------------------------------------------------------------------------
(* The phases of a migration, for the inductive invariant. *)

\* The page side s of a migration takes out of its place.
Source(s) == IF s = "promo" THEN promotee ELSE demotee

\* Both pages are being read; at least one read has not completed.
Reading ==
    /\ \A s \in Sides :
          /\ request[s].type = "READ" /\ request[s].page = Source(s)
          /\ ~buffered[s]
          /\ migrationState[Source(s)] = IF InFlight(s) THEN "READING" ELSE "BUFFERED"
    /\ \E s \in Sides : InFlight(s)

\* Both pages are being written to each other's place; at least one is left.
Writing ==
    /\ \A s \in Sides :
          /\ request[s].type = "WRITE" /\ request[s].page = Source(Other(s))
          /\ \/ buffered[s] /\ ~InFlight(s) /\ migrationState[request[s].page] = "BUFFERED"
             \/ ~buffered[s] /\ InFlight(s)
                  /\ migrationState[request[s].page] \in {"BUFFERED", "WRITING"}
             \/ ~buffered[s] /\ ~InFlight(s) /\ migrationState[request[s].page] = "DONE"
    /\ \E s \in Sides : migrationState[Source(s)] # "DONE"

\* The inductive invariant of the protocol (StartMigration, SetMigrationState,
\* RequestComplete together): the decoder's states, the hook's flags and the
\* requests in the controllers always fit one phase of one migration.  TypeOK,
\* HookAgreesWithDecoder and NothingLeftBehind are parts of it.
SwapInv ==
    /\ TypeOK
    /\ \A p \in Pages : migrationMap[p] = NoChannel <=> migrationState[p] = "UNKNOWN"
    /\ \A p \in Pages : \/ migrationState[p] \in {"UNKNOWN", "DONE"}
                        \/ migrating /\ p \in {inputPage, outputPage}
    /\ HookAgreesWithDecoder
    /\ NothingLeftBehind
    /\ migrating => /\ migrationMap[promotee] = demotee[2]
                    /\ migrationMap[demotee] = promotee[2]
                    /\ Reading \/ Writing
=============================================================================
