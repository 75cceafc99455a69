----------------------------- MODULE MultiQueue -----------------------------
(***************************************************************************)
(* MultiQueueMigrator as a whole: the page-swap protocol of PageMigration  *)
(* driven by the ranking queues of RankingQueues.  The two share           *)
(* DRAMPageList, and a request asks for a migration when its page was      *)
(* found in queue THRESHOLD_QUEUE.                                         *)
(***************************************************************************)
EXTENDS PageMigration, Sequences

CONSTANTS QueueNum,        \* QUEUE_NUM
          LifeTime,        \* LIFE_TIME
          ThresholdQueue   \* THRESHOLD_QUEUE

ASSUME ThresholdAssumption ==
    /\ QueueNum \in Nat \ {0}
    /\ LifeTime \in Nat
    /\ ThresholdQueue \in 1 .. QueueNum - 1

VARIABLES rankingQueues, demotedDRAMList, currentTime,
          served   \* the pages a request of the processor reached in memory

rankVars == <<rankingQueues, demotedDRAMList, currentTime>>
mqVars == <<vars, rankVars, served>>

Ranking == INSTANCE RankingQueues
    WITH DRAMPages <- {p \in Pages : Fast(p)}, MaxTime <- MaxRequests

MQInit ==
    /\ Init
    /\ Ranking!RankingInit
    /\ served = {}

\* Seeded fault: any ranked page asks for a migration.
HotAny(p) == Ranking!LocateQueue(rankingQueues, Seen(p)) >= 0

\* The queue is looked up before this access moves the page.
Hot(p) == Ranking!LocateQueue(rankingQueues, Seen(p)) = ThresholdQueue

\* Seeded fault: TryMigration returns before CheckQueue when the controllers
\* have no room for a migration.
TryMigrationEarlyReturn(p) ==
    /\ \/ /\ IssueCommand(p, Hot(p)) \/ IssueAndMigrate(p, Hot(p))
          /\ Ranking!Account(Seen(p))
       \/ /\ IssueAndWait(p, Hot(p))
          /\ currentTime' = currentTime + 1
          /\ rankingQueues' = Ranking!Touched(rankingQueues, Seen(p), currentTime + 1)
          /\ UNCHANGED demotedDRAMList
       \/ /\ IssueAndFail(p, Hot(p)) \/ IssueAndHang(p, Hot(p))
          /\ UNCHANGED rankVars
    /\ served' = served \cup {q \in {p} : ~ShortCircuited(p)}

\* TryMigration in full.  A process that stops in it never gets to CheckQueue,
\* and nothing looks at its queues again.
TryMigration(p) ==
    /\ \/ /\ \/ IssueCommand(p, Hot(p))
             \/ IssueAndMigrate(p, Hot(p))
             \/ IssueAndWait(p, Hot(p))
          /\ Ranking!Account(Seen(p))
       \/ /\ \/ IssueAndFail(p, Hot(p))
             \/ IssueAndHang(p, Hot(p))
          /\ UNCHANGED rankVars
    /\ served' = served \cup {q \in {p} : ~ShortCircuited(p)}

MQNext ==
    \/ \E p \in Pages : TryMigration(p)
    \/ /\ \/ \E c \in Channels : ScheduleCpu(c)
          \/ \E s \in Sides : MigrationStep(s)
          \/ Complete
       /\ UNCHANGED <<rankVars, served>>

MQSpec == MQInit /\ [][MQNext]_mqVars

-----------------------------------------------------------------------------
\* The ranking queues behave as specified on their own, although the protocol
\* decides which page each request counts for and reads DRAMPageList.
ImplementsRanking == Ranking!RankingSpec

\* A page is promoted only with the reference count THRESHOLD_QUEUE stands for,
\* and it is then still ranked: the queues are read before CheckQueue, which
\* may drop the page in the same call.
PromotedWhenHot ==
    [][~migrating /\ migrating' =>
          \E i \in 1 .. Len(rankingQueues[ThresholdQueue]) :
              LET e == rankingQueues[ThresholdQueue][i]
              IN  /\ e.pageNumber = inputPage'
                  /\ e.referenceCounter >= Ranking!PromotionCount(ThresholdQueue - 1)]_mqVars

\* Through any number of migrations ChooseVictim never demotes a page that a
\* request of the processor has reached in fast memory, although DRAMPageList holds
\* the places requests went to, which several pages share after a migration, and
\* the search goes round the promotion channel.  A request answered from the
\* migration buffer reaches no page: the hook takes it for one to ZeroPage.
VictimUnused ==
    [][~migrating /\ migrating' => outputPage' \notin served]_mqVars
=============================================================================
