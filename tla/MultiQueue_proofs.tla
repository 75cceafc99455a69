------------------------- MODULE MultiQueue_proofs -------------------------
(***************************************************************************)
(* Proofs about the migrator as a whole, for every number of frames,       *)
(* channels, levels and requests.  It only restricts the page-swap         *)
(* protocol, whose theorems therefore hold of it; it implements the        *)
(* ranking queues, from whose theorems it follows that only hot pages are  *)
(* promoted.                                                               *)
(***************************************************************************)
EXTENDS MultiQueue, PageMigration_proofs

\* The prover of the leaves that do not name one.
USE ZenonT(30)

-----------------------------------------------------------------------------
\* The protocol.

\* Every step of the migrator is a step of the protocol: the ranking queues
\* decide which requests ask for a migration.
LEMMA StepOfProtocol == MQNext => Next
<1> SUFFICES ASSUME MQNext PROVE Next
  OBVIOUS
<1>1. CASE \E p \in Pages : TryMigration(p)
  <2>1. PICK p \in Pages : TryMigration(p)
    BY <1>1
  <2>2. Issue(p, Hot(p))
    BY <2>1 DEF TryMigration, Issue
  <2>3. Hot(p) \in BOOLEAN
    BY DEF Hot
  <2> QED BY <2>2, <2>3 DEF Next
<1>2. CASE \/ \E c \in Channels : ScheduleCpu(c)
           \/ \E s \in Sides : MigrationStep(s)
           \/ Complete
  BY <1>2 DEF Next
<1> QED BY <1>1, <1>2 DEF MQNext

\* The migrator restricts the page-swap protocol and adds nothing to it: what is
\* proved of the protocol for any choice of hot pages holds of the migrator.
THEOREM MigratorIsProtocol == MQSpec => Spec
<1>1. MQInit => Init
  BY DEF MQInit
<1>2. [MQNext]_mqVars => [Next]_vars
  BY StepOfProtocol DEF mqVars
<1> QED BY <1>1, <1>2, PTL DEF MQSpec, Spec

\* In particular its protocol invariant.
LEMMA MigratorTyped == MQSpec => []SwapInv
BY MigratorIsProtocol, SwapInvariant, PTL

-----------------------------------------------------------------------------
\* Victims.

\* A fast page that served the processor is in DRAMPageList, unless it did so only
\* after it was demoted.
ServedInv ==
    \A p \in served : Fast(p) /\ p \notin DRAMPageList => IsMigrated(p)

\* A step of the protocol never undoes a migration.
LEMMA StaysMigrated ==
    ASSUME SwapInv, [MQNext]_mqVars, NEW p \in Pages, IsMigrated(p)
    PROVE  IsMigrated(p)'
<1>1. [Next]_vars
  BY StepOfProtocol DEF mqVars
<1>2. migrationState'[p] = "DONE" /\ migrationMap'[p] = migrationMap[p]
  BY <1>1, DoneStays
<1> QED BY <1>2 DEF IsMigrated

\* Every step keeps ServedInv: a request that reaches an unmigrated fast page is
\* seen under that page's own key, and sets off no migration.
LEMMA ServedStep ==
    ASSUME SwapInv, served \subseteq Pages, ServedInv, [MQNext]_mqVars
    PROVE  served' \subseteq Pages /\ ServedInv'
<1>1. CASE UNCHANGED <<served, DRAMPageList>>
  BY <1>1, StaysMigrated DEF ServedInv, Fast
<1>2. ASSUME NEW p \in Pages, TryMigration(p)
      PROVE  served' \subseteq Pages /\ ServedInv'
  <2>1. served' = served \cup {q \in {p} : ~ShortCircuited(p)}
    BY <1>2 DEF TryMigration
  <2>2. \/ DRAMPageList' = DRAMPageList \cup {q \in {Seen(p)} : Fast(q)}
        \/ ~Fast(Seen(p)) /\ DRAMPageList' = DRAMPageList
    BY <1>2 DEF TryMigration, IssueCommand, IssueAndMigrate, IssueAndWait,
         IssueAndFail, IssueAndHang, ChooseVictim, MigrationPossible
  <2>3. ASSUME ~ShortCircuited(p), Fast(p), ~IsMigrated(p)
        PROVE  p \in DRAMPageList'
    <3>1. Seen(p) = p
      BY <2>3, PageFacts DEF Seen, Translate
    <3> QED BY <2>2, <2>3, <3>1
  <2>4. DRAMPageList \subseteq DRAMPageList'
    BY <2>2
  <2>5. ASSUME NEW q \in served', Fast(q), q \notin DRAMPageList'
        PROVE  IsMigrated(q)'
    <3>1. q \in Pages /\ IsMigrated(q)
      BY <2>1, <2>3, <2>4, <2>5 DEF ServedInv
    <3> QED BY <3>1, StaysMigrated
  <2> QED BY <2>1, <2>5 DEF ServedInv, Fast
<1>3. \/ UNCHANGED <<served, DRAMPageList>>
      \/ \E p \in Pages : TryMigration(p)
  BY DEF MQNext, mqVars, vars, ScheduleCpu, MigrationStep,
       ScheduleMigration, FirstReadComplete, SecondReadComplete, WriteComplete,
       Completes, Complete, CompleteAndIdle, CompleteAndRetry, CompleteAndCrash,
       CpuCompletes
<1> QED BY <1>1, <1>2, <1>3

\* A step that starts a migration is IssueAndMigrate for some page.
LEMMA StartIsIssue ==
    ASSUME [MQNext]_mqVars, ~migrating, migrating'
    PROVE  \E p \in Pages : IssueAndMigrate(p, Hot(p))
BY DEF MQNext, mqVars, vars, decoderVars, TryMigration, IssueCommand, IssueAndWait,
     IssueAndFail, IssueAndHang, ScheduleCpu, MigrationStep, ScheduleMigration,
     FirstReadComplete, SecondReadComplete, WriteComplete, SetMigrationState,
     Complete, CompleteAndIdle, CompleteAndRetry, CompleteAndCrash, CpuCompletes

\* For every configuration and any number of migrations, ChooseVictim and the test
\* that follows it spare every page that served the processor from fast memory.
THEOREM MigratorSparesServed == MQSpec => VictimUnused
<1> DEFINE IInv == served \subseteq Pages /\ ServedInv
<1>1. MQInit => IInv
  BY DEF MQInit, ServedInv
<1>2. SwapInv /\ IInv /\ [MQNext]_mqVars => IInv'
  BY ServedStep
<1>3. SwapInv /\ IInv /\ [MQNext]_mqVars =>
        [~migrating /\ migrating' => outputPage' \notin served]_mqVars
  <2> SUFFICES ASSUME SwapInv, IInv, [MQNext]_mqVars, ~migrating, migrating'
               PROVE  outputPage' \notin served
    OBVIOUS
  <2>1. PICK p \in Pages : IssueAndMigrate(p, Hot(p))
    BY StartIsIssue
  <2>2. outputPage' = demotee' /\ ~IsMigrated(demotee') /\ demotee' \notin DRAMPageList
    BY <2>1 DEF IssueAndMigrate, StartMigration, ChooseVictim
  <2>3. \E k \in Frames : demotee' = Visited(k)
    BY <2>1 DEF IssueAndMigrate, ChooseVictim
  <2>4. demotee'[2] = PromotionChannel
    BY SMTT(30), <2>3 DEF Visited
  <2> QED BY <2>2, <2>4 DEF ServedInv, Fast
<1> HIDE DEF IInv
<1> QED BY <1>1, <1>2, <1>3, MigratorTyped, PTL DEF MQSpec, VictimUnused

-----------------------------------------------------------------------------
\* The ranking queues.

\* A request either is accounted for or leaves the ranking alone; nothing else
\* touches it.
LEMMA RankingStep ==
    ASSUME TypeOK, [MQNext]_mqVars
    PROVE  [Ranking!RankingNext]_(Ranking!rvars)
<1>0. CASE UNCHANGED mqVars
  BY <1>0 DEF mqVars, rankVars, vars, Ranking!rvars
<1>1. ASSUME NEW p \in Pages, TryMigration(p)
      PROVE  [Ranking!RankingNext]_(Ranking!rvars)
  <2>1. CASE Ranking!Account(Seen(p))
    <3>1. Seen(p) \in Pages
      BY SeenIsPage
    <3> QED BY <2>1, <3>1 DEF Ranking!RankingNext
  <2>2. CASE /\ IssueAndFail(p, Hot(p)) \/ IssueAndHang(p, Hot(p))
             /\ UNCHANGED rankVars
    <3>1. UNCHANGED DRAMPageList
      BY <2>2 DEF IssueAndFail, IssueAndHang, ChooseVictim
    <3> QED BY <2>2, <3>1 DEF rankVars, Ranking!rvars
  <2> QED BY <1>1, <2>1, <2>2 DEF TryMigration
<1>2. CASE /\ \/ \E c \in Channels : ScheduleCpu(c)
              \/ \E s \in Sides : MigrationStep(s)
              \/ Complete
           /\ UNCHANGED <<rankVars, served>>
  <2>1. UNCHANGED DRAMPageList
    BY <1>2 DEF ScheduleCpu, MigrationStep, ScheduleMigration,
         FirstReadComplete, SecondReadComplete, WriteComplete, Completes, Complete,
         CompleteAndIdle, CompleteAndRetry, CompleteAndCrash, CpuCompletes
  <2> QED BY <1>2, <2>1 DEF rankVars, Ranking!rvars
<1> QED BY <1>0, <1>1, <1>2 DEF MQNext

\* For every configuration the ranking queues of the migrator behave as they do
\* alone: TryMigration accounts for every request it survives, whatever becomes
\* of the migration it asks for, and nothing else changes the queues.
THEOREM MigratorRanks == MQSpec => ImplementsRanking
<1>1. MQInit => Ranking!RankingInit
  BY DEF MQInit
<1>2. SwapInv /\ [MQNext]_mqVars => [Ranking!RankingNext]_(Ranking!rvars)
  BY RankingStep DEF SwapInv
<1> QED BY <1>1, <1>2, MigratorTyped, PTL
           DEF MQSpec, ImplementsRanking, Ranking!RankingSpec

\* What is proved about the ranking queues alone.
RankingProofs == INSTANCE RankingQueues_proofs
    WITH DRAMPages <- {p \in Pages : Fast(p)}, MaxTime <- MaxRequests

\* Its constants are as assumed there.
LEMMA RankingAssumed == RankingProofs!RankingAssumption
BY ThresholdAssumption DEF RankingProofs!RankingAssumption

\* The two instances of the ranking queues are the same.
LEMMA SameRanking == Ranking!RankingSpec => RankingProofs!RankingSpec
<1>1. Ranking!RankingInit => RankingProofs!RankingInit
  BY DEF Ranking!RankingInit, RankingProofs!RankingInit,
       Ranking!Levels, RankingProofs!Levels
<1>2. \A q, p : Ranking!LocateQueue(q, p) = RankingProofs!LocateQueue(q, p)
  BY DEF Ranking!LocateQueue, RankingProofs!LocateQueue, Ranking!InQueue,
       RankingProofs!InQueue, Ranking!Levels, RankingProofs!Levels
<1>3. ASSUME NEW q, NEW pos, NEW p, NEW now
      PROVE  Ranking!AccessPage(q, pos, p, now) = RankingProofs!AccessPage(q, pos, p, now)
  BY DEF Ranking!AccessPage, RankingProofs!AccessPage,
       Ranking!FirstIndex, RankingProofs!FirstIndex,
       Ranking!Accessed, RankingProofs!Accessed,
       Ranking!PromotionCount, RankingProofs!PromotionCount,
       Ranking!Erase, RankingProofs!Erase
<1>4. \A q, p, now : Ranking!Touched(q, p, now) = RankingProofs!Touched(q, p, now)
  BY <1>2, <1>3 DEF Ranking!Touched, RankingProofs!Touched,
       Ranking!JoinQueue, RankingProofs!JoinQueue
<1>5. \A q, dl, now : Ranking!CheckQueue(q, dl, now) = RankingProofs!CheckQueue(q, dl, now)
  BY DEF Ranking!CheckQueue, RankingProofs!CheckQueue,
       Ranking!Levels, RankingProofs!Levels,
       Ranking!Expired, RankingProofs!Expired, Ranking!Demotes, RankingProofs!Demotes
<1>6. \A q, dl, now : Ranking!DemotedDRAM(q, dl, now) = RankingProofs!DemotedDRAM(q, dl, now)
  BY DEF Ranking!DemotedDRAM, RankingProofs!DemotedDRAM,
       Ranking!Levels, RankingProofs!Levels,
       Ranking!Expired, RankingProofs!Expired, Ranking!Demotes, RankingProofs!Demotes
<1>7. \A p : Ranking!Account(p) => RankingProofs!Account(p)
  BY <1>4, <1>5, <1>6 DEF Ranking!Account, RankingProofs!Account
<1>8. [Ranking!RankingNext]_(Ranking!rvars)
        => [RankingProofs!RankingNext]_(RankingProofs!rvars)
  BY <1>7 DEF Ranking!RankingNext, RankingProofs!RankingNext,
       Ranking!rvars, RankingProofs!rvars
<1> QED BY <1>1, <1>8, PTL DEF Ranking!RankingSpec, RankingProofs!RankingSpec

\* A page found in a queue above the lowest has that queue's reference count.
LEMMA MigratorCounts == MQSpec => []RankingProofs!CountMatchesLevel
BY RankingAssumed, MigratorRanks, SameRanking, RankingProofs!RankingCounted, PTL
   DEF ImplementsRanking

\* The two instances look a page up in the same way.
LEMMA SameLocate ==
    ASSUME NEW p
    PROVE  Ranking!LocateQueue(rankingQueues, p)
             = RankingProofs!LocateQueue(rankingQueues, p)
BY DEF Ranking!LocateQueue, RankingProofs!LocateQueue, Ranking!InQueue,
     RankingProofs!InQueue, Ranking!Levels, RankingProofs!Levels

\* LocateQueue says the truth about the queue it names.
LEMMA LocatedIn ==
    ASSUME NEW p, Ranking!LocateQueue(rankingQueues, p) = ThresholdQueue
    PROVE  \E i \in 1 .. Len(rankingQueues[ThresholdQueue]) :
              rankingQueues[ThresholdQueue][i].pageNumber = p
<1>1. RankingProofs!LocateQueue(rankingQueues, p) = ThresholdQueue
  BY SameLocate
<1>2. ThresholdQueue # -1
  BY SMTT(30), ThresholdAssumption
<1>3. PICK q : q = rankingQueues
  OBVIOUS
<1>4. RankingProofs!InQueue(q, ThresholdQueue, p)
  BY <1>1, <1>2, <1>3, RankingAssumed, RankingProofs!LocateQueueCorrect
<1> QED BY <1>3, <1>4 DEF RankingProofs!InQueue

\* For every configuration a page is promoted only when it is ranked, at the time
\* TryMigration decides, with the references THRESHOLD_QUEUE stands for.
THEOREM MigratorPromotesHot == MQSpec => PromotedWhenHot
<1> DEFINE Heat == \E i \in 1 .. Len(rankingQueues[ThresholdQueue]) :
              LET e == rankingQueues[ThresholdQueue][i]
              IN  /\ e.pageNumber = inputPage'
                  /\ e.referenceCounter >= Ranking!PromotionCount(ThresholdQueue - 1)
<1>1. ASSUME RankingProofs!CountMatchesLevel, [MQNext]_mqVars, ~migrating, migrating'
      PROVE  Heat
  <2>1. PICK p \in Pages : IssueAndMigrate(p, Hot(p))
    BY <1>1 DEF MQNext, mqVars, vars, decoderVars, TryMigration,
         IssueCommand, IssueAndWait, IssueAndFail, IssueAndHang, ScheduleCpu,
         MigrationStep, ScheduleMigration, FirstReadComplete, SecondReadComplete,
         WriteComplete, SetMigrationState, Complete, CompleteAndIdle,
         CompleteAndRetry, CompleteAndCrash, CpuCompletes
  <2>2. Hot(p) /\ inputPage' = Seen(p)
    BY <2>1 DEF IssueAndMigrate, ChooseVictim, StartMigration
  <2>3. PICK x : x = Seen(p)
    OBVIOUS
  <2>4. Ranking!LocateQueue(rankingQueues, x) = ThresholdQueue
    BY <2>2, <2>3 DEF Hot
  <2>5. PICK i \in 1 .. Len(rankingQueues[ThresholdQueue]) :
           rankingQueues[ThresholdQueue][i].pageNumber = x
    BY <2>4, LocatedIn
  <2>6. ThresholdQueue \in RankingProofs!Levels \ {0}
    BY SMTT(30), ThresholdAssumption DEF RankingProofs!Levels
  <2>7. rankingQueues[ThresholdQueue][i].referenceCounter
           >= Ranking!PromotionCount(ThresholdQueue - 1)
    BY <1>1, <2>5, <2>6
       DEF RankingProofs!CountMatchesLevel, RankingProofs!PromotionCount,
           Ranking!PromotionCount
  <2> QED BY <2>2, <2>3, <2>5, <2>7
<1>2. RankingProofs!CountMatchesLevel /\ [MQNext]_mqVars
        => [~migrating /\ migrating' => Heat]_mqVars
  BY <1>1
<1> QED BY <1>2, MigratorCounts, PTL DEF MQSpec, PromotedWhenHot
=============================================================================
