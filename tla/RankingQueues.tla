--------------------------- MODULE RankingQueues ---------------------------
(***************************************************************************)
(* The multi-level ranking queues with which MultiQueueMigrator tells hot  *)
(* pages from cold ones (nvmain/Utils/MultiQueueMigrator).  Every request  *)
(* that NVMain has seen is one access: the page joins the lowest queue or  *)
(* moves up according to its reference count, and then at most one expired *)
(* page leaves the front of every queue.                                   *)
(*                                                                         *)
(* A page is its key.  The channel stored in an entry is the one encoded   *)
(* in that key, so DRAMPages stands for "channelNumber ==                  *)
(* promotionChannel".                                                      *)
(***************************************************************************)
EXTENDS Integers, Sequences

CONSTANTS Pages,       \* keys of the pages requests may touch
          DRAMPages,   \* those that lie in the promotion channel
          QueueNum,    \* QUEUE_NUM
          LifeTime,    \* LIFE_TIME
          MaxTime      \* bound on the number of accesses explored

ASSUME RankingAssumption ==
    /\ DRAMPages \subseteq Pages
    /\ QueueNum \in Nat \ {0}
    /\ LifeTime \in Nat

VARIABLES rankingQueues,    \* one list of entries per level
          DRAMPageList,     \* promotion-channel pages ever accessed
          demotedDRAMList,  \* promotion-channel pages ever moved down
          currentTime       \* number of accesses so far

rvars == <<rankingQueues, DRAMPageList, demotedDRAMList, currentTime>>

Levels == 0 .. QueueNum - 1

PageType == [pageNumber : Pages, referenceCounter : Nat, expirationTime : Nat]

RankingInit ==
    /\ rankingQueues = [l \in Levels |-> <<>>]
    /\ DRAMPageList = {}
    /\ demotedDRAMList = {}
    /\ currentTime = 0

-----------------------------------------------------------------------------
\* Queue operations.  Each returns the queues after the call; now is the value
\* currentTime has during it.

InQueue(q, l, p) == \E i \in 1 .. Len(q[l]) : q[l][i].pageNumber = p

LocateQueue(q, p) ==
    IF \E l \in Levels : InQueue(q, l, p)
    THEN CHOOSE l \in Levels :
            InQueue(q, l, p) /\ \A k \in Levels : k < l => ~InQueue(q, k, p)
    ELSE -1

JoinQueue(q, p, now) ==
    [q EXCEPT ![0] = Append(@, [pageNumber |-> p, referenceCounter |-> 1,
                                expirationTime |-> now + LifeTime])]

\* 2 << pos: the reference count that lifts a page out of level pos.
PromotionCount(pos) == 2^(pos + 1)

\* Index of the first entry of p in the list s.
FirstIndex(s, p) ==
    CHOOSE i \in 1 .. Len(s) :
        s[i].pageNumber = p /\ \A j \in 1 .. i - 1 : s[j].pageNumber # p

\* list::erase of the i-th entry.
Erase(s, i) == SubSeq(s, 1, i - 1) \o SubSeq(s, i + 1, Len(s))

Accessed(e, now) == [pageNumber |-> e.pageNumber,
                     referenceCounter |-> e.referenceCounter + 1,
                     expirationTime |-> now + LifeTime]

\* Seeded fault: the old entry is not erased after the push.
AccessPageNoErase(q, pos, p, now) ==
    LET e == Accessed(q[pos][FirstIndex(q[pos], p)], now)
        up == pos < QueueNum - 1 /\ e.referenceCounter >= PromotionCount(pos)
    IN  [q EXCEPT ![IF up THEN pos + 1 ELSE pos] = Append(@, e)]

\* Seeded fault: every access lifts the page, whatever its count.
AccessPageAlwaysUp(q, pos, p, now) ==
    LET i == FirstIndex(q[pos], p)
        erased == [q EXCEPT ![pos] = Erase(@, i)]
    IN  [erased EXCEPT ![IF pos < QueueNum - 1 THEN pos + 1 ELSE pos] =
            Append(@, Accessed(q[pos][i], now))]

AccessPage(q, pos, p, now) ==
    LET i == FirstIndex(q[pos], p)
        e == Accessed(q[pos][i], now)
        up == pos < QueueNum - 1 /\ e.referenceCounter >= PromotionCount(pos)
        erased == [q EXCEPT ![pos] = Erase(@, i)]
        target == IF up THEN pos + 1 ELSE pos
    IN  [erased EXCEPT ![target] = Append(@, e)]

\* Seeded fault: a page expires one access early.
ExpiredEarly(q, l, now) == q[l] # <<>> /\ now >= Head(q[l]).expirationTime

Expired(q, l, now) == q[l] # <<>> /\ now > Head(q[l]).expirationTime

\* The expired front of level l goes down one level; otherwise it is dropped.
\* A promotion-channel page goes down only once: RemoveFromList works on a copy
\* of demotedDRAMList, so the list only grows.
Demotes(q, l, demoted, now) ==
    /\ l > 0
    /\ Expired(q, l, now)
    /\ Head(q[l]).pageNumber \notin DRAMPages \cap demoted

\* Seeded fault: a page that moves down keeps its old expiration time.
CheckQueueStaleTime(q, demoted, now) ==
    [l \in Levels |->
        (IF Expired(q, l, now) THEN Tail(q[l]) ELSE q[l]) \o
        (IF l + 1 \in Levels /\ Demotes(q, l + 1, demoted, now)
         THEN <<Head(q[l + 1])>> ELSE <<>>)]

\* The loop visits the levels upwards and a visit changes only its own level
\* and the one below, so every visit sees the front its level had at the start.
CheckQueue(q, demoted, now) ==
    [l \in Levels |->
        (IF Expired(q, l, now) THEN Tail(q[l]) ELSE q[l]) \o
        (IF l + 1 \in Levels /\ Demotes(q, l + 1, demoted, now)
         THEN <<[Head(q[l + 1]) EXCEPT !.expirationTime = now + LifeTime]>>
         ELSE <<>>)]

DemotedDRAM(q, demoted, now) ==
    {Head(q[l]).pageNumber : l \in {k \in Levels : Demotes(q, k, demoted, now)}}
        \cap DRAMPages

-----------------------------------------------------------------------------
Touched(q, p, now) ==
    IF LocateQueue(q, p) = -1
    THEN JoinQueue(q, p, now)
    ELSE AccessPage(q, LocateQueue(q, p), p, now)

\* The bookkeeping part of TryMigration for one request to page p.
Account(p) ==
    LET now == currentTime + 1
        touched == Touched(rankingQueues, p, now)
    IN  /\ currentTime < MaxTime
        /\ currentTime' = now
        /\ DRAMPageList' = DRAMPageList \cup ({p} \cap DRAMPages)
        /\ rankingQueues' = CheckQueue(touched, demotedDRAMList, now)
        /\ demotedDRAMList' =
              demotedDRAMList \cup DemotedDRAM(touched, demotedDRAMList, now)

RankingNext == \E p \in Pages : Account(p)

RankingSpec == RankingInit /\ [][RankingNext]_rvars

-----------------------------------------------------------------------------
\* Types of the ranking state (MultiQueueMigrator.h, private members).
RankingTypeOK ==
    /\ rankingQueues \in [Levels -> Seq(PageType)]
    /\ DRAMPageList \subseteq DRAMPages
    /\ demotedDRAMList \subseteq DRAMPages
    /\ currentTime \in Nat

\* A page has at most one entry in all the queues together.  LocateQueue and
\* AccessPage stop at the first entry they meet, so a second one would keep a
\* stale count and expire on its own.
OneEntryPerPage ==
    \A k, l \in Levels :
        \A i \in 1 .. Len(rankingQueues[k]), j \in 1 .. Len(rankingQueues[l]) :
            rankingQueues[k][i].pageNumber = rankingQueues[l][j].pageNumber
                => k = l /\ i = j

\* The front of a queue expires no later than any entry behind it, although
\* accesses and demotions both push to the back: this is what allows CheckQueue
\* to look at the front only.
FrontExpiresFirst ==
    \A l \in Levels :
        \A i, j \in 1 .. Len(rankingQueues[l]) :
            i <= j => rankingQueues[l][i].expirationTime
                        <= rankingQueues[l][j].expirationTime

\* A page above level 0 has at least the references that level asks for, also
\* after it was moved down and up again: reaching THRESHOLD_QUEUE proves heat.
CountMatchesLevel ==
    \A l \in Levels \ {0} :
        \A i \in 1 .. Len(rankingQueues[l]) :
            rankingQueues[l][i].referenceCounter >= PromotionCount(l - 1)

Tracked(q) == {p \in Pages : \E l \in Levels : InQueue(q, l, p)}

\* A page forgotten by the queues was expired: no access ever makes a page,
\* its own or another one, vanish while it is still within its life time.
ForgottenOnlyWhenExpired ==
    [][\A l \in Levels : \A i \in 1 .. Len(rankingQueues[l]) :
          rankingQueues[l][i].pageNumber \notin Tracked(rankingQueues')
             => currentTime' > rankingQueues[l][i].expirationTime]_rvars
=============================================================================
