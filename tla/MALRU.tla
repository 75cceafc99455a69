------------------------------- MODULE MALRU -------------------------------
(***************************************************************************)
(* The memory-aware tag store of gem5's cache (mem/cache/tags/ma_lru.cc)   *)
(* and the parts of Cache<MALRU> that drive it (mem/cache/cache_impl.hh).  *)
(* A set is kept in LRU order.  Each block has the type of the memory it   *)
(* came from, told by the latency of its fill, and an NVM block at the LRU *)
(* end is spared if a DRAM block lies below the border.  Accesses to       *)
(* sampled sets are replayed, in order, on one LRU stack per memory type   *)
(* to measure reuse distances: a hit is replayed at once unless an earlier *)
(* miss still waits for its response and hence for its type.               *)
(*                                                                         *)
(* The model is one sampled set; an address is its tag.  Requests carry    *)
(* block addresses, as they do below a first-level cache: misses are       *)
(* recorded under the address of the request, and the address of the       *)
(* response is aligned to a block.  Accesses are cacheable and come from   *)
(* above; uncacheable reads and prefetches, which get responses that       *)
(* insertRecvTime has no entry for, are left out.  addrList is only        *)
(* searched by address and from its end, so all that is kept of it is, for *)
(* each address, how many entries have no recvTime and what the last entry *)
(* reads.  The costs and the border computed at the end of a sampling      *)
(* interval are printed and not used.                                      *)
(***************************************************************************)
EXTENDS Integers, Sequences, FiniteSets

CONSTANTS Tags,                \* addresses of the set
          Other,               \* any tag of uninitialised memory
          assoc,
          SAMPLING_INTERVAL,
          MSHRs,               \* misses the cache can have outstanding
          InitialStacks,       \* what new Addr[assoc] may hold
          InitialCounts,       \* what new uint64_t[assoc + 1] may hold
          MaxAccesses,         \* bound on the accesses explored
          MaxInvalidations     \* bound on the blocks taken away or not delivered

ASSUME MALRUAssumption ==
    /\ assoc \in Nat \ {0}
    /\ SAMPLING_INTERVAL \in Nat
    /\ Other \notin Tags
    /\ InitialStacks \subseteq [1 .. assoc -> Tags \cup {Other}]
    /\ InitialCounts \subseteq Nat

DRAM == 0
PCM == 1
None == -1
Types == {DRAM, PCM}
Ways == 1 .. assoc
Distances == 0 .. assoc  \* assoc: not in the stack

VARIABLES blks,         \* the set, MRU first
          addrList,     \* misses of each address: those waiting, the last one
          outstanding,  \* responses each address still waits for
          sampling,     \* sampleQueue, the stacks and the counters
          recency,      \* (history) <<a, b>>: address a was touched since b was
          made,         \* (history) addresses of the samples made
          accesses,     \* number of accesses so far
          invalidations \* number of blocks taken away or not delivered so far

vars == <<blks, addrList, outstanding, sampling, recency, made,
          accesses, invalidations>>

MALRUInit ==
    /\ blks = [w \in Ways |-> [tag |-> Other, valid |-> FALSE, type |-> None]]
    /\ addrList = [a \in Tags |-> [waiting |-> 0, last |-> "none"]]
    /\ outstanding = [a \in Tags |-> 0]
    /\ recency = {}
    /\ made = <<>>
    /\ accesses = 0
    /\ invalidations = 0
    /\ \E s \in [Types -> InitialStacks], c \in InitialCounts :
          sampling = [sampleQueue |-> <<>>,
                      stack       |-> s,   \* DRAMStack, PCMStack
                      distance    |-> [t \in Types |-> [d \in Distances |-> c]],
                      sampleTimes |-> 0,
                      garbage     |-> c * 2 * (assoc + 1),  \* (history)
                      replayed    |-> <<>>]                 \* (history)

-----------------------------------------------------------------------------
(* Reuse distances. *)

\* Seeded fault: a reference that hits is counted but not moved to the top.
samplingReferenceNoMove(stack, a) ==
    IF \E i \in Ways : stack[i] = a THEN stack
    ELSE [i \in Ways |-> IF i = 1 THEN a ELSE stack[i - 1]]

\* A hit moves the tag to the top (moveToMRU), a miss pushes it.
samplingReference(stack, a) ==
    LET hit == \E i \in Ways : stack[i] = a
        at == CHOOSE i \in Ways : stack[i] = a /\ \A j \in 1 .. i - 1 : stack[j] # a
    IN  [i \in Ways |-> IF i = 1 THEN a
                        ELSE IF hit /\ i > at THEN stack[i] ELSE stack[i - 1]]

\* The position of a in the stack.
Distance(stack, a) ==
    IF \E i \in Ways : stack[i] = a
    THEN CHOOSE d \in 0 .. assoc - 1 : stack[d + 1] = a /\ \A j \in 1 .. d : stack[j] # a
    ELSE assoc

\* Seeded fault: the counters of NVM blocks are not cleared with the others.
referenceStackHalfReset(m, e) ==
    LET d == Distance(m.stack[e.type], e.addr)
        over == m.sampleTimes + 1 > SAMPLING_INTERVAL
        counted == [m.distance EXCEPT ![e.type][d] = @ + 1]
    IN  [m EXCEPT !.stack[e.type] = samplingReference(@, e.addr),
                  !.distance = IF over THEN [counted EXCEPT ![DRAM] = [i \in Distances |-> 0]]
                               ELSE counted,
                  !.sampleTimes = IF over THEN 0 ELSE @ + 1,
                  !.garbage = IF over THEN 0 ELSE @,
                  !.replayed = Append(@, [addr |-> e.addr, type |-> e.type,
                                          distance |-> d])]

\* One access is replayed; an interval ends after SAMPLING_INTERVAL + 1 of them.
referenceStack(m, e) ==
    LET d == Distance(m.stack[e.type], e.addr)
        over == m.sampleTimes + 1 > SAMPLING_INTERVAL
        counted == [m.distance EXCEPT ![e.type][d] = @ + 1]
    IN  [m EXCEPT !.stack[e.type] = samplingReference(@, e.addr),
                  !.distance = IF over THEN [t \in Types |-> [i \in Distances |-> 0]]
                               ELSE counted,
                  !.sampleTimes = IF over THEN 0 ELSE @ + 1,
                  !.garbage = IF over THEN 0 ELSE @,
                  !.replayed = Append(@, [addr |-> e.addr, type |-> e.type,
                                          distance |-> d])]

Sample(a, t) == [addr |-> a, type |-> t]

\* Seeded fault: a hit is replayed at once whatever is queued.
handleSampleAtOnce(m, a, t) == referenceStack(m, Sample(a, t))

handleSample(m, a, t) ==
    IF m.sampleQueue = <<>> THEN referenceStack(m, Sample(a, t))
    ELSE [m EXCEPT !.sampleQueue = Append(@, Sample(a, t))]

\* The first n samples of the queue are replayed.
Replay(m, queue, n) ==
    LET after[k \in 0 .. n] == IF k = 0 THEN m ELSE referenceStack(after[k - 1], queue[k])
    IN  after[n]

\* The first sample of a without a type gets one; all samples before the first
\* one that still has none are replayed.
typeSample(m, a, t) ==
    LET untyped == {i \in DOMAIN m.sampleQueue :
                       m.sampleQueue[i].addr = a /\ m.sampleQueue[i].type = None}
        first == CHOOSE i \in untyped : \A j \in untyped : i <= j
        queue == [m.sampleQueue EXCEPT ![first].type = t]
        blocked == {i \in DOMAIN queue : queue[i].type = None}
        ready == IF blocked = {} THEN Len(queue)
                 ELSE (CHOOSE i \in blocked : \A j \in blocked : i <= j) - 1
    IN  Replay([m EXCEPT !.sampleQueue = SubSeq(queue, ready + 1, Len(queue))],
               queue, ready)

-----------------------------------------------------------------------------
(* Latencies of misses. *)

\* The last entry of the address; one without recvTime reads as a huge latency.
isShortLatency(list, a) == list[a].last = "short"
TypeOf(list, a) == IF isShortLatency(list, a) THEN DRAM ELSE PCM

insertSendTime(list, a) ==
    [list EXCEPT ![a] = [waiting |-> @.waiting + 1, last |-> "pending"]]

\* The last entry of the address that has no recvTime gets it.
insertRecvTime(list, a, latency) ==
    [list EXCEPT ![a] = [waiting |-> @.waiting - 1,
                         last |-> IF @.last = "pending" THEN latency ELSE @.last]]

\* A miss leaves a sample without a type.
queueMiss(m, a) == [m EXCEPT !.sampleQueue = Append(@, Sample(a, None))]

-----------------------------------------------------------------------------
(* The set. *)

\* Seeded fault: the block changes places with the one at the head.
moveToHeadSwap(bs, w) ==
    [v \in Ways |-> IF v = 1 THEN bs[w] ELSE IF v = w THEN bs[1] ELSE bs[v]]

moveToHead(bs, w) ==
    [v \in Ways |-> IF v = 1 THEN bs[w] ELSE IF v <= w THEN bs[v - 1] ELSE bs[v]]

moveToTail(bs, w) ==
    [v \in Ways |-> IF v = assoc THEN bs[w] ELSE IF v >= w THEN bs[v + 1] ELSE bs[v]]

\* Seeded fault: an invalidated block keeps its type.
invalidateKeepType(bs, w) == moveToTail([bs EXCEPT ![w].valid = FALSE], w)

invalidate(bs, w) == moveToTail([bs EXCEPT ![w].valid = FALSE, ![w].type = None], w)

insertBlock(bs, w, a, t) ==
    moveToHead([bs EXCEPT ![w] = [tag |-> a, valid |-> TRUE, type |-> t]], w)

Holds(bs, w, a) == bs[w].valid /\ bs[w].tag = a
Present(bs, a) == \E w \in Ways : Holds(bs, w, a)
findBlk(bs, a) == CHOOSE w \in Ways : Holds(bs, w, a) /\ \A v \in Ways : Holds(bs, v, a) => w <= v

\* border: ways 1 .. border + 1 are above it.
border == (assoc \div 2) - 1

\* DRAM blocks below the border, if the LRU block came from NVM.
Instead(bs) == IF border # -1 /\ bs[assoc].type = PCM
               THEN {w \in border + 2 .. assoc - 1 : bs[w].type = DRAM} ELSE {}
findVictim(bs) == IF Instead(bs) = {} THEN assoc
                  ELSE CHOOSE w \in Instead(bs) : \A v \in Instead(bs) : v <= w

\* allocateBlock: a victim with an upgrade under way is not replaced.
Replaceable(bs) ==
    ~(bs[findVictim(bs)].valid /\ \E a \in Tags : bs[findVictim(bs)].tag = a /\ outstanding[a] > 0)

-----------------------------------------------------------------------------
(* The cache, which is blocked while all of its MSHRs are in use. *)

Touch(r, a) == {p \in r : p[2] # a} \cup {<<a, b>> : b \in Tags \ {a}}

\* The order is kept only for addresses in the set.
Still(r, bs) ==
    LET kept == {bs[w].tag : w \in {v \in Ways : bs[v].valid}}
    IN  {p \in r : p[1] \in kept /\ p[2] \in kept}

Accessed ==
    /\ accesses < MaxAccesses /\ accesses' = accesses + 1
    /\ Cardinality({a \in Tags : outstanding[a] > 0}) < MSHRs

Invalidated(gone) ==
    /\ gone => invalidations < MaxInvalidations
    /\ invalidations' = IF gone THEN invalidations + 1 ELSE invalidations

\* recvTimingReq, access satisfied, or the Writeback of a block that is here; an
\* exclusive read takes the block away.
Hit(a, givenUp) ==
    /\ Accessed /\ Invalidated(givenUp)
    /\ Present(blks, a)
    /\ LET w == findBlk(blks, a)
           touched == moveToHead(blks, w)
           left == IF givenUp THEN invalidate(touched, 1) ELSE touched
       IN  /\ blks' = left
           /\ recency' = Still(Touch(recency, a), left)
           /\ sampling' = handleSample(sampling, a, blks[w].type)
    /\ made' = Append(made, a)
    /\ UNCHANGED <<addrList, outstanding>>

\* Seeded fault: a miss that joins an outstanding one is not recorded.
MissRecordedOnce(a, deferred) ==
    /\ Accessed
    /\ deferred => outstanding[a] = 1
    /\ LET here == Present(blks, a)
           w == findBlk(blks, a)
           touched == IF here THEN moveToHead(blks, w) ELSE blks
           seen == IF here THEN handleSample(sampling, a, blks[w].type) ELSE sampling
       IN  /\ blks' = touched
           /\ sampling' = IF outstanding[a] = 0 THEN queueMiss(seen, a) ELSE seen
           /\ recency' = Still(IF here THEN Touch(recency, a) ELSE recency, touched)
           /\ made' = made \o (IF here THEN <<a, a>> ELSE <<a>>)
    /\ addrList' = IF outstanding[a] = 0 THEN insertSendTime(addrList, a) ELSE addrList
    /\ outstanding' = [outstanding EXCEPT ![a] = IF @ = 0 \/ deferred THEN @ + 1 ELSE @]
    /\ UNCHANGED invalidations

\* recvTimingReq, not satisfied: no block, or one without the permission.  The
\* miss gets an MSHR or becomes a target of the one there is, perhaps one
\* deferred to a second response.
Miss(a, deferred) ==
    /\ Accessed
    /\ deferred => outstanding[a] = 1
    /\ LET here == Present(blks, a)
           w == findBlk(blks, a)
           touched == IF here THEN moveToHead(blks, w) ELSE blks
           seen == IF here THEN handleSample(sampling, a, blks[w].type) ELSE sampling
       IN  /\ blks' = touched
           /\ sampling' = queueMiss(seen, a)
           /\ recency' = Still(IF here THEN Touch(recency, a) ELSE recency, touched)
           /\ made' = made \o (IF here THEN <<a, a>> ELSE <<a>>)
    /\ addrList' = insertSendTime(addrList, a)
    /\ outstanding' = [outstanding EXCEPT ![a] = IF @ = 0 \/ deferred THEN @ + 1 ELSE @]
    /\ UNCHANGED invalidations

\* recvTimingReq of a Writeback from a cache above, which got the block from
\* here, perhaps while a miss of the block is under way.  Without a block to
\* replace it goes on to the memory like a miss that nobody answers; that it then
\* finds no MSHR to join is assumed, since a target must take a response.
Writeback(a) ==
    /\ Accessed
    /\ ~Present(blks, a) /\ addrList[a].last # "none"
    /\ Replaceable(blks) \/ outstanding[a] = 0
    /\ IF Replaceable(blks)
       THEN /\ LET filled == insertBlock(blks, findVictim(blks), a, TypeOf(addrList, a))
               IN  blks' = filled /\ recency' = Still(Touch(recency, a), filled)
            /\ UNCHANGED <<addrList, sampling, made>>
       ELSE /\ addrList' = insertSendTime(addrList, a)
            /\ sampling' = queueMiss(sampling, a)
            /\ made' = Append(made, a)
            /\ UNCHANGED <<blks, recency>>
    /\ UNCHANGED <<outstanding, invalidations>>

\* Seeded fault: a response always brings in a new block.
FilledAnew(bs, a, t) ==
    IF Replaceable(bs) THEN insertBlock(bs, findVictim(bs), a, t) ELSE bs

\* handleFill: an upgraded or already filled block stays; without a block to
\* replace the data goes through tempBlock.
Filled(bs, a, t) ==
    IF ~Present(bs, a) /\ Replaceable(bs) THEN insertBlock(bs, findVictim(bs), a, t) ELSE bs

\* recvTimingResp.  One that is no fill (a failed or forwarded upgrade, an error)
\* leaves the set alone; dropped: a target or a snoop takes the block away.
Response(a, latency, isFill, dropped) ==
    /\ outstanding[a] > 0 /\ Invalidated(dropped \/ ~isFill)
    /\ LET list == insertRecvTime(addrList, a, latency)
           filled == IF isFill THEN Filled(blks, a, TypeOf(list, a)) ELSE blks
           left == IF dropped /\ Present(filled, a)
                   THEN invalidate(filled, findBlk(filled, a)) ELSE filled
       IN  /\ addrList' = list
           /\ sampling' = typeSample(sampling, a, TypeOf(list, a))
           /\ blks' = left
           /\ recency' = Still(IF Present(filled, a) /\ ~Present(blks, a)
                               THEN Touch(recency, a) ELSE recency, left)
    /\ outstanding' = [outstanding EXCEPT ![a] = @ - 1]
    /\ UNCHANGED <<made, accesses>>

\* handleSnoop, invalidating.
Snoop(a) ==
    /\ Present(blks, a) /\ Invalidated(TRUE)
    /\ LET left == invalidate(blks, findBlk(blks, a))
       IN  blks' = left /\ recency' = Still(recency, left)
    /\ UNCHANGED <<addrList, outstanding, sampling, made, accesses>>

MALRUNext ==
    \E a \in Tags :
        \/ \E givenUp \in BOOLEAN : Hit(a, givenUp)
        \/ \E deferred \in BOOLEAN : Miss(a, deferred)
        \/ Writeback(a)
        \/ \E latency \in {"short", "long"}, isFill, dropped \in BOOLEAN :
              Response(a, latency, isFill, dropped)
        \/ Snoop(a)

MALRUSpec == MALRUInit /\ [][MALRUNext]_vars

-----------------------------------------------------------------------------
(* Properties. *)

\* The valid blocks of a set have different tags: misses that share an MSHR,
\* deferred targets, writebacks from above and invalidations while a miss is
\* under way never bring a block in twice.
OneCopy ==
    \A v, w \in Ways : blks[v].valid /\ blks[w].valid /\ blks[v].tag = blks[w].tag => v = w

\* Invalid blocks "should be evicted before valid blocks" (invalidate): the
\* victim is invalid while the set has an invalid block, also with the detour
\* findVictim takes around NVM blocks.
InvalidEvictedFirst ==
    (\E w \in Ways : ~blks[w].valid) => ~blks[findVictim(blks)].valid

\* The valid blocks of the set stand in the order in which they were last
\* touched, whatever was invalidated or replaced in between.
RecencyOrder ==
    \A v, w \in Ways : blks[v].valid /\ blks[w].valid =>
        (v < w <=> <<blks[v].tag, blks[w].tag>> \in recency)

\* Every response to a cacheable demand miss finds an entry of addrList and a
\* sample that wait for it (the two assert(flag) of insertRecvTime), although
\* targets share responses and entries are matched from opposite ends.
ResponseExpected ==
    \A a \in Tags :
        /\ outstanding[a] <= addrList[a].waiting
        /\ outstanding[a] <= Cardinality({i \in DOMAIN sampling.sampleQueue :
                                 sampling.sampleQueue[i].addr = a
                                 /\ sampling.sampleQueue[i].type = None})

\* Accesses are replayed in the order in which they were made, hits behind
\* misses whose response decides on which stack they are replayed.
SamplesInOrder ==
    [i \in DOMAIN sampling.replayed |-> sampling.replayed[i].addr]
    \o [i \in DOMAIN sampling.sampleQueue |-> sampling.sampleQueue[i].addr] = made

\* The addresses replayed on stack t after the i-th sample and before the k-th.
Between(r, i, k, t) == {r[j].addr : j \in {j \in i + 1 .. k - 1 : r[j].type = t}}

ExactAt(r, k) ==
    \A i \in 1 .. k - 1 :
        LET between == Between(r, i, k, r[k].type)
        IN  r[i].addr = r[k].addr /\ r[i].type = r[k].type /\ r[k].addr \notin between
            => r[k].distance = IF Cardinality(between) < assoc THEN Cardinality(between)
                               ELSE assoc

\* The distance counted for an access to a tag seen before on the same stack is
\* the number of different tags replayed on that stack in between, or assoc if
\* there are that many.
DistanceExact == \A k \in DOMAIN sampling.replayed : ExactAt(sampling.replayed, k)

Total(distance) ==
    LET upTo[d \in Distances] == distance[DRAM][d] + distance[PCM][d]
                                 + (IF d = 0 THEN 0 ELSE upTo[d - 1])
    IN  upTo[assoc]

\* The two histograms add up to the samples of the current interval (and, in
\* the first one, to what the counters held before).
HistogramMatchesSamples ==
    Total(sampling.distance) = sampling.garbage + sampling.sampleTimes
=============================================================================
