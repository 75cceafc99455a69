---------------------------- MODULE MALRU_proofs ----------------------------
(***************************************************************************)
(* Proofs about the memory-aware tag store, for every associativity, set   *)
(* of tags, sampling interval and number of outstanding misses.            *)
(*                                                                         *)
(* The set: the inductive invariant SetInv adds to the checked invariants  *)
(* that the invalid blocks lie at the LRU end and have no memory type.     *)
(*                                                                         *)
(* The samples: SampleInv says where the replayed tags are on their stacks *)
(* (the tags above one are those replayed since), that the replayed and    *)
(* the queued samples are those made, in order, and that an entry of       *)
(* addrList and a sample without type wait for each response.  It rests on *)
(* lemmas about one reference of a stack, about replaying a queue and      *)
(* about the operations on the queue.                                      *)
(***************************************************************************)
EXTENDS MALRU, FiniteSetTheorems, TLAPS

\* The prover of the leaves that do not name one.
USE ZenonT(30)

Block == [tag : Tags \cup {Other}, valid : BOOLEAN, type : {None, DRAM, PCM}]

TypedSet(bs) == bs \in [Ways -> Block]

OneCopyIn(bs) ==
    \A v, w \in Ways : bs[v].valid /\ bs[w].valid /\ bs[v].tag = bs[w].tag => v = w

\* The invalid blocks lie behind the valid ones.
InvalidLast(bs) == \A v, w \in Ways : v < w /\ ~bs[v].valid => ~bs[w].valid

\* The invalid blocks, and only they, have no type.
InvalidUntyped(bs) == \A w \in Ways : IF bs[w].valid THEN bs[w].type \in Types /\ bs[w].tag \in Tags
                                      ELSE bs[w].type = None

GoodSet(bs) == TypedSet(bs) /\ OneCopyIn(bs) /\ InvalidLast(bs) /\ InvalidUntyped(bs)

\* The valid blocks stand in the order in which they were touched.
Before(bs, r, v, w) == bs[v].valid /\ bs[w].valid => (v < w <=> <<bs[v].tag, bs[w].tag>> \in r)
InOrder(bs, r) == \A v, w \in Ways : Before(bs, r, v, w)

SetInv == GoodSet(blks) /\ InOrder(blks, recency)

\* A set of natural numbers below a bound has a greatest element.
LEMMA GreatestElement ==
    ASSUME NEW n \in Nat, NEW T \in SUBSET (1 .. n), T # {}
    PROVE  \E w \in T : \A v \in T : v <= w
<1> DEFINE D == {n - w : w \in T}
<1>1. D # {} /\ D \subseteq Nat
  <2>1. ASSUME NEW w \in T PROVE n - w \in Nat
    <3>1. w \in 1 .. n
      OBVIOUS
    <3> QED BY SMTT(30), <3>1
  <2>2. PICK w \in T : TRUE
    OBVIOUS
  <2>3. n - w \in D
    BY <2>2
  <2> QED BY <2>1, <2>3
<1>2. PICK d \in D : \A m \in D : ~(<<m, d>> \in OpToRel(<, Nat))
  BY <1>1, NatLessThanWellFounded, WFMin
<1>3. PICK w \in T : d = n - w
  BY <1>2
<1>4. ASSUME NEW v \in T PROVE v <= w
  <2>1. n - v \in D /\ n - v \in Nat /\ n - w \in Nat
    BY <1>1, <1>3
  <2>2. ~(n - v < n - w)
    BY <1>2, <1>3, <2>1 DEF OpToRel
  <2> QED BY SMTT(30), <2>2
<1> QED BY <1>4

\* findVictim returns a way of the set, and an invalid block if there is one.
LEMMA VictimCorrect ==
    ASSUME NEW bs, GoodSet(bs)
    PROVE  /\ findVictim(bs) \in Ways
           /\ (\E w \in Ways : ~bs[w].valid) => ~bs[findVictim(bs)].valid
<1> DEFINE I == Instead(bs)
<1>1. assoc \in Ways
  BY SMTT(30), MALRUAssumption DEF Ways
<1>2. I \in SUBSET (1 .. assoc)
  <2>1. border # -1 => border + 2 >= 1
    BY SMTT(30), MALRUAssumption DEF border
  <2>2. border \in Int
    BY SMTT(30), MALRUAssumption DEF border
  <2> QED BY SMTT(30), <2>1, <2>2, MALRUAssumption DEF Instead
<1>3. findVictim(bs) \in Ways
  <2>1. CASE I = {}
    BY <2>1, <1>1 DEF findVictim
  <2>2. CASE I # {}
    <3>1. \E w \in I : \A v \in I : v <= w
      BY <2>2, <1>2, MALRUAssumption, GreatestElement
    <3>2. findVictim(bs) \in I
      BY <2>2, <3>1 DEF findVictim
    <3> QED BY <3>2, <1>2 DEF Ways
  <2> QED BY <2>1, <2>2
<1>4. ASSUME NEW w \in Ways, ~bs[w].valid PROVE ~bs[findVictim(bs)].valid
  <2>1. ~bs[assoc].valid
    BY SMTT(30), <1>1, <1>4, MALRUAssumption DEF GoodSet, InvalidLast, Ways
  <2>2. bs[assoc].type = None
    BY <1>1, <2>1 DEF GoodSet, InvalidUntyped
  <2>3. Instead(bs) = {}
    BY SMTT(30), <2>2 DEF Instead, None, PCM
  <2> QED BY <2>1, <2>3 DEF findVictim
<1> QED BY <1>3, <1>4

\* findBlk finds the one block that holds the address.
LEMMA FindCorrect ==
    ASSUME NEW bs, GoodSet(bs), NEW a, Present(bs, a)
    PROVE  findBlk(bs, a) \in Ways /\ bs[findBlk(bs, a)].valid /\ bs[findBlk(bs, a)].tag = a
<1>1. PICK w \in Ways : Holds(bs, w, a)
  BY DEF Present
<1>2. \A v \in Ways : Holds(bs, v, a) => v = w
  BY <1>1 DEF Holds, GoodSet, OneCopyIn
<1>3. w <= w
  BY SMTT(30), <1>1 DEF Ways
<1>4. findBlk(bs, a) \in Ways /\ Holds(bs, findBlk(bs, a), a)
  BY <1>1, <1>2, <1>3 DEF findBlk
<1> QED BY <1>4 DEF Holds

\* A valid block moves to the head; the others may have had any gap at its place.
LEMMA HeadGood ==
    ASSUME NEW bs, NEW w \in Ways, bs[w].valid,
           TypedSet(bs), OneCopyIn(bs), InvalidUntyped(bs),
           \A u, v \in Ways \ {w} : u < v /\ ~bs[u].valid => ~bs[v].valid
    PROVE  GoodSet(moveToHead(bs, w))
<1> DEFINE ms == moveToHead(bs, w)
           From(v) == IF v = 1 THEN w ELSE IF v <= w THEN v - 1 ELSE v
<1>0. assoc \in Nat /\ w \in 1 .. assoc
  BY MALRUAssumption DEF Ways
<1>1. \A v \in Ways : From(v) \in Ways /\ ms[v] = bs[From(v)]
  BY SMTT(30), <1>0 DEF moveToHead, Ways
<1>2. ms = [v \in Ways |-> ms[v]]
  BY DEF moveToHead
<1>3. \A u, v \in Ways : From(u) = From(v) => u = v
  BY SMTT(30), <1>0 DEF Ways
<1>4. \A u, v \in Ways : u < v /\ u # 1 => From(u) < From(v)
  BY SMTT(30), <1>0 DEF Ways
<1> HIDE DEF ms, From
<1>5. TypedSet(ms)
  BY <1>1, <1>2 DEF TypedSet
<1>6. OneCopyIn(ms)
  BY SMTT(30), <1>1, <1>3 DEF OneCopyIn
<1>7. InvalidUntyped(ms)
  BY <1>1 DEF InvalidUntyped
<1>8. InvalidLast(ms)
  <2> SUFFICES ASSUME NEW u \in Ways, NEW v \in Ways, u < v, ~ms[u].valid PROVE ~ms[v].valid
    BY DEF InvalidLast
  <2>1. From(1) = w
    BY DEF From
  <2>2. u # 1
    BY <1>1, <2>1
  <2>3. From(u) < From(v)
    BY <1>4, <2>2
  <2>4. From(u) # w /\ From(v) # w
    BY SMTT(30), <1>3, <2>1, <2>2, <1>0 DEF Ways
  <2> QED BY <2>3, <2>4, <1>1
<1> QED BY <1>5, <1>6, <1>7, <1>8 DEF GoodSet, ms

\* A block that moves to the head stands there as the one touched last.
LEMMA HeadInOrder ==
    ASSUME NEW bs, NEW w \in Ways, bs[w].valid, TypedSet(bs), OneCopyIn(bs), InvalidUntyped(bs),
           NEW r, \A u, v \in Ways \ {w} : Before(bs, r, u, v)
    PROVE  InOrder(moveToHead(bs, w), Touch(r, bs[w].tag))
<1> DEFINE ms == moveToHead(bs, w)
           From(v) == IF v = 1 THEN w ELSE IF v <= w THEN v - 1 ELSE v
           a == bs[w].tag
           now == Touch(r, a)
<1>0. assoc \in Nat /\ w \in 1 .. assoc
  BY MALRUAssumption DEF Ways
<1>1. \A v \in Ways : From(v) \in Ways /\ ms[v] = bs[From(v)]
  BY SMTT(30), <1>0 DEF moveToHead, Ways
<1>2. \A v \in Ways : From(v) = w <=> v = 1
  BY SMTT(30), <1>0 DEF Ways
<1>3. \A u, v \in Ways : u # 1 /\ v # 1 => (From(u) < From(v) <=> u < v)
  BY SMTT(30), <1>0 DEF Ways
<1>4. \A b, c \in Tags : <<b, c>> \in now <=> c # a /\ (<<b, c>> \in r \/ b = a)
  BY DEF Touch
<1> HIDE DEF ms, From, a, now
<1> SUFFICES ASSUME NEW u \in Ways, NEW v \in Ways, ms[u].valid, ms[v].valid
             PROVE  u < v <=> <<ms[u].tag, ms[v].tag>> \in now
  BY DEF InOrder, Before, ms, now, a
<1>5. /\ From(u) \in Ways /\ From(v) \in Ways /\ ms[u] = bs[From(u)] /\ ms[v] = bs[From(v)]
      /\ ms[u].tag \in Tags /\ ms[v].tag \in Tags
  BY <1>1 DEF InvalidUntyped
<1>6. /\ ms[u].tag = a <=> u = 1
      /\ ms[v].tag = a <=> v = 1
  BY <1>2, <1>5 DEF OneCopyIn, a
<1>7. CASE v = 1
  <2>1. <<ms[u].tag, ms[v].tag>> \notin now
    BY <1>4, <1>5, <1>6, <1>7
  <2> QED BY SMTT(30), <1>0, <1>7, <2>1 DEF Ways
<1>8. CASE v # 1 /\ u = 1
  <2>1. <<ms[u].tag, ms[v].tag>> \in now
    BY <1>4, <1>5, <1>6, <1>8
  <2> QED BY SMTT(30), <1>0, <1>8, <2>1 DEF Ways
<1>9. CASE v # 1 /\ u # 1
  <2>1. From(u) \in Ways \ {w} /\ From(v) \in Ways \ {w}
    BY <1>2, <1>5, <1>9
  <2>2. From(u) < From(v) <=> <<ms[u].tag, ms[v].tag>> \in r
    BY <1>5, <2>1 DEF Before
  <2>3. <<ms[u].tag, ms[v].tag>> \in now <=> <<ms[u].tag, ms[v].tag>> \in r
    BY <1>4, <1>5, <1>6, <1>9
  <2> QED BY <1>3, <1>9, <2>2, <2>3
<1> QED BY <1>7, <1>8, <1>9

\* Forgetting the order of addresses that are gone changes nothing for the others.
LEMMA StillInOrder ==
    ASSUME NEW bs, GoodSet(bs), NEW r, InOrder(bs, r)
    PROVE  InOrder(bs, Still(r, bs))
<1> SUFFICES ASSUME NEW v \in Ways, NEW w \in Ways, bs[v].valid, bs[w].valid
             PROVE  <<bs[v].tag, bs[w].tag>> \in Still(r, bs) <=> <<bs[v].tag, bs[w].tag>> \in r
  BY DEF InOrder, Before
<1> DEFINE kept == {bs[u].tag : u \in {u \in Ways : bs[u].valid}}
           p == <<bs[v].tag, bs[w].tag>>
<1>1. bs[v].tag \in kept /\ bs[w].tag \in kept
  OBVIOUS
<1>2. p[1] = bs[v].tag /\ p[2] = bs[w].tag
  OBVIOUS
<1>3. Still(r, bs) = {q \in r : q[1] \in kept /\ q[2] \in kept}
  BY DEF Still
<1> HIDE DEF kept, p
<1>4. p \in Still(r, bs) <=> p \in r
  BY <1>1, <1>2, <1>3
<1> QED BY <1>4 DEF p

\* A block that is invalidated loses its type and moves to the tail.
LEMMA InvalidateGood ==
    ASSUME NEW bs, GoodSet(bs), NEW w \in Ways
    PROVE  /\ GoodSet(invalidate(bs, w))
           /\ \A r : InOrder(bs, r) => InOrder(invalidate(bs, w), r)
<1> DEFINE cs == [bs EXCEPT ![w].valid = FALSE, ![w].type = None]
           ms == moveToTail(cs, w)
           From(v) == IF v = assoc THEN w ELSE IF v >= w THEN v + 1 ELSE v
<1>0. assoc \in Nat /\ w \in 1 .. assoc
  BY MALRUAssumption DEF Ways
<1>1. cs \in [Ways -> Block]
  <2>1. bs[w] \in Block /\ bs \in [Ways -> Block]
    BY DEF GoodSet, TypedSet
  <2>2. [bs[w] EXCEPT !.valid = FALSE] \in Block
    BY <2>1 DEF Block
  <2>3. [[bs[w] EXCEPT !.valid = FALSE] EXCEPT !.type = None] \in Block
    BY <2>2 DEF Block
  <2>4. cs = [bs EXCEPT ![w] = [[bs[w] EXCEPT !.valid = FALSE] EXCEPT !.type = None]]
    BY <2>1 DEF Block
  <2> QED BY <2>1, <2>3, <2>4
<1>2. cs[w].valid = FALSE /\ cs[w].type = None /\ cs[w].tag = bs[w].tag
  BY DEF GoodSet, TypedSet, Block
<1>3. \A v \in Ways : v # w => cs[v] = bs[v]
  BY DEF GoodSet, TypedSet
<1> HIDE DEF cs
<1>4. \A v \in Ways : From(v) \in Ways /\ ms[v] = cs[From(v)]
  BY SMTT(30), <1>0 DEF moveToTail, Ways
<1>5. ms = [v \in Ways |-> ms[v]]
  BY DEF moveToTail
<1>6. \A u, v \in Ways : From(u) = From(v) => u = v
  BY SMTT(30), <1>0 DEF Ways
<1>7. \A u, v \in Ways : u < v /\ v # assoc => From(u) < From(v) /\ From(u) # w
  BY SMTT(30), <1>0 DEF Ways
<1>8. From(assoc) = w /\ assoc \in Ways
  BY SMTT(30), <1>0 DEF Ways
<1> HIDE DEF ms, From
<1>9. TypedSet(ms)
  BY <1>4, <1>5, <1>1 DEF TypedSet
<1>10. OneCopyIn(ms)
  <2>1. \A u, v \in Ways : cs[u].valid /\ cs[v].valid /\ cs[u].tag = cs[v].tag => u = v
    BY <1>2, <1>3 DEF OneCopyIn, GoodSet
  <2> QED BY SMTT(30), <2>1, <1>4, <1>6 DEF OneCopyIn
<1>11. InvalidUntyped(ms)
  <2>1. InvalidUntyped(cs)
    BY <1>2, <1>3 DEF InvalidUntyped, GoodSet
  <2> QED BY <2>1, <1>4 DEF InvalidUntyped
<1>12. InvalidLast(ms)
  <2> SUFFICES ASSUME NEW u \in Ways, NEW v \in Ways, u < v, ~ms[u].valid PROVE ~ms[v].valid
    BY DEF InvalidLast
  <2>1. CASE v = assoc
    BY <2>1, <1>4, <1>8, <1>2
  <2>2. CASE v # assoc
    <3>1. From(u) < From(v) /\ From(u) # w
      BY <2>2, <1>7
    <3>2. ~bs[From(u)].valid /\ From(u) \in Ways /\ From(v) \in Ways
      BY <3>1, <1>4, <1>3
    <3>3. ~bs[From(v)].valid
      BY <3>1, <3>2 DEF GoodSet, InvalidLast
    <3> QED BY <3>2, <3>3, <1>4, <1>2, <1>3
  <2> QED BY <2>1, <2>2
<1>13. ASSUME NEW r, InOrder(bs, r) PROVE InOrder(ms, r)
  <2> SUFFICES ASSUME NEW u \in Ways, NEW v \in Ways, ms[u].valid, ms[v].valid
               PROVE  u < v <=> <<ms[u].tag, ms[v].tag>> \in r
    BY DEF InOrder, Before
  <2>1. From(u) # w /\ From(v) # w /\ From(u) \in Ways /\ From(v) \in Ways
    BY <1>2, <1>4
  <2>2. u # assoc /\ v # assoc
    BY <1>8, <2>1
  <2>3. From(u) < From(v) <=> u < v
    BY SMTT(30), <1>0, <1>6, <1>7, <2>1, <2>2 DEF Ways
  <2>4. ms[u] = bs[From(u)] /\ ms[v] = bs[From(v)]
    BY <1>3, <1>4, <2>1
  <2> QED BY <1>13, <2>1, <2>3, <2>4 DEF InOrder, Before
<1>14. invalidate(bs, w) = ms
  BY DEF invalidate, ms, cs
<1> QED BY <1>9, <1>10, <1>11, <1>12, <1>13, <1>14 DEF GoodSet

\* A block brought in takes the place of the victim and goes to the head.
LEMMA InsertGood ==
    ASSUME NEW bs, GoodSet(bs), NEW a \in Tags, ~Present(bs, a), NEW t \in Types
    PROVE  /\ GoodSet(insertBlock(bs, findVictim(bs), a, t))
           /\ \A r : InOrder(bs, r)
                     => InOrder(insertBlock(bs, findVictim(bs), a, t), Touch(r, a))
<1> DEFINE w == findVictim(bs)
           cs == [bs EXCEPT ![w] = [tag |-> a, valid |-> TRUE, type |-> t]]
<1>1. w \in Ways /\ ((\E v \in Ways : ~bs[v].valid) => ~bs[w].valid)
  BY VictimCorrect
<1>2. cs \in [Ways -> Block] /\ cs[w].valid /\ cs[w].tag = a /\ cs[w].type = t
  BY <1>1 DEF GoodSet, TypedSet, Block, Types
<1>3. \A v \in Ways : v # w => cs[v] = bs[v]
  BY DEF GoodSet, TypedSet
<1>4. \A v \in Ways : bs[v].valid => bs[v].tag # a
  BY DEF Present, Holds
<1> HIDE DEF w, cs
<1>5. OneCopyIn(cs)
  BY SMTT(30), <1>1, <1>2, <1>3, <1>4 DEF OneCopyIn, GoodSet
<1>6. InvalidUntyped(cs)
  BY <1>1, <1>2, <1>3 DEF InvalidUntyped, GoodSet
<1>7. \A u, v \in Ways \ {w} : u < v /\ ~cs[u].valid => ~cs[v].valid
  BY <1>3 DEF GoodSet, InvalidLast
<1>8. GoodSet(moveToHead(cs, w))
  BY <1>1, <1>2, <1>5, <1>6, <1>7, HeadGood DEF TypedSet
<1>9. ASSUME NEW r, InOrder(bs, r) PROVE InOrder(moveToHead(cs, w), Touch(r, a))
  <2>1. \A u, v \in Ways \ {w} : Before(cs, r, u, v)
    BY <1>3, <1>9 DEF InOrder, Before
  <2> QED BY <1>1, <1>2, <1>5, <1>6, <2>1, HeadInOrder DEF TypedSet
<1>10. insertBlock(bs, findVictim(bs), a, t) = moveToHead(cs, w)
  BY DEF insertBlock, cs, w
<1> QED BY <1>8, <1>9, <1>10

\* A block brought in is there.
LEMMA InsertPresent ==
    ASSUME NEW bs, GoodSet(bs), NEW a \in Tags, NEW t \in Types
    PROVE  Present(insertBlock(bs, findVictim(bs), a, t), a)
<1>1. findVictim(bs) \in Ways /\ 1 \in Ways
  BY SMTT(30), VictimCorrect, MALRUAssumption DEF Ways
<1>2. insertBlock(bs, findVictim(bs), a, t)[1] = [tag |-> a, valid |-> TRUE, type |-> t]
  BY <1>1 DEF insertBlock, moveToHead, GoodSet, TypedSet
<1> QED BY SMTT(30), <1>1, <1>2 DEF Present, Holds

\* A block that is accessed moves to the head.
LEMMA TouchGood ==
    ASSUME NEW bs, GoodSet(bs), NEW a, Present(bs, a)
    PROVE  /\ GoodSet(moveToHead(bs, findBlk(bs, a)))
           /\ \A r : InOrder(bs, r) => InOrder(moveToHead(bs, findBlk(bs, a)), Touch(r, a))
<1>1. findBlk(bs, a) \in Ways /\ bs[findBlk(bs, a)].valid /\ bs[findBlk(bs, a)].tag = a
  BY FindCorrect
<1>2. GoodSet(moveToHead(bs, findBlk(bs, a)))
  BY <1>1, HeadGood DEF GoodSet, InvalidLast
<1>3. ASSUME NEW r, InOrder(bs, r)
      PROVE  InOrder(moveToHead(bs, findBlk(bs, a)), Touch(r, a))
  BY <1>1, <1>3, HeadInOrder DEF GoodSet, InOrder
<1> QED BY <1>2, <1>3

\* What a step does to the set and the order of its addresses.
SetStep(cs, r) == GoodSet(cs) /\ InOrder(cs, r)

\* Every step keeps the set in order.
LEMMA SetInvStep == SetInv /\ [MALRUNext]_vars => SetInv'
<1> SUFFICES ASSUME SetInv, [MALRUNext]_vars PROVE SetStep(blks', recency')
  BY DEF SetInv, SetStep, GoodSet, TypedSet, OneCopyIn, InvalidLast, InvalidUntyped, InOrder, Before
<1>0. GoodSet(blks) /\ InOrder(blks, recency)
  BY DEF SetInv
<1>s. ASSUME NEW cs, NEW r, GoodSet(cs), InOrder(cs, r) PROVE SetStep(cs, Still(r, cs))
  BY <1>s, StillInOrder DEF SetStep
<1>1. ASSUME NEW a \in Tags, NEW givenUp \in BOOLEAN, Hit(a, givenUp)
      PROVE  SetStep(blks', recency')
  <2> DEFINE touched == moveToHead(blks, findBlk(blks, a))
  <2>1. GoodSet(touched) /\ InOrder(touched, Touch(recency, a))
    BY <1>0, <1>1, TouchGood DEF Hit
  <2>2. 1 \in Ways
    BY SMTT(30), MALRUAssumption DEF Ways
  <2>3. GoodSet(invalidate(touched, 1)) /\ InOrder(invalidate(touched, 1), Touch(recency, a))
    BY <2>1, <2>2, InvalidateGood
  <2>4. /\ blks' = IF givenUp THEN invalidate(touched, 1) ELSE touched
        /\ recency' = Still(Touch(recency, a), blks')
    BY <1>1 DEF Hit
  <2> HIDE DEF touched
  <2> QED BY <1>s, <2>1, <2>3, <2>4
<1>2. ASSUME NEW a \in Tags, NEW deferred \in BOOLEAN, Miss(a, deferred)
      PROVE  SetStep(blks', recency')
  <2>1. /\ blks' = IF Present(blks, a) THEN moveToHead(blks, findBlk(blks, a)) ELSE blks
        /\ recency' = Still(IF Present(blks, a) THEN Touch(recency, a) ELSE recency, blks')
    BY <1>2 DEF Miss
  <2>2. CASE Present(blks, a)
    BY <1>0, <1>s, <2>1, <2>2, TouchGood
  <2>3. CASE ~Present(blks, a)
    BY <1>0, <1>s, <2>1, <2>3
  <2> QED BY <2>2, <2>3
<1>3. ASSUME NEW a \in Tags, Writeback(a) PROVE SetStep(blks', recency')
  <2>1. ~Present(blks, a) /\ TypeOf(addrList, a) \in Types
    BY <1>3 DEF Writeback, TypeOf, Types
  <2> DEFINE filled == insertBlock(blks, findVictim(blks), a, TypeOf(addrList, a))
  <2>2. GoodSet(filled) /\ InOrder(filled, Touch(recency, a))
    BY <1>0, <2>1, InsertGood
  <2>3. \/ blks' = filled /\ recency' = Still(Touch(recency, a), blks')
        \/ blks' = blks /\ recency' = recency
    BY <1>3 DEF Writeback
  <2> HIDE DEF filled
  <2> QED BY <1>0, <1>s, <2>2, <2>3 DEF SetStep
<1>4. ASSUME NEW a \in Tags, NEW latency, NEW isFill \in BOOLEAN, NEW dropped \in BOOLEAN,
             Response(a, latency, isFill, dropped)
      PROVE  SetStep(blks', recency')
  <2> DEFINE t == TypeOf(insertRecvTime(addrList, a, latency), a)
             filled == IF isFill THEN Filled(blks, a, t) ELSE blks
             touched == IF Present(filled, a) /\ ~Present(blks, a)
                        THEN Touch(recency, a) ELSE recency
  <2>1. t \in Types
    BY DEF TypeOf, Types
  <2>2. GoodSet(filled) /\ InOrder(filled, touched)
    <3>1. CASE Present(blks, a)
      <4>1. filled = blks /\ touched = recency
        BY <3>1 DEF Filled
      <4> HIDE DEF filled, touched
      <4> QED BY <1>0, <4>1
    <3>2. CASE ~Present(blks, a)
      <4> DEFINE inserted == insertBlock(blks, findVictim(blks), a, t)
      <4>1. GoodSet(inserted) /\ InOrder(inserted, Touch(recency, a))
        BY <1>0, <2>1, <3>2, InsertGood
      <4>2. CASE ~isFill \/ ~Replaceable(blks)
        <5>1. filled = blks
          BY <4>2 DEF Filled
        <5>2. touched = recency
          BY <3>2, <5>1
        <5> HIDE DEF filled, touched
        <5> QED BY <1>0, <5>1, <5>2
      <4>3. CASE isFill /\ Replaceable(blks)
        <5>1. filled = inserted
          BY <3>2, <4>3 DEF Filled
        <5>2. Present(inserted, a)
          BY <1>0, <2>1, <3>2, InsertPresent
        <5>3. touched = Touch(recency, a)
          BY <3>2, <5>1, <5>2
        <5> HIDE DEF filled, touched, inserted
        <5> QED BY <4>1, <5>1, <5>3
      <4> QED BY <4>2, <4>3
    <3> QED BY <3>1, <3>2
  <2>3. /\ blks' = IF dropped /\ Present(filled, a)
                   THEN invalidate(filled, findBlk(filled, a)) ELSE filled
        /\ recency' = Still(touched, blks')
    BY <1>4 DEF Response
  <2> HIDE DEF filled, touched
  <2>4. ASSUME Present(filled, a)
        PROVE  /\ GoodSet(invalidate(filled, findBlk(filled, a)))
               /\ InOrder(invalidate(filled, findBlk(filled, a)), touched)
    <3>1. findBlk(filled, a) \in Ways
      BY <2>2, <2>4, FindCorrect
    <3> QED BY <2>2, <3>1, InvalidateGood
  <2> QED BY <1>s, <2>2, <2>3, <2>4
<1>5. ASSUME NEW a \in Tags, Snoop(a) PROVE SetStep(blks', recency')
  <2>1. findBlk(blks, a) \in Ways
    BY <1>0, <1>5, FindCorrect DEF Snoop
  <2>2. /\ GoodSet(invalidate(blks, findBlk(blks, a)))
        /\ InOrder(invalidate(blks, findBlk(blks, a)), recency)
    BY <1>0, <2>1, InvalidateGood
  <2> QED BY <1>s, <1>5, <2>2 DEF Snoop
<1>6. CASE UNCHANGED vars
  BY <1>0, <1>6 DEF vars, SetStep
<1> QED BY <1>1, <1>2, <1>3, <1>4, <1>5, <1>6 DEF MALRUNext

\* SetInv holds initially.
LEMMA SetInvInit == MALRUInit => SetInv
BY SMTT(30) DEF MALRUInit, SetInv, GoodSet, TypedSet, OneCopyIn, InvalidLast, InvalidUntyped, Block,
       InOrder, Before

\* SetInv is an invariant.
LEMMA SetInvAlways == MALRUSpec => []SetInv
BY SetInvInit, SetInvStep, PTL DEF MALRUSpec

\* A set never holds an address twice, whatever misses share MSHRs and whatever
\* is written back, snooped or given up in between.
THEOREM SetOneCopy == MALRUSpec => []OneCopy
<1>1. SetInv => OneCopy
  BY DEF SetInv, GoodSet, OneCopyIn, OneCopy
<1> QED BY <1>1, SetInvAlways, PTL

\* No valid block is evicted from a set that has an invalid one, for every
\* associativity and place of the border.
THEOREM SetInvalidEvictedFirst == MALRUSpec => []InvalidEvictedFirst
<1>1. SetInv => InvalidEvictedFirst
  BY VictimCorrect DEF SetInv, InvalidEvictedFirst
<1> QED BY <1>1, SetInvAlways, PTL

\* The valid blocks of a set stand in the order in which they were last touched,
\* for every associativity: the detour of findVictim, invalidations and fills
\* without a touch leave the order of the others alone.
THEOREM SetRecency == MALRUSpec => []RecencyOrder
<1>1. SetInv => RecencyOrder
  BY DEF SetInv, InOrder, Before, RecencyOrder
<1> QED BY <1>1, SetInvAlways, PTL

-----------------------------------------------------------------------------
(* Stacks of tags. *)

Stacks == [Ways -> Tags \cup {Other}]

\* A set of natural numbers that is not empty has a least element.
LEMMA LeastElement ==
    ASSUME NEW T \in SUBSET Nat, T # {}
    PROVE  \E n \in T : \A m \in T : n <= m
<1>1. PICK n \in T : \A m \in T : ~(<<m, n>> \in OpToRel(<, Nat))
  BY NatLessThanWellFounded, WFMin
<1>2. ASSUME NEW m \in T PROVE ~(m < n)
  BY <1>1 DEF OpToRel
<1> QED BY SMTT(30), <1>2

\* A set of places that is not empty has a first one, and CHOOSE finds it.
LEMMA FirstPlace ==
    ASSUME NEW stack, NEW a, \E i \in Ways : stack[i] = a
    PROVE  \E d \in 0 .. assoc - 1 : stack[d + 1] = a /\ \A j \in 1 .. d : stack[j] # a
<1> DEFINE T == {i \in Ways : stack[i] = a}
<1>1. T \in SUBSET Nat /\ T # {}
  BY SMTT(30) DEF Ways
<1>2. PICK n \in T : \A m \in T : n <= m
  BY <1>1, LeastElement
<1>3. n - 1 \in 0 .. assoc - 1 /\ n - 1 + 1 = n
  BY SMTT(30), MALRUAssumption DEF Ways
<1>4. \A j \in 1 .. n - 1 : stack[j] # a
  BY SMTT(30), <1>2, MALRUAssumption DEF Ways
<1>5. stack[n - 1 + 1] = a
  BY <1>3
<1> QED BY <1>3, <1>4, <1>5

\* Distance is the number of places above the first one of the tag.
LEMMA DistanceCorrect ==
    ASSUME NEW stack, NEW a
    PROVE  /\ Distance(stack, a) \in Distances
           /\ \A j \in 1 .. Distance(stack, a) : stack[j] # a
           /\ Distance(stack, a) < assoc => stack[Distance(stack, a) + 1] = a
<1> DEFINE d == Distance(stack, a)
           First(n) == stack[n + 1] = a /\ \A j \in 1 .. n : stack[j] # a
<1>1. CASE \E i \in Ways : stack[i] = a
  <2>1. \E n \in 0 .. assoc - 1 : First(n)
    BY <1>1, FirstPlace
  <2>2. d = CHOOSE n \in 0 .. assoc - 1 : First(n)
    BY <1>1 DEF Distance
  <2> HIDE DEF d, First
  <2>3. d \in 0 .. assoc - 1 /\ First(d)
    BY <2>1, <2>2
  <2>4. d \in Distances
    BY SMTT(30), <2>3, MALRUAssumption DEF Distances
  <2> QED BY <2>3, <2>4 DEF d, First
<1>2. CASE ~\E i \in Ways : stack[i] = a
  <2>1. d = assoc
    BY <1>2 DEF Distance
  <2> HIDE DEF d
  <2> QED BY SMTT(30), <1>2, <2>1, MALRUAssumption DEF d, Ways, Distances
<1> QED BY <1>1, <1>2

\* The first place of a tag is the only one with none above it.
LEMMA DistanceUnique ==
    ASSUME NEW stack, NEW a, NEW d \in 0 .. assoc - 1, stack[d + 1] = a,
           \A j \in 1 .. d : stack[j] # a
    PROVE  Distance(stack, a) = d
<1> DEFINE e == Distance(stack, a)
<1>1. /\ e \in Distances /\ \A j \in 1 .. e : stack[j] # a
      /\ e < assoc => stack[e + 1] = a
  BY DistanceCorrect
<1> HIDE DEF e
<1>2. e \in Int /\ d \in Int
  BY SMTT(30), <1>1, MALRUAssumption DEF Distances
<1>3. ~(e < d)
  <2> SUFFICES ASSUME e < d PROVE FALSE
    OBVIOUS
  <2>1. e + 1 \in 1 .. d /\ e < assoc
    BY SMTT(30), <1>1, <1>2, MALRUAssumption DEF Distances
  <2> QED BY <1>1, <2>1
<1>4. ~(d < e)
  <2> SUFFICES ASSUME d < e PROVE FALSE
    OBVIOUS
  <2>1. d + 1 \in 1 .. e
    BY SMTT(30), <1>1, <1>2, MALRUAssumption DEF Distances
  <2> QED BY <1>1, <2>1
<1> QED BY SMTT(30), <1>2, <1>3, <1>4 DEF e

\* A tag that is referenced goes to the top, and those above its place move down.
LEMMA ReferenceMoves ==
    ASSUME NEW stack \in Stacks, NEW a \in Tags
    PROVE  /\ samplingReference(stack, a) \in Stacks
           /\ samplingReference(stack, a)[1] = a
           /\ \A i \in 2 .. assoc : samplingReference(stack, a)[i]
                = IF i > Distance(stack, a) + 1 THEN stack[i] ELSE stack[i - 1]
<1> DEFINE d == Distance(stack, a)
           n == samplingReference(stack, a)
           hit == \E i \in Ways : stack[i] = a
           at == CHOOSE i \in Ways : stack[i] = a /\ \A j \in 1 .. i - 1 : stack[j] # a
<1>0. assoc \in Nat /\ assoc > 0
  BY SMTT(30), MALRUAssumption
<1>1. /\ d \in Distances /\ \A j \in 1 .. d : stack[j] # a
      /\ d < assoc => stack[d + 1] = a
  BY DistanceCorrect
<1>2. n = [i \in Ways |-> IF i = 1 THEN a
                          ELSE IF hit /\ i > at THEN stack[i] ELSE stack[i - 1]]
  BY DEF samplingReference
<1>3. hit => at = d + 1
  <2> SUFFICES ASSUME hit PROVE at = d + 1
    OBVIOUS
  <2>1. \E e \in 0 .. assoc - 1 : stack[e + 1] = a /\ \A j \in 1 .. e : stack[j] # a
    BY FirstPlace
  <2>2. PICK e \in 0 .. assoc - 1 : stack[e + 1] = a /\ \A j \in 1 .. e : stack[j] # a
    BY <2>1
  <2>3. e + 1 \in Ways /\ e + 1 - 1 = e
    BY SMTT(30), <1>0 DEF Ways
  <2>4. \E i \in Ways : stack[i] = a /\ \A j \in 1 .. i - 1 : stack[j] # a
    BY SMTT(30), <2>2, <2>3
  <2> HIDE DEF hit
  <2>5. at \in Ways /\ stack[at] = a /\ \A j \in 1 .. at - 1 : stack[j] # a
    BY <2>4
  <2> HIDE DEF at
  <2>6. at - 1 \in 0 .. assoc - 1 /\ at - 1 + 1 = at
    BY SMTT(30), <1>0, <2>5 DEF Ways
  <2>7. stack[at - 1 + 1] = a
    BY <2>5, <2>6
  <2>8. d = at - 1
    BY <2>5, <2>6, <2>7, DistanceUnique
  <2> HIDE DEF d
  <2> QED BY <2>6, <2>8
<1>4. ~hit => d = assoc
  BY DEF Distance
<1> HIDE DEF n, d, at, hit
<1>5. ASSUME NEW i \in 2 .. assoc PROVE n[i] = IF i > d + 1 THEN stack[i] ELSE stack[i - 1]
  <2>1. i \in Ways /\ i # 1 /\ i - 1 \in Ways
    BY SMTT(30), <1>0 DEF Ways
  <2>2. n[i] = IF hit /\ i > at THEN stack[i] ELSE stack[i - 1]
    BY <1>2, <2>1
  <2>3. (hit /\ i > at) <=> i > d + 1
    BY SMTT(30), <1>0, <1>1, <1>3, <1>4 DEF Distances
  <2> QED BY <2>2, <2>3
<1>6. n[1] = a
  BY SMTT(30), <1>0, <1>2 DEF Ways
<1>7. n \in Stacks
  <2>1. ASSUME NEW i \in Ways PROVE n[i] \in Tags \cup {Other}
    <3>1. CASE i = 1
      BY <1>6, <3>1
    <3>2. CASE i # 1
      <4>1. i \in 2 .. assoc /\ i - 1 \in Ways
        BY SMTT(30), <1>0, <3>2 DEF Ways
      <4>2. stack[i] \in Tags \cup {Other} /\ stack[i - 1] \in Tags \cup {Other}
        BY <4>1 DEF Stacks
      <4> QED BY <1>5, <4>1, <4>2
    <3> QED BY <3>1, <3>2
  <2>2. n = [i \in Ways |-> n[i]]
    BY <1>2
  <2> QED BY <2>1, <2>2 DEF Stacks
<1> QED BY <1>5, <1>6, <1>7 DEF n, d
\* Where a tag is after the tags B were referenced since it was: below exactly
\* these, or no longer in the stack because there are too many of them.
StackAt(stack, a, B) ==
    /\ IsFiniteSet(B)
    /\ a \notin B =>
         \/ \E d \in 0 .. assoc - 1 : /\ stack[d + 1] = a
                                      /\ B = {stack[j] : j \in 1 .. d}
                                      /\ Cardinality(B) = d
         \/ Cardinality(B) >= assoc /\ \A j \in Ways : stack[j] # a

\* The distance of a tag is the number of tags referenced since it was.
LEMMA StackDistance ==
    ASSUME NEW stack, NEW a, NEW B, StackAt(stack, a, B), a \notin B
    PROVE  Distance(stack, a) = IF Cardinality(B) < assoc THEN Cardinality(B) ELSE assoc
<1>0. Cardinality(B) \in Nat /\ assoc \in Nat
  BY MALRUAssumption, FS_CardinalityType DEF StackAt
<1>1. ASSUME NEW d \in 0 .. assoc - 1, stack[d + 1] = a, B = {stack[j] : j \in 1 .. d},
             Cardinality(B) = d
      PROVE  Distance(stack, a) = IF Cardinality(B) < assoc THEN Cardinality(B) ELSE assoc
  <2>1. \A j \in 1 .. d : stack[j] # a
    BY <1>1
  <2>2. Distance(stack, a) = d
    BY <1>1, <2>1, DistanceUnique
  <2>3. d < assoc
    BY SMTT(30), <1>0, <1>1
  <2> QED BY <1>1, <2>2, <2>3
<1>2. ASSUME Cardinality(B) >= assoc, \A j \in Ways : stack[j] # a
      PROVE  Distance(stack, a) = IF Cardinality(B) < assoc THEN Cardinality(B) ELSE assoc
  <2>1. Distance(stack, a) = assoc
    BY <1>2 DEF Distance
  <2>2. ~(Cardinality(B) < assoc)
    BY SMTT(30), <1>0, <1>2
  <2> QED BY <2>1, <2>2
<1> QED BY <1>1, <1>2 DEF StackAt

\* The tag referenced is at the top.
LEMMA StackTop ==
    ASSUME NEW stack \in Stacks, NEW a \in Tags
    PROVE  StackAt(samplingReference(stack, a), a, {})
<1>1. samplingReference(stack, a)[0 + 1] = a
  BY SMTT(30), ReferenceMoves
<1>2. 0 \in 0 .. assoc - 1 /\ 1 .. 0 = {}
  BY SMTT(30), MALRUAssumption
<1>3. {samplingReference(stack, a)[j] : j \in 1 .. 0} = {}
  BY <1>2
<1> QED BY <1>1, <1>2, <1>3, FS_EmptySet DEF StackAt

\* The other tags are below one tag more, or below the same ones.
LEMMA StackOthers ==
    ASSUME NEW stack \in Stacks, NEW a, NEW b \in Tags, a # b, NEW B, StackAt(stack, a, B)
    PROVE  StackAt(samplingReference(stack, b), a, B \cup {b})
<1> DEFINE n == samplingReference(stack, b)
           e == Distance(stack, b)
           C == B \cup {b}
<1>0. assoc \in Nat /\ assoc > 0 /\ IsFiniteSet(B) /\ Cardinality(B) \in Nat
  <2>1. assoc \in Nat /\ assoc > 0
    BY SMTT(30), MALRUAssumption
  <2>2. IsFiniteSet(B) /\ Cardinality(B) \in Nat
    BY FS_CardinalityType DEF StackAt
  <2> QED BY <2>1, <2>2
<1>1. IsFiniteSet(C) /\ Cardinality(C) = IF b \in B THEN Cardinality(B) ELSE Cardinality(B) + 1
  BY <1>0, FS_AddElement
<1>2. /\ n \in Stacks /\ n[1] = b
      /\ \A i \in 2 .. assoc : n[i] = IF i > e + 1 THEN stack[i] ELSE stack[i - 1]
  BY ReferenceMoves
<1>3. /\ e \in Distances /\ \A j \in 1 .. e : stack[j] # b
      /\ e < assoc => stack[e + 1] = b
  BY DistanceCorrect
<1> HIDE DEF n, e
<1>e. e \in Nat
  BY SMTT(30), <1>0, <1>3 DEF Distances
<1> SUFFICES ASSUME a \notin C
             PROVE  \/ \E d \in 0 .. assoc - 1 : /\ n[d + 1] = a
                                                 /\ C = {n[j] : j \in 1 .. d}
                                                 /\ Cardinality(C) = d
                    \/ Cardinality(C) >= assoc /\ \A j \in Ways : n[j] # a
  BY <1>1 DEF StackAt, n
<1>5. ASSUME Cardinality(B) >= assoc, \A j \in Ways : stack[j] # a
      PROVE  Cardinality(C) >= assoc /\ \A j \in Ways : n[j] # a
  <2>1. Cardinality(C) >= assoc
    BY SMTT(30), <1>0, <1>1, <1>5
  <2>2. ASSUME NEW j \in Ways PROVE n[j] # a
    <3>1. CASE j = 1
      BY <1>2, <3>1
    <3>2. CASE j # 1
      <4>1. j \in 2 .. assoc /\ j - 1 \in Ways
        BY SMTT(30), <1>0, <3>2 DEF Ways
      <4> QED BY <1>2, <1>5, <4>1
    <3> QED BY <3>1, <3>2
  <2> QED BY <2>1, <2>2
<1>6. ASSUME NEW d \in 0 .. assoc - 1, stack[d + 1] = a, B = {stack[j] : j \in 1 .. d},
             Cardinality(B) = d, b \in B
      PROVE  n[d + 1] = a /\ C = {n[j] : j \in 1 .. d} /\ Cardinality(C) = d
  <2>1. C = B /\ Cardinality(C) = d
    BY <1>1, <1>6
  <2>2. PICK k \in 1 .. d : stack[k] = b
    BY <1>6
  <2>3. e + 1 <= k
    <3> SUFFICES ASSUME k <= e PROVE FALSE
      BY SMTT(30), <1>e
    <3>1. k \in 1 .. e
      BY SMTT(30), <1>e
    <3> QED BY <1>3, <2>2, <3>1
  <2>4. e + 1 \in 1 .. d /\ e < assoc /\ stack[e + 1] = b
    BY SMTT(30), <1>0, <1>3, <1>e, <2>3
  <2>5. d + 1 \in 2 .. assoc /\ d + 1 > e + 1
    BY SMTT(30), <1>0, <1>e, <2>4
  <2>6. n[d + 1] = a
    BY <1>2, <1>6, <2>5
  <2>7. ASSUME NEW j \in 1 .. d PROVE n[j] \in B
    <3>1. CASE j = 1
      BY <1>2, <1>6, <3>1
    <3>2. CASE j # 1
      <4>1. j \in 2 .. assoc /\ j - 1 \in 1 .. d
        BY SMTT(30), <1>0, <3>2
      <4>2. n[j] = stack[j] \/ n[j] = stack[j - 1]
        BY <1>2, <4>1
      <4> QED BY <1>6, <4>1, <4>2
    <3> QED BY <3>1, <3>2
  <2>8. ASSUME NEW x \in B PROVE \E j \in 1 .. d : n[j] = x
    <3>1. PICK i \in 1 .. d : x = stack[i]
      BY <1>6
    <3>2. CASE i <= e
      <4>1. i + 1 \in 2 .. assoc /\ i + 1 \in 1 .. d /\ ~(i + 1 > e + 1) /\ i + 1 - 1 = i
        BY SMTT(30), <1>0, <1>e, <2>4, <3>2
      <4>2. n[i + 1] = stack[i + 1 - 1]
        BY SMTT(30), <1>2, <4>1
      <4> QED BY <3>1, <4>1, <4>2
    <3>3. CASE i = e + 1
      <4>1. x = b /\ 1 \in 1 .. d
        BY SMTT(30), <2>4, <3>1, <3>3
      <4> QED BY <1>2, <4>1
    <3>4. CASE i > e + 1
      <4>1. i \in 2 .. assoc
        BY SMTT(30), <1>0, <1>e, <3>4
      <4>2. n[i] = stack[i]
        BY <1>2, <3>4, <4>1
      <4> QED BY <3>1, <4>2
    <3> QED BY SMTT(30), <1>e, <3>2, <3>3, <3>4
  <2>9. B = {n[j] : j \in 1 .. d}
    BY <2>7, <2>8
  <2> QED BY <2>1, <2>6, <2>9
<1>7. ASSUME NEW d \in 0 .. assoc - 1, stack[d + 1] = a, B = {stack[j] : j \in 1 .. d},
             Cardinality(B) = d, b \notin B
      PROVE  /\ Cardinality(C) = d + 1
             /\ C = {n[j] : j \in 1 .. d + 1}
             /\ d + 1 < assoc => n[d + 1 + 1] = a
  <2>1. Cardinality(C) = d + 1
    BY <1>1, <1>7
  <2>2. e >= d + 1
    <3> SUFFICES ASSUME e < d + 1 PROVE FALSE
      BY SMTT(30), <1>e
    <3>1. e < assoc /\ e + 1 \in 1 .. d + 1
      BY SMTT(30), <1>0, <1>e
    <3>2. stack[e + 1] = b
      BY <1>3, <3>1
    <3>3. CASE e + 1 = d + 1
      BY <1>7, <3>2, <3>3
    <3>4. CASE e + 1 # d + 1
      <4>1. e + 1 \in 1 .. d
        BY SMTT(30), <1>e, <3>1, <3>4
      <4> QED BY <1>7, <3>2, <4>1
    <3> QED BY <3>3, <3>4
  <2>3. ASSUME NEW j \in 2 .. d + 2, j <= assoc PROVE n[j] = stack[j - 1]
    <3>1. j \in 2 .. assoc /\ ~(j > e + 1)
      BY SMTT(30), <1>0, <1>e, <2>2, <2>3
    <3> QED BY <1>2, <3>1
  <2>4. ASSUME d + 1 < assoc PROVE n[d + 1 + 1] = a
    <3>1. d + 1 + 1 \in 2 .. d + 2 /\ d + 1 + 1 <= assoc /\ d + 1 + 1 - 1 = d + 1
      BY SMTT(30), <1>0, <2>4
    <3>2. n[d + 1 + 1] = stack[d + 1 + 1 - 1]
      BY SMTT(30), <2>3, <3>1
    <3> QED BY <1>7, <3>1, <3>2
  <2>5. ASSUME NEW j \in 1 .. d + 1 PROVE n[j] \in C
    <3>1. CASE j = 1
      BY <1>2, <3>1
    <3>2. CASE j # 1
      <4>1. j \in 2 .. d + 2 /\ j <= assoc /\ j - 1 \in 1 .. d
        BY SMTT(30), <1>0, <3>2
      <4>2. n[j] = stack[j - 1]
        BY <2>3, <4>1
      <4> QED BY <1>7, <4>1, <4>2
    <3> QED BY <3>1, <3>2
  <2>6. ASSUME NEW x \in C PROVE \E j \in 1 .. d + 1 : n[j] = x
    <3>1. CASE x = b
      <4>1. 1 \in 1 .. d + 1
        BY SMTT(30)
      <4> QED BY <1>2, <3>1, <4>1
    <3>2. CASE x # b
      <4>1. PICK i \in 1 .. d : x = stack[i]
        BY <1>7, <3>2
      <4>2. i + 1 \in 2 .. d + 2 /\ i + 1 <= assoc /\ i + 1 \in 1 .. d + 1 /\ i + 1 - 1 = i
        BY SMTT(30), <1>0
      <4>3. n[i + 1] = stack[i + 1 - 1]
        BY SMTT(30), <2>3, <4>2
      <4> QED BY <4>1, <4>2, <4>3
    <3> QED BY <3>1, <3>2
  <2>7. C = {n[j] : j \in 1 .. d + 1}
    <3> HIDE DEF C
    <3> QED BY <2>5, <2>6
  <2> QED BY <2>1, <2>4, <2>7
<1>8. ASSUME NEW d \in 0 .. assoc - 1, stack[d + 1] = a, B = {stack[j] : j \in 1 .. d},
             Cardinality(B) = d, b \notin B
      PROVE  \/ \E k \in 0 .. assoc - 1 : /\ n[k + 1] = a
                                          /\ C = {n[j] : j \in 1 .. k}
                                          /\ Cardinality(C) = k
             \/ Cardinality(C) >= assoc /\ \A j \in Ways : n[j] # a
  <2>1. /\ Cardinality(C) = d + 1
        /\ C = {n[j] : j \in 1 .. d + 1}
        /\ d + 1 < assoc => n[d + 1 + 1] = a
    BY <1>7, <1>8
  <2> HIDE DEF C
  <2>2. CASE d + 1 < assoc
    <3>1. d + 1 \in 0 .. assoc - 1
      BY SMTT(30), <1>0, <2>2
    <3> QED BY <2>1, <2>2, <3>1
  <2>3. CASE ~(d + 1 < assoc)
    <3>1. d + 1 = assoc
      BY SMTT(30), <1>0, <2>3
    <3>2. Cardinality(C) >= assoc
      BY SMTT(30), <1>0, <2>1, <3>1
    <3>3. \A j \in Ways : n[j] # a
      BY <2>1, <3>1 DEF Ways
    <3> QED BY <3>2, <3>3
  <2> QED BY <2>2, <2>3
<1>9. a \notin B
  OBVIOUS
<1> HIDE DEF C
<1> QED BY <1>5, <1>6, <1>8, <1>9 DEF StackAt

-----------------------------------------------------------------------------
(* Sums of counters. *)

Counters == [Types -> [Distances -> Nat]]

\* The recursion of Total, up to n.
Sums(distance, n, f) ==
    [d \in 0 .. n |-> distance[DRAM][d] + distance[PCM][d] + (IF d = 0 THEN 0 ELSE f[d - 1])]

\* The sums up to any counter exist.
LEMMA SumsExist ==
    ASSUME NEW distance, NEW n \in Nat
    PROVE  \E f : f = Sums(distance, n, f)
<1> DEFINE T == {k \in Nat : ~\E f : f = Sums(distance, k, f)}
<1> SUFFICES ASSUME T # {} PROVE FALSE
  OBVIOUS
<1>1. PICK k \in T : \A m \in T : k <= m
  <2>1. T \in SUBSET Nat
    OBVIOUS
  <2> HIDE DEF T
  <2> QED BY <2>1, LeastElement
<1>2. k \in Nat /\ ~\E f : f = Sums(distance, k, f)
  OBVIOUS
<1>3. CASE k = 0
  <2> DEFINE g == [d \in 0 .. 0 |-> distance[DRAM][d] + distance[PCM][d] + 0]
  <2>1. g = Sums(distance, 0, g)
    BY SMTT(30) DEF Sums
  <2> QED BY <1>2, <1>3, <2>1
<1>4. CASE k # 0
  <2>1. k - 1 \in Nat /\ ~(k <= k - 1)
    BY SMTT(30), <1>2, <1>4
  <2>2. PICK f : f = Sums(distance, k - 1, f)
    BY <1>1, <2>1
  <2> DEFINE g == [d \in 0 .. k |-> IF d = k THEN distance[DRAM][d] + distance[PCM][d] + f[k - 1]
                                    ELSE f[d]]
  <2>3. ASSUME NEW d \in 0 .. k
        PROVE  g[d] = distance[DRAM][d] + distance[PCM][d] + (IF d = 0 THEN 0 ELSE g[d - 1])
    <3>1. CASE d = k
      <4>1. d # 0 /\ k - 1 \in 0 .. k /\ k - 1 # k
        BY SMTT(30), <1>2, <1>4, <3>1
      <4>2. g[d] = distance[DRAM][d] + distance[PCM][d] + f[k - 1] /\ g[k - 1] = f[k - 1]
        BY <3>1, <4>1
      <4> HIDE DEF g
      <4> QED BY <3>1, <4>1, <4>2
    <3>2. CASE d # k
      <4>1. d \in 0 .. k - 1
        BY SMTT(30), <1>2, <3>2
      <4>2. g[d] = f[d]
        BY <3>2
      <4>3. f[d] = distance[DRAM][d] + distance[PCM][d] + (IF d = 0 THEN 0 ELSE f[d - 1])
        BY ONLY ZenonT(30), <2>2, <4>1 DEF Sums
      <4>4. CASE d = 0
        <5> HIDE DEF g
        <5> QED BY <4>2, <4>3, <4>4
      <4>5. CASE d # 0
        <5>1. d - 1 \in 0 .. k /\ d - 1 # k
          BY SMTT(30), <1>2, <4>1, <4>5
        <5>2. g[d - 1] = f[d - 1]
          BY <5>1
        <5> HIDE DEF g
        <5> QED BY <4>2, <4>3, <4>5, <5>2
      <4> QED BY <4>4, <4>5
    <3> QED BY <3>1, <3>2
  <2>4. g = [d \in 0 .. k |-> g[d]]
    OBVIOUS
  <2> HIDE DEF g
  <2>5. g = Sums(distance, k, g)
    BY <2>3, <2>4 DEF Sums
  <2> QED BY <1>2, <2>5
<1> QED BY <1>3, <1>4

\* Total is the last of the sums.
LEMMA TotalIs ==
    ASSUME NEW distance
    PROVE  \E f : f = Sums(distance, assoc, f) /\ Total(distance) = f[assoc]
<1> DEFINE f == CHOOSE f : f = Sums(distance, assoc, f)
<1>1. \E g : g = Sums(distance, assoc, g)
  BY MALRUAssumption, SumsExist DEF MALRUAssumption
<1>2. f = Sums(distance, assoc, f)
  BY <1>1
<1>3. Total(distance) = f[assoc]
  BY DEF Total, Sums, Distances
<1> HIDE DEF f
<1> QED BY <1>2, <1>3

\* What each of the sums is.
LEMMA SumSteps ==
    ASSUME NEW distance \in Counters, NEW f, f = Sums(distance, assoc, f), NEW d \in Distances
    PROVE  /\ f[d] \in Nat
           /\ distance[DRAM][d] \in Nat /\ distance[PCM][d] \in Nat
           /\ f[d] = distance[DRAM][d] + distance[PCM][d] + (IF d = 0 THEN 0 ELSE f[d - 1])
<1> DEFINE T == {k \in Distances : f[k] \notin Nat}
<1>0. assoc \in Nat
  BY MALRUAssumption
<1>1. ASSUME NEW k \in Distances
      PROVE  /\ distance[DRAM][k] \in Nat /\ distance[PCM][k] \in Nat
             /\ f[k] = distance[DRAM][k] + distance[PCM][k] + (IF k = 0 THEN 0 ELSE f[k - 1])
  <2>1. distance[DRAM][k] \in Nat /\ distance[PCM][k] \in Nat
    BY DEF Counters, Types
  <2>2. f[k] = distance[DRAM][k] + distance[PCM][k] + (IF k = 0 THEN 0 ELSE f[k - 1])
    BY ONLY ZenonT(30), f = Sums(distance, assoc, f), k \in Distances DEF Sums, Distances
  <2> QED BY <2>1, <2>2
<1>2. T = {}
  <2> SUFFICES ASSUME T # {} PROVE FALSE
    OBVIOUS
  <2>1. T \in SUBSET Nat
    BY SMTT(30), <1>0 DEF Distances
  <2>2. PICK k \in T : \A m \in T : k <= m
    <3> HIDE DEF T
    <3> QED BY <2>1, LeastElement
  <2>3. k \in Distances /\ f[k] \notin Nat
    OBVIOUS
  <2>4. CASE k = 0
    <3>1. f[k] = distance[DRAM][k] + distance[PCM][k] + 0
      BY <1>1, <2>3, <2>4
    <3>2. distance[DRAM][k] \in Nat /\ distance[PCM][k] \in Nat
      BY <1>1, <2>3
    <3> QED BY SMTT(30), <2>3, <3>1, <3>2
  <2>5. CASE k # 0
    <3>1. k - 1 \in Distances /\ ~(k <= k - 1)
      BY SMTT(30), <1>0, <2>3, <2>5 DEF Distances
    <3>2. f[k - 1] \in Nat
      BY <2>2, <3>1
    <3>3. f[k] = distance[DRAM][k] + distance[PCM][k] + f[k - 1]
      BY <1>1, <2>3, <2>5
    <3>4. distance[DRAM][k] \in Nat /\ distance[PCM][k] \in Nat
      BY <1>1, <2>3
    <3> QED BY SMTT(30), <2>3, <3>2, <3>3, <3>4
  <2> QED BY <2>4, <2>5
<1> QED BY <1>1, <1>2

\* Counting one sample adds one to the total.
LEMMA TotalCounts ==
    ASSUME NEW distance \in Counters, NEW t \in Types, NEW e \in Distances
    PROVE  /\ [distance EXCEPT ![t][e] = @ + 1] \in Counters
           /\ Total(distance) \in Nat
           /\ Total([distance EXCEPT ![t][e] = @ + 1]) = Total(distance) + 1
<1> DEFINE counted == [distance EXCEPT ![t][e] = @ + 1]
<1>0. assoc \in Nat /\ assoc \in Distances
  BY SMTT(30), MALRUAssumption DEF Distances
<1>1. distance[t] \in [Distances -> Nat] /\ distance[t][e] + 1 \in Nat
  BY SMTT(30) DEF Counters
<1>2. counted \in Counters
  BY <1>1 DEF Counters
<1>3. \A d \in Distances : counted[DRAM][d] + counted[PCM][d]
                           = distance[DRAM][d] + distance[PCM][d] + (IF d = e THEN 1 ELSE 0)
  BY SMTT(30) DEF Counters, Types, DRAM, PCM
<1> HIDE DEF counted
<1>4. PICK f : f = Sums(distance, assoc, f) /\ Total(distance) = f[assoc]
  BY TotalIs
<1>5. PICK g : g = Sums(counted, assoc, g) /\ Total(counted) = g[assoc]
  BY TotalIs
<1>6. \A d \in Distances : /\ f[d] \in Nat
                           /\ distance[DRAM][d] \in Nat /\ distance[PCM][d] \in Nat
                           /\ f[d] = distance[DRAM][d] + distance[PCM][d]
                                     + (IF d = 0 THEN 0 ELSE f[d - 1])
  BY <1>4, SumSteps
<1>7. \A d \in Distances : /\ g[d] \in Nat
                           /\ counted[DRAM][d] \in Nat /\ counted[PCM][d] \in Nat
                           /\ g[d] = counted[DRAM][d] + counted[PCM][d]
                                     + (IF d = 0 THEN 0 ELSE g[d - 1])
  BY <1>2, <1>5, SumSteps
<1> DEFINE T == {k \in Distances : g[k] # f[k] + (IF k >= e THEN 1 ELSE 0)}
<1>8. T = {}
  <2> SUFFICES ASSUME T # {} PROVE FALSE
    OBVIOUS
  <2>1. T \in SUBSET Nat
    BY SMTT(30), <1>0 DEF Distances
  <2>2. PICK k \in T : \A m \in T : k <= m
    <3> HIDE DEF T
    <3> QED BY <2>1, LeastElement
  <2>3. k \in Distances /\ g[k] # f[k] + (IF k >= e THEN 1 ELSE 0)
    OBVIOUS
  <2>4. CASE k = 0
    <3>1. g[k] = counted[DRAM][k] + counted[PCM][k] + 0 /\ f[k] = distance[DRAM][k] + distance[PCM][k] + 0
      BY <1>6, <1>7, <2>3, <2>4
    <3>2. counted[DRAM][k] + counted[PCM][k] = distance[DRAM][k] + distance[PCM][k] + (IF k = e THEN 1 ELSE 0)
      BY <1>3, <2>3
    <3>3. distance[DRAM][k] \in Nat /\ distance[PCM][k] \in Nat
      BY <1>6, <2>3
    <3>4. counted[DRAM][k] \in Nat /\ counted[PCM][k] \in Nat
      BY <1>7, <2>3
    <3> HIDE DEF T
    <3> QED BY SMTT(30), <1>0, <2>3, <2>4, <3>1, <3>2, <3>3, <3>4 DEF Distances
  <2>5. CASE k # 0
    <3>1. k - 1 \in Distances /\ ~(k <= k - 1)
      BY SMTT(30), <1>0, <2>3, <2>5 DEF Distances
    <3>2. g[k - 1] = f[k - 1] + (IF k - 1 >= e THEN 1 ELSE 0) /\ f[k - 1] \in Nat /\ g[k - 1] \in Nat
      BY <1>6, <1>7, <2>2, <3>1
    <3>3. g[k] = counted[DRAM][k] + counted[PCM][k] + g[k - 1] /\ f[k] = distance[DRAM][k] + distance[PCM][k] + f[k - 1]
      BY <1>6, <1>7, <2>3, <2>5
    <3>4. counted[DRAM][k] + counted[PCM][k] = distance[DRAM][k] + distance[PCM][k] + (IF k = e THEN 1 ELSE 0)
      BY <1>3, <2>3
    <3>5. distance[DRAM][k] \in Nat /\ distance[PCM][k] \in Nat
      BY <1>6, <2>3
    <3>6. counted[DRAM][k] \in Nat /\ counted[PCM][k] \in Nat
      BY <1>7, <2>3
    <3> HIDE DEF T
    <3> QED BY SMTT(30), <1>0, <2>3, <2>5, <3>2, <3>3, <3>4, <3>5, <3>6 DEF Distances
  <2> QED BY <2>4, <2>5
<1>9. g[assoc] = f[assoc] + (IF assoc >= e THEN 1 ELSE 0)
  BY <1>0, <1>8
<1>10. assoc >= e /\ f[assoc] \in Nat
  <2>1. f[assoc] \in Nat
    BY <1>0, <1>6
  <2> QED BY SMTT(30), <1>0, <2>1 DEF Distances
<1>11. g[assoc] = f[assoc] + 1
  BY <1>9, <1>10
<1> QED BY <1>2, <1>4, <1>5, <1>10, <1>11 DEF counted

\* Counters that all hold c add up to c for each of them.
LEMMA TotalEqual ==
    ASSUME NEW c \in Nat
    PROVE  /\ [t \in Types |-> [d \in Distances |-> c]] \in Counters
           /\ Total([t \in Types |-> [d \in Distances |-> c]]) = c * 2 * (assoc + 1)
<1> DEFINE distance == [t \in Types |-> [d \in Distances |-> c]]
<1>0. assoc \in Nat /\ assoc \in Distances
  BY SMTT(30), MALRUAssumption DEF Distances
<1>1. distance \in Counters
  BY DEF Counters
<1>2. \A d \in Distances : distance[DRAM][d] + distance[PCM][d] = c + c
  BY DEF Types
<1> HIDE DEF distance
<1>3. PICK f : f = Sums(distance, assoc, f) /\ Total(distance) = f[assoc]
  BY TotalIs
<1>4. \A d \in Distances : /\ f[d] \in Nat
                           /\ f[d] = distance[DRAM][d] + distance[PCM][d]
                                     + (IF d = 0 THEN 0 ELSE f[d - 1])
  BY <1>1, <1>3, SumSteps
<1> DEFINE T == {k \in Distances : f[k] # c * 2 * (k + 1)}
<1>5. T = {}
  <2> SUFFICES ASSUME T # {} PROVE FALSE
    OBVIOUS
  <2>1. T \in SUBSET Nat
    BY SMTT(30), <1>0 DEF Distances
  <2>2. PICK k \in T : \A m \in T : k <= m
    <3> HIDE DEF T
    <3> QED BY <2>1, LeastElement
  <2>3. k \in Distances /\ f[k] # c * 2 * (k + 1)
    OBVIOUS
  <2>4. CASE k = 0
    <3>1. f[k] = distance[DRAM][k] + distance[PCM][k] + 0 /\ distance[DRAM][k] + distance[PCM][k] = c + c
      BY <1>2, <1>4, <2>3, <2>4
    <3>2. c * 2 * (0 + 1) = c + c + 0
      BY SMTT(30)
    <3> HIDE DEF T
    <3> QED BY <2>3, <2>4, <3>1, <3>2
  <2>5. CASE k # 0
    <3>1. k - 1 \in Distances /\ ~(k <= k - 1) /\ k \in Nat
      BY SMTT(30), <1>0, <2>3, <2>5 DEF Distances
    <3>2. f[k - 1] = c * 2 * (k - 1 + 1)
      BY <2>2, <3>1
    <3>3. f[k] = distance[DRAM][k] + distance[PCM][k] + f[k - 1] /\ distance[DRAM][k] + distance[PCM][k] = c + c
      BY <1>2, <1>4, <2>3, <2>5
    <3>4. c * 2 * (k + 1) = c + c + c * 2 * (k - 1 + 1)
      BY SMTT(30), <3>1
    <3> HIDE DEF T
    <3> QED BY <2>3, <3>2, <3>3, <3>4
  <2> QED BY <2>4, <2>5
<1>6. f[assoc] = c * 2 * (assoc + 1)
  BY <1>0, <1>5
<1> QED BY <1>1, <1>3, <1>6 DEF distance

-----------------------------------------------------------------------------
(* Replaying samples. *)

Queued == [addr : Tags, type : Types \cup {None}]
Results == [addr : Tags, type : Types, distance : Distances]

Sampling == [sampleQueue : Seq(Queued), stack : [Types -> Stacks], distance : Counters,
             sampleTimes : Nat, garbage : Nat, replayed : Seq(Results)]

\* What is queued and what was replayed are sequences.
LEMMA SamplingFields ==
    \A m \in Sampling : m.sampleQueue \in Seq(Queued) /\ m.replayed \in Seq(Results)
BY DEF Sampling

Recorded(m) == Total(m.distance) = m.garbage + m.sampleTimes

\* Every tag replayed is where the tags replayed since put it.
StacksFit(r, stack) ==
    \A i \in 1 .. Len(r) :
        StackAt(stack[r[i].type], r[i].addr, Between(r, i, Len(r) + 1, r[i].type))

AllExact(r) == \A k \in 1 .. Len(r) : ExactAt(r, k)

GoodSampling(m) == /\ m \in Sampling /\ Recorded(m)
                   /\ StacksFit(m.replayed, m.stack) /\ AllExact(m.replayed)

\* s is r with one result more.
OneMore(r, s, x) == /\ Len(s) = Len(r) + 1 /\ s[Len(s)] = x
                    /\ \A j \in 1 .. Len(r) : s[j] = r[j]

\* What is replayed between two results does not depend on what comes later.
LEMMA BetweenPrefix ==
    ASSUME NEW r \in Seq(Results), NEW s \in Seq(Results), NEW x, OneMore(r, s, x),
           NEW i \in 1 .. Len(r), NEW k \in 1 .. Len(r) + 1, NEW t
    PROVE  Between(s, i, k, t) = Between(r, i, k, t)
<1>1. \A j \in i + 1 .. k - 1 : s[j] = r[j]
  BY SMTT(30) DEF OneMore
<1> QED BY <1>1 DEF Between

BetweenGrows(r, s, i, t, x) ==
    /\ x.type = t => Between(s, i, Len(s) + 1, t) = Between(r, i, Len(r) + 1, t) \cup {x.addr}
    /\ x.type # t => Between(s, i, Len(s) + 1, t) = Between(r, i, Len(r) + 1, t)

\* The last result is replayed after all others.
LEMMA BetweenLast ==
    ASSUME NEW r \in Seq(Results), NEW s \in Seq(Results), NEW x, OneMore(r, s, x),
           NEW i \in 1 .. Len(r), NEW t
    PROVE  BetweenGrows(r, s, i, t, x)
<1>1. Len(r) \in Nat /\ Len(s) = Len(r) + 1
  BY SMTT(30) DEF OneMore
<1>2. \A j \in i + 1 .. Len(r) : s[j] = r[j]
  BY SMTT(30) DEF OneMore
<1>3. \A j : j \in i + 1 .. Len(s) + 1 - 1 <=> j \in i + 1 .. Len(r) + 1 - 1 \/ j = Len(s)
  BY SMTT(30), <1>1
<1>4. \A j : j \in i + 1 .. Len(r) + 1 - 1 => s[j] = r[j]
  BY SMTT(30), <1>1, <1>2
<1>5. s[Len(s)] = x
  BY DEF OneMore
<1>6. ASSUME NEW y
      PROVE  y \in Between(s, i, Len(s) + 1, t)
             <=> y \in Between(r, i, Len(r) + 1, t) \/ (x.type = t /\ y = x.addr)
  <2> DEFINE S == {j \in i + 1 .. Len(s) + 1 - 1 : s[j].type = t}
             R == {j \in i + 1 .. Len(r) + 1 - 1 : r[j].type = t}
  <2>1. \A j : j \in S <=> j \in R \/ (j = Len(s) /\ x.type = t)
    BY <1>3, <1>4, <1>5
  <2>2. \A j \in R : s[j] = r[j]
    BY <1>4
  <2>3. y \in Between(s, i, Len(s) + 1, t) <=> \E j \in S : y = s[j].addr
    BY SMTT(30) DEF Between
  <2>4. y \in Between(r, i, Len(r) + 1, t) <=> \E j \in R : y = r[j].addr
    BY SMTT(30) DEF Between
  <2> HIDE DEF S, R
  <2> QED BY <1>5, <2>1, <2>2, <2>3, <2>4
<1> QED BY <1>6 DEF BetweenGrows

\* A sample that is replayed is counted at its distance and goes to the top of its stack.
LEMMA ReferenceFields ==
    ASSUME NEW m \in Sampling, NEW e \in Queued, e.type \in Types
    PROVE  /\ referenceStack(m, e) \in Sampling
           /\ referenceStack(m, e).sampleQueue = m.sampleQueue
           /\ referenceStack(m, e).replayed
                = Append(m.replayed, [addr |-> e.addr, type |-> e.type,
                                      distance |-> Distance(m.stack[e.type], e.addr)])
           /\ referenceStack(m, e).stack
                = [m.stack EXCEPT ![e.type] = samplingReference(@, e.addr)]
           /\ Recorded(m) => Recorded(referenceStack(m, e))
<1> DEFINE t == e.type
           d == Distance(m.stack[t], e.addr)
           over == m.sampleTimes + 1 > SAMPLING_INTERVAL
           counted == [m.distance EXCEPT ![t][d] = @ + 1]
           zero == [u \in Types |-> [i \in Distances |-> 0]]
           result == [addr |-> e.addr, type |-> t, distance |-> d]
           stack == [m.stack EXCEPT ![t] = samplingReference(@, e.addr)]
           distance == IF over THEN zero ELSE counted
           times == IF over THEN 0 ELSE m.sampleTimes + 1
           garbage == IF over THEN 0 ELSE m.garbage
           replayed == Append(m.replayed, result)
           n == [m EXCEPT !.stack = stack, !.distance = distance, !.sampleTimes = times,
                          !.garbage = garbage, !.replayed = replayed]
<1>1. /\ m.stack \in [Types -> Stacks] /\ m.distance \in Counters /\ m.sampleTimes \in Nat
      /\ m.garbage \in Nat /\ m.replayed \in Seq(Results) /\ e.addr \in Tags /\ t \in Types
  BY DEF Sampling, Queued
<1>2. d \in Distances /\ m.stack[t] \in Stacks
  BY <1>1, DistanceCorrect
<1>3. n = referenceStack(m, e)
  BY DEF referenceStack
<1>4. samplingReference(m.stack[t], e.addr) \in Stacks
  BY <1>1, <1>2, ReferenceMoves
<1>5. stack \in [Types -> Stacks]
  BY <1>1, <1>4
<1> HIDE DEF d, t
<1>6. result \in Results
  BY <1>1, <1>2 DEF Results
<1> HIDE DEF stack, result
<1>7. replayed \in Seq(Results)
  BY SMTT(30), <1>1, <1>6
<1>8. /\ counted \in Counters /\ Total(m.distance) \in Nat
      /\ Total(counted) = Total(m.distance) + 1
  BY <1>1, <1>2, TotalCounts
<1>9. zero \in Counters /\ Total(zero) = 0
  <2>1. zero \in Counters /\ Total(zero) = 0 * 2 * (assoc + 1)
    BY 0 \in Nat, TotalEqual
  <2>2. 0 * 2 * (assoc + 1) = 0
    BY SMTT(30), MALRUAssumption
  <2> QED BY <2>1, <2>2
<1> HIDE DEF counted, zero
<1>10. distance \in Counters /\ times \in Nat /\ garbage \in Nat
  BY SMTT(30), <1>1, <1>8, <1>9
<1>11. Recorded(m) => Total(distance) = garbage + times
  <2>1. CASE over
    <3>1. distance = zero /\ garbage = 0 /\ times = 0
      BY <2>1
    <3> HIDE DEF distance, garbage, times
    <3> QED BY SMTT(30), <1>9, <3>1
  <2>2. CASE ~over
    <3>1. distance = counted /\ garbage = m.garbage /\ times = m.sampleTimes + 1
      BY <2>2
    <3> HIDE DEF distance, garbage, times
    <3> QED BY SMTT(30), <1>1, <1>8, <3>1 DEF Recorded
  <2> QED BY <2>1, <2>2
<1> HIDE DEF distance, times, garbage, replayed
<1>12. n \in Sampling
  BY ZenonT(60), <1>5, <1>7, <1>10 DEF Sampling
<1>13. /\ n.sampleQueue = m.sampleQueue /\ n.replayed = replayed /\ n.stack = stack
       /\ n.distance = distance /\ n.sampleTimes = times /\ n.garbage = garbage
  BY DEF Sampling
<1> HIDE DEF n
<1>14. Recorded(m) => Recorded(n)
  BY <1>11, <1>13 DEF Recorded
<1> QED BY <1>3, <1>12, <1>13, <1>14 DEF replayed, result, stack, d, t

\* Replaying a sample counts its distance exactly and keeps the stacks right.
LEMMA ReferenceGood ==
    ASSUME NEW m, GoodSampling(m), NEW e \in Queued, e.type \in Types
    PROVE  GoodSampling(referenceStack(m, e))
<1> DEFINE n == referenceStack(m, e)
           b == e.addr
           t == e.type
           d == Distance(m.stack[t], b)
           x == [addr |-> b, type |-> t, distance |-> d]
           r == m.replayed
           s == n.replayed
<1>1. m \in Sampling /\ Recorded(m) /\ StacksFit(r, m.stack) /\ AllExact(r)
  BY DEF GoodSampling
<1>2. /\ n \in Sampling /\ Recorded(n) /\ s = Append(r, x)
      /\ n.stack = [m.stack EXCEPT ![t] = samplingReference(@, b)]
  BY <1>1, ReferenceFields
<1>3. /\ r \in Seq(Results) /\ s \in Seq(Results) /\ m.stack \in [Types -> Stacks]
      /\ b \in Tags /\ t \in Types
  BY <1>1, <1>2 DEF Sampling, Queued
<1> HIDE DEF n
<1>4. x.addr = b /\ x.type = t /\ x.distance = d
  OBVIOUS
<1>5. OneMore(r, s, x) /\ Len(r) \in Nat
  <2> HIDE DEF x, r, s
  <2> QED BY SMTT(30), <1>2, <1>3 DEF OneMore
<1> HIDE DEF x, r, s, d, b, t
<1>6. /\ n.stack[t] = samplingReference(m.stack[t], b) /\ m.stack[t] \in Stacks
      /\ \A u \in Types : u # t => n.stack[u] = m.stack[u]
  BY <1>2, <1>3
<1>7. StacksFit(s, n.stack)
  <2> SUFFICES ASSUME NEW i \in 1 .. Len(s)
               PROVE  StackAt(n.stack[s[i].type], s[i].addr, Between(s, i, Len(s) + 1, s[i].type))
    BY DEF StacksFit
  <2>1. CASE i = Len(s)
    <3>1. s[i].type = t /\ s[i].addr = b
      BY <1>4, <1>5, <2>1 DEF OneMore
    <3>2. Between(s, i, Len(s) + 1, t) = {}
      <4>1. i + 1 .. Len(s) + 1 - 1 = {}
        BY SMTT(30), <2>1
      <4> QED BY SMTT(30), <4>1 DEF Between
    <3>3. StackAt(samplingReference(m.stack[t], b), b, {})
      BY <1>3, <1>6, StackTop
    <3> QED BY <1>6, <3>1, <3>2, <3>3
  <2>2. CASE i # Len(s)
    <3>1. i \in 1 .. Len(r) /\ s[i] = r[i] /\ r[i] \in Results
      BY SMTT(30), <1>3, <1>5, <2>2 DEF OneMore
    <3> DEFINE a == r[i].addr
               u == r[i].type
               B == Between(r, i, Len(r) + 1, u)
    <3>2. StackAt(m.stack[u], a, B)
      BY <1>1, <3>1 DEF StacksFit
    <3>3. /\ x.type = u => Between(s, i, Len(s) + 1, u) = B \cup {x.addr}
          /\ x.type # u => Between(s, i, Len(s) + 1, u) = B
      <4>1. BetweenGrows(r, s, i, u, x)
        BY <1>3, <1>5, <3>1, BetweenLast
      <4> QED BY <4>1 DEF BetweenGrows
    <3>4. u \in Types /\ a \in Tags
      BY <3>1 DEF Results
    <3> HIDE DEF a, u, B
    <3>5. CASE u # t
      <4>1. Between(s, i, Len(s) + 1, u) = B
        BY <1>4, <3>3, <3>5
      <4> QED BY <1>6, <3>1, <3>2, <3>4, <3>5, <4>1 DEF a, u
    <3>6. CASE u = t /\ a # b
      <4>1. Between(s, i, Len(s) + 1, u) = B \cup {b}
        BY <1>4, <3>3, <3>6
      <4>2. StackAt(samplingReference(m.stack[t], b), a, B \cup {b})
        BY <1>3, <1>6, <3>2, <3>6, StackOthers
      <4> QED BY <1>6, <3>1, <3>6, <4>1, <4>2 DEF a, u
    <3>7. CASE u = t /\ a = b
      <4>1. Between(s, i, Len(s) + 1, u) = B \cup {b}
        BY <1>4, <3>3, <3>7
      <4>2. IsFiniteSet(B \cup {b}) /\ a \in B \cup {b}
        BY <3>2, <3>7, FS_AddElement DEF StackAt
      <4> QED BY <3>1, <4>1, <4>2 DEF a, u, StackAt
    <3> QED BY <3>5, <3>6, <3>7
  <2> QED BY <2>1, <2>2
<1>8. AllExact(s)
  <2> SUFFICES ASSUME NEW k \in 1 .. Len(s), NEW i \in 1 .. k - 1,
                      s[i].addr = s[k].addr, s[i].type = s[k].type,
                      s[k].addr \notin Between(s, i, k, s[k].type)
               PROVE  s[k].distance = IF Cardinality(Between(s, i, k, s[k].type)) < assoc
                                      THEN Cardinality(Between(s, i, k, s[k].type)) ELSE assoc
    BY DEF AllExact, ExactAt
  <2>1. i \in 1 .. Len(r) /\ k \in 1 .. Len(r) + 1 /\ s[i] = r[i]
    BY SMTT(30), <1>5 DEF OneMore
  <2>2. Between(s, i, k, s[k].type) = Between(r, i, k, s[k].type)
    BY <1>3, <1>5, <2>1, BetweenPrefix
  <2>3. CASE k = Len(s)
    <3>1. k = Len(r) + 1 /\ s[k] = x
      BY <1>5, <2>3 DEF OneMore
    <3> DEFINE B == Between(r, i, Len(r) + 1, t)
    <3>2. r[i].addr = b /\ r[i].type = t /\ b \notin B /\ Between(s, i, k, s[k].type) = B
      BY <1>4, <2>1, <2>2, <3>1
    <3>3. StackAt(m.stack[t], b, B)
      BY <1>1, <2>1, <3>2 DEF StacksFit
    <3> HIDE DEF B
    <3>4. d = IF Cardinality(B) < assoc THEN Cardinality(B) ELSE assoc
      BY <3>2, <3>3, StackDistance DEF d
    <3> QED BY <1>4, <3>1, <3>2, <3>4
  <2>4. CASE k # Len(s)
    <3>0. Len(s) = Len(r) + 1 /\ Len(r) \in Nat
      BY <1>5 DEF OneMore
    <3>1. k \in 1 .. Len(r)
      BY SMTT(30), <2>4, <3>0
    <3>2. s[k] = r[k]
      BY <1>5, <3>1 DEF OneMore
    <3> QED BY <1>1, <2>1, <2>2, <3>1, <3>2 DEF AllExact, ExactAt
  <2> QED BY <2>3, <2>4
<1> QED BY <1>2, <1>7, <1>8 DEF GoodSampling, s, n

\* The recursion of Replay.
Replays(m, queue, n, f) ==
    [k \in 0 .. n |-> IF k = 0 THEN m ELSE referenceStack(f[k - 1], queue[k])]

\* What replaying any number of samples leads to exists.
LEMMA ReplaysExist ==
    ASSUME NEW m, NEW queue, NEW n \in Nat
    PROVE  \E f : f = Replays(m, queue, n, f)
<1> DEFINE T == {k \in Nat : ~\E f : f = Replays(m, queue, k, f)}
<1> SUFFICES ASSUME T # {} PROVE FALSE
  OBVIOUS
<1>1. PICK k \in T : \A j \in T : k <= j
  <2>1. T \in SUBSET Nat
    OBVIOUS
  <2> HIDE DEF T
  <2> QED BY <2>1, LeastElement
<1>2. k \in Nat /\ ~\E f : f = Replays(m, queue, k, f)
  OBVIOUS
<1>3. CASE k = 0
  <2> DEFINE g == [d \in 0 .. 0 |-> m]
  <2>1. g = Replays(m, queue, 0, g)
    BY SMTT(30) DEF Replays
  <2> QED BY <1>2, <1>3, <2>1
<1>4. CASE k # 0
  <2>1. k - 1 \in Nat /\ ~(k <= k - 1)
    BY SMTT(30), <1>2, <1>4
  <2>2. PICK f : f = Replays(m, queue, k - 1, f)
    BY <1>1, <2>1
  <2> DEFINE g == [d \in 0 .. k |-> IF d = k THEN referenceStack(f[k - 1], queue[k]) ELSE f[d]]
  <2>3. ASSUME NEW d \in 0 .. k
        PROVE  g[d] = IF d = 0 THEN m ELSE referenceStack(g[d - 1], queue[d])
    <3>1. CASE d = k
      <4>1. d # 0 /\ k - 1 \in 0 .. k /\ k - 1 # k
        BY SMTT(30), <1>2, <1>4, <3>1
      <4>2. g[d] = referenceStack(f[k - 1], queue[k]) /\ g[k - 1] = f[k - 1]
        BY <3>1, <4>1
      <4> HIDE DEF g
      <4> QED BY <3>1, <4>1, <4>2
    <3>2. CASE d # k
      <4>1. d \in 0 .. k - 1
        BY SMTT(30), <1>2, <3>2
      <4>2. g[d] = f[d]
        BY <3>2
      <4>3. f[d] = IF d = 0 THEN m ELSE referenceStack(f[d - 1], queue[d])
        BY ONLY ZenonT(30), <2>2, <4>1 DEF Replays
      <4>4. CASE d = 0
        <5> HIDE DEF g
        <5> QED BY <4>2, <4>3, <4>4
      <4>5. CASE d # 0
        <5>1. d - 1 \in 0 .. k /\ d - 1 # k
          BY SMTT(30), <1>2, <4>1, <4>5
        <5>2. g[d - 1] = f[d - 1]
          BY <5>1
        <5> HIDE DEF g
        <5> QED BY <4>2, <4>3, <4>5, <5>2
      <4> QED BY <4>4, <4>5
    <3> QED BY <3>1, <3>2
  <2>4. g = [d \in 0 .. k |-> g[d]]
    OBVIOUS
  <2> HIDE DEF g
  <2>5. g = Replays(m, queue, k, g)
    BY <2>3, <2>4 DEF Replays
  <2> QED BY <1>2, <2>5
<1> QED BY <1>3, <1>4

\* Replay is the last of the states.
LEMMA ReplayIs ==
    ASSUME NEW m, NEW queue, NEW n \in Nat
    PROVE  \E f : f = Replays(m, queue, n, f) /\ Replay(m, queue, n) = f[n]
<1> DEFINE f == CHOOSE f : f = Replays(m, queue, n, f)
<1>1. \E g : g = Replays(m, queue, n, g)
  BY ReplaysExist
<1>2. f = Replays(m, queue, n, f)
  BY <1>1
<1>3. Replay(m, queue, n) = f[n]
  BY DEF Replay, Replays
<1> HIDE DEF f
<1> QED BY <1>2, <1>3

\* q is what m becomes when the first k samples of the queue are replayed.
Replayed(m, queue, k, q) ==
    /\ GoodSampling(q) /\ q.sampleQueue = m.sampleQueue
    /\ Len(q.replayed) = Len(m.replayed) + k
    /\ \A i \in 1 .. Len(m.replayed) : q.replayed[i] = m.replayed[i]
    /\ \A i \in 1 .. k : q.replayed[Len(m.replayed) + i].addr = queue[i].addr

\* One sample more is replayed.
LEMMA ReplayedNext ==
    ASSUME NEW m \in Sampling, NEW queue \in Seq(Queued), NEW k \in Nat, k + 1 \in 1 .. Len(queue),
           queue[k + 1].type \in Types, NEW q, Replayed(m, queue, k, q)
    PROVE  Replayed(m, queue, k + 1, referenceStack(q, queue[k + 1]))
<1> DEFINE e == queue[k + 1]
           n == referenceStack(q, e)
           x == [addr |-> e.addr, type |-> e.type, distance |-> Distance(q.stack[e.type], e.addr)]
<1>1. GoodSampling(q) /\ q \in Sampling
  BY DEF Replayed, GoodSampling
<1>2. e \in Queued /\ q.replayed \in Seq(Results) /\ m.replayed \in Seq(Results)
  BY SMTT(30), <1>1 DEF Sampling
<1>3. GoodSampling(n)
  BY <1>1, <1>2, ReferenceGood
<1>4. /\ n \in Sampling /\ n.sampleQueue = q.sampleQueue /\ n.replayed = Append(q.replayed, x)
  BY <1>1, <1>2, ReferenceFields
<1>5. x.addr = e.addr
  OBVIOUS
<1> HIDE DEF n, x, e
<1>6. n.replayed \in Seq(Results)
  BY <1>4 DEF Sampling
<1>7. /\ Len(n.replayed) = Len(q.replayed) + 1 /\ n.replayed[Len(q.replayed) + 1] = x
      /\ \A i \in 1 .. Len(q.replayed) : n.replayed[i] = q.replayed[i]
  BY SMTT(30), <1>2, <1>4
<1>8. /\ q.sampleQueue = m.sampleQueue
      /\ Len(q.replayed) = Len(m.replayed) + k
      /\ \A i \in 1 .. Len(m.replayed) : q.replayed[i] = m.replayed[i]
      /\ \A i \in 1 .. k : q.replayed[Len(m.replayed) + i].addr = queue[i].addr
  BY DEF Replayed
<1>9. /\ Len(m.replayed) \in Nat /\ Len(q.replayed) = Len(m.replayed) + k
      /\ Len(n.replayed) = Len(q.replayed) + 1 /\ k \in Nat
  <2>1. Len(m.replayed) \in Nat
    BY SMTT(30), <1>2
  <2> QED BY <1>7, <1>8, <2>1
<1>a. \A y \in Nat : y + k + 1 = y + (k + 1)
  BY ONLY SMTT(30), k \in Nat
<1>10. Len(n.replayed) = Len(m.replayed) + (k + 1)
  BY <1>9, <1>a
<1>11. \A i \in 1 .. Len(m.replayed) : n.replayed[i] = m.replayed[i]
  <2>1. \A i \in 1 .. Len(m.replayed) : i \in 1 .. Len(q.replayed)
    BY ONLY SMTT(30), <1>9
  <2> QED BY <1>7, <1>8, <2>1
<1>12. ASSUME NEW i \in 1 .. k + 1 PROVE n.replayed[Len(m.replayed) + i].addr = queue[i].addr
  <2>1. CASE i = k + 1
    <3>1. Len(m.replayed) + i = Len(q.replayed) + 1
      BY <1>9, <1>a, <2>1
    <3> QED BY <1>5, <1>7, <2>1, <3>1 DEF e
  <2>2. CASE i # k + 1
    <3>1. i \in 1 .. k /\ Len(m.replayed) + i \in 1 .. Len(q.replayed)
      BY ONLY SMTT(30), <1>9, <2>2, i \in 1 .. k + 1
    <3> QED BY <1>7, <1>8, <3>1
  <2> QED BY <2>1, <2>2
<1> QED BY <1>3, <1>4, <1>8, <1>10, <1>11, <1>12 DEF Replayed, n, e

\* Samples are replayed one after the other.
LEMMA ReplayGood ==
    ASSUME NEW m, GoodSampling(m), NEW queue \in Seq(Queued), NEW n \in 0 .. Len(queue),
           \A i \in 1 .. n : queue[i].type \in Types
    PROVE  Replayed(m, queue, n, Replay(m, queue, n))
<1>0. m \in Sampling /\ m.replayed \in Seq(Results) /\ n \in Nat /\ Len(queue) \in Nat
  BY SMTT(30) DEF GoodSampling, Sampling
<1>1. PICK f : f = Replays(m, queue, n, f) /\ Replay(m, queue, n) = f[n]
  BY <1>0, ReplayIs
<1>2. \A k \in 0 .. n : f[k] = IF k = 0 THEN m ELSE referenceStack(f[k - 1], queue[k])
  BY ONLY ZenonT(30), <1>1 DEF Replays
<1> DEFINE T == {k \in 0 .. n : ~Replayed(m, queue, k, f[k])}
<1>3. T = {}
  <2> SUFFICES ASSUME T # {} PROVE FALSE
    OBVIOUS
  <2>1. T \in SUBSET Nat
    BY SMTT(30), <1>0
  <2>2. PICK k \in T : \A j \in T : k <= j
    <3> HIDE DEF T
    <3> QED BY <2>1, LeastElement
  <2>3. k \in 0 .. n /\ ~Replayed(m, queue, k, f[k])
    OBVIOUS
  <2>4. CASE k = 0
    <3>1. f[k] = m
      BY <1>2, <2>3, <2>4
    <3>2. Replayed(m, queue, 0, m)
      <4>1. Len(m.replayed) = Len(m.replayed) + 0 /\ 1 .. 0 = {}
        BY SMTT(30), <1>0
      <4> QED BY <4>1 DEF Replayed
    <3> QED BY <2>3, <2>4, <3>1, <3>2
  <2>5. CASE k # 0
    <3>1. k - 1 \in 0 .. n /\ ~(k <= k - 1) /\ k - 1 \in Nat /\ k - 1 + 1 = k
          /\ k \in 1 .. Len(queue) /\ k \in 1 .. n
      BY SMTT(30), <1>0, <2>3, <2>5
    <3>2. Replayed(m, queue, k - 1, f[k - 1])
      BY <2>2, <3>1
    <3>3. f[k] = referenceStack(f[k - 1], queue[k])
      BY <1>2, <2>3, <2>5
    <3>4. queue[k - 1 + 1].type \in Types /\ k - 1 + 1 \in 1 .. Len(queue)
      BY <3>1
    <3>5. Replayed(m, queue, k - 1 + 1, referenceStack(f[k - 1], queue[k - 1 + 1]))
      BY <1>0, <3>1, <3>2, <3>4, ReplayedNext
    <3> QED BY <2>3, <3>1, <3>3, <3>5
  <2> QED BY <2>4, <2>5
<1>4. n \in 0 .. n
  BY SMTT(30), <1>0
<1> QED BY <1>1, <1>3, <1>4

-----------------------------------------------------------------------------
(* The queue of samples. *)

\* The samples of a that wait for their type.
Waits(queue, a) == {i \in 1 .. Len(queue) : queue[i].addr = a /\ queue[i].type = None}

Waiting(queue, a) == Cardinality(Waits(queue, a))

\* The samples that were replayed, and those that will be, are those made.
Ordered(m, x) ==
    /\ x \in Seq(Tags) /\ Len(x) = Len(m.replayed) + Len(m.sampleQueue)
    /\ \A i \in 1 .. Len(m.replayed) : m.replayed[i].addr = x[i]
    /\ \A i \in 1 .. Len(m.sampleQueue) : m.sampleQueue[i].addr = x[Len(m.replayed) + i]

\* The samples that wait can be counted.
LEMMA WaitsFinite ==
    ASSUME NEW queue \in Seq(Queued), NEW a
    PROVE  IsFiniteSet(Waits(queue, a)) /\ Waiting(queue, a) \in Nat
<1>1. Len(queue) \in Nat /\ 1 \in Int /\ Len(queue) \in Int
  BY SMTT(30)
<1>2. IsFiniteSet(1 .. Len(queue))
  BY <1>1, FS_Interval
<1>3. Waits(queue, a) \in SUBSET (1 .. Len(queue))
  BY DEF Waits
<1>4. IsFiniteSet(Waits(queue, a))
  BY <1>2, <1>3, FS_Subset
<1> QED BY <1>4, FS_CardinalityType DEF Waiting

\* A sample at the end of the queue is one that waits more if it has no type.
LEMMA AppendWaits ==
    ASSUME NEW queue \in Seq(Queued), NEW e \in Queued, NEW a
    PROVE  Waiting(Append(queue, e), a)
             = Waiting(queue, a) + IF e.addr = a /\ e.type = None THEN 1 ELSE 0
<1> DEFINE longer == Append(queue, e)
           n == Len(queue) + 1
<1>1. Len(queue) \in Nat /\ Len(longer) = n /\ longer[n] = e
      /\ \A i \in 1 .. Len(queue) : longer[i] = queue[i]
  BY SMTT(30)
<1>2. n \notin 1 .. Len(queue) /\ \A i : i \in 1 .. n <=> i \in 1 .. Len(queue) \/ i = n
  BY SMTT(30), <1>1
<1>3. IsFiniteSet(Waits(queue, a)) /\ Waiting(queue, a) \in Nat
  BY WaitsFinite
<1> HIDE DEF longer, n
<1>4. CASE e.addr = a /\ e.type = None
  <2>1. Waits(longer, a) = Waits(queue, a) \cup {n}
    BY <1>1, <1>2, <1>4 DEF Waits
  <2>2. n \notin Waits(queue, a)
    BY <1>2 DEF Waits
  <2>3. Waiting(longer, a) = Waiting(queue, a) + 1
    BY <1>3, <2>1, <2>2, FS_AddElement DEF Waiting
  <2> QED BY <1>4, <2>3 DEF longer
<1>5. CASE ~(e.addr = a /\ e.type = None)
  <2>1. Waits(longer, a) = Waits(queue, a)
    BY <1>1, <1>2, <1>5 DEF Waits
  <2>2. Waiting(longer, a) = Waiting(queue, a) + 0
    BY SMTT(30), <1>3, <2>1 DEF Waiting
  <2> QED BY <1>5, <2>2 DEF longer
<1> QED BY <1>4, <1>5

\* A sample at the end of the queue is the last one made.
LEMMA AppendOrdered ==
    ASSUME NEW m \in Sampling, NEW x, Ordered(m, x), NEW e \in Queued, NEW n \in Sampling,
           n.sampleQueue = Append(m.sampleQueue, e), n.replayed = m.replayed
    PROVE  Ordered(n, Append(x, e.addr))
<1> DEFINE q == m.sampleQueue
           L == Len(m.replayed)
           y == Append(x, e.addr)
<1>1. q \in Seq(Queued) /\ m.replayed \in Seq(Results) /\ e.addr \in Tags
  BY DEF Sampling, Queued
<1>2. /\ x \in Seq(Tags) /\ Len(x) = L + Len(q)
      /\ \A i \in 1 .. L : m.replayed[i].addr = x[i]
      /\ \A i \in 1 .. Len(q) : q[i].addr = x[L + i]
  BY DEF Ordered
<1>3. /\ Len(n.sampleQueue) = Len(q) + 1 /\ n.sampleQueue[Len(q) + 1] = e
      /\ \A i \in 1 .. Len(q) : n.sampleQueue[i] = q[i]
  BY SMTT(30), <1>1
<1>4. L \in Nat /\ Len(q) \in Nat
  BY SMTT(30), <1>1
<1> HIDE DEF q, L
<1>5. /\ y \in Seq(Tags) /\ Len(y) = Len(x) + 1 /\ y[Len(x) + 1] = e.addr
      /\ \A i \in 1 .. Len(x) : y[i] = x[i]
  <2>1. \A v \in Seq(Tags), a \in Tags :
            /\ Append(v, a) \in Seq(Tags) /\ Len(Append(v, a)) = Len(v) + 1
            /\ Append(v, a)[Len(v) + 1] = a /\ \A i \in 1 .. Len(v) : Append(v, a)[i] = v[i]
    BY ONLY SMTT(30)
  <2> QED BY <1>1, <1>2, <2>1
<1> HIDE DEF y
<1>6. Len(y) = L + Len(n.sampleQueue)
  BY SMTT(30), <1>2, <1>3, <1>4, <1>5
<1>7. \A i \in 1 .. L : n.replayed[i].addr = y[i]
  <2>1. \A i \in 1 .. L : i \in 1 .. Len(x)
    BY SMTT(30), <1>2, <1>4
  <2> QED BY <1>2, <1>5, <2>1
<1>8. ASSUME NEW i \in 1 .. Len(n.sampleQueue) PROVE n.sampleQueue[i].addr = y[L + i]
  <2>1. CASE i = Len(q) + 1
    <3>1. L + i = Len(x) + 1
      BY SMTT(30), <1>2, <1>4, <2>1
    <3> QED BY <1>3, <1>5, <2>1, <3>1
  <2>2. CASE i # Len(q) + 1
    <3>1. i \in 1 .. Len(q) /\ L + i \in 1 .. Len(x)
      BY SMTT(30), <1>2, <1>3, <1>4, <2>2
    <3> QED BY <1>2, <1>3, <1>5, <3>1
  <2> QED BY <2>1, <2>2
<1>9. n.replayed = m.replayed /\ Len(n.replayed) = L
  BY DEF L
<1> QED BY <1>5, <1>6, <1>7, <1>8, <1>9 DEF Ordered, y

\* What is queued does not matter to what was replayed.
LEMMA QueueGood ==
    ASSUME NEW m, GoodSampling(m), NEW queue \in Seq(Queued)
    PROVE  /\ GoodSampling([m EXCEPT !.sampleQueue = queue])
           /\ [m EXCEPT !.sampleQueue = queue] \in Sampling
           /\ [m EXCEPT !.sampleQueue = queue].sampleQueue = queue
           /\ [m EXCEPT !.sampleQueue = queue].replayed = m.replayed
<1> DEFINE n == [m EXCEPT !.sampleQueue = queue]
<1>1. m \in Sampling
  BY DEF GoodSampling
<1>2. n \in Sampling
  BY ZenonT(60), <1>1 DEF Sampling
<1>3. /\ n.sampleQueue = queue /\ n.replayed = m.replayed /\ n.stack = m.stack
      /\ n.distance = m.distance /\ n.sampleTimes = m.sampleTimes /\ n.garbage = m.garbage
  BY <1>1 DEF Sampling
<1> HIDE DEF n
<1>4. GoodSampling(n)
  BY <1>2, <1>3 DEF GoodSampling, Recorded
<1> QED BY <1>2, <1>3, <1>4 DEF n

\* A sample of an access that missed is queued without a type.
LEMMA MissSampled ==
    ASSUME NEW m, GoodSampling(m), NEW x, Ordered(m, x), NEW a \in Tags
    PROVE  /\ GoodSampling(queueMiss(m, a)) /\ Ordered(queueMiss(m, a), Append(x, a))
           /\ \A b : Waiting(queueMiss(m, a).sampleQueue, b)
                     = Waiting(m.sampleQueue, b) + IF b = a THEN 1 ELSE 0
<1> DEFINE e == Sample(a, None)
           n == queueMiss(m, a)
<1>1. e \in Queued /\ e.addr = a /\ e.type = None
  BY DEF Sample, Queued
<1>2. m \in Sampling /\ m.sampleQueue \in Seq(Queued)
  BY DEF GoodSampling, Sampling
<1>3. n = [m EXCEPT !.sampleQueue = Append(m.sampleQueue, e)]
  BY DEF queueMiss
<1> HIDE DEF e, n
<1>4. Append(m.sampleQueue, e) \in Seq(Queued)
  BY SMTT(30), <1>1, <1>2
<1>5. /\ GoodSampling(n) /\ n \in Sampling /\ n.replayed = m.replayed
      /\ n.sampleQueue = Append(m.sampleQueue, e)
  BY <1>3, <1>4, QueueGood
<1>6. Ordered(n, Append(x, a))
  BY <1>1, <1>2, <1>5, AppendOrdered
<1>7. ASSUME NEW b
      PROVE  Waiting(n.sampleQueue, b) = Waiting(m.sampleQueue, b) + IF b = a THEN 1 ELSE 0
  <2>1. Waiting(n.sampleQueue, b)
          = Waiting(m.sampleQueue, b) + IF e.addr = b /\ e.type = None THEN 1 ELSE 0
    BY <1>1, <1>2, <1>5, AppendWaits
  <2> QED BY <1>1, <2>1
<1> QED BY <1>5, <1>6, <1>7 DEF n

\* A sample of an access that hit is replayed, or queued behind the others.
LEMMA HitSampled ==
    ASSUME NEW m, GoodSampling(m), NEW x, Ordered(m, x), NEW a \in Tags, NEW t \in Types
    PROVE  /\ GoodSampling(handleSample(m, a, t)) /\ Ordered(handleSample(m, a, t), Append(x, a))
           /\ \A b : Waiting(handleSample(m, a, t).sampleQueue, b) = Waiting(m.sampleQueue, b)
<1> DEFINE e == Sample(a, t)
           n == handleSample(m, a, t)
           r == [addr |-> e.addr, type |-> e.type, distance |-> Distance(m.stack[e.type], e.addr)]
<1>1. e \in Queued /\ e.addr = a /\ e.type = t /\ t # None
  BY SMTT(30) DEF Sample, Queued, Types, None, DRAM, PCM
<1>2. m \in Sampling /\ m.sampleQueue \in Seq(Queued) /\ m.replayed \in Seq(Results)
  BY DEF GoodSampling, Sampling
<1>3. CASE m.sampleQueue = <<>>
  <2>1. n = referenceStack(m, e)
    BY <1>3 DEF handleSample
  <2>2. r.addr = a
    BY <1>1
  <2> HIDE DEF e, n, r
  <2>3. GoodSampling(n)
    BY <1>1, <2>1, ReferenceGood
  <2>4. n \in Sampling /\ n.sampleQueue = m.sampleQueue /\ n.replayed = Append(m.replayed, r)
    BY <1>1, <1>2, <2>1, ReferenceFields DEF r
  <2>5. Ordered(n, Append(x, a))
    <3> DEFINE L == Len(m.replayed)
               y == Append(x, a)
               s == n.replayed
    <3>1. /\ x \in Seq(Tags) /\ Len(x) = L + Len(m.sampleQueue)
          /\ \A i \in 1 .. L : m.replayed[i].addr = x[i]
      BY DEF Ordered
    <3>2. L \in Nat /\ Len(x) = L /\ Len(m.sampleQueue) = 0
      BY SMTT(30), <1>2, <1>3, <3>1
    <3>3. s \in Seq(Results)
      BY <2>4, SamplingFields
    <3>4. Len(s) = L + 1 /\ s[L + 1] = r /\ \A i \in 1 .. L : s[i] = m.replayed[i]
      BY SMTT(30), <1>2, <2>4, <3>3
    <3>5. y \in Seq(Tags) /\ Len(y) = Len(x) + 1 /\ y[Len(x) + 1] = a
          /\ \A i \in 1 .. Len(x) : y[i] = x[i]
      <4>1. \A v \in Seq(Tags), b \in Tags :
                /\ Append(v, b) \in Seq(Tags) /\ Len(Append(v, b)) = Len(v) + 1
                /\ Append(v, b)[Len(v) + 1] = b /\ \A i \in 1 .. Len(v) : Append(v, b)[i] = v[i]
        BY ONLY SMTT(30)
      <4> QED BY <3>1, <4>1
    <3> HIDE DEF L, y, s
    <3>6. Len(y) = Len(s) + Len(n.sampleQueue)
      BY SMTT(30), <2>4, <3>2, <3>4, <3>5
    <3>7. ASSUME NEW i \in 1 .. Len(s) PROVE s[i].addr = y[i]
      <4>1. i \in 1 .. L \/ i = L + 1
        BY SMTT(30), <3>2, <3>4
      <4> QED BY <2>2, <3>1, <3>2, <3>4, <3>5, <4>1
    <3>8. \A i \in 1 .. Len(n.sampleQueue) : FALSE
      BY SMTT(30), <2>4, <3>2
    <3> QED BY <3>5, <3>6, <3>7, <3>8 DEF Ordered, s, y
  <2> QED BY <2>3, <2>4, <2>5 DEF n
<1>4. CASE m.sampleQueue # <<>>
  <2>1. n = [m EXCEPT !.sampleQueue = Append(m.sampleQueue, e)]
    BY <1>4 DEF handleSample
  <2> HIDE DEF e, n
  <2>2. Append(m.sampleQueue, e) \in Seq(Queued)
    BY SMTT(30), <1>1, <1>2
  <2>3. /\ GoodSampling(n) /\ n \in Sampling /\ n.replayed = m.replayed
        /\ n.sampleQueue = Append(m.sampleQueue, e)
    BY <2>1, <2>2, QueueGood
  <2>4. Ordered(n, Append(x, a))
    BY <1>1, <1>2, <2>3, AppendOrdered
  <2>5. ASSUME NEW b PROVE Waiting(n.sampleQueue, b) = Waiting(m.sampleQueue, b)
    <3>1. Waiting(n.sampleQueue, b)
            = Waiting(m.sampleQueue, b) + IF e.addr = b /\ e.type = None THEN 1 ELSE 0
      BY <1>1, <1>2, <2>3, AppendWaits
    <3>2. Waiting(n.sampleQueue, b) = Waiting(m.sampleQueue, b) + 0
      BY <1>1, <3>1
    <3>3. Waiting(m.sampleQueue, b) \in Nat
      BY <1>2, WaitsFinite
    <3> QED BY SMTT(30), <3>2, <3>3
  <2> QED BY <2>3, <2>4, <2>5 DEF n
<1> QED BY <1>3, <1>4

\* Samples that wait are as many when typed samples before them leave the queue.
LEMMA DropWaits ==
    ASSUME NEW queue \in Seq(Queued), NEW k \in 0 .. Len(queue), NEW a,
           \A i \in 1 .. k : queue[i].type # None
    PROVE  Waiting(SubSeq(queue, k + 1, Len(queue)), a) = Waiting(queue, a)
<1> DEFINE rest == SubSeq(queue, k + 1, Len(queue))
           S == Waits(rest, a)
           T == Waits(queue, a)
           f == [i \in S |-> i + k]
<1>1. Len(queue) \in Nat /\ k \in Nat /\ k <= Len(queue)
  BY SMTT(30)
<1>2. Len(rest) = Len(queue) - k /\ \A i \in 1 .. Len(queue) - k : rest[i] = queue[k + i]
  BY SMTT(30), <1>1
<1> HIDE DEF rest
<1>3. \A i \in S : i \in 1 .. Len(queue) - k /\ i + k \in T
  <2> SUFFICES ASSUME NEW i \in S PROVE i \in 1 .. Len(queue) - k /\ i + k \in T
    OBVIOUS
  <2>1. i \in 1 .. Len(queue) - k /\ rest[i].addr = a /\ rest[i].type = None
    BY <1>2 DEF Waits
  <2>2. i + k = k + i /\ i + k \in 1 .. Len(queue)
    BY SMTT(30), <1>1, <2>1
  <2> QED BY <1>2, <2>1, <2>2 DEF Waits
<1>4. \A j \in T : \E i \in S : j = i + k
  <2> SUFFICES ASSUME NEW j \in T PROVE \E i \in S : j = i + k
    OBVIOUS
  <2>1. j \in 1 .. Len(queue) /\ queue[j].addr = a /\ queue[j].type = None
    BY DEF Waits
  <2>2. j \notin 1 .. k
    BY <2>1
  <2>3. j - k \in 1 .. Len(queue) - k /\ k + (j - k) = j /\ j = (j - k) + k
    BY SMTT(30), <1>1, <2>1, <2>2
  <2>4. rest[j - k].addr = a /\ rest[j - k].type = None
    BY <1>2, <2>1, <2>3
  <2>5. j - k \in S
    BY <1>2, <2>3, <2>4 DEF Waits
  <2> QED BY <2>3, <2>5
<1>5. \A i, j \in S : i + k = j + k => i = j
  <2>1. \A i, j \in Int : i + k = j + k => i = j
    BY SMTT(30), <1>1
  <2>2. \A i \in S : i \in Int
    <3>1. \A i \in 1 .. Len(queue) - k : i \in Int
      BY SMTT(30)
    <3> QED BY <1>3, <3>1
  <2> QED BY <2>1, <2>2
<1>6. IsFiniteSet(T)
  BY WaitsFinite
<1> HIDE DEF S, T
<1>7. f \in Bijection(S, T)
  <2>1. f \in [S -> T]
    BY <1>3
  <2>2. \A i, j \in S : f[i] = f[j] => i = j
    BY <1>5
  <2>3. \A j \in T : \E i \in S : f[i] = j
    BY <1>4
  <2> QED BY <2>1, <2>2, <2>3 DEF Bijection, Injection, Surjection, IsInjective
<1>8. rest \in Seq(Queued)
  BY SMTT(30), <1>1 DEF rest
<1>9. IsFiniteSet(S)
  BY <1>8, WaitsFinite DEF S
<1>10. ExistsBijection(S, T)
  BY <1>7 DEF ExistsBijection
<1> QED BY <1>9, <1>10, FS_Bijection DEF Waiting, S, T, rest

\* The queue when sample f gets type t, and what of it can be replayed.
Typed(queue, f, t) == [queue EXCEPT ![f].type = t]
Blocked(queue) == {i \in DOMAIN queue : queue[i].type = None}
Ready(queue) == IF Blocked(queue) = {} THEN Len(queue)
                ELSE (CHOOSE i \in Blocked(queue) : \A j \in Blocked(queue) : i <= j) - 1

\* One sample of a fewer waits.
OneTyped(queue, typed, a) ==
    /\ typed \in Seq(Queued) /\ Len(typed) = Len(queue)
    /\ \A i \in 1 .. Len(queue) : typed[i].addr = queue[i].addr
    /\ \A b : Waiting(typed, b) = Waiting(queue, b) - IF b = a THEN 1 ELSE 0

\* A sample that gets a type no longer waits.
LEMMA TypedWaits ==
    ASSUME NEW queue \in Seq(Queued), NEW a, NEW f \in Waits(queue, a), NEW t \in Types
    PROVE  OneTyped(queue, Typed(queue, f, t), a)
<1> DEFINE typed == Typed(queue, f, t)
<1> HIDE DEF typed
<1>1. f \in 1 .. Len(queue) /\ queue[f].addr = a /\ queue[f].type = None /\ Len(queue) \in Nat
  BY SMTT(30) DEF Waits
<1>2. t # None /\ t \in Types \cup {None}
  BY SMTT(30) DEF Types, None, DRAM, PCM
<1>3. \A i \in 1 .. Len(queue) : queue[i] \in Queued
  BY SMTT(30)
<1>4. [queue[f] EXCEPT !.type = t] \in Queued
  <2>1. queue[f] \in Queued
    BY <1>1, <1>3
  <2> QED BY <1>2, <2>1 DEF Queued
<1>5. typed = [queue EXCEPT ![f] = [queue[f] EXCEPT !.type = t]]
  BY DEF typed, Typed
<1>6. [queue[f] EXCEPT !.type = t].addr = a /\ [queue[f] EXCEPT !.type = t].type = t
  <2>1. queue[f] \in Queued
    BY <1>1, <1>3
  <2> QED BY <1>1, <2>1 DEF Queued
<1> DEFINE e == [queue[f] EXCEPT !.type = t]
<1> HIDE DEF e
<1>7. typed \in Seq(Queued) /\ Len(typed) = Len(queue) /\ typed[f] = e
      /\ \A i \in 1 .. Len(queue) : i # f => typed[i] = queue[i]
  <2>1. typed = [queue EXCEPT ![f] = e] /\ e \in Queued
    BY <1>4, <1>5 DEF e
  <2> QED BY SMTT(30), <1>1, <2>1
<1>8. e.addr = a /\ e.type = t
  BY <1>6 DEF e
<1>9. \A i \in 1 .. Len(queue) : typed[i].addr = queue[i].addr
  BY <1>1, <1>7, <1>8
<1>10. ASSUME NEW b PROVE Waiting(typed, b) = Waiting(queue, b) - IF b = a THEN 1 ELSE 0
  <2>1. IsFiniteSet(Waits(queue, b)) /\ Waiting(queue, b) \in Nat
    BY WaitsFinite
  <2>2. CASE b = a
    <3>1. Waits(typed, a) = Waits(queue, a) \ {f}
      <4>1. \A i : i \in Waits(typed, a) <=> i \in Waits(queue, a) /\ i # f
        BY ZenonT(60), <1>2, <1>7, <1>8, <1>9 DEF Waits
      <4> QED BY <4>1
    <3>2. Waiting(typed, a) = Waiting(queue, a) - 1
      BY <2>1, <2>2, <3>1, FS_RemoveElement DEF Waiting
    <3> QED BY <2>2, <3>2
  <2>3. CASE b # a
    <3>1. Waits(typed, b) = Waits(queue, b)
      <4>1. \A i : i \in Waits(typed, b) <=> i \in Waits(queue, b)
        BY ZenonT(60), <1>1, <1>7, <1>8, <1>9, <2>3 DEF Waits
      <4> QED BY <4>1 DEF Waits
    <3>2. Waiting(typed, b) = Waiting(queue, b) - 0
      BY SMTT(30), <2>1, <3>1 DEF Waiting
    <3> QED BY <2>3, <3>2
  <2> QED BY <2>2, <2>3
<1> QED BY <1>7, <1>9, <1>10 DEF typed, OneTyped

\* The samples before the first one that waits have a type.
LEMMA ReadyTyped ==
    ASSUME NEW queue \in Seq(Queued)
    PROVE  Ready(queue) \in 0 .. Len(queue) /\ \A i \in 1 .. Ready(queue) : queue[i].type \in Types
<1> DEFINE blocked == Blocked(queue)
           ready == Ready(queue)
<1>5. blocked = {i \in DOMAIN queue : queue[i].type = None}
  BY DEF Blocked
<1>6. ready = IF blocked = {} THEN Len(queue)
              ELSE (CHOOSE i \in blocked : \A j \in blocked : i <= j) - 1
  BY DEF Ready
<1> HIDE DEF blocked, ready
<1>1. DOMAIN queue = 1 .. Len(queue) /\ Len(queue) \in Nat
      /\ \A i \in 1 .. Len(queue) : queue[i] \in Queued
  BY SMTT(30)
<1>2. \A i \in 1 .. Len(queue) : queue[i].type \in Types \/ queue[i].type = None
  BY <1>1 DEF Queued
<1>3. CASE blocked = {}
  <2>1. ready = Len(queue)
    BY <1>3, <1>6
  <2>2. \A i \in 1 .. Len(queue) : queue[i].type # None
    BY <1>1, <1>3, <1>5
  <2>3. Len(queue) \in 0 .. Len(queue)
    BY SMTT(30), <1>1
  <2> QED BY <1>2, <2>1, <2>2, <2>3 DEF ready
<1>4. CASE blocked # {}
  <2> DEFINE f == CHOOSE i \in blocked : \A j \in blocked : i <= j
  <2>1. blocked \in SUBSET Nat
    BY SMTT(30), <1>1, <1>5
  <2>2. f \in blocked /\ \A j \in blocked : f <= j
    BY <1>4, <2>1, LeastElement
  <2>3. ready = f - 1
    BY <1>4, <1>6
  <2> HIDE DEF f
  <2>4. f \in 1 .. Len(queue)
    BY <1>1, <1>5, <2>2
  <2>5. ready \in 0 .. Len(queue)
    BY ONLY SMTT(30), <1>1, <2>3, <2>4
  <2>6. ASSUME NEW i \in 1 .. ready PROVE queue[i].type \in Types
    <3>1. i \in 1 .. Len(queue) /\ ~(f <= i)
      BY ONLY SMTT(30), <1>1, <2>3, <2>4, <2>6
    <3>2. i \notin blocked
      BY <2>2, <3>1
    <3>3. queue[i].type # None
      BY <1>1, <1>5, <3>1, <3>2
    <3> QED BY <1>2, <3>1, <3>3
  <2> QED BY <2>5, <2>6 DEF ready
<1> QED BY <1>3, <1>4 DEF ready

\* Replaying the first samples of the queue leaves the order of all samples as it is.
LEMMA ReplayOrdered ==
    ASSUME NEW m \in Sampling, NEW x, Ordered(m, x), NEW typed \in Seq(Queued),
           Len(typed) = Len(m.sampleQueue),
           \A i \in 1 .. Len(typed) : typed[i].addr = m.sampleQueue[i].addr,
           NEW k \in 0 .. Len(typed), NEW p \in Sampling,
           p.sampleQueue = SubSeq(typed, k + 1, Len(typed)), p.replayed = m.replayed,
           NEW n, Replayed(p, typed, k, n)
    PROVE  Ordered(n, x)
<1> DEFINE L == Len(m.replayed)
           N == Len(typed)
           q == n.sampleQueue
           s == n.replayed
<1>1. /\ m.replayed \in Seq(Results) /\ L \in Nat /\ N \in Nat /\ k \in Nat /\ k <= N
  BY SMTT(30) DEF Sampling
<1>2. /\ x \in Seq(Tags) /\ Len(x) = L + N
      /\ \A i \in 1 .. L : m.replayed[i].addr = x[i]
      /\ \A i \in 1 .. N : typed[i].addr = x[L + i]
  BY DEF Ordered
<1>3. /\ q = SubSeq(typed, k + 1, N) /\ Len(s) = L + k
      /\ \A i \in 1 .. L : s[i] = m.replayed[i]
      /\ \A i \in 1 .. k : s[L + i].addr = typed[i].addr
  BY DEF Replayed
<1>4. Len(q) = N - k /\ \A i \in 1 .. N - k : q[i] = typed[k + i]
  BY SMTT(30), <1>1, <1>3
<1> HIDE DEF L, N, q, s
<1>5. Len(x) = Len(s) + Len(q)
  BY SMTT(30), <1>1, <1>2, <1>3, <1>4
<1>6. ASSUME NEW i \in 1 .. Len(s) PROVE s[i].addr = x[i]
  <2>1. CASE i \in 1 .. L
    BY <1>2, <1>3, <2>1
  <2>2. CASE i \notin 1 .. L
    <3>1. i - L \in 1 .. k /\ i - L \in 1 .. N /\ L + (i - L) = i
      BY SMTT(30), <1>1, <1>3, <2>2
    <3> QED BY <1>2, <1>3, <3>1
  <2> QED BY <2>1, <2>2
<1>7. ASSUME NEW i \in 1 .. Len(q) PROVE q[i].addr = x[Len(s) + i]
  <2>1. i \in 1 .. N - k /\ k + i \in 1 .. N /\ L + (k + i) = Len(s) + i
    BY SMTT(30), <1>1, <1>3, <1>4
  <2> QED BY <1>2, <1>4, <2>1
<1> QED BY <1>2, <1>5, <1>6, <1>7 DEF Ordered, q, s

\* A response types the first sample of the address that waits, and all samples
\* before the next one that waits are replayed in order.
LEMMA TypeSampled ==
    ASSUME NEW m, GoodSampling(m), NEW x, Ordered(m, x), NEW a \in Tags, NEW t \in Types,
           Waits(m.sampleQueue, a) # {}
    PROVE  /\ GoodSampling(typeSample(m, a, t)) /\ Ordered(typeSample(m, a, t), x)
           /\ \A b : Waiting(typeSample(m, a, t).sampleQueue, b)
                     = Waiting(m.sampleQueue, b) - IF b = a THEN 1 ELSE 0
<1> DEFINE q == m.sampleQueue
           untyped == {i \in DOMAIN q : q[i].addr = a /\ q[i].type = None}
           f == CHOOSE i \in untyped : \A j \in untyped : i <= j
           typed == Typed(q, f, t)
           ready == Ready(typed)
           p == [m EXCEPT !.sampleQueue = SubSeq(typed, ready + 1, Len(typed))]
           n == typeSample(m, a, t)
<1>1. n = Replay(p, typed, ready)
  BY DEF typeSample, Typed, Ready, Blocked
<1>2. m \in Sampling /\ q \in Seq(Queued) /\ DOMAIN q = 1 .. Len(q)
  BY SMTT(30) DEF GoodSampling, Sampling
<1>3. untyped = Waits(q, a)
  BY <1>2 DEF Waits
<1>4. f \in Waits(q, a)
  <2>1. untyped \in SUBSET Nat
    BY SMTT(30), <1>2
  <2> QED BY <1>3, <2>1, LeastElement
<1> HIDE DEF q, untyped, f, n, typed
<1>5. /\ typed \in Seq(Queued) /\ Len(typed) = Len(q)
      /\ \A i \in 1 .. Len(q) : typed[i].addr = q[i].addr
      /\ \A b : Waiting(typed, b) = Waiting(q, b) - IF b = a THEN 1 ELSE 0
  <2>1. OneTyped(q, typed, a)
    BY <1>2, <1>4, TypedWaits DEF typed
  <2> QED BY <2>1 DEF OneTyped
<1>6. ready \in 0 .. Len(typed) /\ \A i \in 1 .. ready : typed[i].type \in Types
  BY <1>5, ReadyTyped
<1> HIDE DEF ready
<1>7. SubSeq(typed, ready + 1, Len(typed)) \in Seq(Queued)
  BY SMTT(30), <1>5, <1>6
<1>8. /\ GoodSampling(p) /\ p \in Sampling /\ p.replayed = m.replayed
      /\ p.sampleQueue = SubSeq(typed, ready + 1, Len(typed))
  BY <1>7, QueueGood
<1> HIDE DEF p
<1>9. Replayed(p, typed, ready, n)
  BY <1>1, <1>5, <1>6, <1>8, ReplayGood
<1>10. Ordered(n, x)
  BY <1>2, <1>5, <1>6, <1>8, <1>9, ReplayOrdered DEF q
<1>11. GoodSampling(n) /\ n.sampleQueue = SubSeq(typed, ready + 1, Len(typed))
  BY <1>8, <1>9 DEF Replayed
<1>12. \A i \in 1 .. ready : typed[i].type # None
  BY SMTT(30), <1>6 DEF Types, None, DRAM, PCM
<1>13. \A b : Waiting(n.sampleQueue, b) = Waiting(typed, b)
  BY <1>5, <1>6, <1>11, <1>12, DropWaits
<1> QED BY <1>5, <1>10, <1>11, <1>13 DEF n, q

-----------------------------------------------------------------------------
(* The accesses and the responses. *)

Entries == [waiting : Int, last : {"none", "pending", "short", "long"}]

\* An entry of addrList and a sample wait for each response.
Expected(m, o, l) ==
    /\ o \in [Tags -> Nat] /\ l \in [Tags -> Entries]
    /\ \A a \in Tags : o[a] <= l[a].waiting /\ o[a] <= Waiting(m.sampleQueue, a)

SampleGood(m, x, o, l) == GoodSampling(m) /\ Ordered(m, x) /\ Expected(m, o, l)

SampleInv ==
    \E m, x, o, l : /\ m = sampling /\ x = made /\ o = outstanding /\ l = addrList
                    /\ SampleGood(m, x, o, l)

\* The samples that wait are counted by natural numbers.
LEMMA WaitingType == \A m : GoodSampling(m) => \A a : Waiting(m.sampleQueue, a) \in Nat
<1>1. \A m : GoodSampling(m) => m.sampleQueue \in Seq(Queued)
  BY DEF GoodSampling, Sampling
<1> QED BY <1>1, WaitsFinite

\* A hit leaves what waits as it is.
LEMMA HitStep ==
    ASSUME NEW m, NEW x, NEW o, NEW l, SampleGood(m, x, o, l), NEW a \in Tags, NEW t \in Types
    PROVE  SampleGood(handleSample(m, a, t), Append(x, a), o, l)
<1> DEFINE n == handleSample(m, a, t)
<1>1. GoodSampling(m) /\ Ordered(m, x) /\ Expected(m, o, l)
  BY DEF SampleGood
<1>2. /\ GoodSampling(n) /\ Ordered(n, Append(x, a))
      /\ \A b : Waiting(n.sampleQueue, b) = Waiting(m.sampleQueue, b)
  BY <1>1, HitSampled
<1> HIDE DEF n
<1>3. Expected(n, o, l)
  BY <1>1, <1>2 DEF Expected
<1> QED BY <1>2, <1>3 DEF SampleGood, n

\* A miss adds an entry and a sample that wait, and at most one response.
LEMMA MissStep ==
    ASSUME NEW m, NEW x, NEW o, NEW l, SampleGood(m, x, o, l), NEW a \in Tags,
           NEW p \in [Tags -> Nat], p[a] <= o[a] + 1, \A b \in Tags \ {a} : p[b] = o[b]
    PROVE  SampleGood(queueMiss(m, a), Append(x, a), p, insertSendTime(l, a))
<1> DEFINE n == queueMiss(m, a)
           k == insertSendTime(l, a)
<1>1. GoodSampling(m) /\ Ordered(m, x) /\ Expected(m, o, l)
  BY DEF SampleGood
<1>2. /\ GoodSampling(n) /\ Ordered(n, Append(x, a))
      /\ \A b : Waiting(n.sampleQueue, b) = Waiting(m.sampleQueue, b) + IF b = a THEN 1 ELSE 0
  BY <1>1, MissSampled
<1>3. /\ o \in [Tags -> Nat] /\ l \in [Tags -> Entries]
      /\ \A b \in Tags : o[b] <= l[b].waiting /\ o[b] <= Waiting(m.sampleQueue, b)
  BY <1>1 DEF Expected
<1>4. k \in [Tags -> Entries] /\ k[a].waiting = l[a].waiting + 1 /\ \A b \in Tags \ {a} : k[b] = l[b]
  BY SMTT(30), <1>3 DEF insertSendTime, Entries
<1>5. \A b \in Tags : Waiting(m.sampleQueue, b) \in Nat
  BY <1>1, WaitingType
<1> HIDE DEF n, k
<1>6. ASSUME NEW b \in Tags PROVE p[b] <= k[b].waiting /\ p[b] <= Waiting(n.sampleQueue, b)
  <2>1. CASE b = a
    <3>1. Waiting(n.sampleQueue, a) = Waiting(m.sampleQueue, a) + 1
      BY <1>2
    <3>2. o[a] \in Nat /\ p[a] \in Nat /\ l[a].waiting \in Int
      BY <1>3 DEF Entries
    <3> QED BY SMTT(30), <1>3, <1>4, <1>5, <2>1, <3>1, <3>2
  <2>2. CASE b # a
    <3>1. Waiting(n.sampleQueue, b) = Waiting(m.sampleQueue, b) + 0
      BY <1>2, <2>2
    <3>2. b \in Tags \ {a} /\ Waiting(n.sampleQueue, b) = Waiting(m.sampleQueue, b)
      BY SMTT(30), <1>5, <2>2, <3>1
    <3> QED BY <1>3, <1>4, <3>2
  <2> QED BY <2>1, <2>2
<1>7. Expected(n, p, k)
  BY <1>4, <1>6 DEF Expected
<1> QED BY <1>2, <1>7 DEF SampleGood, n, k

\* A response that is expected finds an entry and a sample that wait for it.
LEMMA ResponseStep ==
    ASSUME NEW m, NEW x, NEW o, NEW l, SampleGood(m, x, o, l), NEW a \in Tags, o[a] > 0,
           NEW latency \in {"short", "long"}
    PROVE  SampleGood(typeSample(m, a, TypeOf(insertRecvTime(l, a, latency), a)), x,
                      [o EXCEPT ![a] = @ - 1], insertRecvTime(l, a, latency))
<1> DEFINE k == insertRecvTime(l, a, latency)
           t == TypeOf(k, a)
           n == typeSample(m, a, t)
           p == [o EXCEPT ![a] = @ - 1]
<1>1. GoodSampling(m) /\ Ordered(m, x) /\ Expected(m, o, l)
  BY DEF SampleGood
<1>2. t \in Types
  BY DEF TypeOf, Types
<1>3. /\ o \in [Tags -> Nat] /\ l \in [Tags -> Entries]
      /\ \A b \in Tags : o[b] <= l[b].waiting /\ o[b] <= Waiting(m.sampleQueue, b)
  BY <1>1 DEF Expected
<1>4. \A b \in Tags : Waiting(m.sampleQueue, b) \in Nat
  BY <1>1, WaitingType
<1>5. Waits(m.sampleQueue, a) # {}
  <2>1. o[a] \in Nat /\ o[a] <= Waiting(m.sampleQueue, a) /\ Waiting(m.sampleQueue, a) \in Nat
    BY <1>3, <1>4
  <2>2. Waiting(m.sampleQueue, a) # 0
    BY SMTT(30), <2>1
  <2> QED BY <2>2, FS_EmptySet DEF Waiting
<1>6. /\ GoodSampling(n) /\ Ordered(n, x)
      /\ \A b : Waiting(n.sampleQueue, b) = Waiting(m.sampleQueue, b) - IF b = a THEN 1 ELSE 0
  BY <1>1, <1>2, <1>5, TypeSampled
<1>7. k \in [Tags -> Entries] /\ k[a].waiting = l[a].waiting - 1 /\ \A b \in Tags \ {a} : k[b] = l[b]
  <2> DEFINE e == [waiting |-> l[a].waiting - 1,
                   last |-> IF l[a].last = "pending" THEN latency ELSE l[a].last]
  <2>1. l[a].waiting \in Int /\ l[a].last \in {"none", "pending", "short", "long"}
    BY <1>3 DEF Entries
  <2>2. e \in Entries /\ e.waiting = l[a].waiting - 1
    BY SMTT(30), <2>1 DEF Entries
  <2>3. k = [l EXCEPT ![a] = e]
    BY DEF insertRecvTime
  <2> HIDE DEF e, k
  <2> QED BY <1>3, <2>2, <2>3
<1>8. p \in [Tags -> Nat] /\ p[a] = o[a] - 1 /\ \A b \in Tags \ {a} : p[b] = o[b]
  BY SMTT(30), <1>3
<1> HIDE DEF n, k, t, p
<1>9. ASSUME NEW b \in Tags PROVE p[b] <= k[b].waiting /\ p[b] <= Waiting(n.sampleQueue, b)
  <2>1. CASE b = a
    <3>1. Waiting(n.sampleQueue, a) = Waiting(m.sampleQueue, a) - 1
      BY <1>6
    <3>2. o[a] \in Nat /\ l[a].waiting \in Int
      BY <1>3 DEF Entries
    <3> QED BY SMTT(30), <1>3, <1>4, <1>7, <1>8, <2>1, <3>1, <3>2
  <2>2. CASE b # a
    <3>1. Waiting(n.sampleQueue, b) = Waiting(m.sampleQueue, b) - 0
      BY <1>6, <2>2
    <3>2. b \in Tags \ {a} /\ Waiting(n.sampleQueue, b) = Waiting(m.sampleQueue, b)
      BY SMTT(30), <1>4, <2>2, <3>1
    <3> QED BY <1>3, <1>7, <1>8, <3>2
  <2> QED BY <2>1, <2>2
<1>10. Expected(n, p, k)
  BY <1>7, <1>8, <1>9 DEF Expected
<1> QED BY <1>6, <1>10 DEF SampleGood, n, k, t, p

\* Every step keeps the samples in order and the responses expected.
LEMMA SampleInvStep == SetInv /\ SampleInv /\ [MALRUNext]_vars => SampleInv'
<1> SUFFICES ASSUME SetInv, SampleInv, [MALRUNext]_vars
             PROVE  SampleGood(sampling', made', outstanding', addrList')
  BY DEF SampleInv
<1>0. GoodSet(blks) /\ SampleGood(sampling, made, outstanding, addrList)
  BY DEF SetInv, SampleInv
<1>t. ASSUME NEW a, Present(blks, a) PROVE blks[findBlk(blks, a)].type \in Types
  <2>1. findBlk(blks, a) \in Ways /\ blks[findBlk(blks, a)].valid
    BY <1>0, <1>t, FindCorrect
  <2> QED BY <1>0, <2>1 DEF GoodSet, InvalidUntyped
<1>o. outstanding \in [Tags -> Nat] /\ made \in Seq(Tags)
  BY <1>0 DEF SampleGood, Expected, Ordered
<1>1. ASSUME NEW a \in Tags, NEW givenUp \in BOOLEAN, Hit(a, givenUp)
      PROVE  SampleGood(sampling', made', outstanding', addrList')
  <2>1. /\ Present(blks, a) /\ sampling' = handleSample(sampling, a, blks[findBlk(blks, a)].type)
        /\ made' = Append(made, a) /\ outstanding' = outstanding /\ addrList' = addrList
    BY <1>1 DEF Hit
  <2> QED BY <1>0, <1>t, <2>1, HitStep
<1>2. ASSUME NEW a \in Tags, NEW deferred \in BOOLEAN, Miss(a, deferred)
      PROVE  SampleGood(sampling', made', outstanding', addrList')
  <2> DEFINE seen == IF Present(blks, a)
                     THEN handleSample(sampling, a, blks[findBlk(blks, a)].type) ELSE sampling
             before == IF Present(blks, a) THEN Append(made, a) ELSE made
             p == [outstanding EXCEPT ![a] = IF @ = 0 \/ deferred THEN @ + 1 ELSE @]
  <2>1. /\ sampling' = queueMiss(seen, a) /\ outstanding' = p
        /\ addrList' = insertSendTime(addrList, a)
        /\ made' = made \o (IF Present(blks, a) THEN <<a, a>> ELSE <<a>>)
    BY <1>2 DEF Miss
  <2>2. SampleGood(seen, before, outstanding, addrList)
    BY <1>0, <1>t, HitStep
  <2>3. made' = Append(before, a)
    <3>1. CASE Present(blks, a)
      <4>1. made' = made \o <<a, a>> /\ before = Append(made, a)
        BY <2>1, <3>1
      <4> HIDE DEF before
      <4> QED BY SMTT(30), <1>o, <4>1
    <3>2. CASE ~Present(blks, a)
      <4>1. made' = made \o <<a>> /\ before = made
        BY <2>1, <3>2
      <4> HIDE DEF before
      <4> QED BY SMTT(30), <1>o, <4>1
    <3> QED BY <3>1, <3>2
  <2>4. p \in [Tags -> Nat] /\ p[a] <= outstanding[a] + 1 /\ \A b \in Tags \ {a} : p[b] = outstanding[b]
    BY SMTT(30), <1>o
  <2> HIDE DEF seen, before, p
  <2> QED BY <2>1, <2>2, <2>3, <2>4, MissStep
<1>3. ASSUME NEW a \in Tags, Writeback(a)
      PROVE  SampleGood(sampling', made', outstanding', addrList')
  <2>1. \/ /\ sampling' = sampling /\ made' = made /\ outstanding' = outstanding
           /\ addrList' = addrList
        \/ /\ sampling' = queueMiss(sampling, a) /\ made' = Append(made, a)
           /\ outstanding' = outstanding /\ addrList' = insertSendTime(addrList, a)
    BY <1>3 DEF Writeback
  <2>2. outstanding[a] <= outstanding[a] + 1
    BY SMTT(30), <1>o
  <2>3. SampleGood(queueMiss(sampling, a), Append(made, a), outstanding, insertSendTime(addrList, a))
    BY <1>0, <1>o, <2>2, MissStep
  <2> QED BY <1>0, <2>1, <2>3
<1>4. ASSUME NEW a \in Tags, NEW latency \in {"short", "long"}, NEW isFill \in BOOLEAN,
             NEW dropped \in BOOLEAN, Response(a, latency, isFill, dropped)
      PROVE  SampleGood(sampling', made', outstanding', addrList')
  <2>1. /\ outstanding[a] > 0 /\ addrList' = insertRecvTime(addrList, a, latency)
        /\ sampling' = typeSample(sampling, a, TypeOf(insertRecvTime(addrList, a, latency), a))
        /\ made' = made
        /\ outstanding' = [outstanding EXCEPT ![a] = @ - 1]
    BY <1>4 DEF Response
  <2> QED BY <1>0, <2>1, ResponseStep
<1>5. ASSUME NEW a \in Tags, Snoop(a)
      PROVE  SampleGood(sampling', made', outstanding', addrList')
  BY <1>0, <1>5 DEF Snoop
<1>6. CASE UNCHANGED vars
  BY <1>0, <1>6 DEF vars
<1> QED BY <1>1, <1>2, <1>3, <1>4, <1>5, <1>6 DEF MALRUNext

\* Nothing was sampled at first; the stacks and the counters hold anything.
LEMMA SampleInvInit == MALRUInit => SampleInv
<1> SUFFICES ASSUME MALRUInit PROVE SampleGood(sampling, made, outstanding, addrList)
  BY DEF SampleInv
<1>1. PICK s \in [Types -> InitialStacks], c \in InitialCounts :
          sampling = [sampleQueue |-> <<>>, stack |-> s,
                      distance |-> [t \in Types |-> [d \in Distances |-> c]],
                      sampleTimes |-> 0, garbage |-> c * 2 * (assoc + 1), replayed |-> <<>>]
  BY DEF MALRUInit
<1> DEFINE D == [t \in Types |-> [d \in Distances |-> c]]
           g == c * 2 * (assoc + 1)
<1>2. c \in Nat /\ s \in [Types -> Stacks] /\ assoc \in Nat
  BY MALRUAssumption DEF Stacks, Ways
<1>3. D \in Counters /\ Total(D) = g
  BY <1>2, TotalEqual
<1>4. g \in Nat
  BY SMTT(30), <1>2
<1>5. g = g + 0
  BY SMTT(30), <1>4
<1> HIDE DEF D, g
<1>6. sampling = [sampleQueue |-> <<>>, stack |-> s, distance |-> D, sampleTimes |-> 0,
                  garbage |-> g, replayed |-> <<>>]
  BY <1>1 DEF D, g
<1>7. <<>> \in Seq(Queued) /\ <<>> \in Seq(Results) /\ 0 \in Nat
  BY SMTT(30)
<1>8. sampling \in Sampling
  BY ZenonT(60), <1>2, <1>3, <1>4, <1>6, <1>7 DEF Sampling
<1>9. /\ sampling.sampleQueue = <<>> /\ sampling.replayed = <<>> /\ sampling.distance = D
      /\ sampling.sampleTimes = 0 /\ sampling.garbage = g
  BY <1>6
<1>10. Recorded(sampling)
  BY <1>3, <1>5, <1>9 DEF Recorded
<1>11. Len(sampling.replayed) = 0 /\ Len(sampling.sampleQueue) = 0 /\ \A i \in 1 .. 0 : FALSE
  BY SMTT(30), <1>9
<1>12. GoodSampling(sampling)
  BY <1>8, <1>10, <1>11 DEF GoodSampling, StacksFit, AllExact
<1>13. Ordered(sampling, made)
  <2>1. made = <<>>
    BY DEF MALRUInit
  <2>2. made \in Seq(Tags) /\ Len(made) = 0 /\ 0 = 0 + 0
    BY SMTT(30), <2>1
  <2> QED BY <1>11, <2>2 DEF Ordered
<1>14. Expected(sampling, outstanding, addrList)
  <2>1. outstanding = [a \in Tags |-> 0] /\ addrList = [a \in Tags |-> [waiting |-> 0, last |-> "none"]]
    BY DEF MALRUInit
  <2>2. outstanding \in [Tags -> Nat] /\ addrList \in [Tags -> Entries]
    BY SMTT(30), <2>1 DEF Entries
  <2>3. \A a \in Tags : outstanding[a] = 0 /\ addrList[a].waiting = 0
    BY <2>1
  <2>4. \A a : Waiting(sampling.sampleQueue, a) \in Nat
    BY <1>12, WaitingType
  <2>5. \A n \in Nat : 0 <= n
    BY SMTT(30)
  <2> QED BY <1>7, <2>2, <2>3, <2>4, <2>5 DEF Expected
<1> QED BY <1>12, <1>13, <1>14 DEF SampleGood

\* SampleInv is an invariant.
LEMMA SampleInvAlways == MALRUSpec => []SampleInv
BY SampleInvInit, SampleInvStep, SetInvAlways, PTL DEF MALRUSpec

\* What the invariant says of the state itself.
LEMMA SampleInvGood == SampleInv => SampleGood(sampling, made, outstanding, addrList)
BY DEF SampleInv

\* No response fails one of the two assert(flag) of insertRecvTime, however many
\* misses share an MSHR and in whatever order the responses come.
THEOREM SampleResponseExpected == MALRUSpec => []ResponseExpected
<1>1. SampleInv => ResponseExpected
  <2> SUFFICES ASSUME SampleInv PROVE ResponseExpected
    OBVIOUS
  <2>1. GoodSampling(sampling) /\ Expected(sampling, outstanding, addrList)
    BY SampleInvGood DEF SampleGood
  <2>2. DOMAIN sampling.sampleQueue = 1 .. Len(sampling.sampleQueue)
    BY SMTT(30), <2>1 DEF GoodSampling, Sampling
  <2> QED BY <2>1, <2>2 DEF ResponseExpected, Expected, Waiting, Waits
<1> QED BY <1>1, SampleInvAlways, PTL

\* Accesses are replayed in the order in which they were made, for any number
\* of misses whose type is not known yet.
THEOREM SampleOrder == MALRUSpec => []SamplesInOrder
<1>1. SampleInv => SamplesInOrder
  <2> SUFFICES ASSUME SampleInv PROVE SamplesInOrder
    OBVIOUS
  <2> DEFINE r == sampling.replayed
             q == sampling.sampleQueue
             u == [i \in DOMAIN r |-> r[i].addr]
             v == [i \in DOMAIN q |-> q[i].addr]
  <2>1. GoodSampling(sampling) /\ Ordered(sampling, made)
    BY SampleInvGood DEF SampleGood
  <2>2. r \in Seq(Results) /\ q \in Seq(Queued)
    BY <2>1 DEF GoodSampling, Sampling
  <2>3. /\ made \in Seq(Tags) /\ Len(made) = Len(r) + Len(q)
        /\ \A i \in 1 .. Len(r) : r[i].addr = made[i]
        /\ \A i \in 1 .. Len(q) : q[i].addr = made[Len(r) + i]
    BY <2>1 DEF Ordered
  <2>4. SamplesInOrder <=> u \o v = made
    BY DEF SamplesInOrder
  <2> HIDE DEF r, q
  <2>5. /\ u \in Seq(Tags) /\ Len(u) = Len(r) /\ \A i \in 1 .. Len(r) : u[i] = r[i].addr
        /\ v \in Seq(Tags) /\ Len(v) = Len(q) /\ \A i \in 1 .. Len(q) : v[i] = q[i].addr
    <3>1. /\ DOMAIN r = 1 .. Len(r) /\ Len(r) \in Nat /\ \A i \in 1 .. Len(r) : r[i].addr \in Tags
          /\ DOMAIN q = 1 .. Len(q) /\ Len(q) \in Nat /\ \A i \in 1 .. Len(q) : q[i].addr \in Tags
      <4>1. /\ DOMAIN r = 1 .. Len(r) /\ Len(r) \in Nat /\ \A i \in 1 .. Len(r) : r[i] \in Results
            /\ DOMAIN q = 1 .. Len(q) /\ Len(q) \in Nat /\ \A i \in 1 .. Len(q) : q[i] \in Queued
        BY ONLY SMTT(30), <2>2
      <4>2. /\ \A e \in Results : e.addr \in Tags
            /\ \A e \in Queued : e.addr \in Tags
        BY ONLY SMTT(30) DEF Results, Queued
      <4> QED BY <4>1, <4>2
    <3>2. u = [i \in 1 .. Len(r) |-> r[i].addr] /\ v = [i \in 1 .. Len(q) |-> q[i].addr]
      BY <3>1
    <3> HIDE DEF u, v
    <3>3. u \in Seq(Tags) /\ Len(u) = Len(r) /\ \A i \in 1 .. Len(r) : u[i] = r[i].addr
      BY ONLY SMTT(30), <3>1, <3>2
    <3>4. v \in Seq(Tags) /\ Len(v) = Len(q) /\ \A i \in 1 .. Len(q) : v[i] = q[i].addr
      BY ONLY SMTT(30), <3>1, <3>2
    <3> QED BY <3>3, <3>4
  <2> HIDE DEF u, v
  <2>6. Len(r) \in Nat /\ Len(q) \in Nat
    BY SMTT(30), <2>2
  <2>7. /\ u \o v \in Seq(Tags) /\ Len(u \o v) = Len(u) + Len(v)
        /\ \A i \in 1 .. Len(u) + Len(v) : (u \o v)[i] = IF i <= Len(u) THEN u[i] ELSE v[i - Len(u)]
    BY SMTT(30), <2>5
  <2>8. ASSUME NEW i \in 1 .. Len(made) PROVE (u \o v)[i] = made[i]
    <3>1. CASE i <= Len(u)
      <4>1. i \in 1 .. Len(r) /\ i \in 1 .. Len(u) + Len(v)
        BY SMTT(30), <2>3, <2>5, <2>6, <3>1
      <4> QED BY <2>3, <2>5, <2>7, <3>1, <4>1
    <3>2. CASE ~(i <= Len(u))
      <4>1. i - Len(u) \in 1 .. Len(q) /\ i \in 1 .. Len(u) + Len(v) /\ Len(r) + (i - Len(u)) = i
        BY SMTT(30), <2>3, <2>5, <2>6, <3>2
      <4> QED BY <2>3, <2>5, <2>7, <3>2, <4>1
    <3> QED BY <3>1, <3>2
  <2>9. u \o v = made
    <3> DEFINE w == u \o v
    <3>1. w \in Seq(Tags) /\ Len(w) = Len(made) /\ \A i \in 1 .. Len(made) : w[i] = made[i]
      BY <2>3, <2>5, <2>7, <2>8
    <3> HIDE DEF w
    <3>2. w = made
      BY SMTT(30), <2>3, <3>1
    <3> QED BY <3>2 DEF w
  <2> QED BY <2>4, <2>9
<1> QED BY <1>1, SampleInvAlways, PTL

\* A reuse distance counted for an access is the number of different tags
\* replayed on the same stack since the access before it, for every
\* associativity and whatever the stacks held at first.
THEOREM SampleDistanceExact == MALRUSpec => []DistanceExact
<1>1. SampleInv => DistanceExact
  <2> SUFFICES ASSUME SampleInv PROVE DistanceExact
    OBVIOUS
  <2>1. GoodSampling(sampling)
    BY SampleInvGood DEF SampleGood
  <2>2. DOMAIN sampling.replayed = 1 .. Len(sampling.replayed)
    BY SMTT(30), <2>1 DEF GoodSampling, Sampling
  <2> QED BY <2>1, <2>2 DEF GoodSampling, AllExact, DistanceExact
<1> QED BY <1>1, SampleInvAlways, PTL

\* The histograms count each sample of the interval once, for every
\* associativity and length of the interval.
THEOREM SampleHistogram == MALRUSpec => []HistogramMatchesSamples
<1>1. SampleInv => HistogramMatchesSamples
  BY SampleInvGood DEF SampleGood, GoodSampling, Recorded, HistogramMatchesSamples
<1> QED BY <1>1, SampleInvAlways, PTL
=============================================================================
