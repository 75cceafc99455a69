------------------------ MODULE RankingQueues_proofs ------------------------
(***************************************************************************)
(* Proofs about the ranking queues, for any set of pages, any number of    *)
(* levels and any life time: first that pushing, erasing and CheckQueue    *)
(* keep the queues typed, sorted and without duplicates, then the actions. *)
(* The inductive invariant adds to the checked invariants that no entry    *)
(* expires later than currentTime + LifeTime.                              *)
(***************************************************************************)
EXTENDS RankingQueues, SequenceTheorems, FiniteSetTheorems,
        WellFoundedInduction, TLAPS

\* The prover of the leaves that do not name one.
USE ZenonT(30)

TypedQ(q) == q \in [Levels -> Seq(PageType)]

UniqueQ(q) ==
    \A k, l \in Levels :
        \A i \in 1 .. Len(q[k]), j \in 1 .. Len(q[l]) :
            q[k][i].pageNumber = q[l][j].pageNumber => k = l /\ i = j

SortedQ(q) ==
    \A l \in Levels :
        \A i, j \in 1 .. Len(q[l]) :
            i <= j => q[l][i].expirationTime <= q[l][j].expirationTime

\* No entry expires later than one life time from now.
FreshQ(q, now) ==
    \A l \in Levels :
        \A i \in 1 .. Len(q[l]) : q[l][i].expirationTime <= now + LifeTime

GoodQ(q, now) == TypedQ(q) /\ UniqueQ(q) /\ SortedQ(q) /\ FreshQ(q, now)

\* Erase drops exactly one element and keeps the order of the others.
LEMMA EraseProperties ==
    ASSUME NEW S, NEW s \in Seq(S), NEW i \in 1 .. Len(s)
    PROVE  /\ Erase(s, i) \in Seq(S)
           /\ Len(Erase(s, i)) = Len(s) - 1
           /\ \A j \in 1 .. Len(s) - 1 :
                 Erase(s, i)[j] = IF j < i THEN s[j] ELSE s[j + 1]
<1> DEFINE a == SubSeq(s, 1, i - 1)
           b == SubSeq(s, i + 1, Len(s))
<1>0. Len(s) \in Nat /\ \A k \in 1 .. Len(s) : s[k] \in S
  BY LenProperties, ElementOfSeq
<1>1. /\ a \in Seq(S)
      /\ Len(a) = i - 1
      /\ \A k \in 1 .. i - 1 : a[k] = s[k]
  <2>1. \A k \in 1 .. i - 1 : s[k] \in S
    BY SMTT(30), <1>0
  <2>2. /\ SubSeq(s, 1, i - 1) \in Seq(S)
        /\ Len(SubSeq(s, 1, i - 1)) = IF 1 <= i - 1 THEN (i - 1) - 1 + 1 ELSE 0
        /\ \A k \in 1 .. (i - 1) - 1 + 1 : SubSeq(s, 1, i - 1)[k] = s[1 + k - 1]
    BY SMTT(30), <2>1, <1>0, SubSeqProperties
  <2> QED BY SMTT(30), <2>2, <1>0
<1>2. /\ b \in Seq(S)
      /\ Len(b) = Len(s) - i
      /\ \A k \in 1 .. Len(s) - i : b[k] = s[i + k]
  <2>1. \A k \in i + 1 .. Len(s) : s[k] \in S
    BY SMTT(30), <1>0
  <2>2. /\ SubSeq(s, i + 1, Len(s)) \in Seq(S)
        /\ Len(SubSeq(s, i + 1, Len(s))) =
              IF i + 1 <= Len(s) THEN Len(s) - (i + 1) + 1 ELSE 0
        /\ \A k \in 1 .. Len(s) - (i + 1) + 1 :
              SubSeq(s, i + 1, Len(s))[k] = s[(i + 1) + k - 1]
    BY SMTT(30), <2>1, <1>0, SubSeqProperties
  <2> QED BY SMTT(30), <2>2, <1>0
<1>3. /\ a \o b \in Seq(S)
      /\ Len(a \o b) = Len(a) + Len(b)
      /\ \A k \in 1 .. Len(a) + Len(b) :
            (a \o b)[k] = IF k <= Len(a) THEN a[k] ELSE b[k - Len(a)]
  BY <1>1, <1>2, ConcatProperties
<1>4. Erase(s, i) = a \o b
  BY DEF Erase
<1> HIDE DEF a, b
<1>5. Len(a) + Len(b) = Len(s) - 1
  BY SMTT(30), <1>0, <1>1, <1>2
<1>6. ASSUME NEW j \in 1 .. Len(s) - 1
      PROVE  (a \o b)[j] = IF j < i THEN s[j] ELSE s[j + 1]
  <2>1. j \in 1 .. Len(a) + Len(b)
    BY <1>5
  <2>2. CASE j < i
    <3>1. (a \o b)[j] = a[j]
      BY SMTT(30), <2>1, <2>2, <1>0, <1>1, <1>3
    <3> QED BY SMTT(30), <3>1, <2>2, <1>0, <1>1
  <2>3. CASE ~(j < i)
    <3>1. (a \o b)[j] = b[j - (i - 1)]
      BY SMTT(30), <2>1, <2>3, <1>0, <1>1, <1>3
    <3>2. b[j - (i - 1)] = s[i + (j - (i - 1))]
      BY SMTT(30), <2>3, <1>0, <1>2
    <3> QED BY SMTT(30), <3>1, <3>2, <2>3, <1>0
  <2> QED BY <2>2, <2>3
<1> QED BY <1>0, <1>3, <1>4, <1>5, <1>6

\* Pushing an entry that was refreshed now, of a page no queue holds, keeps the
\* queues good: it is the latest to expire.
LEMMA PushGood ==
    ASSUME NEW q, NEW now \in Nat, NEW t \in Levels, NEW e \in PageType,
           GoodQ(q, now),
           e.expirationTime = now + LifeTime,
           \A l \in Levels : ~InQueue(q, l, e.pageNumber)
    PROVE  GoodQ([q EXCEPT ![t] = Append(@, e)], now)
<1> DEFINE r == [q EXCEPT ![t] = Append(@, e)]
<1>0. q \in [Levels -> Seq(PageType)]
  BY DEF GoodQ, TypedQ
<1>1. /\ Append(q[t], e) \in Seq(PageType)
      /\ Len(Append(q[t], e)) = Len(q[t]) + 1
      /\ \A i \in 1 .. Len(q[t]) : Append(q[t], e)[i] = q[t][i]
      /\ Append(q[t], e)[Len(q[t]) + 1] = e
  <2>1. q[t] \in Seq(PageType)
    BY <1>0
  <2> QED BY SMTT(30), <2>1, AppendProperties
<1>2. \A l \in Levels : Len(q[l]) \in Nat
  BY <1>0, LenProperties
<1>3. \A l \in Levels : \A i \in 1 .. Len(q[l]) : q[l][i] \in PageType
  BY <1>0, ElementOfSeq
<1>4. r \in [Levels -> Seq(PageType)]
  BY <1>0, <1>1
<1>5. \A l \in Levels : l # t => r[l] = q[l]
  BY <1>0
<1>6. r[t] = Append(q[t], e)
  BY <1>0
<1>7. \A l \in Levels : \A i \in 1 .. Len(r[l]) :
         \/ l = t /\ i = Len(r[l]) /\ r[l][i] = e
         \/ i \in 1 .. Len(q[l]) /\ r[l][i] = q[l][i]
  BY SMTT(30), <1>1, <1>2, <1>5, <1>6
<1>8. \A l \in Levels : \A i \in 1 .. Len(q[l]) : q[l][i].pageNumber # e.pageNumber
  BY DEF InQueue
<1>9. \A l \in Levels : Len(r[l]) \in Nat
  BY SMTT(30), <1>1, <1>2, <1>5, <1>6
<1> HIDE DEF r
<1>10. UniqueQ(r)
  <2> SUFFICES ASSUME NEW k \in Levels, NEW l \in Levels,
                      NEW i \in 1 .. Len(r[k]), NEW j \in 1 .. Len(r[l]),
                      r[k][i].pageNumber = r[l][j].pageNumber
               PROVE  k = l /\ i = j
    BY DEF UniqueQ
  <2>1. UniqueQ(q)
    BY DEF GoodQ
  <2>2. \/ k = t /\ i = Len(r[k]) /\ r[k][i] = e
        \/ i \in 1 .. Len(q[k]) /\ r[k][i] = q[k][i]
    BY <1>7
  <2>3. \/ l = t /\ j = Len(r[l]) /\ r[l][j] = e
        \/ j \in 1 .. Len(q[l]) /\ r[l][j] = q[l][j]
    BY <1>7
  <2>4. CASE /\ i \in 1 .. Len(q[k]) /\ r[k][i] = q[k][i]
             /\ j \in 1 .. Len(q[l]) /\ r[l][j] = q[l][j]
    BY SMTT(30), <2>1, <2>4 DEF UniqueQ
  <2> QED BY <1>8, <2>2, <2>3, <2>4
<1>11. SortedQ(r)
  <2> SUFFICES ASSUME NEW l \in Levels,
                      NEW i \in 1 .. Len(r[l]), NEW j \in 1 .. Len(r[l]), i <= j
               PROVE  r[l][i].expirationTime <= r[l][j].expirationTime
    BY DEF SortedQ
  <2>0. /\ \A k \in 1 .. Len(q[l]) : q[l][k].expirationTime \in Nat
        /\ LifeTime \in Nat
    BY <1>3, RankingAssumption DEF PageType
  <2>1. CASE l = t /\ j = Len(r[l]) /\ r[l][j] = e
    BY SMTT(30), <1>7, <2>0, <2>1 DEF GoodQ, FreshQ
  <2>2. CASE j \in 1 .. Len(q[l]) /\ r[l][j] = q[l][j]
    <3>1. i \in 1 .. Len(q[l]) /\ r[l][i] = q[l][i]
      BY SMTT(30), <1>2, <1>7, <1>9, <2>2
    <3> QED BY <2>2, <3>1 DEF GoodQ, SortedQ
  <2> QED BY <1>7, <2>1, <2>2
<1>12. FreshQ(r, now)
  <2>1. now + LifeTime <= now + LifeTime
    BY SMTT(30), RankingAssumption
  <2> QED BY <1>7, <2>1 DEF GoodQ, FreshQ
<1> QED BY <1>4, <1>10, <1>11, <1>12 DEF GoodQ, TypedQ, r

\* Erasing one entry keeps the queues good and leaves no entry of its page.
LEMMA EraseGood ==
    ASSUME NEW q, NEW now \in Nat, NEW t \in Levels, NEW n \in 1 .. Len(q[t]),
           GoodQ(q, now)
    PROVE  /\ GoodQ([q EXCEPT ![t] = Erase(@, n)], now)
           /\ \A l \in Levels :
                 ~InQueue([q EXCEPT ![t] = Erase(@, n)], l, q[t][n].pageNumber)
<1> DEFINE r == [q EXCEPT ![t] = Erase(@, n)]
           old(l, i) == IF l = t /\ i >= n THEN i + 1 ELSE i
<1>0. q \in [Levels -> Seq(PageType)]
  BY DEF GoodQ, TypedQ
<1>1. /\ Erase(q[t], n) \in Seq(PageType)
      /\ Len(Erase(q[t], n)) = Len(q[t]) - 1
      /\ \A j \in 1 .. Len(q[t]) - 1 :
            Erase(q[t], n)[j] = IF j < n THEN q[t][j] ELSE q[t][j + 1]
  <2>1. q[t] \in Seq(PageType)
    BY <1>0
  <2> QED BY <2>1, EraseProperties
<1>2. \A l \in Levels : Len(q[l]) \in Nat
  BY <1>0, LenProperties
<1>3. r \in [Levels -> Seq(PageType)]
  BY <1>0, <1>1
<1>4. r[t] = Erase(q[t], n) /\ \A l \in Levels : l # t => r[l] = q[l]
  BY <1>0
<1>5. ASSUME NEW l \in Levels, NEW i \in 1 .. Len(r[l])
      PROVE  /\ old(l, i) \in 1 .. Len(q[l])
             /\ r[l][i] = q[l][old(l, i)]
             /\ l = t => old(l, i) # n
  <2>1. CASE l = t
    <3>1. i \in 1 .. Len(q[t]) - 1 /\ Len(q[t]) \in Nat
      BY <1>1, <1>2, <1>4, <2>1
    <3>2. r[l][i] = IF i < n THEN q[t][i] ELSE q[t][i + 1]
      BY SMTT(30), <1>1, <1>4, <2>1, <3>1
    <3> QED BY SMTT(30), <2>1, <3>1, <3>2
  <2>2. CASE l # t
    BY <1>4, <2>2
  <2> QED BY <2>1, <2>2
<1>6. \A l \in Levels : Len(r[l]) \in Nat
  BY <1>3, LenProperties
<1>7. ASSUME NEW l \in Levels, NEW i \in 1 .. Len(r[l]), NEW j \in 1 .. Len(r[l])
      PROVE  /\ old(l, i) = old(l, j) => i = j
             /\ i <= j => old(l, i) <= old(l, j)
  BY SMTT(30), <1>6
<1> HIDE DEF r, old
<1>8. UniqueQ(r)
  <2> SUFFICES ASSUME NEW k \in Levels, NEW l \in Levels,
                      NEW i \in 1 .. Len(r[k]), NEW j \in 1 .. Len(r[l]),
                      r[k][i].pageNumber = r[l][j].pageNumber
               PROVE  k = l /\ i = j
    BY DEF UniqueQ
  <2>1. k = l /\ old(k, i) = old(l, j)
    <3>1. old(k, i) \in 1 .. Len(q[k]) /\ r[k][i] = q[k][old(k, i)]
      BY <1>5
    <3>2. old(l, j) \in 1 .. Len(q[l]) /\ r[l][j] = q[l][old(l, j)]
      BY <1>5
    <3> QED BY SMTT(30), <3>1, <3>2 DEF GoodQ, UniqueQ
  <2> QED BY <1>7, <2>1
<1>9. SortedQ(r)
  BY <1>5, <1>7 DEF GoodQ, SortedQ
<1>10. FreshQ(r, now)
  BY <1>5 DEF GoodQ, FreshQ
<1>11. ASSUME NEW l \in Levels, NEW i \in 1 .. Len(r[l])
       PROVE  r[l][i].pageNumber # q[t][n].pageNumber
  <2>1. /\ old(l, i) \in 1 .. Len(q[l])
        /\ r[l][i] = q[l][old(l, i)]
        /\ l = t => old(l, i) # n
    BY <1>5
  <2> QED BY SMTT(30), <2>1 DEF GoodQ, UniqueQ
<1> QED BY <1>3, <1>8, <1>9, <1>10, <1>11 DEF GoodQ, TypedQ, InQueue, r

\* What a pass of CheckQueue does to level l: the entries that stay, where the
\* i-th of them was, whether the front of the level above comes down, and as
\* which entry.
Kept(q, l, now) == IF Expired(q, l, now) THEN Tail(q[l]) ELSE q[l]

Origin(q, l, i, now) == IF Expired(q, l, now) THEN i + 1 ELSE i

ComesDown(q, l, demoted, now) == l + 1 \in Levels /\ Demotes(q, l + 1, demoted, now)

Refreshed(q, l, now) == [Head(q[l + 1]) EXCEPT !.expirationTime = now + LifeTime]

\* CheckQueue takes at most the front out of a level and keeps the order.
StayInOrder(q, l, now) ==
    /\ Kept(q, l, now) \in Seq(PageType)
    /\ Len(Kept(q, l, now)) \in Nat
    /\ Len(Kept(q, l, now)) = IF Expired(q, l, now) THEN Len(q[l]) - 1 ELSE Len(q[l])
    /\ \A i \in 1 .. Len(Kept(q, l, now)) :
          /\ Origin(q, l, i, now) \in 1 .. Len(q[l])
          /\ Kept(q, l, now)[i] = q[l][Origin(q, l, i, now)]

\* The entries of a level that the check does not demote stay, in order.
LEMMA KeptEntries ==
    ASSUME NEW q, NEW now \in Nat, TypedQ(q), NEW l \in Levels
    PROVE  StayInOrder(q, l, now)
<1>0. q[l] \in Seq(PageType) /\ Len(q[l]) \in Nat
  BY LenProperties DEF TypedQ
<1>1. CASE Expired(q, l, now)
  <2>1. q[l] # <<>>
    BY <1>1 DEF Expired
  <2>2. /\ Tail(q[l]) \in Seq(PageType)
        /\ Len(Tail(q[l])) = Len(q[l]) - 1
        /\ \A i \in 1 .. Len(Tail(q[l])) : Tail(q[l])[i] = q[l][i + 1]
    BY <1>0, <2>1, HeadTailProperties
  <2>3. Len(Tail(q[l])) \in Nat
    BY <2>2, LenProperties
  <2>4. \A i \in 1 .. Len(Tail(q[l])) : i + 1 \in 1 .. Len(q[l])
    BY SMTT(30), <1>0, <2>2, <2>3
  <2> QED BY <1>0, <1>1, <2>2, <2>3, <2>4 DEF StayInOrder, Kept, Origin
<1>2. CASE ~Expired(q, l, now)
  BY <1>0, <1>2 DEF StayInOrder, Kept, Origin
<1> QED BY <1>1, <1>2

\* The entry that comes down to level l is the refreshed front of level l + 1.
LEMMA RefreshedEntry ==
    ASSUME NEW q, NEW now \in Nat, NEW demoted, TypedQ(q), NEW l \in Levels,
           ComesDown(q, l, demoted, now)
    PROVE  /\ Expired(q, l + 1, now) /\ l + 1 \in Levels
           /\ 1 \in 1 .. Len(q[l + 1])
           /\ Refreshed(q, l, now) \in PageType
           /\ Refreshed(q, l, now).pageNumber = q[l + 1][1].pageNumber
           /\ Refreshed(q, l, now).referenceCounter = q[l + 1][1].referenceCounter
           /\ Refreshed(q, l, now).expirationTime = now + LifeTime
<1>1. l + 1 \in Levels /\ Expired(q, l + 1, now) /\ q[l + 1] # <<>>
  BY DEF ComesDown, Demotes, Expired
<1>2. q[l + 1] \in Seq(PageType) /\ Len(q[l + 1]) \in Nat
  BY <1>1, LenProperties DEF TypedQ
<1>3. 1 \in 1 .. Len(q[l + 1])
  BY SMTT(30), <1>1, <1>2, EmptySeq
<1>4. Head(q[l + 1]) = q[l + 1][1] /\ q[l + 1][1] \in PageType
  BY SMTT(30), <1>2, <1>3, ElementOfSeq
<1>5. now + LifeTime \in Nat
  BY SMTT(30), RankingAssumption
<1> QED BY <1>1, <1>3, <1>4, <1>5 DEF PageType, Refreshed

\* Every entry of the result h of CheckQueue either stayed in its level or came
\* down from the front of the level above, and all of them are there.
StayOrComeDown(q, l, demoted, now, h) ==
    /\ h \in Seq(PageType) /\ Len(h) \in Nat
    /\ \A i \in 1 .. Len(Kept(q, l, now)) :
          i \in 1 .. Len(h) /\ h[i] = q[l][Origin(q, l, i, now)]
    /\ \A i \in 1 .. Len(h) :
          \/ i \in 1 .. Len(Kept(q, l, now))
          \/ /\ i = Len(Kept(q, l, now)) + 1 /\ i = Len(h)
             /\ ComesDown(q, l, demoted, now)
             /\ h[i] = Refreshed(q, l, now)

\* After CheckQueue a level holds what stayed, and at its end what came down.
LEMMA CheckEntries ==
    ASSUME NEW q, NEW now \in Nat, NEW demoted, TypedQ(q), NEW l \in Levels
    PROVE  StayOrComeDown(q, l, demoted, now, CheckQueue(q, demoted, now)[l])
<1> DEFINE keep == Kept(q, l, now)
           pushed == IF ComesDown(q, l, demoted, now)
                     THEN <<Refreshed(q, l, now)>> ELSE <<>>
<1>1. /\ keep \in Seq(PageType) /\ Len(keep) \in Nat
      /\ \A i \in 1 .. Len(keep) : keep[i] = q[l][Origin(q, l, i, now)]
  <2>1. StayInOrder(q, l, now)
    BY KeptEntries
  <2> QED BY <2>1 DEF StayInOrder
<1>2. /\ pushed \in Seq(PageType)
      /\ Len(pushed) = IF ComesDown(q, l, demoted, now) THEN 1 ELSE 0
      /\ ComesDown(q, l, demoted, now) => pushed[1] = Refreshed(q, l, now)
  <2>1. CASE ComesDown(q, l, demoted, now)
    <3>1. Refreshed(q, l, now) \in PageType
      BY <2>1, RefreshedEntry
    <3> QED BY SMTT(30), <2>1, <3>1
  <2>2. CASE ~ComesDown(q, l, demoted, now)
    BY <2>2, EmptySeq
  <2> QED BY <2>1, <2>2
<1>3. CheckQueue(q, demoted, now)[l] = keep \o pushed
  BY DEF CheckQueue, Kept, ComesDown, Refreshed
<1> HIDE DEF keep, pushed
<1>4. PICK h : h = keep \o pushed
  OBVIOUS
<1>5. /\ h \in Seq(PageType)
      /\ Len(h) = Len(keep) + Len(pushed)
      /\ \A i \in 1 .. Len(keep) + Len(pushed) :
            h[i] = IF i <= Len(keep) THEN keep[i] ELSE pushed[i - Len(keep)]
  BY <1>1, <1>2, <1>4, ConcatProperties
<1>6. \A i \in 1 .. Len(keep) : i \in 1 .. Len(h) /\ h[i] = q[l][Origin(q, l, i, now)]
  BY SMTT(30), <1>1, <1>2, <1>5
<1>7. ASSUME NEW i \in 1 .. Len(h), i \notin 1 .. Len(keep)
      PROVE  /\ i = Len(keep) + 1 /\ i = Len(h)
             /\ ComesDown(q, l, demoted, now)
             /\ h[i] = Refreshed(q, l, now)
  <2>1. Len(pushed) = 1 /\ i = Len(keep) + 1 /\ ComesDown(q, l, demoted, now)
    BY SMTT(30), <1>1, <1>2, <1>5, <1>7
  <2>2. h[i] = pushed[1]
    BY SMTT(30), <1>1, <1>5, <2>1
  <2> QED BY <1>2, <1>5, <2>1, <2>2
<1>8. CheckQueue(q, demoted, now)[l] = h /\ Len(h) \in Nat
  BY SMTT(30), <1>1, <1>2, <1>3, <1>4, <1>5
<1>9. StayOrComeDown(q, l, demoted, now, h)
  BY <1>5, <1>6, <1>7, <1>8 DEF keep, StayOrComeDown
<1> QED BY <1>8, <1>9

\* One pass of CheckQueue keeps the queues good: every entry of the result is
\* either an entry of the same level that did not leave, or the refreshed front
\* of the level above, which left it.
LEMMA CheckGood ==
    ASSUME NEW q, NEW now \in Nat, NEW demoted, GoodQ(q, now)
    PROVE  GoodQ(CheckQueue(q, demoted, now), now)
<1> DEFINE r == CheckQueue(q, demoted, now)
           X(l) == Expired(q, l, now)
           D(l) == ComesDown(q, l, demoted, now)
           keep(l) == Kept(q, l, now)
           down(l) == Refreshed(q, l, now)
           old(l, i) == Origin(q, l, i, now)
<1>0. TypedQ(q)
  BY DEF GoodQ
<1>1. \A l \in Levels : \A i \in 1 .. Len(q[l]) : q[l][i] \in PageType
  BY <1>0, ElementOfSeq DEF TypedQ
<1>2. ASSUME NEW l \in Levels
      PROVE  /\ Len(keep(l)) \in Nat
             /\ \A i \in 1 .. Len(keep(l)) : old(l, i) \in 1 .. Len(q[l])
  <2>1. StayInOrder(q, l, now)
    BY <1>0, KeptEntries
  <2> QED BY <2>1 DEF StayInOrder
<1>3. ASSUME NEW l \in Levels, D(l)
      PROVE  /\ X(l + 1) /\ l + 1 \in Levels
             /\ 1 \in 1 .. Len(q[l + 1])
             /\ down(l).pageNumber = q[l + 1][1].pageNumber
             /\ down(l).expirationTime = now + LifeTime
  BY <1>0, <1>3, RefreshedEntry
<1>4. ASSUME NEW l \in Levels
      PROVE  /\ r[l] \in Seq(PageType) /\ Len(r[l]) \in Nat
             /\ \A i \in 1 .. Len(keep(l)) :
                   i \in 1 .. Len(r[l]) /\ r[l][i] = q[l][old(l, i)]
             /\ \A i \in 1 .. Len(r[l]) :
                   \/ i \in 1 .. Len(keep(l))
                   \/ /\ i = Len(keep(l)) + 1 /\ i = Len(r[l])
                      /\ D(l)
                      /\ r[l][i] = down(l)
  <2>1. StayOrComeDown(q, l, demoted, now, r[l])
    BY <1>0, CheckEntries
  <2> QED BY <2>1 DEF StayOrComeDown
<1>5. TypedQ(r)
  <2>1. r = [l \in Levels |-> r[l]]
    BY DEF CheckQueue
  <2> HIDE DEF r
  <2> QED BY <1>4, <2>1 DEF TypedQ
<1> HIDE DEF r, keep, D, down
<1>6. ASSUME NEW l \in Levels, NEW i \in 1 .. Len(r[l])
      PROVE  \/ /\ i \in 1 .. Len(keep(l))
                /\ old(l, i) \in 1 .. Len(q[l])
                /\ r[l][i] = q[l][old(l, i)]
             \/ /\ i = Len(keep(l)) + 1 /\ i = Len(r[l])
                /\ D(l)
                /\ r[l][i] = down(l)
  BY <1>2, <1>4
<1>7. ASSUME NEW l \in Levels, NEW i \in 1 .. Len(keep(l))
       PROVE  X(l) => old(l, i) # 1
  BY SMTT(30), <1>2 DEF Origin
<1>8. ASSUME NEW l \in Levels, NEW i \in 1 .. Len(r[l]), NEW j \in 1 .. Len(r[l])
       PROVE  /\ old(l, i) = old(l, j) => i = j
              /\ i <= j => old(l, i) <= old(l, j)
  <2>1. Len(r[l]) \in Nat
    BY <1>4
  <2> QED BY SMTT(30), <2>1 DEF Origin
<1> HIDE DEF X, old
<1> DEFINE Old(l, i) == /\ i \in 1 .. Len(keep(l))
                        /\ old(l, i) \in 1 .. Len(q[l])
                        /\ r[l][i] = q[l][old(l, i)]
           New(l, i) == /\ i = Len(keep(l)) + 1
                        /\ l + 1 \in Levels /\ X(l + 1)
                        /\ 1 \in 1 .. Len(q[l + 1])
                        /\ r[l][i].pageNumber = q[l + 1][1].pageNumber
<1>9. ASSUME NEW l \in Levels, NEW i \in 1 .. Len(r[l])
       PROVE  Old(l, i) \/ New(l, i)
  BY <1>3, <1>6
<1>10. UniqueQ(r)
  <2> SUFFICES ASSUME NEW k \in Levels, NEW l \in Levels,
                      NEW i \in 1 .. Len(r[k]), NEW j \in 1 .. Len(r[l]),
                      r[k][i].pageNumber = r[l][j].pageNumber
               PROVE  k = l /\ i = j
    BY DEF UniqueQ
  <2>0. UniqueQ(q) /\ k \in Int /\ l \in Int
    BY SMTT(30) DEF GoodQ, Levels
  <2>1. CASE Old(k, i) /\ Old(l, j)
    <3>0. q[k][old(k, i)].pageNumber = q[l][old(l, j)].pageNumber
      BY <2>1
    <3>1. old(k, i) \in 1 .. Len(q[k]) /\ old(l, j) \in 1 .. Len(q[l])
      BY <2>1
    <3>2. k = l /\ old(k, i) = old(l, j)
      <4>1. \A a \in 1 .. Len(q[k]), b \in 1 .. Len(q[l]) :
               q[k][a].pageNumber = q[l][b].pageNumber => k = l /\ a = b
        BY <2>0 DEF UniqueQ
      <4> HIDE DEF Old, New
      <4> QED BY <3>0, <3>1, <4>1
    <3> QED BY <1>8, <3>2
  <2>2. CASE New(k, i) /\ New(l, j)
    <3>1. k + 1 = l + 1
      BY SMTT(30), <2>0, <2>2 DEF UniqueQ
    <3>2. k = l
      BY SMTT(30), <2>0, <3>1
    <3> QED BY <2>2, <3>2
  <2>3. CASE Old(k, i) /\ New(l, j)
    <3>0. q[k][old(k, i)].pageNumber = q[l + 1][1].pageNumber
      BY <2>3
    <3>1. k = l + 1 /\ old(k, i) = 1
      BY SMTT(30), <2>0, <2>3, <3>0 DEF UniqueQ
    <3> QED BY <1>7, <2>3, <3>1
  <2>4. CASE New(k, i) /\ Old(l, j)
    <3>0. q[k + 1][1].pageNumber = q[l][old(l, j)].pageNumber
      BY <2>4
    <3>1. l = k + 1 /\ old(l, j) = 1
      BY SMTT(30), <2>0, <2>4, <3>0 DEF UniqueQ
    <3> QED BY <1>7, <2>4, <3>1
  <2>5. (Old(k, i) \/ New(k, i)) /\ (Old(l, j) \/ New(l, j))
    BY <1>9
  <2> HIDE DEF Old, New
  <2> QED BY <2>1, <2>2, <2>3, <2>4, <2>5
<1>11. now + LifeTime \in Nat
  BY SMTT(30), RankingAssumption
<1>12. \A l \in Levels : \A i \in 1 .. Len(q[l]) :
          q[l][i].expirationTime \in Nat /\ q[l][i].expirationTime <= now + LifeTime
  BY <1>1 DEF GoodQ, FreshQ, PageType
<1>13. FreshQ(r, now)
  <2> SUFFICES ASSUME NEW l \in Levels, NEW i \in 1 .. Len(r[l])
               PROVE  r[l][i].expirationTime <= now + LifeTime
    BY DEF FreshQ
  <2>1. \/ /\ old(l, i) \in 1 .. Len(q[l])
           /\ r[l][i] = q[l][old(l, i)]
        \/ D(l) /\ r[l][i] = down(l)
    BY <1>6
  <2>2. CASE old(l, i) \in 1 .. Len(q[l]) /\ r[l][i] = q[l][old(l, i)]
    BY <1>12, <2>2
  <2>3. CASE D(l) /\ r[l][i] = down(l)
    BY SMTT(30), <1>3, <1>11, <2>3
  <2> QED BY <2>1, <2>2, <2>3
<1>14. SortedQ(r)
  <2> SUFFICES ASSUME NEW l \in Levels,
                      NEW i \in 1 .. Len(r[l]), NEW j \in 1 .. Len(r[l]), i <= j
               PROVE  r[l][i].expirationTime <= r[l][j].expirationTime
    BY DEF SortedQ
  <2>1. CASE D(l) /\ r[l][j] = down(l)
    <3>1. r[l][i].expirationTime <= now + LifeTime
      BY <1>13 DEF FreshQ
    <3> QED BY <1>3, <2>1, <3>1
  <2>2. CASE j \in 1 .. Len(keep(l)) /\ old(l, j) \in 1 .. Len(q[l])
                /\ r[l][j] = q[l][old(l, j)]
    <3>1. i # Len(keep(l)) + 1
      BY SMTT(30), <1>2, <2>2
    <3>2. old(l, i) \in 1 .. Len(q[l]) /\ r[l][i] = q[l][old(l, i)]
      BY <1>6, <3>1
    <3>3. old(l, i) <= old(l, j)
      BY <1>8
    <3> QED BY <2>2, <3>2, <3>3 DEF GoodQ, SortedQ
  <2> QED BY <1>6, <2>1, <2>2
<1> QED BY <1>5, <1>10, <1>13, <1>14 DEF GoodQ, r

\* Every non-empty set of naturals has a least element.
LEMMA LeastElement ==
    ASSUME NEW T \in SUBSET Nat, T # {}
    PROVE  \E n \in T : \A m \in T : n <= m
<1>1. PICK n \in T : \A m \in T : ~(<<m, n>> \in OpToRel(<, Nat))
  BY NatLessThanWellFounded, WFMin
<1>2. ASSUME NEW m \in T PROVE ~(m < n)
  BY <1>1 DEF OpToRel
<1> QED BY SMTT(30), <1>2

\* LocateQueue finds a level that holds the page whenever there is one.
LEMMA LocateQueueCorrect ==
    ASSUME NEW q, NEW p
    PROVE  /\ LocateQueue(q, p) = -1 => \A l \in Levels : ~InQueue(q, l, p)
           /\ LocateQueue(q, p) # -1 =>
                 /\ LocateQueue(q, p) \in Levels
                 /\ InQueue(q, LocateQueue(q, p), p)
<1> DEFINE First(l) == /\ InQueue(q, l, p)
                       /\ \A k \in Levels : k < l => ~InQueue(q, k, p)
<1>1. CASE \A l \in Levels : ~InQueue(q, l, p)
  BY <1>1 DEF LocateQueue
<1>2. CASE \E l \in Levels : InQueue(q, l, p)
  <2> DEFINE L == {l \in Levels : InQueue(q, l, p)}
  <2>1. L # {} /\ L \in SUBSET Nat
    BY SMTT(30), <1>2 DEF Levels
  <2>2. PICK n \in L : \A m \in L : n <= m
    BY <2>1, LeastElement
  <2>3. n \in Levels /\ First(n)
    <3>1. \A k \in Levels : k < n => ~InQueue(q, k, p)
      BY SMTT(30), <2>1, <2>2
    <3> QED BY <2>2, <3>1
  <2>4. LocateQueue(q, p) = CHOOSE l \in Levels : First(l)
    BY <1>2 DEF LocateQueue
  <2> HIDE DEF First
  <2>5. LocateQueue(q, p) \in Levels /\ First(LocateQueue(q, p))
    BY <2>3, <2>4
  <2>6. -1 \notin Levels
    BY SMTT(30) DEF Levels
  <2> QED BY <2>5, <2>6 DEF First
<1> QED BY <1>1, <1>2

\* FirstIndex is the index of an entry of the page, if the list has one.
LEMMA FirstIndexCorrect ==
    ASSUME NEW s, NEW p, Len(s) \in Nat, \E i \in 1 .. Len(s) : s[i].pageNumber = p
    PROVE  /\ FirstIndex(s, p) \in 1 .. Len(s)
           /\ s[FirstIndex(s, p)].pageNumber = p
<1> DEFINE First(i) == /\ s[i].pageNumber = p
                       /\ \A j \in 1 .. i - 1 : s[j].pageNumber # p
           I == {i \in 1 .. Len(s) : s[i].pageNumber = p}
<1>1. I # {} /\ I \in SUBSET Nat
  BY SMTT(30)
<1>2. PICK n \in I : \A m \in I : n <= m
  BY <1>1, LeastElement
<1>3. n \in 1 .. Len(s) /\ First(n)
  <2>1. n \in 1 .. Len(s) /\ s[n].pageNumber = p
    BY <1>2
  <2>2. ASSUME NEW j \in 1 .. n - 1 PROVE s[j].pageNumber # p
    <3>1. j \in 1 .. Len(s) /\ ~(n <= j)
      BY SMTT(30), <2>1
    <3> QED BY <1>2, <3>1
  <2> QED BY <2>1, <2>2
<1>4. FirstIndex(s, p) = CHOOSE i \in 1 .. Len(s) : First(i)
  BY DEF FirstIndex
<1> HIDE DEF First
<1>5. FirstIndex(s, p) \in 1 .. Len(s) /\ First(FirstIndex(s, p))
  BY <1>3, <1>4
<1> QED BY <1>5 DEF First

\* One access (join or move) keeps the queues good.
LEMMA TouchedGood ==
    ASSUME NEW q, NEW now \in Nat, NEW p \in Pages, GoodQ(q, now)
    PROVE  GoodQ(Touched(q, p, now), now)
<1>0. q \in [Levels -> Seq(PageType)] /\ 0 \in Levels /\ now + LifeTime \in Nat
  BY SMTT(30), RankingAssumption DEF GoodQ, TypedQ, Levels
<1>1. CASE LocateQueue(q, p) = -1
  <2> DEFINE e == [pageNumber |-> p, referenceCounter |-> 1,
                   expirationTime |-> now + LifeTime]
  <2>1. e \in PageType /\ e.pageNumber = p /\ e.expirationTime = now + LifeTime
    BY <1>0 DEF PageType
  <2>2. \A l \in Levels : ~InQueue(q, l, p)
    BY <1>1, LocateQueueCorrect
  <2>3. Touched(q, p, now) = [q EXCEPT ![0] = Append(@, e)]
    BY <1>1 DEF Touched, JoinQueue
  <2> HIDE DEF e
  <2>4. GoodQ([q EXCEPT ![0] = Append(@, e)], now)
    BY <1>0, <2>1, <2>2, PushGood
  <2> QED BY <2>3, <2>4
<1>2. CASE LocateQueue(q, p) # -1
  <2> DEFINE pos == LocateQueue(q, p)
             i == FirstIndex(q[pos], p)
             e == Accessed(q[pos][i], now)
             up == pos < QueueNum - 1 /\ e.referenceCounter >= PromotionCount(pos)
             erased == [q EXCEPT ![pos] = Erase(@, i)]
             target == IF up THEN pos + 1 ELSE pos
  <2>1. pos \in Levels /\ InQueue(q, pos, p)
    BY <1>2, LocateQueueCorrect
  <2>2. q[pos] \in Seq(PageType) /\ Len(q[pos]) \in Nat
    BY <1>0, <2>1, LenProperties
  <2>3. i \in 1 .. Len(q[pos]) /\ q[pos][i].pageNumber = p
    BY <2>1, <2>2, FirstIndexCorrect DEF InQueue
  <2>4. q[pos][i] \in PageType
    BY <2>2, <2>3, ElementOfSeq
  <2>5. e \in PageType /\ e.pageNumber = p /\ e.expirationTime = now + LifeTime
    BY SMTT(30), <1>0, <2>3, <2>4 DEF PageType, Accessed
  <2>6. target \in Levels
    <3> HIDE DEF e
    <3> QED BY SMTT(30), <2>1, RankingAssumption DEF Levels
  <2>7. Touched(q, p, now) = [erased EXCEPT ![target] = Append(@, e)]
    BY <1>2 DEF Touched, AccessPage
  <2> HIDE DEF pos, i, e, target
  <2>8. GoodQ(erased, now) /\ \A l \in Levels : ~InQueue(erased, l, p)
    BY <2>1, <2>3, EraseGood
  <2> HIDE DEF erased
  <2>9. GoodQ([erased EXCEPT ![target] = Append(@, e)], now)
    BY <2>5, <2>6, <2>8, PushGood
  <2> QED BY <2>7, <2>9
<1> QED BY <1>1, <1>2

-----------------------------------------------------------------------------
\* The inductive invariant.
RankingInv ==
    /\ GoodQ(rankingQueues, currentTime)
    /\ DRAMPageList \subseteq DRAMPages
    /\ demotedDRAMList \subseteq DRAMPages
    /\ currentTime \in Nat

\* RankingInv holds initially.
LEMMA RankingInitInv == RankingInit => RankingInv
<1> SUFFICES ASSUME RankingInit PROVE RankingInv
  OBVIOUS
<1>1. \A l \in Levels : rankingQueues[l] = <<>> /\ Len(rankingQueues[l]) = 0
  BY EmptySeq DEF RankingInit
<1>2. TypedQ(rankingQueues)
  BY EmptySeq DEF RankingInit, TypedQ
<1>3. UniqueQ(rankingQueues) /\ SortedQ(rankingQueues)
      /\ FreshQ(rankingQueues, currentTime)
  BY SMTT(30), <1>1 DEF UniqueQ, SortedQ, FreshQ
<1> QED BY <1>2, <1>3 DEF RankingInv, GoodQ, RankingInit

\* Every step keeps RankingInv.
LEMMA RankingStepInv == RankingInv /\ [RankingNext]_rvars => RankingInv'
<1> SUFFICES ASSUME RankingInv, [RankingNext]_rvars PROVE RankingInv'
  OBVIOUS
<1>1. CASE UNCHANGED rvars
  BY SMTT(30), <1>1 DEF RankingInv, rvars, GoodQ, TypedQ, UniqueQ, SortedQ, FreshQ
<1>2. ASSUME NEW p \in Pages, Account(p) PROVE RankingInv'
  <2> DEFINE now == currentTime + 1
             t == Touched(rankingQueues, p, now)
  <2>0. currentTime \in Nat /\ now \in Nat /\ currentTime' = now
    BY SMTT(30), <1>2 DEF RankingInv, Account
  <2>1. GoodQ(rankingQueues, now)
    <3>0. GoodQ(rankingQueues, currentTime)
      BY DEF RankingInv
    <3>1. \A l \in Levels : \A i \in 1 .. Len(rankingQueues[l]) :
             rankingQueues[l][i] \in PageType
      BY <3>0, ElementOfSeq DEF GoodQ, TypedQ
    <3>2. FreshQ(rankingQueues, now)
      BY SMTT(30), <2>0, <3>0, <3>1, RankingAssumption DEF GoodQ, FreshQ, PageType
    <3> QED BY <3>0, <3>2 DEF GoodQ
  <2> HIDE DEF now
  <2>2. GoodQ(t, now)
    BY <2>0, <2>1, TouchedGood
  <2> HIDE DEF t
  <2>3. GoodQ(CheckQueue(t, demotedDRAMList, now), now)
    BY <2>0, <2>2, CheckGood
  <2>4. rankingQueues' = CheckQueue(t, demotedDRAMList, now)
    BY <1>2 DEF Account, t, now
  <2>5. GoodQ(rankingQueues', currentTime')
    BY <2>0, <2>3, <2>4
  <2>6. DRAMPageList' \subseteq DRAMPages
    BY <1>2 DEF Account, RankingInv
  <2>7. demotedDRAMList' \subseteq DRAMPages
    BY <1>2 DEF Account, RankingInv, DemotedDRAM
  <2> QED
    BY <2>0, <2>5, <2>6, <2>7 DEF RankingInv, GoodQ, TypedQ, UniqueQ, SortedQ, FreshQ
<1> QED BY <1>1, <1>2 DEF RankingNext

\* For every number of levels, life time and set of pages, the accounting of
\* TryMigration keeps at most one entry per page.
THEOREM RankingUnique == RankingSpec => []OneEntryPerPage
<1>1. RankingInv => OneEntryPerPage
  BY DEF RankingInv, GoodQ, UniqueQ, OneEntryPerPage
<1> QED BY <1>1, RankingInitInv, RankingStepInv, PTL DEF RankingSpec

\* For every number of levels, life time and set of pages, each queue is ordered
\* by expiration, so that CheckQueue may inspect its front only.
THEOREM RankingSorted == RankingSpec => []FrontExpiresFirst
<1>1. RankingInv => FrontExpiresFirst
  BY DEF RankingInv, GoodQ, SortedQ, FrontExpiresFirst
<1> QED BY <1>1, RankingInitInv, RankingStepInv, PTL DEF RankingSpec

\* The ranking state is always well typed.
THEOREM RankingTypeCorrect == RankingSpec => []RankingTypeOK
<1>1. RankingInv => RankingTypeOK
  BY DEF RankingInv, GoodQ, TypedQ, RankingTypeOK
<1> QED BY <1>1, RankingInitInv, RankingStepInv, PTL DEF RankingSpec

-----------------------------------------------------------------------------
\* Reference counts.

\* Every entry above level 0 has the count that lifted it there.
CountedQ(q) ==
    \A l \in Levels \ {0} :
        \A i \in 1 .. Len(q[l]) : q[l][i].referenceCounter >= PromotionCount(l - 1)

\* 2 << pos is a number and grows with pos.  A set of n elements has 2^n
\* subsets, and they are also subsets of a larger set.
LEMMA PromotionCountGrows ==
    ASSUME NEW n \in Nat
    PROVE  /\ PromotionCount(n) \in Nat
           /\ PromotionCount(n) <= PromotionCount(n + 1)
<1> DEFINE S(k) == SUBSET (0 .. k)
<1>1. ASSUME NEW k \in Nat
      PROVE  /\ IsFiniteSet(S(k))
             /\ Cardinality(S(k)) = PromotionCount(k)
             /\ PromotionCount(k) \in Nat
  <2>1. IsFiniteSet(0 .. k) /\ Cardinality(0 .. k) = k + 1
    BY SMTT(30), FS_Interval
  <2>2. IsFiniteSet(S(k)) /\ Cardinality(S(k)) = 2^Cardinality(0 .. k)
    BY <2>1, FS_SUBSET
  <2>3. 2^Cardinality(0 .. k) = PromotionCount(k)
    BY <2>1 DEF PromotionCount
  <2>4. Cardinality(S(k)) \in Nat
    BY <2>2, FS_CardinalityType
  <2> QED BY <2>2, <2>3, <2>4
<1>2. n + 1 \in Nat /\ S(n) \in SUBSET S(n + 1)
  BY SMTT(30)
<1> HIDE DEF S
<1>3. IsFiniteSet(S(n + 1)) /\ Cardinality(S(n + 1)) = PromotionCount(n + 1)
  BY <1>1, <1>2
<1>4. Cardinality(S(n)) <= Cardinality(S(n + 1))
  BY <1>2, <1>3, FS_Subset
<1> QED BY <1>1, <1>3, <1>4

\* Where the entries are after a push and after an erasure.
Pushed(q, t, e) == [q EXCEPT ![t] = Append(@, e)]

Erased(q, t, n) == [q EXCEPT ![t] = Erase(@, n)]

\* r has the entries of q in their places, and e at level t; nothing else.
Adds(q, t, e, r) ==
    /\ \E i \in 1 .. Len(r[t]) : r[t][i] = e
    /\ \A l \in Levels : \A i \in 1 .. Len(q[l]) :
          i \in 1 .. Len(r[l]) /\ r[l][i] = q[l][i]
    /\ \A l \in Levels : \A i \in 1 .. Len(r[l]) :
          \/ l = t /\ r[l][i] = e
          \/ i \in 1 .. Len(q[l]) /\ r[l][i] = q[l][i]

\* push_back keeps every entry in its place and adds the new one.
LEMMA PushEntries ==
    ASSUME NEW q, NEW t \in Levels, NEW e \in PageType, TypedQ(q), NEW r,
           r = Pushed(q, t, e)
    PROVE  Adds(q, t, e, r)
<1>1. q[t] \in Seq(PageType) /\ \A l \in Levels : Len(q[l]) \in Nat
  BY LenProperties DEF TypedQ
<1>2. PICK h : h = Append(q[t], e)
  OBVIOUS
<1>3. /\ Len(h) = Len(q[t]) + 1
      /\ \A i \in 1 .. Len(q[t]) : h[i] = q[t][i]
      /\ h[Len(q[t]) + 1] = e
  <2>1. /\ Len(Append(q[t], e)) = Len(q[t]) + 1
        /\ \A i \in 1 .. Len(q[t]) : Append(q[t], e)[i] = q[t][i]
        /\ Append(q[t], e)[Len(q[t]) + 1] = e
    BY SMTT(30), <1>1, AppendProperties
  <2> QED BY <1>2, <2>1
<1>4. r[t] = h /\ \A l \in Levels : l # t => r[l] = q[l]
  BY <1>2 DEF TypedQ, Pushed
<1>5. Len(h) \in 1 .. Len(h) /\ h[Len(h)] = e
  BY SMTT(30), <1>1, <1>3
<1>6. \A i \in 1 .. Len(h) : h[i] = e \/ (i \in 1 .. Len(q[t]) /\ h[i] = q[t][i])
  BY SMTT(30), <1>1, <1>3
<1>7. \A i \in 1 .. Len(q[t]) : i \in 1 .. Len(h)
  BY SMTT(30), <1>1, <1>3
<1>8. \E i \in 1 .. Len(r[t]) : r[t][i] = e
  BY <1>4, <1>5
<1>9. ASSUME NEW l \in Levels, NEW i \in 1 .. Len(q[l])
      PROVE  i \in 1 .. Len(r[l]) /\ r[l][i] = q[l][i]
  BY <1>3, <1>4, <1>7
<1>10. ASSUME NEW l \in Levels, NEW i \in 1 .. Len(r[l])
       PROVE  \/ l = t /\ r[l][i] = e
              \/ i \in 1 .. Len(q[l]) /\ r[l][i] = q[l][i]
  BY <1>4, <1>6
<1> QED BY <1>8, <1>9, <1>10 DEF Adds

\* Every entry of q but the n-th of level t is in r, at the same level.
AllBut(q, t, n, r) ==
    \A l \in Levels : \A i \in 1 .. Len(q[l]) :
        \/ l = t /\ i = n
        \/ \E j \in 1 .. Len(r[l]) : r[l][j] = q[l][i]

\* Every entry of r is in q, at the same level.
Within(r, q) ==
    \A l \in Levels : \A i \in 1 .. Len(r[l]) :
        \E j \in 1 .. Len(q[l]) : r[l][i] = q[l][j]

\* erase removes the one entry it is given and no other.
LEMMA EraseEntries ==
    ASSUME NEW q, NEW t \in Levels, NEW n \in 1 .. Len(q[t]), TypedQ(q), NEW r,
           r = Erased(q, t, n)
    PROVE  TypedQ(r) /\ AllBut(q, t, n, r) /\ Within(r, q)
<1>1. q[t] \in Seq(PageType) /\ \A l \in Levels : Len(q[l]) \in Nat
  BY LenProperties DEF TypedQ
<1>2. PICK h : h = Erase(q[t], n)
  OBVIOUS
<1>3. /\ h \in Seq(PageType)
      /\ Len(h) = Len(q[t]) - 1
      /\ \A j \in 1 .. Len(q[t]) - 1 : h[j] = IF j < n THEN q[t][j] ELSE q[t][j + 1]
  BY <1>1, <1>2, EraseProperties
<1>4. r[t] = h /\ \A l \in Levels : l # t => r[l] = q[l]
  BY <1>2 DEF TypedQ, Erased
<1>5. TypedQ(r)
  BY <1>2, <1>3 DEF TypedQ, Erased
<1>6. ASSUME NEW i \in 1 .. Len(q[t]), i # n
      PROVE  \E j \in 1 .. Len(h) : h[j] = q[t][i]
  <2>1. CASE i < n
    <3>1. i \in 1 .. Len(h) /\ h[i] = q[t][i]
      BY SMTT(30), <1>1, <1>3, <2>1
    <3> QED BY <3>1
  <2>2. CASE ~(i < n)
    <3>1. i - 1 \in 1 .. Len(h) /\ h[i - 1] = q[t][(i - 1) + 1]
      BY SMTT(30), <1>1, <1>3, <1>6, <2>2
    <3>2. (i - 1) + 1 = i
      BY SMTT(30)
    <3> QED BY <3>1, <3>2
  <2> QED BY <2>1, <2>2
<1>7. ASSUME NEW i \in 1 .. Len(h)
      PROVE  \E j \in 1 .. Len(q[t]) : h[i] = q[t][j]
  <2>1. /\ i \in 1 .. Len(q[t]) /\ i + 1 \in 1 .. Len(q[t])
        /\ h[i] = q[t][i] \/ h[i] = q[t][i + 1]
    BY SMTT(30), <1>1, <1>3
  <2> QED BY <2>1
<1>8. AllBut(q, t, n, r)
  BY SMTT(30), <1>4, <1>6 DEF AllBut
<1>9. Within(r, q)
  BY SMTT(30), <1>4, <1>7 DEF Within
<1> QED BY <1>5, <1>8, <1>9

\* The entry AccessPage moves: the page's own, one reference older and fresh.
LEMMA AccessedEntry ==
    ASSUME NEW q, NEW now \in Nat, NEW p, TypedQ(q), LocateQueue(q, p) # -1
    PROVE  LET pos == LocateQueue(q, p)
               n == FirstIndex(q[pos], p)
               e == Accessed(q[pos][n], now)
               up == pos < QueueNum - 1 /\ e.referenceCounter >= PromotionCount(pos)
           IN  /\ pos \in Levels
               /\ n \in 1 .. Len(q[pos])
               /\ (IF up THEN pos + 1 ELSE pos) \in Levels
               /\ e \in PageType
               /\ e.pageNumber = p /\ q[pos][n].pageNumber = p
               /\ e.referenceCounter = q[pos][n].referenceCounter + 1
               /\ e.expirationTime = now + LifeTime
<1> DEFINE pos == LocateQueue(q, p)
           n == FirstIndex(q[pos], p)
           e == Accessed(q[pos][n], now)
           up == pos < QueueNum - 1 /\ e.referenceCounter >= PromotionCount(pos)
<1>1. pos \in Levels /\ InQueue(q, pos, p)
  BY LocateQueueCorrect
<1>2. q[pos] \in Seq(PageType) /\ Len(q[pos]) \in Nat
  BY <1>1, LenProperties DEF TypedQ
<1>3. n \in 1 .. Len(q[pos]) /\ q[pos][n].pageNumber = p
  BY <1>1, <1>2, FirstIndexCorrect DEF InQueue
<1>4. q[pos][n] \in PageType
  BY <1>2, <1>3, ElementOfSeq
<1>5. /\ e \in PageType /\ e.pageNumber = p
      /\ e.referenceCounter = q[pos][n].referenceCounter + 1
      /\ e.expirationTime = now + LifeTime
  BY SMTT(30), <1>3, <1>4, RankingAssumption DEF PageType, Accessed
<1>6. (IF up THEN pos + 1 ELSE pos) \in Levels
  <2> HIDE DEF e
  <2> QED BY SMTT(30), <1>1, RankingAssumption DEF Levels
<1> QED BY <1>1, <1>3, <1>5, <1>6

\* Time passing keeps the queues good.
LEMMA LaterGood ==
    ASSUME NEW q, NEW now \in Nat, GoodQ(q, now)
    PROVE  now + 1 \in Nat /\ GoodQ(q, now + 1)
<1>1. \A l \in Levels : \A i \in 1 .. Len(q[l]) : q[l][i] \in PageType
  BY ElementOfSeq DEF GoodQ, TypedQ
<1>2. FreshQ(q, now + 1)
  BY SMTT(30), <1>1, RankingAssumption DEF GoodQ, FreshQ, PageType
<1> QED BY SMTT(30), <1>2 DEF GoodQ

\* An access leaves every entry in place or refreshes it.
LEMMA TouchedRemembers ==
    ASSUME NEW q, NEW now \in Nat, NEW p \in Pages, GoodQ(q, now),
           NEW l \in Levels, NEW i \in 1 .. Len(q[l])
    PROVE  \E k \in Levels : \E j \in 1 .. Len(Touched(q, p, now)[k]) :
              LET e == Touched(q, p, now)[k][j]
              IN  /\ e.pageNumber = q[l][i].pageNumber
                  /\ e.expirationTime \in {q[l][i].expirationTime, now + LifeTime}
<1>0. TypedQ(q) /\ 0 \in Levels /\ now + LifeTime \in Nat
  BY SMTT(30), RankingAssumption DEF GoodQ, Levels
<1>1. PICK r : r = Touched(q, p, now)
  OBVIOUS
<1>2. CASE LocateQueue(q, p) = -1
  <2> DEFINE e == [pageNumber |-> p, referenceCounter |-> 1,
                   expirationTime |-> now + LifeTime]
  <2>1. e \in PageType
    BY <1>0 DEF PageType
  <2>2. r = Pushed(q, 0, e)
    BY <1>1, <1>2 DEF Touched, JoinQueue, Pushed
  <2> HIDE DEF e
  <2>3. i \in 1 .. Len(r[l]) /\ r[l][i] = q[l][i]
    <3>1. Adds(q, 0, e, r)
      BY <1>0, <2>1, <2>2, PushEntries
    <3> QED BY <3>1 DEF Adds
  <2> QED BY <1>1, <2>3
<1>3. CASE LocateQueue(q, p) # -1
  <2> DEFINE pos == LocateQueue(q, p)
             n == FirstIndex(q[pos], p)
             e == Accessed(q[pos][n], now)
             up == pos < QueueNum - 1 /\ e.referenceCounter >= PromotionCount(pos)
             target == IF up THEN pos + 1 ELSE pos
  <2>1. /\ pos \in Levels /\ n \in 1 .. Len(q[pos]) /\ target \in Levels
        /\ e \in PageType /\ e.pageNumber = q[pos][n].pageNumber
        /\ e.expirationTime = now + LifeTime
    <3>1. pos \in Levels /\ n \in 1 .. Len(q[pos]) /\ e \in PageType
      BY <1>0, <1>3, AccessedEntry
    <3>2. target \in Levels
      BY <1>0, <1>3, AccessedEntry
    <3>3. e.pageNumber = q[pos][n].pageNumber /\ e.expirationTime = now + LifeTime
      BY DEF Accessed
    <3> QED BY <3>1, <3>2, <3>3
  <2>2. r = Pushed(Erased(q, pos, n), target, e)
    BY <1>1, <1>3 DEF Touched, AccessPage, Pushed, Erased
  <2> HIDE DEF pos, n, e, target
  <2>3. PICK erased : erased = Erased(q, pos, n)
    OBVIOUS
  <2>4. /\ TypedQ(erased)
        /\ \/ l = pos /\ i = n
           \/ \E j \in 1 .. Len(erased[l]) : erased[l][j] = q[l][i]
    <3>1. TypedQ(erased) /\ AllBut(q, pos, n, erased)
      BY <1>0, <2>1, <2>3, EraseEntries
    <3> QED BY <3>1 DEF AllBut
  <2>5. r = Pushed(erased, target, e)
    BY <2>2, <2>3
  <2>6. /\ \E j \in 1 .. Len(r[target]) : r[target][j] = e
        /\ \A j \in 1 .. Len(erased[l]) :
              j \in 1 .. Len(r[l]) /\ r[l][j] = erased[l][j]
    <3>1. Adds(erased, target, e, r)
      BY <2>1, <2>4, <2>5, PushEntries
    <3> QED BY <3>1 DEF Adds
  <2>7. CASE l = pos /\ i = n
    BY SMTT(30), <1>1, <2>1, <2>6, <2>7
  <2>8. CASE \E j \in 1 .. Len(erased[l]) : erased[l][j] = q[l][i]
    BY <1>1, <2>6, <2>8
  <2> QED BY <2>4, <2>7, <2>8
<1> QED BY <1>2, <1>3

\* CheckQueue drops or moves only the expired front of a level; every other
\* entry stays.
LEMMA CheckRemembers ==
    ASSUME NEW q, NEW now \in Nat, NEW demoted, TypedQ(q),
           NEW l \in Levels, NEW i \in 1 .. Len(q[l])
    PROVE  \/ \E j \in 1 .. Len(CheckQueue(q, demoted, now)[l]) :
                 CheckQueue(q, demoted, now)[l][j] = q[l][i]
           \/ now > q[l][i].expirationTime
<1> DEFINE k == IF Expired(q, l, now) THEN i - 1 ELSE i
<1>0. q[l] \in Seq(PageType) /\ Len(q[l]) \in Nat
  BY LenProperties DEF TypedQ
<1>1. CASE Expired(q, l, now) /\ i = 1
  BY SMTT(30), <1>0, <1>1 DEF Expired
<1>2. CASE ~(Expired(q, l, now) /\ i = 1)
  <2>1. k \in 1 .. Len(Kept(q, l, now)) /\ Origin(q, l, k, now) = i
    <3>1. StayInOrder(q, l, now)
      BY KeptEntries
    <3>2. Len(Kept(q, l, now)) = IF Expired(q, l, now) THEN Len(q[l]) - 1 ELSE Len(q[l])
      BY <3>1 DEF StayInOrder
    <3> QED BY SMTT(30), <1>0, <1>2, <3>2 DEF Origin
  <2> HIDE DEF k
  <2>2. /\ k \in 1 .. Len(CheckQueue(q, demoted, now)[l])
        /\ CheckQueue(q, demoted, now)[l][k] = q[l][Origin(q, l, k, now)]
    <3>1. StayOrComeDown(q, l, demoted, now, CheckQueue(q, demoted, now)[l])
      BY CheckEntries
    <3> QED BY <2>1, <3>1 DEF StayOrComeDown
  <2> QED BY <2>1, <2>2
<1> QED BY <1>1, <1>2

\* An access keeps the counts: a page moves up with the count the next level
\* asks for, and stays with one more than it had.
LEMMA TouchedCounted ==
    ASSUME NEW q, NEW now \in Nat, NEW p \in Pages, TypedQ(q), CountedQ(q)
    PROVE  CountedQ(Touched(q, p, now))
<1>0. 0 \in Levels /\ now + LifeTime \in Nat
  BY SMTT(30), RankingAssumption DEF Levels
<1>1. PICK r : r = Touched(q, p, now)
  OBVIOUS
<1>2. CASE LocateQueue(q, p) = -1
  <2> DEFINE e == [pageNumber |-> p, referenceCounter |-> 1,
                   expirationTime |-> now + LifeTime]
  <2>1. e \in PageType
    BY <1>0 DEF PageType
  <2>2. r = Pushed(q, 0, e)
    BY <1>1, <1>2 DEF Touched, JoinQueue, Pushed
  <2> HIDE DEF e
  <2>3. \A l \in Levels : \A i \in 1 .. Len(r[l]) :
           \/ l = 0 /\ r[l][i] = e
           \/ i \in 1 .. Len(q[l]) /\ r[l][i] = q[l][i]
    <3>1. Adds(q, 0, e, r)
      BY <1>0, <2>1, <2>2, PushEntries
    <3> QED BY <3>1 DEF Adds
  <2> QED BY <1>1, <2>3 DEF CountedQ
<1>3. CASE LocateQueue(q, p) # -1
  <2> DEFINE pos == LocateQueue(q, p)
             n == FirstIndex(q[pos], p)
             e == Accessed(q[pos][n], now)
             up == pos < QueueNum - 1 /\ e.referenceCounter >= PromotionCount(pos)
             target == IF up THEN pos + 1 ELSE pos
  <2>1. /\ pos \in Levels /\ n \in 1 .. Len(q[pos]) /\ target \in Levels
        /\ e \in PageType
        /\ e.referenceCounter = q[pos][n].referenceCounter + 1
    <3>1. pos \in Levels /\ n \in 1 .. Len(q[pos]) /\ e \in PageType
      BY <1>3, AccessedEntry
    <3>2. target \in Levels
      BY <1>3, AccessedEntry
    <3>3. e.referenceCounter = q[pos][n].referenceCounter + 1
      BY SMTT(30), <1>3, AccessedEntry
    <3> QED BY <3>1, <3>2, <3>3
  <2>2. r = Pushed(Erased(q, pos, n), target, e)
    BY <1>1, <1>3 DEF Touched, AccessPage, Pushed, Erased
  <2>3. target # 0 => e.referenceCounter >= PromotionCount(target - 1)
    <3>0. q[pos][n] \in PageType
      BY <2>1, ElementOfSeq DEF TypedQ
    <3>1. pos \in Nat /\ q[pos][n].referenceCounter \in Nat
      BY SMTT(30), <2>1, <3>0 DEF Levels, PageType
    <3> HIDE DEF pos, n, e
    <3>2. CASE up
      <4>1. (pos + 1) - 1 = pos
        BY SMTT(30), <3>1
      <4> QED BY <3>2, <4>1
    <3>3. CASE ~up
      <4> SUFFICES ASSUME pos # 0 PROVE e.referenceCounter >= PromotionCount(pos - 1)
        BY <3>3
      <4>1. q[pos][n].referenceCounter >= PromotionCount(pos - 1)
        BY <2>1 DEF CountedQ
      <4>2. PromotionCount(pos - 1) \in Nat
        <5>1. pos - 1 \in Nat
          BY SMTT(30), <3>1
        <5> QED BY <5>1, PromotionCountGrows
      <4> QED BY SMTT(30), <2>1, <3>1, <4>1, <4>2
    <3> QED BY <3>2, <3>3
  <2> HIDE DEF pos, n, e, target
  <2>4. PICK erased : erased = Erased(q, pos, n)
    OBVIOUS
  <2>5. /\ TypedQ(erased)
        /\ \A l \in Levels : \A i \in 1 .. Len(erased[l]) :
              \E j \in 1 .. Len(q[l]) : erased[l][i] = q[l][j]
    <3>1. TypedQ(erased) /\ Within(erased, q)
      BY <2>1, <2>4, EraseEntries
    <3> QED BY <3>1 DEF Within
  <2>6. r = Pushed(erased, target, e)
    BY <2>2, <2>4
  <2>7. \A l \in Levels : \A i \in 1 .. Len(r[l]) :
           \/ l = target /\ r[l][i] = e
           \/ i \in 1 .. Len(erased[l]) /\ r[l][i] = erased[l][i]
    <3>1. Adds(erased, target, e, r)
      BY <2>1, <2>5, <2>6, PushEntries
    <3> QED BY <3>1 DEF Adds
  <2>8. ASSUME NEW l \in Levels \ {0}, NEW i \in 1 .. Len(r[l])
        PROVE  r[l][i].referenceCounter >= PromotionCount(l - 1)
    <3>1. CASE l = target /\ r[l][i] = e
      BY <2>3, <3>1
    <3>2. CASE i \in 1 .. Len(erased[l]) /\ r[l][i] = erased[l][i]
      <4>1. PICK j \in 1 .. Len(q[l]) : erased[l][i] = q[l][j]
        BY <2>5, <3>2
      <4> QED BY <3>2, <4>1 DEF CountedQ
    <3> QED BY <2>7, <3>1, <3>2
  <2> QED BY <1>1, <2>8 DEF CountedQ
<1> QED BY <1>2, <1>3

\* CheckQueue keeps the counts: what comes down had enough for a higher level.
LEMMA CheckCounted ==
    ASSUME NEW q, NEW now \in Nat, NEW demoted, TypedQ(q), CountedQ(q)
    PROVE  CountedQ(CheckQueue(q, demoted, now))
<1>1. PICK r : r = CheckQueue(q, demoted, now)
  OBVIOUS
<1> SUFFICES ASSUME NEW l \in Levels \ {0}, NEW i \in 1 .. Len(r[l])
             PROVE  r[l][i].referenceCounter >= PromotionCount(l - 1)
  BY <1>1 DEF CountedQ
<1>2. \/ \E j \in 1 .. Len(q[l]) : r[l][i] = q[l][j]
      \/ ComesDown(q, l, demoted, now) /\ r[l][i] = Refreshed(q, l, now)
  <2>1. l \in Levels
    OBVIOUS
  <2>2. StayInOrder(q, l, now)
    BY <2>1, KeptEntries
  <2>3. StayOrComeDown(q, l, demoted, now, CheckQueue(q, demoted, now)[l])
    BY <2>1, CheckEntries
  <2>4. StayOrComeDown(q, l, demoted, now, r[l])
    BY <1>1, <2>3
  <2> QED BY <2>2, <2>4 DEF StayInOrder, StayOrComeDown
<1>3. CASE \E j \in 1 .. Len(q[l]) : r[l][i] = q[l][j]
  BY <1>3 DEF CountedQ
<1>4. CASE ComesDown(q, l, demoted, now) /\ r[l][i] = Refreshed(q, l, now)
  <2>1. /\ l + 1 \in Levels /\ 1 \in 1 .. Len(q[l + 1])
        /\ r[l][i].referenceCounter = q[l + 1][1].referenceCounter
    <3>1. l \in Levels
      OBVIOUS
    <3>2. /\ l + 1 \in Levels /\ 1 \in 1 .. Len(q[l + 1])
          /\ Refreshed(q, l, now).referenceCounter = q[l + 1][1].referenceCounter
      BY <1>4, <3>1, RefreshedEntry
    <3> QED BY <1>4, <3>2
  <2>2. l \in Nat /\ l - 1 \in Nat /\ l + 1 # 0 /\ (l + 1) - 1 = (l - 1) + 1
    BY SMTT(30) DEF Levels
  <2>3. q[l + 1][1].referenceCounter >= PromotionCount((l - 1) + 1)
    BY <2>1, <2>2 DEF CountedQ
  <2>4. q[l + 1][1] \in PageType
    BY <2>1, ElementOfSeq DEF TypedQ
  <2>5. q[l + 1][1].referenceCounter \in Nat
    BY <2>4 DEF PageType
  <2>6. /\ PromotionCount(l - 1) \in Nat
        /\ PromotionCount((l - 1) + 1) \in Nat
        /\ PromotionCount(l - 1) <= PromotionCount((l - 1) + 1)
    <3>1. (l - 1) + 1 \in Nat
      BY SMTT(30), <2>2
    <3> QED BY <2>2, <3>1, PromotionCountGrows
  <2>7. \A a, b, c \in Nat : a >= b /\ c <= b => a >= c
    BY SMTT(30)
  <2> QED BY <2>1, <2>3, <2>5, <2>6, <2>7
<1> QED BY <1>2, <1>3, <1>4

\* The counts are part of the inductive invariant.
LEMMA CountedStep ==
    RankingInv /\ CountedQ(rankingQueues) /\ [RankingNext]_rvars
        => CountedQ(rankingQueues)'
<1> SUFFICES ASSUME RankingInv, CountedQ(rankingQueues), [RankingNext]_rvars
             PROVE  CountedQ(rankingQueues)'
  OBVIOUS
<1>1. CASE UNCHANGED rvars
  BY <1>1 DEF rvars, CountedQ
<1>2. ASSUME NEW p \in Pages, Account(p) PROVE CountedQ(rankingQueues)'
  <2>1. PICK now : now = currentTime + 1
    OBVIOUS
  <2>2. now \in Nat /\ GoodQ(rankingQueues, now)
    BY <2>1, LaterGood DEF RankingInv
  <2>3. PICK t : t = Touched(rankingQueues, p, now)
    OBVIOUS
  <2>4. TypedQ(t) /\ CountedQ(t)
    <3>1. TypedQ(rankingQueues)
      BY <2>2 DEF GoodQ
    <3>2. GoodQ(t, now)
      BY <2>2, <2>3, TouchedGood
    <3>3. CountedQ(t)
      BY <2>2, <2>3, <3>1, TouchedCounted
    <3> QED BY <3>2, <3>3 DEF GoodQ
  <2>5. PICK d : d = demotedDRAMList
    OBVIOUS
  <2>6. CountedQ(CheckQueue(t, d, now))
    BY <2>2, <2>4, CheckCounted
  <2>7. rankingQueues' = CheckQueue(t, d, now)
    BY <1>2, <2>1, <2>3, <2>5 DEF Account
  <2> QED BY <2>6, <2>7 DEF CountedQ
<1> QED BY <1>1, <1>2 DEF RankingNext

\* For every number of levels, life time and set of pages, an entry above level 0
\* has the reference count AccessPage asked for, also after CheckQueue moved it
\* down: a page found in THRESHOLD_QUEUE is hot.
THEOREM RankingCounted == RankingSpec => []CountMatchesLevel
<1>1. RankingInit => CountedQ(rankingQueues)
  <2>1. RankingInit => \A l \in Levels : Len(rankingQueues[l]) = 0
    BY EmptySeq DEF RankingInit
  <2> QED BY SMTT(30), <2>1 DEF CountedQ
<1>2. CountedQ(rankingQueues) => CountMatchesLevel
  BY DEF CountedQ, CountMatchesLevel
<1> QED BY <1>1, <1>2, RankingInitInv, RankingStepInv, CountedStep, PTL DEF RankingSpec

\* For every number of levels, life time and set of pages, a page the queues
\* forget was expired: joining, moving up, moving down and dropping never lose a
\* page that is still within its life time.
THEOREM RankingRemembers == RankingSpec => ForgottenOnlyWhenExpired
<1> DEFINE Lost == \A l \in Levels : \A i \in 1 .. Len(rankingQueues[l]) :
                      rankingQueues[l][i].pageNumber \notin Tracked(rankingQueues')
                         => currentTime' > rankingQueues[l][i].expirationTime
<1>1. RankingInv /\ [RankingNext]_rvars => [Lost]_rvars
  <2> SUFFICES ASSUME RankingInv, NEW p \in Pages, Account(p),
                      NEW l \in Levels, NEW i \in 1 .. Len(rankingQueues[l]),
                      rankingQueues[l][i].pageNumber \notin Tracked(rankingQueues')
               PROVE  currentTime' > rankingQueues[l][i].expirationTime
    BY DEF RankingNext
  <2>1. PICK now : now = currentTime + 1
    OBVIOUS
  <2>2. now \in Nat /\ GoodQ(rankingQueues, now)
    BY <2>1, LaterGood DEF RankingInv
  <2>3. PICK t : t = Touched(rankingQueues, p, now)
    OBVIOUS
  <2>4. PICK d : d = demotedDRAMList
    OBVIOUS
  <2>5. GoodQ(t, now) /\ TypedQ(t)
    <3>1. GoodQ(t, now)
      BY <2>2, <2>3, TouchedGood
    <3> QED BY <3>1 DEF GoodQ
  <2>6. rankingQueues' = CheckQueue(t, d, now) /\ currentTime' = now
    BY <2>1, <2>3, <2>4 DEF Account
  <2>7. PICK x : x = rankingQueues[l][i]
    OBVIOUS
  <2>8. PICK k \in Levels : \E j \in 1 .. Len(t[k]) :
           /\ t[k][j].pageNumber = x.pageNumber
           /\ t[k][j].expirationTime \in {x.expirationTime, now + LifeTime}
    BY <2>2, <2>3, <2>7, TouchedRemembers
  <2>9. PICK j \in 1 .. Len(t[k]) :
           /\ t[k][j].pageNumber = x.pageNumber
           /\ t[k][j].expirationTime \in {x.expirationTime, now + LifeTime}
    BY <2>8
  <2>10. x \in PageType /\ t[k][j] \in PageType
    <3>1. rankingQueues \in [Levels -> Seq(PageType)]
      BY <2>2 DEF GoodQ, TypedQ
    <3>2. t \in [Levels -> Seq(PageType)]
      BY <2>5 DEF TypedQ
    <3> QED BY <2>7, <3>1, <3>2, ElementOfSeq
  <2>11. PICK r : r = CheckQueue(t, d, now)
    OBVIOUS
  <2>12. ~ \E m \in 1 .. Len(r[k]) : r[k][m] = t[k][j]
    <3> SUFFICES ASSUME NEW m \in 1 .. Len(r[k]), r[k][m] = t[k][j] PROVE FALSE
      OBVIOUS
    <3>1. x.pageNumber \in Pages /\ r[k][m].pageNumber = x.pageNumber
      BY <2>9, <2>10 DEF PageType
    <3>2. x.pageNumber \in Tracked(r)
      BY <3>1 DEF Tracked, InQueue
    <3> QED BY <2>6, <2>7, <2>11, <3>2
  <2>13. now > t[k][j].expirationTime
    <3>1. \/ \E m \in 1 .. Len(CheckQueue(t, d, now)[k]) :
                CheckQueue(t, d, now)[k][m] = t[k][j]
          \/ now > t[k][j].expirationTime
      BY SMTT(30), <2>2, <2>5, CheckRemembers
    <3> QED BY <2>11, <2>12, <3>1
  <2>14. t[k][j].expirationTime = x.expirationTime
    BY SMTT(30), <2>2, <2>9, <2>10, <2>13, RankingAssumption DEF PageType
  <2> QED BY <2>6, <2>7, <2>13, <2>14
<1>2. ForgottenOnlyWhenExpired <=> [][Lost]_rvars
  BY DEF ForgottenOnlyWhenExpired
<1> QED BY <1>1, <1>2, RankingInitInv, RankingStepInv, PTL DEF RankingSpec
=============================================================================
