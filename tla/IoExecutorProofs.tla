-------------------------- MODULE IoExecutorProofs --------------------------
(***************************************************************************)
(* Proofs about the process-wide I/O executor, for every number of workers, *)
(* hosts and pools.                                                        *)
(***************************************************************************)
EXTENDS IoExecutor, FiniteSetTheorems, WellFoundedInduction, TLAPS

-----------------------------------------------------------------------------
(* What pop_next finds *)

\* A set of natural numbers that is not empty has a least element.
LEMMA Least ==
  ASSUME NEW S \in SUBSET Nat, S # {}
  PROVE  \E m \in S : \A n \in S : m <= n
<1> DEFINE R == {ss \in Nat \X Nat : ss[1] < ss[2]}
<1>1. R = OpToRel(<, Nat)
  BY Zenon DEF OpToRel
<1>2. IsWellFoundedOn(R, Nat)
  BY <1>1, NatLessThanWellFounded, Zenon
<1> HIDE DEF R
<1>3. PICK m \in S : \A n \in S : <<n, m>> \notin R
  BY <1>2, WFMin, Zenon
<1>4. \A n \in S : ~(n < m)
  BY <1>3, Zenon DEF R
<1> QED
  BY <1>4

\* pop_priority takes a job from a pool that has an offer.
LEMMA NextClassOffers ==
  ASSUME NEW s, NEW fairness, NEW p, Offers(s, fairness, p) # {},
         s.cursor[p] \in Pools
  PROVE  NextClass(s, fairness, p) \in Offers(s, fairness, p)
<1> DEFINE O == Offers(s, fairness, p)
           offset(c) == (c + PoolCount - s.cursor[p]) % PoolCount
<1>1. O \subseteq Pools
  BY Zenon DEF Offers
<1>2. \A c \in O : offset(c) \in Nat
  BY <1>1, ExecutorAssumption DEF Pools
<1>3. PICK m \in {offset(c) : c \in O} : \A n \in {offset(c) : c \in O} : m <= n
  <2>1. {offset(c) : c \in O} \in SUBSET Nat /\ {offset(c) : c \in O} # {}
    BY <1>2, Zenon
  <2> QED
    BY <2>1, Least, Zenon
<1>4. \E c \in O : \A d \in O : offset(c) <= offset(d)
  BY <1>3, Zenon
<1> QED
  BY <1>4, Zenon DEF NextClass

\* The first of some places is one of them.
LEMMA FirstIn ==
  ASSUME NEW I \in SUBSET Nat, I # {}
  PROVE  First(I) \in I /\ \A j \in I : First(I) <= j
  BY Least, Zenon DEF First

\* A sequence that is two sequences in a row.
LEMMA InARow ==
  ASSUME NEW S, NEW a \in Seq(S), NEW b \in Seq(S)
  PROVE  /\ a \o b \in Seq(S) /\ Len(a \o b) = Len(a) + Len(b)
         /\ \A i \in 1..Len(a) : (a \o b)[i] = a[i]
         /\ \A i \in 1..Len(b) : (a \o b)[Len(a) + i] = b[i]
<1>1. a \o b \in Seq(S) /\ Len(a \o b) = Len(a) + Len(b)
  OBVIOUS
<1>2. \A i \in 1..Len(a) : (a \o b)[i] = a[i]
  OBVIOUS
<1>3. ASSUME NEW i \in 1..Len(b) PROVE (a \o b)[Len(a) + i] = b[i]
  <2>1. /\ Len(a) \in Nat /\ Len(b) \in Nat /\ Len(a) + i \in 1..(Len(a) + Len(b))
        /\ ~(Len(a) + i <= Len(a)) /\ Len(a) + i - Len(a) = i
    OBVIOUS
  <2> QED
    BY <2>1
<1> QED
  BY <1>1, <1>2, <1>3, Zenon

\* pop_with_fairness tries every priority, and nothing else.
LEMMA OrderFacts ==
  ASSUME NEW s
  PROVE  /\ Order(s) \in Seq(Priorities)
         /\ \A p \in Priorities : \E i \in 1..Len(Order(s)) : Order(s)[i] = p
<1> DEFINE tail == <<Blocking, Async, Background>>
<1>1. /\ <<Background>> \in Seq(Priorities) /\ <<>> \in Seq(Priorities)
      /\ tail \in Seq(Priorities) /\ Len(tail) = 3
  BY DEF Priorities
<1>2. PICK head \in Seq(Priorities) : Order(s) = head \o tail
  BY <1>1, Zenon DEF Order
<1>3. \A p \in Priorities : \E k \in 1..3 : tail[k] = p
  BY DEF Priorities, Blocking, Async, Background
<1> HIDE DEF tail
<1>4. /\ Order(s) \in Seq(Priorities) /\ Len(Order(s)) = Len(head) + 3
      /\ \A i \in 1..3 : Order(s)[Len(head) + i] = tail[i]
  <2>1. /\ head \o tail \in Seq(Priorities)
        /\ Len(head \o tail) = Len(head) + Len(tail)
        /\ \A i \in 1..Len(head) : (head \o tail)[i] = head[i]
        /\ \A i \in 1..Len(tail) : (head \o tail)[Len(head) + i] = tail[i]
    <3>1. tail \in Seq(Priorities)
      BY <1>1, Zenon
    <3> QED
      BY <3>1, InARow
  <2> QED
    BY <1>1, <1>2, <2>1
<1>5. ASSUME NEW p \in Priorities PROVE \E i \in 1..Len(Order(s)) : Order(s)[i] = p
  <2>1. PICK k \in 1..3 : tail[k] = p
    BY <1>3, Zenon
  <2>2. Len(head) + k \in 1..Len(Order(s)) /\ Order(s)[Len(head) + k] = p
    BY <1>4, <2>1
  <2> QED
    BY <2>2, Zenon
<1> QED
  BY <1>4, <1>5, Zenon

\* pop_next: a fair pass over the priorities and a relaxed one.
LEMMA AttemptFacts ==
  ASSUME NEW s
  PROVE  /\ Order(s) \in Seq(Priorities)
         /\ DOMAIN Attempts(s) = 1..(Len(Order(s)) + Len(Order(s)))
         /\ \A i \in 1..Len(Order(s)) : Attempts(s)[i] = <<"enforced", Order(s)[i]>>
         /\ \A i \in 1..Len(Order(s)) :
              Attempts(s)[Len(Order(s)) + i] = <<"relaxed", Order(s)[i]>>
<1> DEFINE order == Order(s)
           n == Len(order)
           E == {"enforced", "relaxed"} \X Priorities
           a == [i \in 1..n |-> <<"enforced", order[i]>>]
           b == [i \in 1..n |-> <<"relaxed", order[i]>>]
<1>1. order \in Seq(Priorities)
  BY OrderFacts, Zenon
<1>2. n \in Nat /\ DOMAIN order = 1..n /\ \A i \in 1..n : order[i] \in Priorities
  BY <1>1
<1>3. Attempts(s) = a \o b
  BY <1>2, Zenon DEF Attempts
<1> HIDE DEF order, n
<1>4. a \in [1..n -> E] /\ b \in [1..n -> E]
  BY <1>2
<1>5. /\ \A i \in 1..n : a[i] = <<"enforced", order[i]>>
      /\ \A i \in 1..n : b[i] = <<"relaxed", order[i]>>
  BY Zenon
<1> HIDE DEF E, a, b
<1>6. a \in Seq(E) /\ b \in Seq(E)
  BY <1>2, <1>4
<1>7. Len(a) = n /\ Len(b) = n
  BY <1>2, <1>4
<1>8. /\ a \o b \in Seq(E) /\ Len(a \o b) = n + n
      /\ \A i \in 1..n : (a \o b)[i] = a[i]
      /\ \A i \in 1..n : (a \o b)[n + i] = b[i]
  <2>1. /\ a \o b \in Seq(E) /\ Len(a \o b) = Len(a) + Len(b)
        /\ \A i \in 1..Len(a) : (a \o b)[i] = a[i]
        /\ \A i \in 1..Len(b) : (a \o b)[Len(a) + i] = b[i]
    BY <1>6, InARow
  <2> QED
    BY <1>7, <2>1, Zenon
<1>9. DOMAIN (a \o b) = 1..(n + n)
  BY <1>8
<1> QED
  BY <1>1, <1>3, <1>5, <1>8, <1>9, Zenon DEF order, n

\* Every attempt is made with one of the priorities.
LEMMA AttemptPriority ==
  ASSUME NEW s, NEW i \in DOMAIN Attempts(s)
  PROVE  Attempts(s)[i][2] \in Priorities
<1> DEFINE n == Len(Order(s))
<1>1. Order(s) \in Seq(Priorities) /\ i \in 1..(n + n)
  BY AttemptFacts, Zenon
<1>2. n \in Nat /\ \A k \in 1..n : Order(s)[k] \in Priorities
  BY <1>1
<1>3. PICK k \in 1..n : i = k \/ i = n + k
  <2>1. CASE i <= n
    BY <1>1, <1>2, <2>1
  <2>2. CASE ~(i <= n)
    <3>1. i - n \in 1..n /\ i = n + (i - n)
      BY <1>1, <1>2, <2>2
    <3> QED
      BY <3>1
  <2> QED
    BY <2>1, <2>2
<1>4. Attempts(s)[i] = <<"enforced", Order(s)[k]>> \/ Attempts(s)[i] = <<"relaxed", Order(s)[k]>>
  BY <1>3, AttemptFacts, Zenon
<1> QED
  BY <1>2, <1>4

\* The attempt that pop_next stops at has an offer, and none before it has one.
LEMMA FoundOffers ==
  ASSUME NEW s, Found(s) # 0
  PROVE  /\ ~(s.active >= WorkerCount)
         /\ Found(s) \in DOMAIN Attempts(s)
         /\ LET a == Attempts(s)[Found(s)] IN Offers(s, a[1], a[2]) # {}
         /\ \A j \in DOMAIN Attempts(s) :
              Offers(s, Attempts(s)[j][1], Attempts(s)[j][2]) # {} => Found(s) <= j
<1>1. /\ ~(s.active >= WorkerCount) /\ Successful(s) # {}
      /\ Found(s) = First(Successful(s))
  BY Zenon DEF Found
<1>2. DOMAIN Attempts(s) \subseteq Nat
  BY AttemptFacts
<1>3. Successful(s) \in SUBSET Nat
  BY <1>2, Zenon DEF Successful
<1>4. Found(s) \in Successful(s) /\ \A j \in Successful(s) : Found(s) <= j
  BY <1>1, <1>3, FirstIn, Zenon
<1> QED
  BY <1>1, <1>4, Zenon DEF Successful

\* The fields of QueueState that the proofs follow, and their types.
Fields == {"jobs", "rotation", "known", "cursor", "activeClass", "activeHost",
           "pendingHost", "retired", "active", "pending", "dispatched", "closed"}

QueueTyped(s) ==
  /\ DOMAIN s = Fields
  /\ s.rotation \in [Lanes -> Seq(Hosts)]
  /\ s.cursor \in [Priorities -> Pools]
  /\ s.activeClass \in [Pools -> Nat]
  /\ s.activeHost \in [Hosts -> Nat]
  /\ s.active \in Nat

\* The host that pop_where stops at is in the rotation of the lane and eligible.
LEMMA TurnFound ==
  ASSUME NEW s, NEW fairness, NEW turns \in Seq(Hosts),
         \E h \in {turns[i] : i \in DOMAIN turns} : Eligible(s, fairness, h)
  PROVE  /\ Turn(s, fairness, turns) \in 1..Len(turns)
         /\ Eligible(s, fairness, turns[Turn(s, fairness, turns)])
<1> DEFINE I == {i \in DOMAIN turns : Eligible(s, fairness, turns[i])}
<1>1. DOMAIN turns = 1..Len(turns) /\ DOMAIN turns \subseteq Nat
  OBVIOUS
<1>2. I # {} /\ I \in SUBSET Nat
  BY <1>1, Zenon
<1>3. Turn(s, fairness, turns) \in I
  BY <1>2, FirstIn, Zenon DEF Turn
<1> QED
  BY <1>1, <1>3, Zenon

\* What pop_priority changes of the running jobs when there is an offer: one more
\* job, of a host and of a pool below its cap.
LEMMA PopPriorityFacts ==
  ASSUME NEW s, QueueTyped(s), NEW fairness, NEW p \in Priorities,
         Offers(s, fairness, p) # {}, NEW job, job = PopPriority(s, fairness, p)
  PROVE  /\ job.pool \in Pools /\ job.host \in Hosts
         /\ s.activeClass[job.pool] < ClassCap(job.pool)
         /\ QueueTyped(job.state)
         /\ job.state.active = s.active + 1
         /\ job.state.activeClass = [s.activeClass EXCEPT ![job.pool] = @ + 1]
         /\ job.state.activeHost = [s.activeHost EXCEPT ![job.host] = @ + 1]
<1> DEFINE c == NextClass(s, fairness, p)
           l == <<p, c>>
           turns == s.rotation[l]
           i == Turn(s, fairness, turns)
           h == turns[i]
           rest == SubSeq(turns, i + 1, Len(turns)) \o SubSeq(turns, 1, i - 1)
           after == IF s.jobs[l][h] = 1 THEN rest ELSE Append(rest, h)
<1>1. c \in Offers(s, fairness, p)
  BY NextClassOffers, Zenon DEF QueueTyped
<1>2. /\ c \in Pools /\ s.activeClass[c] < ClassCap(c)
      /\ \E g \in {turns[k] : k \in DOMAIN turns} : Eligible(s, fairness, g)
  BY <1>1, Zenon DEF Offers, InTurn
<1>3. l \in Lanes /\ turns \in Seq(Hosts)
  BY <1>2, Zenon DEF Lanes, QueueTyped
<1>4. i \in 1..Len(turns)
  BY <1>2, <1>3, TurnFound
<1>5. h \in Hosts
  BY <1>3, <1>4
<1>6. rest \in Seq(Hosts)
  <2>1. ASSUME NEW S, NEW t \in Seq(S), NEW k \in 1..Len(t)
        PROVE  SubSeq(t, k + 1, Len(t)) \o SubSeq(t, 1, k - 1) \in Seq(S)
    BY <2>1
  <2> QED
    BY <1>3, <1>4, <2>1, Zenon
<1>7. after \in Seq(Hosts)
  <2> HIDE DEF rest, h
  <2>1. Append(rest, h) \in Seq(Hosts)
    BY <1>5, <1>6
  <2> QED
    BY <1>6, <2>1, Zenon
<1>8. CursorAfter(c) \in Pools
  BY <1>2, ExecutorAssumption DEF CursorAfter, Pools
<1>9. /\ job.host = h /\ job.pool = c
      /\ job.state = [s EXCEPT
           !.jobs[l][h] = @ - 1,
           !.rotation[l] = after,
           !.cursor[p] = CursorAfter(c),
           !.pending = @ - 1, !.pendingHost[h] = @ - 1,
           !.active = @ + 1, !.activeClass[c] = @ + 1, !.activeHost[h] = @ + 1,
           !.dispatched = Counted(@)]
  BY Zenon DEF PopPriority
<1> HIDE DEF c, l, turns, i, h, rest, after
<1>10. DOMAIN s = Fields
  BY Zenon DEF QueueTyped
<1>11. DOMAIN job.state = Fields /\ job.state.active = s.active + 1
  BY <1>9, <1>10, ZenonT(60) DEF Fields
<1>12. job.state.activeClass = [s.activeClass EXCEPT ![c] = @ + 1]
  BY <1>9, <1>10, ZenonT(60), SMTT(30) DEF Fields
<1>13. job.state.activeHost = [s.activeHost EXCEPT ![h] = @ + 1]
  BY <1>9, <1>10, ZenonT(60), SMTT(30) DEF Fields
<1>14. job.state.cursor = [s.cursor EXCEPT ![p] = CursorAfter(c)]
  BY <1>9, <1>10, ZenonT(60), SMTT(30) DEF Fields
<1>15. job.state.rotation = [s.rotation EXCEPT ![l] = after]
  BY <1>9, <1>10, ZenonT(60), SMTT(30) DEF Fields
<1>16. QueueTyped(job.state)
  <2>1. job.state.rotation \in [Lanes -> Seq(Hosts)]
    BY <1>3, <1>7, <1>15 DEF QueueTyped
  <2>2. job.state.cursor \in [Priorities -> Pools]
    BY <1>8, <1>14 DEF QueueTyped
  <2>3. job.state.activeClass \in [Pools -> Nat] /\ job.state.active \in Nat
    BY <1>2, <1>11, <1>12 DEF QueueTyped
  <2>4. job.state.activeHost \in [Hosts -> Nat]
    BY <1>5, <1>13 DEF QueueTyped
  <2> QED
    BY <1>11, <2>1, <2>2, <2>3, <2>4, Zenon DEF QueueTyped
<1> QED
  BY <1>2, <1>5, <1>9, <1>11, <1>12, <1>13, <1>16, Zenon

\* The same of pop_next.
LEMMA PopFacts ==
  ASSUME NEW s, QueueTyped(s), Found(s) # 0, NEW job, job = PopNext(s)
  PROVE  /\ job.pool \in Pools /\ job.host \in Hosts
         /\ s.activeClass[job.pool] < ClassCap(job.pool)
         /\ QueueTyped(job.state)
         /\ job.state.active = s.active + 1
         /\ job.state.activeClass = [s.activeClass EXCEPT ![job.pool] = @ + 1]
         /\ job.state.activeHost = [s.activeHost EXCEPT ![job.host] = @ + 1]
<1> DEFINE a == Attempts(s)[Found(s)]
<1>1. Offers(s, a[1], a[2]) # {} /\ a[2] \in Priorities
  BY FoundOffers, AttemptPriority, Zenon
<1>2. job = PopPriority(s, a[1], a[2])
  BY Zenon DEF PopNext
<1> HIDE DEF a
<1> QED
  BY <1>1, <1>2, PopPriorityFacts

-----------------------------------------------------------------------------
(* The accounts of the running jobs *)

Unoccupied == [pc : {"none", "start", "asleep", "woken", "exited"}]

\* The workers of B with a job of pool c, of host h.
InPool(B, c) == {w \in B : at[w].pool = c}
OfHost(B, h) == {w \in B : at[w].host = h}

\* Queue s accounts for the jobs of the workers in B, and is within the caps.
Accounts(s, B) ==
  /\ s.active = Cardinality(B)
  /\ \A c \in Pools : /\ s.activeClass[c] = Cardinality(InPool(B, c))
                      /\ s.activeClass[c] <= ClassCap(c)
  /\ \A h \in Hosts : s.activeHost[h] = Cardinality(OfHost(B, h))

\* The inductive invariant behind the caps and the accounts.
AccountInv ==
  /\ QueueTyped(q) /\ at \in [Workers -> Unoccupied \cup Jobs]
  /\ Accounts(q, Busy)
  /\ started \/ \A w \in Workers : at[w].pc = "none"

\* The running jobs of one kind when a worker has no job any more.
LEMMA OneLess ==
  ASSUME NEW B \in SUBSET Workers, NEW w \in B
  PROVE  /\ Cardinality(B) \in Nat /\ Cardinality(B) >= 1
         /\ Cardinality(B \ {w}) = Cardinality(B) - 1
<1>1. IsFiniteSet(B)
  BY FS_Subset, ExecutorAssumption
<1>2. Cardinality(B) \in Nat /\ Cardinality(B \ {w}) = Cardinality(B) - 1
  BY <1>1, FS_RemoveElement, FS_CardinalityType
<1>3. Cardinality(B \ {w}) \in Nat
  BY <1>1, FS_RemoveElement, FS_CardinalityType
<1> QED
  BY <1>2, <1>3

\* The running jobs of one kind when a worker takes one.
LEMMA OneMore ==
  ASSUME NEW B \in SUBSET Workers, NEW w \in Workers \ B
  PROVE  Cardinality(B \cup {w}) = Cardinality(B) + 1
<1>1. IsFiniteSet(B)
  BY FS_Subset, ExecutorAssumption, Zenon
<1> QED
  BY <1>1, FS_AddElement

\* The cap of a pool is a number.
LEMMA CapTyped == \A c \in Pools : ClassCap(c) \in Nat
<1>1. WorkerCount \in Nat
  BY ExecutorAssumption, FS_CardinalityType DEF WorkerCount
<1> QED
  BY <1>1, Zenon DEF ClassCap, CpuHeavyCap

\* complete takes a job off every account it is on; none of the checked_subs fails.
LEMMA CompleteFacts ==
  ASSUME AccountInv, NEW w \in Workers, at[w].pc = "done"
  PROVE  /\ QueueTyped(Completed(w)) /\ Accounts(Completed(w), Busy \ {w})
         /\ q.active >= 1 /\ q.activeClass[at[w].pool] >= 1 /\ q.activeHost[at[w].host] >= 1
<1> DEFINE k == at[w].pool
           g == at[w].host
           d == [q EXCEPT !.active = @ - 1, !.activeClass[k] = @ - 1,
                          !.activeHost[g] = @ - 1]
           s == Completed(w)
<1>1. k \in Pools /\ g \in Hosts /\ w \in Busy
  BY Zenon DEF AccountInv, Unoccupied, Jobs, Busy
<1>2. /\ q.active >= 1
      /\ q.active - 1 = Cardinality(Busy \ {w})
  <2>1. Busy \in SUBSET Workers
    BY Zenon DEF Busy
  <2>2. q.active = Cardinality(Busy)
    BY Zenon DEF AccountInv, Accounts
  <2>3. Cardinality(Busy) >= 1 /\ Cardinality(Busy \ {w}) = Cardinality(Busy) - 1
    BY <1>1, <2>1, OneLess, Zenon
  <2> QED
    BY <2>2, <2>3, Zenon
<1>3. ASSUME NEW c \in Pools
      PROVE  IF c = k
             THEN /\ q.activeClass[c] >= 1
                  /\ q.activeClass[c] - 1 = Cardinality(InPool(Busy \ {w}, c))
             ELSE q.activeClass[c] = Cardinality(InPool(Busy \ {w}, c))
  <2> DEFINE B == InPool(Busy, c)
  <2>1. q.activeClass[c] = Cardinality(B) /\ B \in SUBSET Workers
    BY Zenon DEF AccountInv, Accounts, Busy, InPool
  <2>2. CASE c = k
    <3>1. w \in B /\ InPool(Busy \ {w}, c) = B \ {w}
      BY <1>1, <2>2 DEF InPool
    <3>2. Cardinality(B) >= 1 /\ Cardinality(B \ {w}) = Cardinality(B) - 1
      BY <2>1, <3>1, OneLess
    <3> QED
      BY <2>1, <2>2, <3>1, <3>2
  <2>3. CASE c # k
    <3>1. InPool(Busy \ {w}, c) = B
      BY <2>3, Zenon DEF InPool
    <3> QED
      BY <2>1, <2>3, <3>1
  <2> QED
    BY <2>2, <2>3, Zenon
<1>4. ASSUME NEW h \in Hosts
      PROVE  IF h = g
             THEN /\ q.activeHost[h] >= 1
                  /\ q.activeHost[h] - 1 = Cardinality(OfHost(Busy \ {w}, h))
             ELSE q.activeHost[h] = Cardinality(OfHost(Busy \ {w}, h))
  <2> DEFINE B == OfHost(Busy, h)
  <2>1. q.activeHost[h] = Cardinality(B) /\ B \in SUBSET Workers
    BY Zenon DEF AccountInv, Accounts, Busy, OfHost
  <2>2. CASE h = g
    <3>1. w \in B /\ OfHost(Busy \ {w}, h) = B \ {w}
      BY <1>1, <2>2, Zenon DEF OfHost
    <3>2. Cardinality(B) >= 1 /\ Cardinality(B \ {w}) = Cardinality(B) - 1
      BY <2>1, <3>1, OneLess, Zenon
    <3> QED
      BY <2>1, <2>2, <3>1, <3>2
  <2>3. CASE h # g
    <3>1. OfHost(Busy \ {w}, h) = B
      BY <2>3, Zenon DEF OfHost
    <3> QED
      BY <2>1, <2>3, <3>1, Zenon
  <2> QED
    BY <2>2, <2>3, Zenon
<1>5. s = CleanupRetiredHost(d, g)
  BY Zenon DEF Completed, Complete
<1>6. /\ DOMAIN d = Fields /\ d.rotation = q.rotation /\ d.cursor = q.cursor
      /\ d.active = q.active - 1
      /\ d.activeClass = [q.activeClass EXCEPT ![k] = @ - 1]
      /\ d.activeHost = [q.activeHost EXCEPT ![g] = @ - 1]
  BY Zenon DEF AccountInv, QueueTyped, Fields
<1> HIDE DEF d, s, k, g
<1>7. s = d \/ s = [d EXCEPT !.retired = @ \ {g}, !.known = @ \ {g}]
  BY <1>5, Zenon DEF CleanupRetiredHost
<1>8. /\ DOMAIN s = Fields /\ s.rotation = q.rotation /\ s.cursor = q.cursor
      /\ s.active = q.active - 1
      /\ s.activeClass = [q.activeClass EXCEPT ![k] = @ - 1]
      /\ s.activeHost = [q.activeHost EXCEPT ![g] = @ - 1]
  <2>1. CASE s = d
    BY <1>6, <2>1, Zenon
  <2>2. CASE s = [d EXCEPT !.retired = @ \ {g}, !.known = @ \ {g}]
    BY <1>6, <2>2, Zenon DEF Fields
  <2> QED
    BY <1>7, <2>1, <2>2, Zenon
<1>9. /\ q.active \in Nat /\ q.activeClass \in [Pools -> Nat]
      /\ q.activeHost \in [Hosts -> Nat]
  BY Zenon DEF AccountInv, QueueTyped
<1>10. QueueTyped(s)
  <2>1. s.active \in Nat
    BY <1>2, <1>8, <1>9
  <2>2. s.activeClass \in [Pools -> Nat]
    <3>1. q.activeClass[k] \in Nat /\ q.activeClass[k] >= 1
      BY <1>1, <1>3, <1>9
    <3> QED
      BY <1>1, <1>8, <1>9, <3>1
  <2>3. s.activeHost \in [Hosts -> Nat]
    <3>1. q.activeHost[g] \in Nat /\ q.activeHost[g] >= 1
      BY <1>1, <1>4, <1>9
    <3> QED
      BY <1>1, <1>8, <1>9, <3>1
  <2> QED
    BY <1>8, <2>1, <2>2, <2>3 DEF AccountInv, QueueTyped
<1>11. ASSUME NEW c \in Pools
       PROVE  /\ s.activeClass[c] = Cardinality(InPool(Busy \ {w}, c))
              /\ s.activeClass[c] <= q.activeClass[c]
  <2>1. q.activeClass[c] \in Nat
    BY <1>9, Zenon
  <2>2. CASE c = k
    <3>1. s.activeClass[c] = q.activeClass[c] - 1
      BY <1>1, <1>8, <1>9, <2>2
    <3>2. q.activeClass[c] - 1 = Cardinality(InPool(Busy \ {w}, c))
      BY <1>3, <2>2, Zenon
    <3> QED
      BY <2>1, <3>1, <3>2
  <2>3. CASE c # k
    <3>1. s.activeClass[c] = q.activeClass[c]
      BY <1>1, <1>8, <1>9, <2>3
    <3>2. q.activeClass[c] = Cardinality(InPool(Busy \ {w}, c))
      BY <1>3, <2>3, Zenon
    <3> QED
      BY <2>1, <3>1, <3>2
  <2> QED
    BY <2>2, <2>3, Zenon
<1>12. ASSUME NEW h \in Hosts
       PROVE  s.activeHost[h] = Cardinality(OfHost(Busy \ {w}, h))
  <2>1. CASE h = g
    <3>1. s.activeHost[h] = q.activeHost[h] - 1
      BY <1>1, <1>8, <1>9, <2>1
    <3>2. q.activeHost[h] - 1 = Cardinality(OfHost(Busy \ {w}, h))
      BY <1>4, <2>1, Zenon
    <3> QED
      BY <3>1, <3>2, Zenon
  <2>2. CASE h # g
    <3>1. s.activeHost[h] = q.activeHost[h]
      BY <1>1, <1>8, <1>9, <2>2
    <3>2. q.activeHost[h] = Cardinality(OfHost(Busy \ {w}, h))
      BY <1>4, <2>2, Zenon
    <3> QED
      BY <3>1, <3>2, Zenon
  <2> QED
    BY <2>1, <2>2, Zenon
<1>13. \A c \in Pools : ClassCap(c) \in Nat /\ q.activeClass[c] <= ClassCap(c)
  BY CapTyped, Zenon DEF AccountInv, Accounts
<1>14. \A c \in Pools : s.activeClass[c] <= ClassCap(c)
  <2> TAKE c \in Pools
  <2>1. s.activeClass[c] \in Nat
    BY <1>10, Zenon DEF QueueTyped
  <2>2. s.activeClass[c] <= q.activeClass[c] /\ q.activeClass[c] \in Nat
    BY <1>9, <1>11, Zenon
  <2> QED
    BY <1>13, <2>1, <2>2
<1>15. s.active = Cardinality(Busy \ {w})
  BY <1>2, <1>8, Zenon
<1>16. Accounts(s, Busy \ {w})
  BY <1>11, <1>12, <1>14, <1>15, SMTT(30) DEF Accounts
<1> QED
  BY <1>1, <1>2, <1>3, <1>4, <1>10, <1>16 DEF s, k, g

\* What next_job looks at: the worker's last job is on no account any more.
LEMMA LooksFacts ==
  ASSUME AccountInv, NEW w \in Workers, Looks(w)
  PROVE  QueueTyped(Completed(w)) /\ Accounts(Completed(w), Busy \ {w})
<1>1. CASE at[w].pc = "done"
  BY <1>1, CompleteFacts, Zenon
<1>2. CASE at[w].pc # "done"
  <2>1. Busy \ {w} = Busy /\ Completed(w) = q
    BY <1>2, Zenon DEF Busy, Looks, Completed
  <2> QED
    BY <2>1, Zenon DEF AccountInv
<1> QED
  BY <1>1, <1>2, Zenon

\* A notification changes no worker but one that sleeps.
LEMMA NotifyFacts ==
  ASSUME AccountInv, NEW others \in NotifyOne
  PROVE  /\ others \in [Workers -> Unoccupied \cup Jobs]
         /\ \A u \in Workers :
              others[u] = at[u] \/ (u \notin Busy /\ others[u].pc = "woken")
<1>1. CASE others = at
  BY <1>1, Zenon DEF AccountInv
<1>2. ASSUME NEW v \in Asleep, others = [at EXCEPT ![v].pc = "woken"]
      PROVE  /\ others \in [Workers -> Unoccupied \cup Jobs]
             /\ \A u \in Workers :
                  others[u] = at[u] \/ (u \notin Busy /\ others[u].pc = "woken")
  <2>1. v \in Workers /\ at[v].pc = "asleep" /\ v \notin Busy
    BY Zenon DEF Asleep, Busy
  <2>2. at[v] \in Unoccupied
    BY <2>1, Zenon DEF AccountInv, Jobs
  <2>3. [at[v] EXCEPT !.pc = "woken"] \in Unoccupied
        /\ [at[v] EXCEPT !.pc = "woken"].pc = "woken"
    BY <2>2, Zenon DEF Unoccupied
  <2>4. others = [at EXCEPT ![v] = [at[v] EXCEPT !.pc = "woken"]]
    BY <1>2, Zenon
  <2> QED
    BY <2>1, <2>3, <2>4, Zenon DEF AccountInv
<1> QED
  BY <1>1, <1>2, Zenon DEF NotifyOne

\* A queue that accounts for the jobs of B still does when B is busy with them.
LEMMA AccountsMove ==
  ASSUME NEW s, NEW B, Accounts(s, B), Busy' = B,
         \A u \in B : at'[u].pool = at[u].pool /\ at'[u].host = at[u].host,
         q'.active = s.active, q'.activeClass = s.activeClass,
         q'.activeHost = s.activeHost
  PROVE  Accounts(q, Busy)'
<1>1. \A c \in Pools : InPool(Busy, c)' = InPool(B, c)
  BY Zenon DEF InPool
<1>2. \A h \in Hosts : OfHost(Busy, h)' = OfHost(B, h)
  BY Zenon DEF OfHost
<1>3. q'.active = Cardinality(Busy')
  BY Zenon DEF Accounts
<1>4. \A c \in Pools : /\ q'.activeClass[c] = Cardinality(InPool(Busy, c)')
                       /\ q'.activeClass[c] <= ClassCap(c)
  BY <1>1, Zenon DEF Accounts
<1>5. \A h \in Hosts : q'.activeHost[h] = Cardinality(OfHost(Busy, h)')
  BY <1>2, Zenon DEF Accounts
<1> QED
  BY <1>3, <1>4, <1>5 DEF Accounts

\* next_job takes a job: it goes on every account once, and within the pool's cap.
LEMMA DispatchKeepsAccounts ==
  ASSUME AccountInv, NEW w \in Workers, Dispatch(w)
  PROVE  AccountInv'
<1> DEFINE s == Completed(w)
           B == Busy \ {w}
<1>1. PICK job, others : /\ job = PopNext(s) /\ others \in Notified(w)
                         /\ q' = job.state
                         /\ at' = [others EXCEPT ![w] =
                              [pc |-> "running", host |-> job.host, pool |-> job.pool]]
  <2>1. \E z \in {Completed(w)} : \E job \in {PopNext(z)}, others \in Notified(w) :
          /\ q' = job.state
          /\ at' = [others EXCEPT ![w] =
               [pc |-> "running", host |-> job.host, pool |-> job.pool]]
    BY Zenon DEF Dispatch
  <2> QED
    BY <2>1, Zenon
<1>2. Looks(w) /\ Found(s) # 0 /\ started' = started
  BY Zenon DEF Dispatch
<1>3. QueueTyped(s) /\ Accounts(s, B)
  BY <1>2, LooksFacts, Zenon
<1>4. /\ s.activeClass \in [Pools -> Nat] /\ s.activeHost \in [Hosts -> Nat]
       /\ s.active \in Nat
  BY <1>3, Zenon DEF QueueTyped
<1>5. \A h \in Hosts : s.activeHost[h] = Cardinality(OfHost(B, h))
  BY <1>3, Zenon DEF Accounts
<1>6. /\ job.pool \in Pools /\ job.host \in Hosts
      /\ s.activeClass[job.pool] < ClassCap(job.pool)
      /\ QueueTyped(job.state)
      /\ job.state.active = s.active + 1
      /\ job.state.activeClass = [s.activeClass EXCEPT ![job.pool] = @ + 1]
      /\ job.state.activeHost = [s.activeHost EXCEPT ![job.host] = @ + 1]
  BY <1>1, <1>2, <1>3, PopFacts
<1>7. /\ others \in [Workers -> Unoccupied \cup Jobs]
      /\ \A u \in Workers : others[u] = at[u] \/ (u \notin Busy /\ others[u].pc = "woken")
  <2>1. others \in NotifyOne \/ others = at
    BY <1>1, Zenon DEF Notified
  <2> QED
    BY <2>1, NotifyFacts, Zenon DEF AccountInv
<1> HIDE DEF s
<1>8. [pc |-> "running", host |-> job.host, pool |-> job.pool] \in Jobs
  BY <1>6, Zenon DEF Jobs
<1>9. /\ at' \in [Workers -> Unoccupied \cup Jobs]
      /\ at'[w].pc = "running" /\ at'[w].host = job.host /\ at'[w].pool = job.pool
      /\ \A u \in Workers \ {w} : at'[u] = others[u]
  BY <1>1, <1>7, <1>8
<1>10. /\ Busy' = B \cup {w} /\ B \in SUBSET Workers /\ w \in Workers \ B
      /\ \A u \in B : at'[u] = at[u]
  BY <1>7, <1>9 DEF Busy
<1>11. q'.active = Cardinality(Busy')
  BY <1>1, <1>3, <1>6, <1>10, OneMore DEF Accounts
<1>12. ASSUME NEW c \in Pools
       PROVE  /\ q'.activeClass[c] = Cardinality(InPool(Busy, c)')
              /\ q'.activeClass[c] <= ClassCap(c)
  <2> DEFINE C == InPool(B, c)
  <2>1. /\ s.activeClass[c] = Cardinality(C) /\ C \in SUBSET Workers /\ w \in Workers \ C
        /\ s.activeClass[c] <= ClassCap(c) /\ s.activeClass \in [Pools -> Nat]
    <3>1. s.activeClass[c] = Cardinality(C) /\ s.activeClass[c] <= ClassCap(c)
      BY <1>3, Zenon DEF Accounts
    <3>2. C \in SUBSET Workers /\ w \in Workers \ C
      BY <1>10, Zenon DEF InPool
    <3> QED
      BY <1>4, <3>1, <3>2
  <2> HIDE DEF C
  <2>2. CASE c = job.pool
    <3>1. InPool(Busy, c)' = C \cup {w}
      BY <1>9, <1>10, <2>2 DEF InPool, C
    <3>2. q'.activeClass[c] = s.activeClass[c] + 1
      BY <1>1, <1>6, <2>1, <2>2
    <3>3. s.activeClass[c] + 1 <= ClassCap(c)
      <4>1. ClassCap(c) \in Nat
        BY CapTyped, Zenon
      <4> QED
        BY <1>6, <2>1, <2>2, <4>1
    <3>4. Cardinality(C \cup {w}) = Cardinality(C) + 1
      BY <2>1, OneMore
    <3> QED
      BY <2>1, <3>1, <3>2, <3>3, <3>4
  <2>3. CASE c # job.pool
    <3>1. InPool(Busy, c)' = C
      BY <1>9, <1>10, <2>3 DEF InPool, C
    <3> QED
      BY <1>1, <1>6, <2>1, <2>3, <3>1
  <2> QED
    BY <2>2, <2>3
<1>13. ASSUME NEW h \in Hosts
       PROVE  q'.activeHost[h] = Cardinality(OfHost(Busy, h)')
  <2> DEFINE C == OfHost(B, h)
  <2>1. /\ s.activeHost[h] = Cardinality(C) /\ C \in SUBSET Workers /\ w \in Workers \ C
        /\ s.activeHost \in [Hosts -> Nat]
    <3>1. s.activeHost[h] = Cardinality(C)
      BY <1>5, Zenon
    <3>2. C \in SUBSET Workers /\ w \in Workers \ C
      BY <1>10, Zenon DEF OfHost
    <3> QED
      BY <1>4, <3>1, <3>2
  <2> HIDE DEF C
  <2>2. CASE h = job.host
    <3>1. OfHost(Busy, h)' = C \cup {w}
      BY <1>9, <1>10, <2>2 DEF OfHost, C
    <3>2. q'.activeHost[h] = s.activeHost[h] + 1
      BY <1>1, <1>6, <2>1, <2>2
    <3>3. Cardinality(C \cup {w}) = Cardinality(C) + 1
      BY <2>1, OneMore, Zenon
    <3> QED
      BY <2>1, <3>1, <3>2, <3>3
  <2>3. CASE h # job.host
    <3>1. OfHost(Busy, h)' = C
      BY <1>9, <1>10, <2>3 DEF OfHost, C
    <3> QED
      BY <1>1, <1>6, <2>1, <2>3, <3>1
  <2> QED
    BY <2>2, <2>3, Zenon
<1>14. Accounts(q, Busy)'
  BY <1>11, <1>12, <1>13 DEF Accounts
<1>15. started
  BY <1>2, Zenon DEF AccountInv, Looks
<1> QED
  BY <1>1, <1>2, <1>6, <1>9, <1>14, <1>15 DEF AccountInv

\* next_job finds nothing: the worker is on no account any more.
LEMMA FindNothingKeepsAccounts ==
  ASSUME AccountInv, NEW w \in Workers, FindNothing(w)
  PROVE  AccountInv'
<1> DEFINE s == Completed(w)
           B == Busy \ {w}
<1>1. PICK others \in Notified(w), pc \in {"exited", "asleep"} :
        at' = [others EXCEPT ![w] = [pc |-> pc]]
  <2>1. PICK others \in Notified(w) : \E z, p :
          /\ p = IF z.closed /\ z.pending = 0 THEN "exited" ELSE "asleep"
          /\ at' = [others EXCEPT ![w] = [pc |-> p]]
    BY Zenon DEF FindNothing
  <2>2. PICK z, p :
          /\ p = IF z.closed /\ z.pending = 0 THEN "exited" ELSE "asleep"
          /\ at' = [others EXCEPT ![w] = [pc |-> p]]
    BY <2>1, Zenon
  <2>3. p \in {"exited", "asleep"}
    BY <2>2, Zenon
  <2> QED
    BY <2>1, <2>2, <2>3, Zenon
<1>2. Looks(w) /\ q' = s /\ started' = started
  BY Zenon DEF FindNothing
<1>3. QueueTyped(s) /\ Accounts(s, B)
  BY <1>2, LooksFacts, Zenon
<1>4. /\ others \in [Workers -> Unoccupied \cup Jobs]
      /\ \A u \in Workers : others[u] = at[u] \/ (u \notin Busy /\ others[u].pc = "woken")
  <2>1. others \in NotifyOne \/ others = at
    BY <1>1, Zenon DEF Notified
  <2> QED
    BY <2>1, NotifyFacts, Zenon DEF AccountInv
<1> HIDE DEF s
<1>5. [pc |-> pc] \in Unoccupied
  BY Zenon DEF Unoccupied
<1>6. /\ at' \in [Workers -> Unoccupied \cup Jobs]
      /\ at'[w].pc \in {"exited", "asleep"}
      /\ \A u \in Workers \ {w} : at'[u] = others[u]
  BY <1>1, <1>4, <1>5
<1>7. Busy' = B /\ \A u \in B : at'[u] = at[u]
  BY <1>4, <1>6, Zenon DEF Busy
<1>8. Accounts(q, Busy)'
  BY <1>2, <1>3, <1>7, AccountsMove
<1>9. started
  BY <1>2, Zenon DEF AccountInv, Looks
<1>10. QueueTyped(q)'
  BY <1>2, <1>3, Zenon DEF QueueTyped
<1> QED
  BY <1>2, <1>6, <1>8, <1>9, <1>10 DEF AccountInv

\* The job of a worker ends: it stays on its accounts until it is completed.
LEMMA FinishKeepsAccounts ==
  ASSUME AccountInv, NEW w \in Workers, Finish(w)
  PROVE  AccountInv'
<1>1. at[w] \in Jobs /\ at[w].pc = "running"
  BY Zenon DEF AccountInv, Finish, Unoccupied
<1>2. /\ [at[w] EXCEPT !.pc = "done"] \in Jobs
      /\ [at[w] EXCEPT !.pc = "done"].pc = "done"
      /\ [at[w] EXCEPT !.pc = "done"].pool = at[w].pool
      /\ [at[w] EXCEPT !.pc = "done"].host = at[w].host
  BY <1>1, Zenon DEF Jobs
<1>3. at' = [at EXCEPT ![w] = [at[w] EXCEPT !.pc = "done"]] /\ q' = q /\ started' = started
  BY Zenon DEF Finish
<1>4. at' \in [Workers -> Unoccupied \cup Jobs]
  BY <1>2, <1>3, Zenon DEF AccountInv
<1>5. Busy' = Busy
      /\ \A u \in Busy : at'[u].pool = at[u].pool /\ at'[u].host = at[u].host
  BY <1>1, <1>2, <1>3 DEF AccountInv, Busy
<1>6. Accounts(q, Busy)'
  BY <1>3, <1>5, AccountsMove DEF AccountInv
<1>7. started
  BY <1>1, Zenon DEF AccountInv
<1> QED
  BY <1>3, <1>4, <1>6, <1>7 DEF AccountInv, QueueTyped

\* A command of the hosts leaves the accounts of the running jobs alone.
LEMMA HostKeepsAccounts ==
  ASSUME AccountInv, at' \in [Workers -> Unoccupied \cup Jobs],
         \A u \in Workers : at'[u] = at[u] \/ (u \notin Busy /\ at'[u].pc = "woken"),
         QueueTyped(q)', q'.active = q.active, q'.activeClass = q.activeClass,
         q'.activeHost = q.activeHost,
         started' = started, started \/ at' = at
  PROVE  AccountInv'
<1>1. Busy' = Busy /\ \A u \in Busy : at'[u] = at[u]
  BY Zenon DEF Busy
<1>2. Accounts(q, Busy)'
  BY <1>1, AccountsMove, Zenon DEF AccountInv
<1> QED
  BY <1>2, Zenon DEF AccountInv

\* submit and submit_async.
LEMMA EnqueueKeepsAccounts ==
  ASSUME AccountInv, NEW h \in Hosts, NEW l \in Lanes, Enqueue(h, l)
  PROVE  AccountInv'
<1>1. /\ started /\ started' = started /\ at' \in NotifyOne
      /\ q' = Push(q, h, l)
  BY Zenon DEF Enqueue
<1>2. /\ at' \in [Workers -> Unoccupied \cup Jobs]
      /\ \A u \in Workers : at'[u] = at[u] \/ (u \notin Busy /\ at'[u].pc = "woken")
  BY <1>1, NotifyFacts, Zenon
<1>3. /\ DOMAIN q' = Fields /\ q'.cursor = q.cursor /\ q'.active = q.active
      /\ q'.activeClass = q.activeClass /\ q'.activeHost = q.activeHost
      /\ q'.rotation = [q.rotation EXCEPT ![l] =
                          IF q.jobs[l][h] = 0 THEN Append(@, h) ELSE @]
  BY <1>1, Zenon DEF Push, AccountInv, QueueTyped, Fields
<1>4. q.rotation \in [Lanes -> Seq(Hosts)]
  BY Zenon DEF AccountInv, QueueTyped
<1>5. q.rotation[l] \in Seq(Hosts) /\ Append(q.rotation[l], h) \in Seq(Hosts)
  BY <1>4
<1>6. q'.rotation \in [Lanes -> Seq(Hosts)]
  BY <1>3, <1>4, <1>5
<1>7. QueueTyped(q)'
  BY <1>3, <1>6, Zenon DEF AccountInv, QueueTyped
<1> QED
  BY <1>1, <1>2, <1>3, <1>7, HostKeepsAccounts

\* A registration is dropped.
LEMMA RetireKeepsAccounts ==
  ASSUME AccountInv, NEW h \in Hosts, RetireHost(h)
  PROVE  AccountInv'
<1> DEFINE d == [q EXCEPT !.retired = @ \cup {h}]
<1>1. q' = CleanupRetiredHost(d, h) /\ at' = at /\ started' = started
  BY Zenon DEF RetireHost
<1>2. /\ DOMAIN d = Fields /\ d.rotation = q.rotation /\ d.cursor = q.cursor
      /\ d.active = q.active /\ d.activeClass = q.activeClass
      /\ d.activeHost = q.activeHost
  BY Zenon DEF AccountInv, QueueTyped, Fields
<1> HIDE DEF d
<1>3. q' = d \/ q' = [d EXCEPT !.retired = @ \ {h}, !.known = @ \ {h}]
  BY <1>1, Zenon DEF CleanupRetiredHost
<1>4. /\ DOMAIN q' = Fields /\ q'.rotation = q.rotation /\ q'.cursor = q.cursor
      /\ q'.active = q.active /\ q'.activeClass = q.activeClass
      /\ q'.activeHost = q.activeHost
  <2>1. CASE q' = d
    BY <1>2, <2>1, Zenon
  <2>2. CASE q' = [d EXCEPT !.retired = @ \ {h}, !.known = @ \ {h}]
    BY <1>2, <2>2, Zenon DEF Fields
  <2> QED
    BY <1>3, <2>1, <2>2
<1>5. QueueTyped(q)'
  BY <1>4, Zenon DEF AccountInv, QueueTyped
<1> QED
  BY <1>1, <1>4, <1>5, HostKeepsAccounts DEF AccountInv

\* The executor closes and wakes every worker that sleeps.
LEMMA CloseKeepsAccounts ==
  ASSUME AccountInv, Close
  PROVE  AccountInv'
<1>1. /\ q' = [q EXCEPT !.closed = TRUE] /\ started' = started
      /\ at' = [w \in Workers |-> IF w \in Asleep THEN [pc |-> "woken"] ELSE at[w]]
  BY Zenon DEF Close
<1>2. /\ DOMAIN q' = Fields /\ q'.rotation = q.rotation /\ q'.cursor = q.cursor
      /\ q'.active = q.active /\ q'.activeClass = q.activeClass
      /\ q'.activeHost = q.activeHost
  BY <1>1, Zenon DEF AccountInv, QueueTyped, Fields
<1>3. QueueTyped(q)'
  BY <1>2, Zenon DEF AccountInv, QueueTyped
<1>4. \A w \in Asleep : w \notin Busy
  BY Zenon DEF Asleep, Busy
<1>5. [pc |-> "woken"] \in Unoccupied
  BY Zenon DEF Unoccupied
<1>6. /\ at' \in [Workers -> Unoccupied \cup Jobs]
      /\ \A u \in Workers : at'[u] = at[u] \/ (u \notin Busy /\ at'[u].pc = "woken")
  BY <1>1, <1>4, <1>5, Zenon DEF AccountInv
<1>7. started \/ at' = at
  <2>1. CASE ~started
    <3>1. Asleep = {}
      BY <2>1, Zenon DEF AccountInv, Asleep
    <3> QED
      BY <1>1, <3>1, Zenon DEF AccountInv
  <2> QED
    BY <2>1, Zenon
<1> QED
  BY <1>1, <1>2, <1>3, <1>6, <1>7, HostKeepsAccounts

\* The first submit starts the workers; none has a job yet.
LEMMA StartKeepsAccounts ==
  ASSUME AccountInv, EnsureStarted
  PROVE  AccountInv'
<1>1. /\ q' = q /\ started' = TRUE /\ ~started
      /\ at' = [w \in Workers |-> [pc |-> "start"]]
  BY Zenon DEF EnsureStarted
<1>2. Busy = {} /\ Busy' = {}
  BY <1>1, Zenon DEF AccountInv, Busy
<1>3. Accounts(q, Busy)'
  BY <1>1, <1>2, AccountsMove DEF AccountInv
<1>4. [pc |-> "start"] \in Unoccupied
  BY Zenon DEF Unoccupied
<1> QED
  BY <1>1, <1>3, <1>4 DEF AccountInv, QueueTyped

\* No job runs at first.
LEMMA InitAccounts == Init => AccountInv
<1> SUFFICES ASSUME Init PROVE AccountInv
  OBVIOUS
<1>1. Busy = {}
  BY Zenon DEF Init, Busy
<1>2. Cardinality({}) = 0
  BY FS_EmptySet, Zenon
<1>3. \A c : InPool({}, c) = {} /\ OfHost({}, c) = {}
  BY Zenon DEF InPool, OfHost
<1>4. Accounts(q, {})
  <2>1. /\ q.active = 0 /\ \A c \in Pools : q.activeClass[c] = 0
        /\ \A h \in Hosts : q.activeHost[h] = 0
    BY Zenon DEF Init
  <2>2. \A c \in Pools : 0 <= ClassCap(c)
    BY CapTyped
  <2> QED
    BY <1>2, <1>3, <2>1, <2>2 DEF Accounts
<1>5. 0 \in Pools
  BY ExecutorAssumption DEF Pools
<1>6. QueueTyped(q)
  BY <1>5 DEF Init, QueueTyped, Fields
<1>7. at \in [Workers -> Unoccupied \cup Jobs] /\ \A w \in Workers : at[w].pc = "none"
  BY Zenon DEF Init, Unoccupied
<1> QED
  BY <1>1, <1>4, <1>6, <1>7 DEF AccountInv

\* Every step of the executor keeps the accounts.
LEMMA NextAccounts == AccountInv /\ [Next]_vars => AccountInv'
<1> SUFFICES ASSUME AccountInv, [Next]_vars PROVE AccountInv'
  OBVIOUS
<1>1. CASE EnsureStarted
  BY <1>1, StartKeepsAccounts, Zenon
<1>2. CASE Close
  BY <1>2, CloseKeepsAccounts, Zenon
<1>3. ASSUME NEW h \in Hosts, RetireHost(h) PROVE AccountInv'
  BY <1>3, RetireKeepsAccounts, Zenon
<1>4. ASSUME NEW h \in Hosts, NEW l \in Kinds, Enqueue(h, l) PROVE AccountInv'
  BY <1>4, EnqueueKeepsAccounts, KindsAssumption, Zenon
<1>5. ASSUME NEW w \in Workers, Dispatch(w) PROVE AccountInv'
  BY <1>5, DispatchKeepsAccounts, Zenon
<1>6. ASSUME NEW w \in Workers, FindNothing(w) PROVE AccountInv'
  BY <1>6, FindNothingKeepsAccounts, Zenon
<1>7. ASSUME NEW w \in Workers, Finish(w) PROVE AccountInv'
  BY <1>7, FinishKeepsAccounts, Zenon
<1>8. CASE UNCHANGED vars
  BY <1>8, HostKeepsAccounts, Zenon DEF vars, AccountInv, QueueTyped
<1> QED
  BY <1>1, <1>2, <1>3, <1>4, <1>5, <1>6, <1>7, <1>8 DEF Next

\* The accounts are right from the start and after every step of the executor:
\* the counts of running jobs by pool, by host and in all are those of the jobs
\* the workers have, no pool is over its cap, and complete never subtracts from 0.
THEOREM AccountInvariant == Spec => []AccountInv
  BY InitAccounts, NextAccounts, PTL DEF Spec

\* For every number of workers, hosts and pools: the counts pop_next decides by
\* are exact and no pool runs more jobs than its cap.
THEOREM RunningHolds == Spec => []RunningExact
<1>1. AccountInv => RunningExact
  BY Zenon DEF AccountInv, Accounts, RunningExact, InPool, OfHost
<1> QED
  BY <1>1, AccountInvariant, PTL

-----------------------------------------------------------------------------
(* The jobs that wait *)

\* The elements of a rotation, and that it holds each of them once.
Members(r) == {r[k] : k \in DOMAIN r}
Once(r) == \A i, j \in DOMAIN r : r[i] = r[j] => i = j

\* The jobs of every lane and host.
JobTable == [Lanes -> [Hosts -> Nat]]

\* Queue s keeps its three records of what waits in agreement.
Waits(s) ==
  /\ s.jobs \in JobTable
  /\ s.pendingHost \in [Hosts -> Nat] /\ s.pending \in Nat
  /\ \A l \in Lanes : /\ Members(s.rotation[l]) = {h \in Hosts : s.jobs[l][h] > 0}
                      /\ Once(s.rotation[l])
  /\ IsFiniteSet(Queued(s)) /\ s.pending = Cardinality(Queued(s))
  /\ \A h \in Hosts : s.pendingHost[h] = Cardinality(QueuedOf(s, h))

\* The hosts whose registration is gone: forgotten with their last job, and until
\* then marked for it.
HostForgotten(s, registration, h) ==
  IF registration = "held" THEN h \notin s.retired
  ELSE IF s.pendingHost[h] = 0 /\ s.activeHost[h] = 0
       THEN h \notin s.retired /\ h \notin s.known
       ELSE h \in s.retired

Forgets(s, registrations) == \A h \in Hosts : HostForgotten(s, registrations[h], h)

\* The inductive invariant about the jobs that wait.
WaitInv ==
  /\ AccountInv /\ host \in [Hosts -> {"held", "dropped"}]
  /\ Waits(q) /\ Forgets(q, host)

\* The rotation once the host in place i is out of it: those after it, then those
\* before it.
Behind(turns, i) == SubSeq(turns, i + 1, Len(turns)) \o SubSeq(turns, 1, i - 1)

\* pop_where leaves the host it serves out of the rotation and keeps the others.
LEMMA RestFacts ==
  ASSUME NEW S, NEW t \in Seq(S), Once(t), NEW i \in 1..Len(t), NEW rest,
         rest = Behind(t, i)
  PROVE  rest \in Seq(S) /\ Once(rest) /\ Members(rest) = Members(t) \ {t[i]}
<1> DEFINE n == Len(t)
           a == SubSeq(t, i + 1, n)
           b == SubSeq(t, 1, i - 1)
           m == n - i
<1>1. n \in Nat /\ i \in Nat /\ m \in Nat /\ i >= 1 /\ i <= n /\ n = m + i
  OBVIOUS
<1>2. /\ a \in Seq(S) /\ Len(a) = m /\ \A k \in 1..m : a[k] = t[i + k]
  OBVIOUS
<1>3. /\ b \in Seq(S) /\ Len(b) = i - 1 /\ \A k \in 1..(i - 1) : b[k] = t[k]
  OBVIOUS
<1> HIDE DEF a, b, m, n
<1>4. /\ rest \in Seq(S) /\ Len(rest) = m + (i - 1)
      /\ \A k \in 1..m : rest[k] = a[k]
      /\ \A k \in 1..(i - 1) : rest[m + k] = b[k]
  <2>1. /\ a \o b \in Seq(S) /\ Len(a \o b) = Len(a) + Len(b)
        /\ \A k \in 1..Len(a) : (a \o b)[k] = a[k]
        /\ \A k \in 1..Len(b) : (a \o b)[Len(a) + k] = b[k]
    <3>1. a \in Seq(S) /\ b \in Seq(S)
      BY <1>2, <1>3, Zenon
    <3> QED
      BY <3>1, InARow
  <2>2. rest = a \o b
    BY DEF a, b, n, Behind
  <2> QED
    BY <1>2, <1>3, <2>1, <2>2, Zenon
<1>5. DOMAIN rest = 1..(m + (i - 1)) /\ DOMAIN t = 1..n
  <2>1. DOMAIN rest = 1..Len(rest) /\ DOMAIN t = 1..Len(t)
    BY <1>4
  <2> QED
    BY <1>4, <2>1, Zenon DEF n
<1> DEFINE from(k) == IF k <= m THEN i + k ELSE k - m
<1>6. \A k : (k <= m => from(k) = i + k) /\ (~(k <= m) => from(k) = k - m)
  BY Zenon
<1> HIDE DEF from
<1>7. ASSUME NEW k \in DOMAIN rest
      PROVE  /\ from(k) \in DOMAIN t /\ from(k) # i /\ rest[k] = t[from(k)]
  <2>1. CASE k <= m
    <3>1. k \in 1..m /\ i + k \in 1..n /\ i + k # i
      BY <1>1, <1>5, <2>1
    <3>2. rest[k] = t[i + k]
      BY <1>2, <1>4, <3>1, Zenon
    <3> QED
      BY <1>5, <1>6, <2>1, <3>1, <3>2, Zenon
  <2>2. CASE ~(k <= m)
    <3>1. k - m \in 1..(i - 1) /\ k - m \in 1..n /\ k - m # i /\ m + (k - m) = k
      <4>1. k \in 1..(m + (i - 1))
        BY <1>5, Zenon
      <4> QED
        BY <1>1, <2>2, <4>1
    <3>2. rest[m + (k - m)] = b[k - m] /\ b[k - m] = t[k - m]
      BY <1>3, <1>4, <3>1, Zenon
    <3> QED
      BY <1>5, <1>6, <2>2, <3>1, <3>2, Zenon
  <2> QED
    BY <2>1, <2>2, Zenon
<1>8. ASSUME NEW j \in DOMAIN t, j # i PROVE \E k \in DOMAIN rest : from(k) = j
  <2>1. CASE j > i
    <3>1. j - i \in 1..(m + (i - 1)) /\ j - i <= m /\ i + (j - i) = j
      BY <1>1, <1>5, <2>1
    <3> QED
      BY <1>5, <1>6, <3>1, Zenon
  <2>2. CASE j < i
    <3>1. m + j \in 1..(m + (i - 1)) /\ ~(m + j <= m) /\ (m + j) - m = j
      BY <1>1, <1>5, <2>2
    <3> QED
      BY <1>5, <1>6, <3>1, Zenon
  <2>3. j > i \/ j < i
    BY <1>1, <1>5, <1>8
  <2> QED
    BY <2>1, <2>2, <2>3, Zenon
<1>9. ASSUME NEW j \in DOMAIN rest, NEW k \in DOMAIN rest, from(j) = from(k)
      PROVE  j = k
  <2>1. j \in 1..(m + (i - 1)) /\ k \in 1..(m + (i - 1))
    BY <1>5, Zenon
  <2>2. (j <= m /\ from(j) = i + j) \/ (~(j <= m) /\ from(j) = j - m)
    BY <1>6, Zenon
  <2>3. (k <= m /\ from(k) = i + k) \/ (~(k <= m) /\ from(k) = k - m)
    BY <1>6, Zenon
  <2> QED
    BY <1>1, <1>9, <2>1, <2>2, <2>3
<1>10. Once(rest)
  <2> SUFFICES ASSUME NEW j \in DOMAIN rest, NEW k \in DOMAIN rest, rest[j] = rest[k]
               PROVE  j = k
    BY Zenon DEF Once
  <2>1. t[from(j)] = t[from(k)] /\ from(j) \in DOMAIN t /\ from(k) \in DOMAIN t
    BY <1>7, Zenon
  <2>2. from(j) = from(k)
    BY <2>1, Zenon DEF Once
  <2> QED
    BY <1>9, <2>2, Zenon
<1>11. i \in DOMAIN t
  BY <1>1, <1>5
<1>12. ASSUME NEW x \in Members(rest) PROVE x \in Members(t) \ {t[i]}
  <2>1. PICK k \in DOMAIN rest : x = rest[k]
    BY Zenon DEF Members
  <2>2. x = t[from(k)] /\ from(k) \in DOMAIN t /\ from(k) # i
    BY <1>7, <2>1, Zenon
  <2>3. t[from(k)] # t[i]
    BY <1>11, <2>2, Zenon DEF Once
  <2> QED
    BY <2>2, <2>3, Zenon DEF Members
<1>13. ASSUME NEW x \in Members(t) \ {t[i]} PROVE x \in Members(rest)
  <2>1. PICK j \in DOMAIN t : x = t[j] /\ j # i
    BY Zenon DEF Members
  <2>2. PICK k \in DOMAIN rest : from(k) = j
    BY <1>8, <2>1, Zenon
  <2>3. rest[k] = x
    BY <1>7, <2>1, <2>2, Zenon
  <2> QED
    BY <2>3, Zenon DEF Members
<1> QED
  BY <1>4, <1>10, <1>12, <1>13, Zenon

\* A host that is not in the rotation joins it at the back.
LEMMA JoinFacts ==
  ASSUME NEW S, NEW r \in Seq(S), Once(r), NEW x \in S, x \notin Members(r)
  PROVE  /\ Append(r, x) \in Seq(S) /\ Once(Append(r, x))
         /\ Members(Append(r, x)) = Members(r) \cup {x}
<1> DEFINE n == Len(r)
           u == Append(r, x)
<1>1. n \in Nat /\ DOMAIN r = 1..n
  OBVIOUS
<1>2. u \in Seq(S) /\ DOMAIN u = 1..(n + 1) /\ u[n + 1] = x
  OBVIOUS
<1>3. \A k \in 1..n : u[k] = r[k]
  OBVIOUS
<1> HIDE DEF u, n
<1>4. 1..(n + 1) = (1..n) \cup {n + 1} /\ n + 1 \notin 1..n
  BY <1>1
<1>5. DOMAIN u = DOMAIN r \cup {n + 1} /\ n + 1 \notin DOMAIN r
  BY <1>1, <1>2, <1>4, Zenon
<1>6. \A k \in DOMAIN r : u[k] = r[k] /\ r[k] # x
  BY <1>1, <1>3, Zenon DEF Members
<1>7. Once(u)
  BY <1>2, <1>5, <1>6, Zenon DEF Once
<1>8. \A y : y \in Members(u) <=> y \in Members(r) \/ y = x
  BY <1>2, <1>5, <1>6, Zenon DEF Members
<1> QED
  BY <1>2, <1>7, <1>8, Zenon DEF u

\* What a job that waits is.
LEMMA InQueued ==
  ASSUME NEW s, NEW x
  PROVE  x \in Queued(s) <=>
           \E l \in Lanes, h \in Hosts : \E i \in 1..s.jobs[l][h] : x = <<l, h, i>>
<1>1. x \in Queued(s) <=> \E l \in Lanes, h \in Hosts : x \in QueuedAt(s, l, h)
  BY DEF Queued
<1>2. \A l, h : x \in QueuedAt(s, l, h) <=> \E i \in 1..s.jobs[l][h] : x = <<l, h, i>>
  BY Zenon DEF QueuedAt
<1> QED
  BY <1>1, <1>2, Zenon

\* t has one job of host h in lane l more than s.
JobAdded(s, t, l, h) ==
  /\ s.jobs \in JobTable /\ t.jobs \in JobTable
  /\ t.jobs[l][h] = s.jobs[l][h] + 1
  /\ \A k \in Lanes, g \in Hosts : k # l \/ g # h => t.jobs[k][g] = s.jobs[k][g]

NewJob(s, l, h) == <<l, h, s.jobs[l][h] + 1>>

\* One job more in a lane is one element more of the jobs that wait.
LEMMA OneJobMore ==
  ASSUME NEW s, NEW t, NEW l \in Lanes, NEW h \in Hosts,
         JobAdded(s, t, l, h)
  PROVE  /\ NewJob(s, l, h) \notin Queued(s) /\ NewJob(s, l, h)[2] = h
         /\ Queued(t) = Queued(s) \cup {NewJob(s, l, h)}
<1> DEFINE n == s.jobs[l][h]
           j == <<l, h, n + 1>>
<1>9. NewJob(s, l, h) = j
  BY Zenon DEF NewJob
<1>0. /\ t.jobs[l][h] = s.jobs[l][h] + 1
      /\ \A k \in Lanes, g \in Hosts : k # l \/ g # h => t.jobs[k][g] = s.jobs[k][g]
  BY Zenon DEF JobAdded
<1>1. n \in Nat
  BY DEF JobAdded, JobTable
<1>2. j[1] = l /\ j[2] = h /\ j[3] = n + 1
  BY Zenon
<1>4. t.jobs[l][h] = n + 1
  BY <1>0, Zenon
<1> HIDE DEF n
<1>3. 1..(n + 1) = (1..n) \cup {n + 1} /\ n + 1 \notin 1..n
  BY <1>1
<1>5. ASSUME j \in Queued(s) PROVE FALSE
  <2>1. PICK k \in Lanes, g \in Hosts : \E i \in 1..s.jobs[k][g] : j = <<k, g, i>>
    BY <1>5, InQueued
  <2>2. PICK i \in 1..s.jobs[k][g] : j = <<k, g, i>>
    BY <2>1, Zenon
  <2>3. k = l /\ g = h /\ i = n + 1
    BY <2>2, Zenon
  <2> QED
    BY <1>3, <2>2, <2>3, Zenon DEF n
<1>6. ASSUME NEW x \in Queued(t) PROVE x \in Queued(s) \cup {j}
  <2>1. PICK k \in Lanes, g \in Hosts : \E i \in 1..t.jobs[k][g] : x = <<k, g, i>>
    BY InQueued
  <2>2. PICK i \in 1..t.jobs[k][g] : x = <<k, g, i>>
    BY <2>1, Zenon
  <2>3. CASE k = l /\ g = h
    <3>1. i \in (1..n) \cup {n + 1}
      BY <1>3, <1>4, <2>2, <2>3, Zenon
    <3>2. CASE i = n + 1
      BY <1>0, <2>2, <2>3, <3>2, Zenon
    <3>3. CASE i \in 1..n
      BY <2>2, <2>3, <3>3, InQueued, Zenon DEF n
    <3> QED
      BY <1>0, <3>1, <3>2, <3>3, Zenon
  <2>4. CASE ~(k = l /\ g = h)
    <3>1. i \in 1..s.jobs[k][g]
      BY <1>0, <2>2, <2>4, Zenon
    <3> QED
      BY <2>2, <3>1, InQueued, Zenon
  <2> QED
    BY <2>3, <2>4, Zenon
<1>7. j \in Queued(t)
  <2>1. n + 1 \in 1..t.jobs[l][h]
    BY <1>1, <1>4
  <2> QED
    BY <2>1, InQueued, Zenon
<1>8. ASSUME NEW x \in Queued(s) PROVE x \in Queued(t)
  <2>1. PICK k \in Lanes, g \in Hosts : \E i \in 1..s.jobs[k][g] : x = <<k, g, i>>
    BY InQueued
  <2>2. PICK i \in 1..s.jobs[k][g] : x = <<k, g, i>>
    BY <2>1, Zenon
  <2>3. i \in 1..t.jobs[k][g]
    <3>1. CASE k = l /\ g = h
      BY <1>3, <1>4, <2>2, <3>1, Zenon DEF n
    <3>2. CASE ~(k = l /\ g = h)
      BY <1>0, <2>2, <3>2, Zenon
    <3> QED
      BY <1>0, <3>1, <3>2, Zenon
  <2> QED
    BY <2>2, <2>3, InQueued, Zenon
<1> QED
  BY <1>2, <1>5, <1>6, <1>7, <1>8, <1>9, Zenon

\* The counts of the jobs that wait, before and after one more of host h.
LEMMA OneJobCounts ==
  ASSUME NEW s, NEW t, NEW l \in Lanes, NEW h \in Hosts,
         JobAdded(s, t, l, h),
         IsFiniteSet(Queued(s)) \/ IsFiniteSet(Queued(t))
  PROVE  /\ IsFiniteSet(Queued(s)) /\ IsFiniteSet(Queued(t))
         /\ Cardinality(Queued(s)) \in Nat
         /\ Cardinality(Queued(t)) = Cardinality(Queued(s)) + 1
         /\ Cardinality(QueuedOf(s, h)) \in Nat
         /\ Cardinality(QueuedOf(t, h)) = Cardinality(QueuedOf(s, h)) + 1
         /\ \A g \in Hosts \ {h} : QueuedOf(t, g) = QueuedOf(s, g)
<1> DEFINE j == NewJob(s, l, h)
<1> HIDE DEF j
<1>1. j \notin Queued(s) /\ Queued(t) = Queued(s) \cup {j} /\ j[2] = h
  BY OneJobMore DEF j
<1>2. IsFiniteSet(Queued(s)) /\ IsFiniteSet(Queued(t))
  <2>1. Queued(s) \subseteq Queued(t)
    BY <1>1, Zenon
  <2>2. IsFiniteSet(Queued(s))
    BY <2>1, FS_Subset, Zenon
  <2> QED
    BY <1>1, <2>2, FS_AddElement
<1>3. /\ Cardinality(Queued(s)) \in Nat
      /\ Cardinality(Queued(t)) = Cardinality(Queued(s)) + 1
  BY <1>1, <1>2, FS_AddElement, FS_CardinalityType
<1>4. /\ QueuedOf(t, h) = QueuedOf(s, h) \cup {j} /\ j \notin QueuedOf(s, h)
      /\ QueuedOf(s, h) \subseteq Queued(s)
  BY <1>1, Zenon DEF QueuedOf
<1>5. IsFiniteSet(QueuedOf(s, h))
  BY <1>2, <1>4, FS_Subset, Zenon
<1>6. /\ Cardinality(QueuedOf(s, h)) \in Nat
      /\ Cardinality(QueuedOf(t, h)) = Cardinality(QueuedOf(s, h)) + 1
  BY <1>4, <1>5, FS_AddElement, FS_CardinalityType
<1>7. \A g \in Hosts \ {h} : QueuedOf(t, g) = QueuedOf(s, g)
  BY <1>1, Zenon DEF QueuedOf
<1> QED
  BY <1>2, <1>3, <1>6, <1>7, Zenon

\* The jobs of the lanes when one host's in one lane change by one.
LEMMA JobsMove ==
  ASSUME NEW f \in JobTable, NEW l \in Lanes, NEW h \in Hosts, NEW n \in Nat, NEW g,
         g = [f EXCEPT ![l][h] = n]
  PROVE  /\ g \in JobTable /\ g[l][h] = n
         /\ \A k \in Lanes, x \in Hosts : k # l \/ x # h => g[k][x] = f[k][x]
<1>1. f[l] \in [Hosts -> Nat]
  BY Zenon DEF JobTable
<1> DEFINE row == [f[l] EXCEPT ![h] = n]
<1>2. row \in [Hosts -> Nat] /\ row[h] = n /\ \A x \in Hosts : x # h => row[x] = f[l][x]
  BY <1>1
<1>3. g = [f EXCEPT ![l] = row]
  BY Zenon
<1> HIDE DEF row
<1> QED
  BY <1>2, <1>3 DEF JobTable

\* t has one job of host h in lane l more or less, and counts it.
Recounts(s, t, l, h) ==
  \/ /\ JobAdded(s, t, l, h) /\ t.pending = s.pending + 1
     /\ t.pendingHost = [s.pendingHost EXCEPT ![h] = @ + 1]
  \/ /\ JobAdded(t, s, l, h) /\ t.pending = s.pending - 1
     /\ t.pendingHost = [s.pendingHost EXCEPT ![h] = @ - 1]

\* The counts follow the jobs.
LEMMA CountsFollow ==
  ASSUME NEW s, Waits(s), NEW t, NEW l \in Lanes, NEW h \in Hosts,
         Recounts(s, t, l, h)
  PROVE  /\ t.pendingHost \in [Hosts -> Nat] /\ t.pending \in Nat
         /\ IsFiniteSet(Queued(t)) /\ t.pending = Cardinality(Queued(t))
         /\ \A x \in Hosts : t.pendingHost[x] = Cardinality(QueuedOf(t, x))
<1>1. /\ s.pendingHost \in [Hosts -> Nat] /\ s.pending \in Nat
      /\ IsFiniteSet(Queued(s)) /\ s.pending = Cardinality(Queued(s))
      /\ \A x \in Hosts : s.pendingHost[x] = Cardinality(QueuedOf(s, x))
  BY Zenon DEF Waits
<1>2. CASE JobAdded(s, t, l, h) /\ t.pending = s.pending + 1
           /\ t.pendingHost = [s.pendingHost EXCEPT ![h] = @ + 1]
  <2>1. /\ IsFiniteSet(Queued(t)) /\ Cardinality(Queued(t)) = Cardinality(Queued(s)) + 1
        /\ Cardinality(QueuedOf(t, h)) = Cardinality(QueuedOf(s, h)) + 1
        /\ \A g \in Hosts \ {h} : QueuedOf(t, g) = QueuedOf(s, g)
    BY <1>1, <1>2, OneJobCounts
  <2>2. t.pending \in Nat /\ t.pending = Cardinality(Queued(t))
    BY <1>1, <1>2, <2>1
  <2>3. /\ t.pendingHost \in [Hosts -> Nat] /\ t.pendingHost[h] = s.pendingHost[h] + 1
        /\ \A x \in Hosts \ {h} : t.pendingHost[x] = s.pendingHost[x]
    BY <1>1, <1>2
  <2> QED
    BY <1>1, <2>1, <2>2, <2>3, Zenon
<1>3. CASE JobAdded(t, s, l, h) /\ t.pending = s.pending - 1
           /\ t.pendingHost = [s.pendingHost EXCEPT ![h] = @ - 1]
  <2>1. /\ IsFiniteSet(Queued(t)) /\ Cardinality(Queued(s)) = Cardinality(Queued(t)) + 1
        /\ Cardinality(Queued(t)) \in Nat /\ Cardinality(QueuedOf(t, h)) \in Nat
        /\ Cardinality(QueuedOf(s, h)) = Cardinality(QueuedOf(t, h)) + 1
        /\ \A g \in Hosts \ {h} : QueuedOf(s, g) = QueuedOf(t, g)
    BY <1>1, <1>3, OneJobCounts
  <2>2. t.pending \in Nat /\ t.pending = Cardinality(Queued(t))
    BY <1>1, <1>3, <2>1
  <2>3. s.pendingHost[h] - 1 = Cardinality(QueuedOf(t, h)) /\ s.pendingHost[h] - 1 \in Nat
    BY <1>1, <2>1
  <2>4. /\ t.pendingHost \in [Hosts -> Nat] /\ t.pendingHost[h] = s.pendingHost[h] - 1
        /\ \A x \in Hosts \ {h} : t.pendingHost[x] = s.pendingHost[x]
    BY <1>1, <1>3, <2>3
  <2> QED
    BY <1>1, <2>1, <2>2, <2>3, <2>4, Zenon
<1> QED
  BY <1>2, <1>3, Zenon DEF Recounts

\* The rotation of lane l names the hosts with jobs in it, each once.
TurnsExact(s, l) ==
  /\ Members(s.rotation[l]) = {h \in Hosts : s.jobs[l][h] > 0} /\ Once(s.rotation[l])

\* What push does to the jobs that wait, and what pop_priority does.
Pushed(s, t, l, h) ==
  /\ t.jobs = [s.jobs EXCEPT ![l][h] = s.jobs[l][h] + 1]
  /\ t.rotation = [s.rotation EXCEPT
        ![l] = IF s.jobs[l][h] = 0 THEN Append(s.rotation[l], h) ELSE s.rotation[l]]
  /\ t.pending = s.pending + 1
  /\ t.pendingHost = [s.pendingHost EXCEPT ![h] = @ + 1]

Taken(s, t, l, i, h) ==
  /\ h = s.rotation[l][i]
  /\ t.jobs = [s.jobs EXCEPT ![l][h] = s.jobs[l][h] - 1]
  /\ t.rotation = [s.rotation EXCEPT
        ![l] = IF s.jobs[l][h] = 1 THEN Behind(s.rotation[l], i)
               ELSE Append(Behind(s.rotation[l], i), h)]
  /\ t.pending = s.pending - 1
  /\ t.pendingHost = [s.pendingHost EXCEPT ![h] = @ - 1]

TakenFrom(s, t, l, h) == \E i \in 1..Len(s.rotation[l]) : Taken(s, t, l, i, h)

\* FairLane::push and QueueState::push keep the records in agreement.
LEMMA PushWaits ==
  ASSUME NEW s, QueueTyped(s), Waits(s), NEW t, NEW l \in Lanes, NEW h \in Hosts,
         Pushed(s, t, l, h)
  PROVE  Waits(t) /\ t.rotation \in [Lanes -> Seq(Hosts)]
<1>1. /\ s.jobs \in JobTable /\ s.rotation \in [Lanes -> Seq(Hosts)]
      /\ \A k \in Lanes : TurnsExact(s, k)
  BY Zenon DEF Waits, QueueTyped, TurnsExact
<1>2. s.jobs[l][h] \in Nat /\ s.jobs[l][h] + 1 \in Nat
  BY <1>1 DEF JobTable
<1>3. t.jobs = [s.jobs EXCEPT ![l][h] = s.jobs[l][h] + 1]
  BY Zenon DEF Pushed
<1>4. /\ t.jobs \in JobTable /\ t.jobs[l][h] = s.jobs[l][h] + 1
      /\ \A k \in Lanes, x \in Hosts : k # l \/ x # h => t.jobs[k][x] = s.jobs[k][x]
  BY <1>1, <1>2, <1>3, JobsMove
<1>5. JobAdded(s, t, l, h)
  BY <1>1, <1>4, Zenon DEF JobAdded
<1>6. /\ t.pendingHost \in [Hosts -> Nat] /\ t.pending \in Nat
      /\ IsFiniteSet(Queued(t)) /\ t.pending = Cardinality(Queued(t))
      /\ \A x \in Hosts : t.pendingHost[x] = Cardinality(QueuedOf(t, x))
  <2>1. Recounts(s, t, l, h)
    BY <1>5, Zenon DEF Recounts, Pushed
  <2> QED
    BY <2>1, CountsFollow
<1>7. /\ t.rotation[l] = IF s.jobs[l][h] = 0 THEN Append(s.rotation[l], h) ELSE s.rotation[l]
      /\ \A k \in Lanes : k # l => t.rotation[k] = s.rotation[k]
      /\ DOMAIN t.rotation = Lanes
  BY <1>1, Zenon DEF Pushed
<1>8. TurnsExact(t, l) /\ t.rotation[l] \in Seq(Hosts)
  <2>1. CASE s.jobs[l][h] = 0
    <3>1. s.rotation[l] \in Seq(Hosts) /\ Once(s.rotation[l]) /\ h \notin Members(s.rotation[l])
      <4>1. ~(s.jobs[l][h] > 0)
        BY <2>1
      <4> QED
        BY <1>1, <4>1, Zenon DEF TurnsExact
    <3>2. /\ t.rotation[l] \in Seq(Hosts) /\ Once(t.rotation[l])
          /\ Members(t.rotation[l]) = Members(s.rotation[l]) \cup {h}
      BY <1>7, <2>1, <3>1, JoinFacts
    <3>3. t.jobs[l][h] > 0
      BY <1>2, <1>4
    <3> QED
      BY <1>1, <1>4, <3>2, <3>3, Zenon DEF TurnsExact
  <2>2. CASE s.jobs[l][h] # 0
    <3>1. s.jobs[l][h] > 0 /\ t.jobs[l][h] > 0
      BY <1>2, <1>4, <2>2
    <3>2. t.rotation[l] = s.rotation[l] /\ t.rotation[l] \in Seq(Hosts)
      BY <1>1, <1>7, <2>2, Zenon
    <3>3. \A x \in Hosts : t.jobs[l][x] > 0 <=> s.jobs[l][x] > 0
      BY <1>4, <3>1, Zenon
    <3> QED
      BY <1>1, <3>2, <3>3, Zenon DEF TurnsExact
  <2> QED
    BY <2>1, <2>2, Zenon
<1>9. ASSUME NEW k \in Lanes PROVE TurnsExact(t, k) /\ t.rotation[k] \in Seq(Hosts)
  <2>1. CASE k # l
    BY <1>1, <1>4, <1>7, <2>1, Zenon DEF TurnsExact
  <2> QED
    BY <1>8, <2>1, Zenon
<1>10. t.rotation \in [Lanes -> Seq(Hosts)]
  <2>1. t.rotation = [k \in Lanes |-> t.rotation[k]]
    BY <1>1, <1>7, Zenon DEF Pushed
  <2> QED
    BY <1>9, <2>1, Zenon
<1> QED
  BY <1>4, <1>6, <1>9, <1>10, Zenon DEF Waits, TurnsExact

\* pop_where and pop_priority keep the records in agreement: what they take is
\* there, the two expects hold.
LEMMA TakeWaits ==
  ASSUME NEW s, QueueTyped(s), Waits(s), NEW t, NEW l \in Lanes,
         NEW h, TakenFrom(s, t, l, h)
  PROVE  /\ Waits(t) /\ h \in Hosts /\ s.jobs[l][h] > 0
         /\ s.pendingHost[h] \in Nat /\ s.pendingHost[h] > 0
<1>0. PICK i \in 1..Len(s.rotation[l]) : Taken(s, t, l, i, h)
  BY Zenon DEF TakenFrom
<1>1. /\ s.jobs \in JobTable /\ s.rotation \in [Lanes -> Seq(Hosts)]
      /\ s.pendingHost \in [Hosts -> Nat]
      /\ \A k \in Lanes : TurnsExact(s, k)
  BY Zenon DEF Waits, QueueTyped, TurnsExact
<1> DEFINE turns == s.rotation[l]
           rest == Behind(turns, i)
<1>2. turns \in Seq(Hosts) /\ Once(turns) /\ h = turns[i]
  BY <1>0, <1>1, Zenon DEF TurnsExact, Taken
<1>3. rest \in Seq(Hosts) /\ Once(rest) /\ Members(rest) = Members(turns) \ {h}
  <2>1. rest = Behind(turns, i)
    BY Zenon
  <2> HIDE DEF turns, rest
  <2>2. i \in 1..Len(turns)
    BY Zenon DEF turns
  <2> QED
    BY <1>2, <2>1, <2>2, RestFacts
<1>4. i \in DOMAIN turns
  BY <1>2
<1>5. h \in Hosts /\ s.jobs[l][h] > 0
  BY <1>1, <1>2, <1>4, Zenon DEF TurnsExact, Members
<1>6. s.jobs[l][h] \in Nat /\ s.jobs[l][h] - 1 \in Nat
  BY <1>1, <1>5 DEF JobTable
<1>7. t.jobs = [s.jobs EXCEPT ![l][h] = s.jobs[l][h] - 1]
  BY <1>0, Zenon DEF Taken
<1>8. /\ t.jobs \in JobTable /\ t.jobs[l][h] = s.jobs[l][h] - 1
      /\ \A k \in Lanes, x \in Hosts : k # l \/ x # h => t.jobs[k][x] = s.jobs[k][x]
  BY <1>1, <1>5, <1>6, <1>7, JobsMove, SMTT(30)
<1>9. JobAdded(t, s, l, h)
  <2>1. s.jobs[l][h] = t.jobs[l][h] + 1
    BY <1>6, <1>8
  <2> QED
    BY <1>1, <1>8, <2>1, Zenon DEF JobAdded
<1>10. /\ t.pendingHost \in [Hosts -> Nat] /\ t.pending \in Nat
       /\ IsFiniteSet(Queued(t)) /\ t.pending = Cardinality(Queued(t))
       /\ \A x \in Hosts : t.pendingHost[x] = Cardinality(QueuedOf(t, x))
  <2>1. Recounts(s, t, l, h)
    BY <1>0, <1>9, Zenon DEF Recounts, Taken
  <2> QED
    BY <1>5, <2>1, CountsFollow
<1>11. /\ t.rotation[l] = IF s.jobs[l][h] = 1 THEN rest ELSE Append(rest, h)
       /\ \A k \in Lanes : k # l => t.rotation[k] = s.rotation[k]
       /\ t.pendingHost[h] = s.pendingHost[h] - 1
  BY <1>0, <1>1, <1>5, Zenon DEF Taken
<1> HIDE DEF turns, rest
<1>12. TurnsExact(t, l)
  <2>1. Members(turns) = {x \in Hosts : s.jobs[l][x] > 0}
    BY <1>1, Zenon DEF TurnsExact, turns
  <2>2. CASE s.jobs[l][h] = 1
    <3>1. ~(t.jobs[l][h] > 0)
      BY <1>8, <2>2
    <3> QED
      BY <1>3, <1>5, <1>8, <1>11, <2>1, <2>2, <3>1, Zenon DEF TurnsExact
  <2>3. CASE s.jobs[l][h] # 1
    <3>1. t.jobs[l][h] > 0
      BY <1>5, <1>6, <1>8, <2>3
    <3>2. h \notin Members(rest)
      BY <1>3, Zenon
    <3>3. Once(Append(rest, h)) /\ Members(Append(rest, h)) = Members(rest) \cup {h}
      BY <1>3, <1>5, <3>2, JoinFacts
    <3>4. Members(Append(rest, h)) = Members(turns)
      BY <1>3, <1>5, <2>1, <3>3, Zenon
    <3> QED
      BY <1>5, <1>8, <1>11, <2>1, <2>3, <3>1, <3>3, <3>4, Zenon DEF TurnsExact
  <2> QED
    BY <2>2, <2>3, Zenon
<1>13. ASSUME NEW k \in Lanes PROVE TurnsExact(t, k)
  <2>1. CASE k # l
    BY <1>1, <1>8, <1>11, <2>1, Zenon DEF TurnsExact
  <2> QED
    BY <1>12, <2>1, Zenon
<1>14. s.pendingHost[h] \in Nat /\ s.pendingHost[h] > 0
  <2>1. t.pendingHost[h] \in Nat /\ t.pendingHost[h] = s.pendingHost[h] - 1
    BY <1>5, <1>10, <1>11, Zenon
  <2>2. s.pendingHost[h] \in Nat
    BY <1>1, <1>5, Zenon
  <2> QED
    BY <2>1, <2>2
<1> QED
  BY <1>5, <1>8, <1>10, <1>13, <1>14, Zenon DEF Waits, TurnsExact

TakenInTurn(s, job) ==
  \E l \in Lanes : l[2] = job.pool /\ TakenFrom(s, job.state, l, job.host)

\* pop_priority takes the job from the host that pop_where stops at.
LEMMA PopPriorityTakes ==
  ASSUME NEW s, QueueTyped(s), NEW fairness, NEW p \in Priorities,
         Offers(s, fairness, p) # {}, NEW job, job = PopPriority(s, fairness, p)
  PROVE  /\ TakenInTurn(s, job)
         /\ Eligible(s, fairness, job.host)
         /\ job.state.known = s.known /\ job.state.retired = s.retired
<1> DEFINE c == NextClass(s, fairness, p)
           l == <<p, c>>
           turns == s.rotation[l]
           i == Turn(s, fairness, turns)
           h == turns[i]
           after == IF s.jobs[l][h] = 1 THEN Behind(turns, i)
                    ELSE Append(Behind(turns, i), h)
<1>1. c \in Offers(s, fairness, p)
  BY NextClassOffers, Zenon DEF QueueTyped
<1>2. /\ c \in Pools /\ \E g \in {turns[k] : k \in DOMAIN turns} : Eligible(s, fairness, g)
  BY <1>1, Zenon DEF Offers, InTurn
<1>3. l \in Lanes /\ turns \in Seq(Hosts)
  BY <1>2, Zenon DEF Lanes, QueueTyped
<1>4. i \in 1..Len(turns) /\ Eligible(s, fairness, h)
  BY <1>2, <1>3, TurnFound
<1>5. /\ job.host = h /\ job.pool = c
      /\ job.state = [s EXCEPT
           !.jobs[l][h] = @ - 1,
           !.rotation[l] = after,
           !.cursor[p] = CursorAfter(c),
           !.pending = @ - 1, !.pendingHost[h] = @ - 1,
           !.active = @ + 1, !.activeClass[c] = @ + 1, !.activeHost[h] = @ + 1,
           !.dispatched = Counted(@)]
  BY Zenon DEF PopPriority, Behind
<1>12. l[2] = job.pool
  BY <1>5, Zenon
<1> HIDE DEF c, l, turns, i, h, after
<1>6. DOMAIN s = Fields
  BY Zenon DEF QueueTyped
<1>7. job.state.jobs = [s.jobs EXCEPT ![l][h] = s.jobs[l][h] - 1]
  BY <1>5, <1>6, ZenonT(60), SMTT(30) DEF Fields
<1>8. job.state.rotation = [s.rotation EXCEPT ![l] = after]
  BY <1>5, <1>6, ZenonT(60) DEF Fields
<1>9. /\ job.state.pending = s.pending - 1 /\ job.state.known = s.known
      /\ job.state.retired = s.retired
      /\ job.state.pendingHost = [s.pendingHost EXCEPT ![h] = @ - 1]
  <2>1. job.state.pending = s.pending - 1 /\ job.state.known = s.known
    BY <1>5, <1>6, ZenonT(60), SMTT(30) DEF Fields
  <2>2. job.state.retired = s.retired
    BY <1>5, <1>6, ZenonT(60) DEF Fields
  <2>3. job.state.pendingHost = [s.pendingHost EXCEPT ![h] = @ - 1]
    BY <1>5, <1>6, ZenonT(60), SMTT(30) DEF Fields
  <2> QED
    BY <2>1, <2>2, <2>3, Zenon
<1>10. Taken(s, job.state, l, i, job.host)
  <2>1. h = s.rotation[l][i]
    BY Zenon DEF h, turns
  <2>2. after = IF s.jobs[l][h] = 1 THEN Behind(s.rotation[l], i)
                ELSE Append(Behind(s.rotation[l], i), h)
    BY Zenon DEF after, turns
  <2>3. job.host = h
    BY <1>5, Zenon
  <2> QED
    BY <1>7, <1>8, <1>9, <2>1, <2>2, <2>3, Zenon DEF Taken
<1>11. i \in 1..Len(s.rotation[l]) /\ Eligible(s, fairness, job.host)
  BY <1>4, <1>5, Zenon DEF turns
<1> QED
  BY <1>3, <1>9, <1>10, <1>11, <1>12, Zenon DEF TakenInTurn, TakenFrom

\* The same of pop_next.
LEMMA PopTakes ==
  ASSUME NEW s, QueueTyped(s), Found(s) # 0, NEW job, job = PopNext(s)
  PROVE  /\ TakenInTurn(s, job)
         /\ Eligible(s, Attempts(s)[Found(s)][1], job.host)
         /\ job.state.known = s.known /\ job.state.retired = s.retired
<1> DEFINE a == Attempts(s)[Found(s)]
<1>1. Offers(s, a[1], a[2]) # {} /\ a[2] \in Priorities
  BY FoundOffers, AttemptPriority, Zenon
<1>2. job = PopPriority(s, a[1], a[2])
  BY Zenon DEF PopNext
<1> HIDE DEF a
<1>3. /\ TakenInTurn(s, job)
      /\ Eligible(s, a[1], job.host)
      /\ job.state.known = s.known /\ job.state.retired = s.retired
  BY <1>1, <1>2, PopPriorityTakes
<1> QED
  BY <1>3, Zenon DEF a

\* What does not touch the lanes or the counts keeps the agreement.
LEMMA SameWaits ==
  ASSUME NEW s, NEW t, Waits(s), t.jobs = s.jobs, t.rotation = s.rotation,
         t.pending = s.pending, t.pendingHost = s.pendingHost
  PROVE  Waits(t)
<1>1. \A l, h : QueuedAt(t, l, h) = QueuedAt(s, l, h)
  BY Zenon DEF QueuedAt
<1>2. Queued(t) = Queued(s)
  <2>1. \A x : x \in Queued(t) <=> \E l \in Lanes, h \in Hosts : x \in QueuedAt(t, l, h)
    BY DEF Queued
  <2>2. \A x : x \in Queued(s) <=> \E l \in Lanes, h \in Hosts : x \in QueuedAt(s, l, h)
    BY DEF Queued
  <2> QED
    BY <1>1, <2>1, <2>2, Zenon
<1>3. \A h : QueuedOf(t, h) = QueuedOf(s, h)
  BY <1>2, Zenon DEF QueuedOf
<1> QED
  BY <1>2, <1>3, Zenon DEF Waits

CleanedUp(d, t, g) ==
  /\ t.jobs = d.jobs /\ t.rotation = d.rotation
  /\ t.pending = d.pending /\ t.pendingHost = d.pendingHost
  /\ t.activeHost = d.activeHost /\ t.activeClass = d.activeClass
  /\ \A x : x # g => (x \in t.retired <=> x \in d.retired) /\ (x \in t.known <=> x \in d.known)
  /\ g \notin d.retired => g \notin t.retired
  /\ g \in d.retired =>
       IF d.pendingHost[g] = 0 /\ d.activeHost[g] = 0
       THEN g \notin t.retired /\ g \notin t.known
       ELSE g \in t.retired

\* cleanup_retired_host touches only the host's own entries, and clears those of a
\* retired host without jobs.
LEMMA CleanupFacts ==
  ASSUME NEW d, DOMAIN d = Fields, NEW g, NEW t, t = CleanupRetiredHost(d, g),
         d.pendingHost[g] \in Nat, d.activeHost[g] \in Nat
  PROVE  CleanedUp(d, t, g)
<1>1. CASE g \notin d.retired \/ d.pendingHost[g] > 0 \/ d.activeHost[g] > 0
  <2>1. t = d
    BY <1>1, Zenon DEF CleanupRetiredHost
  <2>2. g \in d.retired => ~(d.pendingHost[g] = 0 /\ d.activeHost[g] = 0)
    <3>1. ~(0 > 0)
      OBVIOUS
    <3> QED
      BY <1>1, <3>1, Zenon
  <2> QED
    BY <2>1, <2>2, Zenon DEF CleanedUp
<1>2. CASE ~(g \notin d.retired \/ d.pendingHost[g] > 0 \/ d.activeHost[g] > 0)
  <2>1. t = [d EXCEPT !.retired = @ \ {g}, !.known = @ \ {g}]
    BY <1>2, Zenon DEF CleanupRetiredHost
  <2>2. /\ t.retired = d.retired \ {g} /\ t.known = d.known \ {g}
        /\ t.jobs = d.jobs /\ t.rotation = d.rotation
    BY <2>1, Zenon DEF Fields
  <2>3. /\ t.pending = d.pending /\ t.pendingHost = d.pendingHost
        /\ t.activeHost = d.activeHost /\ t.activeClass = d.activeClass
    BY <2>1, Zenon DEF Fields
  <2>4. d.pendingHost[g] = 0 /\ d.activeHost[g] = 0
    BY <1>2
  <2> QED
    BY <1>2, <2>2, <2>3, <2>4, Zenon DEF CleanedUp
<1> QED
  BY <1>1, <1>2, Zenon

\* The queue in which next_job looks for a job: the worker's last one is completed.
LEMMA CompletedWaits ==
  ASSUME WaitInv, NEW w \in Workers, Looks(w)
  PROVE  Waits(Completed(w)) /\ Forgets(Completed(w), host)
<1> DEFINE s == Completed(w)
<1>1. CASE at[w].pc # "done"
  <2>1. s = q
    BY <1>1, Zenon DEF Completed
  <2> QED
    BY <2>1, Zenon DEF WaitInv
<1>2. CASE at[w].pc = "done"
  <2> DEFINE g == at[w].host
             c == at[w].pool
             d == [q EXCEPT !.active = @ - 1, !.activeClass[c] = @ - 1,
                            !.activeHost[g] = @ - 1]
  <2>1. s = CleanupRetiredHost(d, g)
    BY <1>2, Zenon DEF Completed, Complete
  <2>2. c \in Pools /\ g \in Hosts
    BY <1>2, Zenon DEF WaitInv, AccountInv, Unoccupied, Jobs
  <2>3. q.activeHost[g] >= 1
    BY <1>2, CompleteFacts, Zenon DEF WaitInv
  <2>4. DOMAIN q = Fields
    BY Zenon DEF WaitInv, AccountInv, QueueTyped
  <2> HIDE DEF g, c
  <2>5. DOMAIN d = Fields /\ d.jobs = q.jobs /\ d.rotation = q.rotation
    BY <2>4, Zenon DEF Fields
  <2>6. d.pending = q.pending /\ d.pendingHost = q.pendingHost
    BY <2>4, Zenon DEF Fields
  <2>7. d.retired = q.retired /\ d.known = q.known
    BY <2>4, Zenon DEF Fields
  <2>8. d.activeHost = [q.activeHost EXCEPT ![g] = @ - 1]
    BY <2>4, Zenon DEF Fields
  <2> HIDE DEF d, s
  <2>9. /\ q.pendingHost \in [Hosts -> Nat] /\ q.activeHost \in [Hosts -> Nat]
    BY Zenon DEF WaitInv, Waits, AccountInv, QueueTyped
  <2>10. /\ d.activeHost[g] \in Nat /\ d.activeHost[g] = q.activeHost[g] - 1
         /\ d.pendingHost[g] \in Nat /\ q.activeHost[g] # 0
         /\ \A x \in Hosts : x # g => d.activeHost[x] = q.activeHost[x]
    BY <2>2, <2>3, <2>6, <2>8, <2>9
  <2>11. CleanedUp(d, s, g)
    BY <2>1, <2>5, <2>10, CleanupFacts
  <2>12. Waits(s)
    <3>1. /\ s.jobs = q.jobs /\ s.rotation = q.rotation /\ s.pending = q.pending
          /\ s.pendingHost = q.pendingHost
      BY <2>5, <2>6, <2>11, Zenon DEF CleanedUp
    <3>2. Waits(q)
      BY Zenon DEF WaitInv
    <3> QED
      BY <3>1, <3>2, SameWaits
  <2>13. ASSUME NEW x \in Hosts PROVE HostForgotten(s, host[x], x)
    <3>1. HostForgotten(q, host[x], x)
      BY Zenon DEF WaitInv, Forgets
    <3>2. CASE x # g
      BY <2>6, <2>7, <2>10, <2>11, <3>1, <3>2, Zenon DEF HostForgotten, CleanedUp
    <3>3. CASE x = g
      <4>1. IF host[g] = "held" THEN g \notin q.retired ELSE g \in q.retired
        BY <2>10, <3>1, <3>3, Zenon DEF HostForgotten
      <4> QED
        BY <2>7, <2>11, <3>3, <4>1, Zenon DEF HostForgotten, CleanedUp
    <3> QED
      BY <3>2, <3>3, Zenon
  <2> QED
    BY <2>12, <2>13, Zenon DEF Forgets, s
<1> QED
  BY <1>1, <1>2, Zenon

\* next_job gives a worker a job.
LEMMA DispatchKeepsWaits ==
  ASSUME WaitInv, NEW w \in Workers, Dispatch(w)
  PROVE  Waits(q') /\ Forgets(q', host')
<1> DEFINE s == Completed(w)
<1>1. PICK job : job = PopNext(s) /\ q' = job.state
  BY Zenon DEF Dispatch
<1>2. Looks(w) /\ Found(s) # 0 /\ host' = host
  BY Zenon DEF Dispatch
<1>3. QueueTyped(s)
  BY <1>2, LooksFacts, Zenon DEF WaitInv
<1>4. Waits(s) /\ Forgets(s, host)
  BY <1>2, CompletedWaits, Zenon
<1> HIDE DEF s
<1> DEFINE t == job.state
           h == job.host
<1>5. /\ TakenInTurn(s, job) /\ t.known = s.known /\ t.retired = s.retired
  BY <1>1, <1>2, <1>3, PopTakes
<1>6. t.activeHost = [s.activeHost EXCEPT ![h] = @ + 1]
  <2>1. /\ job.pool \in Pools /\ job.host \in Hosts
        /\ s.activeClass[job.pool] < ClassCap(job.pool)
        /\ QueueTyped(job.state)
        /\ job.state.active = s.active + 1
        /\ job.state.activeClass = [s.activeClass EXCEPT ![job.pool] = @ + 1]
        /\ job.state.activeHost = [s.activeHost EXCEPT ![job.host] = @ + 1]
    BY <1>1, <1>2, <1>3, PopFacts
  <2> QED
    BY <2>1, Zenon
<1>8. PICK l \in Lanes : TakenFrom(s, t, l, h)
  BY <1>5, Zenon DEF TakenInTurn
<1>9. t.pendingHost = [s.pendingHost EXCEPT ![h] = @ - 1]
  BY <1>8, Zenon DEF TakenFrom, Taken
<1> HIDE DEF t, h
<1>10. /\ Waits(t) /\ h \in Hosts /\ s.jobs[l][h] > 0
       /\ s.pendingHost[h] \in Nat /\ s.pendingHost[h] > 0
  BY <1>3, <1>4, <1>8, TakeWaits
<1>11. s.activeHost \in [Hosts -> Nat] /\ s.pendingHost \in [Hosts -> Nat]
  BY <1>3, <1>4, Zenon DEF QueueTyped, Waits
<1>12. /\ t.activeHost[h] # 0 /\ s.pendingHost[h] # 0
       /\ \A x \in Hosts : x # h => /\ t.activeHost[x] = s.activeHost[x]
                                    /\ t.pendingHost[x] = s.pendingHost[x]
  BY <1>6, <1>9, <1>10, <1>11
<1>13. ASSUME NEW x \in Hosts PROVE HostForgotten(t, host[x], x)
  <2>1. HostForgotten(s, host[x], x)
    BY <1>4, Zenon DEF Forgets
  <2>2. CASE x # h
    BY <1>5, <1>12, <2>1, <2>2, Zenon DEF HostForgotten, t
  <2>3. CASE x = h
    BY <1>5, <1>12, <2>1, <2>3, Zenon DEF HostForgotten, t
  <2> QED
    BY <2>2, <2>3, Zenon
<1>14. q' = t
  BY <1>1, Zenon DEF t
<1> QED
  BY <1>2, <1>10, <1>13, <1>14, Zenon DEF Forgets

\* next_job finds nothing.
LEMMA FindNothingKeepsWaits ==
  ASSUME WaitInv, NEW w \in Workers, FindNothing(w)
  PROVE  Waits(q') /\ Forgets(q', host')
<1> DEFINE s == Completed(w)
<1>1. Looks(w) /\ q' = s /\ host' = host
  BY Zenon DEF FindNothing
<1>2. Waits(s) /\ Forgets(s, host)
  BY <1>1, CompletedWaits, Zenon
<1> HIDE DEF s
<1> QED
  BY <1>1, <1>2, Zenon DEF Forgets

\* submit and submit_async.
LEMMA EnqueueKeepsWaits ==
  ASSUME WaitInv, NEW h \in Hosts, NEW l \in Lanes, Enqueue(h, l)
  PROVE  Waits(q') /\ Forgets(q', host')
<1> DEFINE t == Push(q, h, l)
<1>1. q' = t /\ host' = host /\ host[h] = "held"
  BY Zenon DEF Enqueue
<1>2. QueueTyped(q) /\ DOMAIN q = Fields /\ Waits(q)
  BY Zenon DEF WaitInv, AccountInv, QueueTyped
<1>3. /\ t.jobs = [q.jobs EXCEPT ![l][h] = q.jobs[l][h] + 1]
      /\ t.rotation = [q.rotation EXCEPT
           ![l] = IF q.jobs[l][h] = 0 THEN Append(q.rotation[l], h) ELSE q.rotation[l]]
  BY <1>2, Zenon DEF Push, Fields
<1>4. t.pending = q.pending + 1 /\ t.pendingHost = [q.pendingHost EXCEPT ![h] = @ + 1]
  BY <1>2, Zenon DEF Push, Fields
<1>5. t.known = q.known \cup {h} /\ t.retired = q.retired /\ t.activeHost = q.activeHost
  BY <1>2, Zenon DEF Push, Fields
<1> HIDE DEF t
<1>6. Pushed(q, t, l, h)
  BY <1>3, <1>4, Zenon DEF Pushed
<1>7. Waits(t)
  BY <1>2, <1>6, PushWaits
<1>8. \A x \in Hosts : x # h => t.pendingHost[x] = q.pendingHost[x]
  BY <1>2, <1>4, Zenon DEF Waits
<1>9. ASSUME NEW x \in Hosts PROVE HostForgotten(t, host[x], x)
  <2>1. HostForgotten(q, host[x], x)
    BY Zenon DEF WaitInv, Forgets
  <2>2. CASE x # h
    BY <1>5, <1>8, <2>1, <2>2, Zenon DEF HostForgotten
  <2>3. CASE x = h
    BY <1>1, <1>5, <2>1, <2>3, Zenon DEF HostForgotten
  <2> QED
    BY <2>2, <2>3, Zenon
<1> QED
  BY <1>1, <1>7, <1>9, Zenon DEF Forgets

\* retire_host: a host without jobs is forgotten at once, another is marked.
LEMMA RetireKeepsWaits ==
  ASSUME WaitInv, NEW h \in Hosts, RetireHost(h)
  PROVE  Waits(q') /\ Forgets(q', host') /\ host' \in [Hosts -> {"held", "dropped"}]
<1> DEFINE d == [q EXCEPT !.retired = @ \cup {h}]
           t == CleanupRetiredHost(d, h)
<1>1. q' = t /\ host[h] = "held" /\ host' = [host EXCEPT ![h] = "dropped"]
  BY Zenon DEF RetireHost
<1>2. DOMAIN q = Fields /\ Waits(q) /\ host \in [Hosts -> {"held", "dropped"}]
  BY Zenon DEF WaitInv, AccountInv, QueueTyped
<1>3. DOMAIN d = Fields /\ d.jobs = q.jobs /\ d.rotation = q.rotation
  BY <1>2, Zenon DEF Fields
<1>4. d.pending = q.pending /\ d.pendingHost = q.pendingHost /\ d.activeHost = q.activeHost
  BY <1>2, Zenon DEF Fields
<1>5. d.retired = q.retired \cup {h} /\ d.known = q.known
  BY <1>2, Zenon DEF Fields
<1> HIDE DEF d
<1>6. d.pendingHost[h] \in Nat /\ d.activeHost[h] \in Nat
  BY <1>4, Zenon DEF WaitInv, Waits, AccountInv, QueueTyped
<1>7. CleanedUp(d, t, h)
  BY <1>3, <1>6, CleanupFacts
<1> HIDE DEF t
<1>8. /\ t.jobs = q.jobs /\ t.rotation = q.rotation /\ t.pending = q.pending
      /\ t.pendingHost = q.pendingHost /\ t.activeHost = q.activeHost
  BY <1>3, <1>4, <1>7, Zenon DEF CleanedUp
<1>9. Waits(t)
  BY <1>2, <1>8, SameWaits
<1>10. host' \in [Hosts -> {"held", "dropped"}] /\ host'[h] = "dropped"
       /\ \A x \in Hosts : x # h => host'[x] = host[x]
  BY <1>1, <1>2
<1>11. ASSUME NEW x \in Hosts PROVE HostForgotten(t, host'[x], x)
  <2>1. HostForgotten(q, host[x], x)
    BY Zenon DEF WaitInv, Forgets
  <2>2. CASE x # h
    BY <1>5, <1>7, <1>8, <1>10, <2>1, <2>2, Zenon DEF HostForgotten, CleanedUp
  <2>3. CASE x = h
    <3>1. h \in d.retired
      BY <1>5, Zenon
    <3> QED
      BY <1>4, <1>7, <1>8, <1>10, <2>3, <3>1, Zenon DEF HostForgotten, CleanedUp
  <2> QED
    BY <2>2, <2>3, Zenon
<1> QED
  BY <1>1, <1>9, <1>10, <1>11, Zenon DEF Forgets

\* The steps that leave the jobs that wait and the hosts alone.
LEMMA OthersKeepWaits ==
  ASSUME WaitInv, host' = host, q' = q \/ q' = [q EXCEPT !.closed = TRUE]
  PROVE  Waits(q') /\ Forgets(q', host')
<1>1. DOMAIN q = Fields /\ Waits(q)
  BY Zenon DEF WaitInv, AccountInv, QueueTyped
<1>2. /\ q'.jobs = q.jobs /\ q'.rotation = q.rotation /\ q'.pending = q.pending
      /\ q'.pendingHost = q.pendingHost
  BY <1>1, Zenon DEF Fields
<1>3. /\ q'.known = q.known /\ q'.retired = q.retired /\ q'.activeHost = q.activeHost
  BY <1>1, Zenon DEF Fields
<1>4. Waits(q')
  BY <1>1, <1>2, SameWaits
<1>5. ASSUME NEW x \in Hosts PROVE HostForgotten(q', host'[x], x)
  BY <1>2, <1>3, Zenon DEF HostForgotten, WaitInv, Forgets
<1> QED
  BY <1>4, <1>5, Zenon DEF Forgets

\* Nothing waits at first.
LEMMA NothingWaits ==
  ASSUME Init
  PROVE  Waits(q) /\ Forgets(q, host)
<1>1. q.jobs = [l \in Lanes |-> [h \in Hosts |-> 0]]
  BY Zenon DEF Init
<1>2. q.jobs \in JobTable
  BY <1>1 DEF JobTable
<1>3. \A l \in Lanes, h \in Hosts : q.jobs[l][h] = 0
  BY <1>1, ZenonT(60)
<1>4. /\ q.pendingHost = [h \in Hosts |-> 0] /\ q.pending = 0
      /\ q.retired = {} /\ q.known = {} /\ host = [h \in Hosts |-> "held"]
  BY Zenon DEF Init
<1>5. ASSUME NEW x PROVE x \notin Queued(q)
  <2>1. 1..0 = {}
    OBVIOUS
  <2>2. x \in Queued(q) <=>
          \E l \in Lanes, h \in Hosts : \E i \in 1..q.jobs[l][h] : x = <<l, h, i>>
    BY InQueued
  <2> QED
    BY <1>3, <2>1, <2>2, Zenon
<1>6. Queued(q) = {} /\ \A h : QueuedOf(q, h) = {}
  BY <1>5, Zenon DEF QueuedOf
<1>7. IsFiniteSet({}) /\ Cardinality({}) = 0
  BY FS_EmptySet, Zenon
<1>8. ASSUME NEW l \in Lanes PROVE q.rotation[l] = <<>>
  BY Zenon DEF Init
<1>9. Members(<<>>) = {} /\ Once(<<>>)
  BY DEF Members, Once
<1>10. ~(0 > 0) /\ 0 \in Nat
  OBVIOUS
<1>11. \A l \in Lanes : /\ Members(q.rotation[l]) = {h \in Hosts : q.jobs[l][h] > 0}
                        /\ Once(q.rotation[l])
  BY <1>3, <1>8, <1>9, <1>10, Zenon
<1>12. q.pendingHost \in [Hosts -> Nat] /\ \A h \in Hosts : q.pendingHost[h] = 0
  BY <1>4, <1>10, Zenon
<1>13. Waits(q)
  BY <1>2, <1>4, <1>6, <1>7, <1>10, <1>11, <1>12, Zenon DEF Waits
<1>14. Forgets(q, host)
  BY <1>4, Zenon DEF Forgets, HostForgotten
<1> QED
  BY <1>13, <1>14, Zenon

\* The records of the jobs that wait agree, and the hosts that are gone are
\* forgotten with their last job, from the start and after every step.
THEOREM WaitInvariant == Spec => []WaitInv
<1>1. Init => WaitInv
  <2>1. ASSUME Init PROVE host \in [Hosts -> {"held", "dropped"}]
    BY <2>1, Zenon DEF Init
  <2>2. Init => AccountInv
    BY InitAccounts, Zenon
  <2> QED
    BY <2>1, <2>2, NothingWaits, Zenon DEF WaitInv
<1>2. WaitInv /\ [Next]_vars => WaitInv'
  <2> SUFFICES ASSUME WaitInv, [Next]_vars PROVE WaitInv'
    OBVIOUS
  <2>1. AccountInv'
    BY NextAccounts, Zenon DEF WaitInv
  <2>2. host \in [Hosts -> {"held", "dropped"}]
    BY Zenon DEF WaitInv
  <2>3. CASE EnsureStarted \/ Close \/ UNCHANGED vars
    <3>1. host' = host /\ (q' = q \/ q' = [q EXCEPT !.closed = TRUE])
      BY <2>3, Zenon DEF EnsureStarted, Close, vars
    <3> QED
      BY <2>1, <2>2, <3>1, OthersKeepWaits DEF WaitInv
  <2>4. ASSUME NEW w \in Workers, Finish(w) PROVE WaitInv'
    <3>1. host' = host /\ (q' = q \/ q' = [q EXCEPT !.closed = TRUE])
      BY <2>4, Zenon DEF Finish
    <3> QED
      BY <2>1, <2>2, <3>1, OthersKeepWaits DEF WaitInv
  <2>5. ASSUME NEW h \in Hosts, RetireHost(h) PROVE WaitInv'
    BY <2>1, <2>5, RetireKeepsWaits, Zenon DEF WaitInv
  <2>6. ASSUME NEW h \in Hosts, NEW l \in Kinds, Enqueue(h, l) PROVE WaitInv'
    <3>1. host' = host /\ l \in Lanes
      BY <2>6, KindsAssumption, Zenon DEF Enqueue
    <3>2. Waits(q') /\ Forgets(q', host')
      BY <2>6, <3>1, EnqueueKeepsWaits, Zenon
    <3> QED
      BY <2>1, <2>2, <3>1, <3>2, Zenon DEF WaitInv
  <2>7. ASSUME NEW w \in Workers, Dispatch(w) PROVE WaitInv'
    <3>1. host' = host
      BY <2>7, Zenon DEF Dispatch
    <3>2. Waits(q') /\ Forgets(q', host')
      BY <2>7, DispatchKeepsWaits, Zenon
    <3> QED
      BY <2>1, <2>2, <3>1, <3>2, Zenon DEF WaitInv
  <2>8. ASSUME NEW w \in Workers, FindNothing(w) PROVE WaitInv'
    <3>1. host' = host
      BY <2>8, Zenon DEF FindNothing
    <3>2. Waits(q') /\ Forgets(q', host')
      BY <2>8, FindNothingKeepsWaits, Zenon
    <3> QED
      BY <2>1, <2>2, <3>1, <3>2, Zenon DEF WaitInv
  <2> QED
    BY <2>3, <2>4, <2>5, <2>6, <2>7, <2>8 DEF Next
<1> QED
  BY <1>1, <1>2, PTL DEF Spec

\* For every number of workers, hosts and pools: the rotations, the lanes and the
\* counts of waiting jobs agree, so the expects of pop_where hold and a host has
\* one turn in each round.
THEOREM WaitingHolds == Spec => []WaitingExact
<1>1. WaitInv => WaitingExact
  BY Zenon DEF WaitInv, Waits, WaitingExact, InTurn, Members, Once
<1> QED
  BY <1>1, WaitInvariant, PTL

\* For every number of workers, hosts and pools: a host whose registration is
\* gone leaves no entry behind once its last job is completed, whichever of
\* complete and retire_host comes last.
THEOREM ForgottenHolds == Spec => []RetiredForgotten
<1>1. WaitInv => RetiredForgotten
  BY Zenon DEF WaitInv, Forgets, HostForgotten, RetiredForgotten
<1> QED
  BY <1>1, WaitInvariant, PTL

-----------------------------------------------------------------------------
(* The share of a host *)

\* The first pass of pop_next enforces the shares, the second does not.
LEMMA FairPassFirst ==
  ASSUME NEW s, Found(s) # 0
  PROVE  \/ Attempts(s)[Found(s)][1] = "enforced"
         \/ \A p \in Priorities : Offers(s, "enforced", p) = {}
<1> DEFINE n == Len(Order(s))
           f == Found(s)
<1>1. /\ Order(s) \in Seq(Priorities) /\ DOMAIN Attempts(s) = 1..(n + n)
      /\ \A i \in 1..n : Attempts(s)[i] = <<"enforced", Order(s)[i]>>
  BY AttemptFacts, Zenon
<1>2. n \in Nat /\ 1..n \subseteq 1..(n + n)
  BY <1>1
<1>3. /\ f \in 1..(n + n)
      /\ \A j \in 1..(n + n) :
           Offers(s, Attempts(s)[j][1], Attempts(s)[j][2]) # {} => f <= j
  BY <1>1, FoundOffers, Zenon
<1>4. \A p \in Priorities : \E i \in 1..n : Order(s)[i] = p
  BY OrderFacts, Zenon
<1> HIDE DEF n, f
<1>5. CASE f <= n
  <2>1. f \in 1..n
    BY <1>2, <1>3, <1>5
  <2>2. Attempts(s)[f] = <<"enforced", Order(s)[f]>>
    BY <1>1, <2>1, Zenon
  <2> QED
    BY <2>2 DEF f
<1>6. CASE ~(f <= n)
  <2>1. ASSUME NEW p \in Priorities, Offers(s, "enforced", p) # {} PROVE FALSE
    <3>1. PICK i \in 1..n : Order(s)[i] = p
      BY <1>4, Zenon
    <3>2. Attempts(s)[i][1] = "enforced" /\ Attempts(s)[i][2] = p
      <4>1. Attempts(s)[i] = <<"enforced", Order(s)[i]>>
        BY <1>1, Zenon
      <4> QED
        BY <3>1, <4>1
    <3>3. f <= i
      BY <1>2, <1>3, <2>1, <3>2, Zenon
    <3> QED
      BY <1>2, <1>3, <1>6, <3>3
  <2> QED
    BY <2>1, Zenon
<1> QED
  BY <1>5, <1>6, Zenon

\* A host with a job in some lane is among the waiting ones.
LEMMA JobWaits ==
  ASSUME NEW s, Waits(s), NEW l \in Lanes, NEW h \in Hosts, s.jobs[l][h] > 0
  PROVE  h \in Waiting(s)
<1> DEFINE j == <<l, h, 1>>
<1>1. s.jobs[l][h] \in Nat
  BY DEF Waits, JobTable
<1>2. 1 \in 1..s.jobs[l][h]
  BY <1>1
<1>3. j \in Queued(s)
  BY <1>2, InQueued
<1>4. j[2] = h
  BY Zenon
<1>5. j \in QueuedOf(s, h) /\ QueuedOf(s, h) \subseteq Queued(s)
  BY <1>3, <1>4, Zenon DEF QueuedOf
<1>6. IsFiniteSet(QueuedOf(s, h)) /\ QueuedOf(s, h) # {}
  BY <1>5, FS_Subset, Zenon DEF Waits
<1>7. Cardinality(QueuedOf(s, h)) \in Nat /\ Cardinality(QueuedOf(s, h)) # 0
  BY <1>6, FS_EmptySet, FS_CardinalityType, Zenon
<1>8. s.pendingHost[h] = Cardinality(QueuedOf(s, h))
  BY Zenon DEF Waits
<1>9. s.pendingHost[h] > 0
  BY <1>7, <1>8
<1> QED
  BY <1>9, Zenon DEF Waiting

\* Two hosts that wait are contended.
LEMMA TwoWait ==
  ASSUME NEW s, NEW g \in Waiting(s), NEW h \in Waiting(s), g # h
  PROVE  Cardinality(Waiting(s)) > 1
<1>1. Waiting(s) \subseteq Hosts /\ IsFiniteSet(Hosts)
  BY ExecutorAssumption, Zenon DEF Waiting
<1>2. IsFiniteSet(Waiting(s))
  BY <1>1, FS_Subset, Zenon
<1> DEFINE A == Waiting(s) \ {h}
<1>3. IsFiniteSet(A) /\ A # {} /\ Cardinality(Waiting(s)) = Cardinality(A) + 1
      /\ Cardinality(A) \in Nat
  <2>1. IsFiniteSet(A) /\ A # {}
    BY <1>2, FS_Subset, Zenon
  <2>2. Cardinality(A) = Cardinality(Waiting(s)) - 1
    BY <1>2, FS_RemoveElement
  <2>3. Cardinality(A) \in Nat /\ Cardinality(Waiting(s)) \in Nat
    BY <1>2, <2>1, FS_CardinalityType, Zenon
  <2> HIDE DEF A
  <2> QED
    BY <2>1, <2>2, <2>3
<1>4. Cardinality(A) # 0
  BY <1>3, FS_EmptySet, Zenon
<1> HIDE DEF A
<1> QED
  BY <1>3, <1>4

\* Whoever pop_next serves is within its share, or nobody else could use the
\* worker within theirs.
LEMMA PopKeepsShares ==
  ASSUME NEW s, QueueTyped(s), Waits(s), Found(s) # 0, NEW job, job = PopNext(s)
  PROVE  \/ s.activeHost[job.host] < HostCap
         \/ \A x \in Hosts \ {job.host} : ~InShare(s, x)
<1> DEFINE h == job.host
           fairness == Attempts(s)[Found(s)][1]
<1>1. TakenInTurn(s, job) /\ Eligible(s, fairness, h)
  BY PopTakes
<1>2. PICK k \in Lanes : TakenFrom(s, job.state, k, h)
  BY <1>1, Zenon DEF TakenInTurn
<1> HIDE DEF h, fairness
<1>3. h \in Hosts /\ s.jobs[k][h] > 0
  BY <1>2, TakeWaits
<1>4. h \in Waiting(s)
  BY <1>3, JobWaits
<1>5. ASSUME NEW x \in Hosts \ {h}, InShare(s, x), ~(s.activeHost[h] < HostCap)
      PROVE  FALSE
  <2>1. PICK l \in Lanes : s.jobs[l][x] > 0 /\ s.activeClass[l[2]] < ClassCap(l[2])
    BY <1>5, Zenon DEF InShare
  <2>2. s.activeHost[x] < HostCap
    BY <1>5, Zenon DEF InShare
  <2>3. CASE fairness = "enforced"
    <3>1. x \in Waiting(s)
      BY <2>1, JobWaits
    <3>2. Cardinality(Waiting(s)) > 1
      BY <1>4, <3>1, TwoWait
    <3> QED
      BY <1>1, <1>5, <2>3, <3>2, Zenon DEF Eligible
  <2>4. CASE \A p \in Priorities : Offers(s, "enforced", p) = {}
    <3>1. /\ l[1] \in Priorities /\ l[2] \in Pools /\ l = <<l[1], l[2]>>
      BY DEF Lanes
    <3>2. x \in InTurn(s, l)
      BY <2>1, Zenon DEF Waits, InTurn, Members
    <3>3. Eligible(s, "enforced", x)
      BY <2>2, Zenon DEF Eligible
    <3>4. l[2] \in Offers(s, "enforced", l[1])
      BY <2>1, <3>1, <3>2, <3>3, Zenon DEF Offers
    <3> QED
      BY <2>4, <3>1, <3>4, Zenon
  <2> QED
    BY <2>3, <2>4, FairPassFirst, Zenon DEF fairness
<1> QED
  BY <1>5, Zenon DEF h

\* What a worker that gets a job in a step is given.
SharesKept(w) ==
  at[w].pc # "running" /\ at'[w].pc = "running"
    => \/ Completed(w).activeHost[at'[w].host] < HostCap
       \/ \A h \in Hosts \ {at'[w].host} : ~InShare(Completed(w), h)

\* A step that only wakes workers, or sets one aside, gives none of them a job.
LEMMA NoJobGiven ==
  ASSUME AccountInv, NEW w \in Workers, NEW others \in NotifyOne \cup {at},
         others[w].pc = "running"
  PROVE  at[w].pc = "running"
<1>1. \A u \in Workers : others[u] = at[u] \/ (u \notin Busy /\ others[u].pc = "woken")
  BY NotifyFacts, Zenon
<1> QED
  BY <1>1, Zenon

\* next_job gives a job to the worker that looks for it.
LEMMA DispatchKeepsShares ==
  ASSUME WaitInv, NEW u \in Workers, Dispatch(u), NEW w \in Workers
  PROVE  SharesKept(w)
<1> DEFINE s == Completed(u)
<1>1. PICK job, others : /\ job = PopNext(s) /\ others \in Notified(u)
                         /\ at' = [others EXCEPT ![u] =
                              [pc |-> "running", host |-> job.host, pool |-> job.pool]]
  BY Zenon DEF Dispatch
<1>2. Looks(u) /\ Found(s) # 0
  BY Zenon DEF Dispatch
<1>3. QueueTyped(s) /\ Waits(s)
  BY <1>2, LooksFacts, CompletedWaits, Zenon DEF WaitInv
<1>4. others \in NotifyOne \cup {at} /\ AccountInv
  BY <1>1, Zenon DEF Notified, WaitInv
<1>5. DOMAIN others = Workers
  BY <1>4, NotifyFacts, Zenon DEF AccountInv
<1>6. CASE w # u
  <2>1. at'[w] = others[w]
    BY <1>1, <1>5, <1>6, Zenon
  <2> QED
    BY <1>4, <2>1, NoJobGiven, Zenon DEF SharesKept
<1>7. CASE w = u
  <2>1. at'[w].host = job.host
    BY <1>1, <1>5, <1>7, Zenon
  <2>2. \/ s.activeHost[job.host] < HostCap
        \/ \A x \in Hosts \ {job.host} : ~InShare(s, x)
    <3> HIDE DEF s
    <3> QED
      BY <1>1, <1>2, <1>3, PopKeepsShares
  <2> QED
    BY <1>7, <2>1, <2>2, Zenon DEF SharesKept
<1> QED
  BY <1>6, <1>7, Zenon

\* For every number of workers, hosts and pools: pop_next gives a host beyond its
\* share a worker only when no other host could use it within its own.
THEOREM ShareHolds == Spec => ShareKept
<1>1. WaitInv /\ [Next]_vars => [\A w \in Workers : SharesKept(w)]_vars
  <2> SUFFICES ASSUME WaitInv, Next, NEW w \in Workers PROVE SharesKept(w)
    BY Zenon
  <2>1. AccountInv
    BY Zenon DEF WaitInv
  <2>2. CASE EnsureStarted
    <3>1. at'[w].pc = "start"
      BY <2>2, Zenon DEF EnsureStarted
    <3> QED
      BY <3>1, Zenon DEF SharesKept
  <2>3. CASE Close
    <3>1. at'[w] = at[w] \/ at'[w].pc = "woken"
      BY <2>3, Zenon DEF Close
    <3> QED
      BY <3>1, Zenon DEF SharesKept
  <2>4. ASSUME NEW h \in Hosts, RetireHost(h) PROVE SharesKept(w)
    BY <2>4, Zenon DEF RetireHost, SharesKept
  <2>5. ASSUME NEW h \in Hosts, NEW l \in Kinds, Enqueue(h, l) PROVE SharesKept(w)
    <3>1. at' \in NotifyOne
      BY <2>5, Zenon DEF Enqueue
    <3> QED
      BY <2>1, <3>1, NoJobGiven, Zenon DEF SharesKept
  <2>6. ASSUME NEW u \in Workers, Dispatch(u) PROVE SharesKept(w)
    BY <2>6, DispatchKeepsShares, Zenon
  <2>7. ASSUME NEW u \in Workers, FindNothing(u) PROVE SharesKept(w)
    <3>1. PICK others \in Notified(u), pc \in {"exited", "asleep"} :
            at' = [others EXCEPT ![u] = [pc |-> pc]]
      BY <2>7, Zenon DEF FindNothing
    <3>2. others \in NotifyOne \cup {at}
      BY <3>1, Zenon DEF Notified
    <3>3. DOMAIN others = Workers
      BY <2>1, <3>2, NotifyFacts, Zenon DEF AccountInv
    <3>4. at'[w] = others[w] \/ at'[w] = [pc |-> pc]
      BY <3>1, <3>3, Zenon
    <3>5. [pc |-> pc].pc # "running"
      BY <3>1, Zenon
    <3> QED
      BY <2>1, <3>2, <3>4, <3>5, NoJobGiven, Zenon DEF SharesKept
  <2>8. ASSUME NEW u \in Workers, Finish(u) PROVE SharesKept(w)
    <3>1. at'[w] = at[w] \/ at'[w].pc = "done"
      <4>1. at[u].pc = "running" /\ at' = [at EXCEPT ![u] = [at[u] EXCEPT !.pc = "done"]]
        BY <2>8, Zenon DEF Finish
      <4>2. at \in [Workers -> Unoccupied \cup Jobs] /\ at[u] \in Jobs
        BY <2>1, <4>1, Zenon DEF AccountInv, Unoccupied
      <4>3. [at[u] EXCEPT !.pc = "done"].pc = "done"
        BY <4>2, Zenon DEF Jobs
      <4> QED
        BY <4>1, <4>2, <4>3, Zenon
    <3> QED
      BY <3>1, Zenon DEF SharesKept
  <2> QED
    BY <2>2, <2>3, <2>4, <2>5, <2>6, <2>7, <2>8 DEF Next
<1>2. [\A w \in Workers : SharesKept(w)]_vars =>
        [\A w \in Workers :
           at[w].pc # "running" /\ at'[w].pc = "running"
             => \/ Completed(w).activeHost[at'[w].host] < HostCap
                \/ \A h \in Hosts \ {at'[w].host} : ~InShare(Completed(w), h)]_vars
  BY Zenon DEF SharesKept
<1> QED
  BY <1>1, <1>2, WaitInvariant, PTL DEF Spec, ShareKept

-----------------------------------------------------------------------------
(* No lost wakeup *)

\* The workers that look for a job, and those that sleep, when they are at a.
LookersOf(a) == {u \in Workers : a[u].pc \in {"start", "done", "woken"}}
AsleepOf(a) == {u \in Workers : a[u].pc = "asleep"}

\* The jobs of X for pool c; the jobs of X could all be started together.
ForPool(X, c) == {j \in X : j[1][2] = c}

Startable(s, X) ==
  \A c \in Pools : s.activeClass[c] + Cardinality(ForPool(X, c)) <= ClassCap(c)

\* No more than n jobs could be started together.
Watched(s, n) ==
  \A X \in SUBSET Queued(s) : Startable(s, X) => Cardinality(X) <= n

\* The inductive invariant of NoIdleWorker: while a worker sleeps, enough others
\* look for a job to start all that could be started.
WakeInv ==
  WaitInv /\ (AsleepOf(at) # {} => Watched(q, Cardinality(LookersOf(at))))

\* Y is X and one more job, j.
OneJoins(X, j, Y) ==
  /\ Cardinality(X) \in Nat /\ Cardinality(Y) = Cardinality(X) + 1
  /\ \A c : /\ Cardinality(ForPool(X, c)) \in Nat
            /\ Cardinality(ForPool(Y, c)) =
                 IF j[1][2] = c THEN Cardinality(ForPool(X, c)) + 1
                 ELSE Cardinality(ForPool(X, c))

\* The sizes of a set of jobs with one more.
LEMMA JobJoins ==
  ASSUME NEW X, IsFiniteSet(X), NEW j, j \notin X, NEW Y, Y = X \cup {j}
  PROVE  OneJoins(X, j, Y)
<1>1. Cardinality(X) \in Nat /\ Cardinality(Y) = Cardinality(X) + 1
  BY FS_AddElement, FS_CardinalityType
<1>2. ASSUME NEW c
      PROVE  /\ Cardinality(ForPool(X, c)) \in Nat
             /\ Cardinality(ForPool(Y, c)) =
                  IF j[1][2] = c THEN Cardinality(ForPool(X, c)) + 1
                  ELSE Cardinality(ForPool(X, c))
  <2> DEFINE P == ForPool(X, c)
  <2>1. P \subseteq X /\ j \notin P
    BY Zenon DEF ForPool
  <2>2. IsFiniteSet(P)
    BY <2>1, FS_Subset, Zenon
  <2>3. ForPool(Y, c) = IF j[1][2] = c THEN P \cup {j} ELSE P
    BY Zenon DEF ForPool
  <2> HIDE DEF P
  <2>4. Cardinality(P) \in Nat /\ Cardinality(P \cup {j}) = Cardinality(P) + 1
    BY <2>1, <2>2, FS_AddElement, FS_CardinalityType
  <2> QED
    BY <2>3, <2>4, Zenon DEF P
<1> QED
  BY <1>1, <1>2, Zenon DEF OneJoins

\* push: one more job can be started at most.
LEMMA PushWatched ==
  ASSUME NEW s, NEW t, NEW n \in Nat, Watched(s, n), IsFiniteSet(Queued(s)),
         s.activeClass \in [Pools -> Nat], t.activeClass = s.activeClass,
         NEW j, j \notin Queued(s), Queued(t) = Queued(s) \cup {j}
  PROVE  Watched(t, n + 1)
<1> SUFFICES ASSUME NEW X \in SUBSET Queued(t), Startable(t, X)
             PROVE  Cardinality(X) <= n + 1
  BY Zenon DEF Watched
<1> DEFINE Y == X \ {j}
<1>1. Y \in SUBSET Queued(s) /\ j \notin Y /\ (X = Y \/ X = Y \cup {j})
  BY Zenon
<1>2. IsFiniteSet(Y)
  BY <1>1, FS_Subset, Zenon
<1> HIDE DEF Y
<1>3. /\ Cardinality(Y) \in Nat /\ Cardinality(Y \cup {j}) = Cardinality(Y) + 1
      /\ \A c : /\ Cardinality(ForPool(Y, c)) \in Nat
                /\ Cardinality(ForPool(Y \cup {j}, c)) =
                     IF j[1][2] = c THEN Cardinality(ForPool(Y, c)) + 1
                     ELSE Cardinality(ForPool(Y, c))
  <2>1. OneJoins(Y, j, Y \cup {j})
    BY <1>1, <1>2, JobJoins, Zenon
  <2> QED
    BY <2>1, Zenon DEF OneJoins
<1>4. ASSUME NEW c \in Pools
      PROVE  s.activeClass[c] + Cardinality(ForPool(Y, c)) <= ClassCap(c)
  <2>1. s.activeClass[c] + Cardinality(ForPool(X, c)) <= ClassCap(c)
    BY Zenon DEF Startable
  <2>2. CASE X = Y
    BY <2>1, <2>2, Zenon
  <2>3. CASE X = Y \cup {j}
    <3>1. /\ s.activeClass[c] \in Nat /\ ClassCap(c) \in Nat
          /\ Cardinality(ForPool(Y, c)) \in Nat
          /\ \/ Cardinality(ForPool(X, c)) = Cardinality(ForPool(Y, c))
             \/ Cardinality(ForPool(X, c)) = Cardinality(ForPool(Y, c)) + 1
      BY <1>3, <2>3, CapTyped, Zenon
    <3> QED
      BY <2>1, <3>1
  <2> QED
    BY <1>1, <2>2, <2>3, Zenon
<1>5. Cardinality(Y) <= n
  BY <1>1, <1>4, Zenon DEF Watched, Startable
<1>6. Cardinality(X) = Cardinality(Y) \/ Cardinality(X) = Cardinality(Y) + 1
  BY <1>1, <1>3, Zenon
<1> QED
  BY <1>3, <1>5, <1>6

\* pop_priority: what could be started with the job it takes.
LEMMA PopWatched ==
  ASSUME NEW s, NEW t, NEW n \in Nat, Watched(s, n), IsFiniteSet(Queued(t)),
         s.activeClass \in [Pools -> Nat], NEW k \in Pools,
         t.activeClass = [s.activeClass EXCEPT ![k] = @ + 1],
         NEW j, j \notin Queued(t), Queued(s) = Queued(t) \cup {j}, j[1][2] = k
  PROVE  Watched(t, n - 1)
<1> SUFFICES ASSUME NEW X \in SUBSET Queued(t), Startable(t, X)
             PROVE  Cardinality(X) <= n - 1
  BY Zenon DEF Watched
<1> DEFINE Y == X \cup {j}
<1>1. Y \in SUBSET Queued(s) /\ j \notin X
  BY Zenon
<1>2. IsFiniteSet(X)
  BY FS_Subset, Zenon
<1>3. /\ Cardinality(X) \in Nat /\ Cardinality(Y) = Cardinality(X) + 1
      /\ \A c : /\ Cardinality(ForPool(X, c)) \in Nat
                /\ Cardinality(ForPool(Y, c)) =
                     IF j[1][2] = c THEN Cardinality(ForPool(X, c)) + 1
                     ELSE Cardinality(ForPool(X, c))
  <2>1. OneJoins(X, j, Y)
    BY <1>1, <1>2, JobJoins, Zenon
  <2> HIDE DEF Y
  <2> QED
    BY <2>1, Zenon DEF OneJoins
<1> HIDE DEF Y
<1>4. ASSUME NEW c \in Pools
      PROVE  s.activeClass[c] + Cardinality(ForPool(Y, c)) <= ClassCap(c)
  <2>1. t.activeClass[c] + Cardinality(ForPool(X, c)) <= ClassCap(c)
    BY Zenon DEF Startable
  <2>2. /\ s.activeClass[c] \in Nat /\ ClassCap(c) \in Nat
        /\ Cardinality(ForPool(X, c)) \in Nat
    BY <1>3, CapTyped, Zenon
  <2>3. CASE c = k
    <3>1. /\ Cardinality(ForPool(Y, c)) = Cardinality(ForPool(X, c)) + 1
          /\ t.activeClass[c] = s.activeClass[c] + 1
      BY <1>3, <2>3, Zenon
    <3> QED
      BY <2>1, <2>2, <3>1
  <2>4. CASE c # k
    <3>1. /\ Cardinality(ForPool(Y, c)) = Cardinality(ForPool(X, c))
          /\ t.activeClass[c] = s.activeClass[c]
      BY <1>3, <2>4, Zenon
    <3> QED
      BY <2>1, <3>1, Zenon
  <2> QED
    BY <2>3, <2>4, Zenon
<1>5. Cardinality(Y) <= n
  BY <1>1, <1>4, Zenon DEF Watched, Startable
<1> QED
  BY <1>3, <1>5

\* complete: its pool has room for one more.
LEMMA CompleteWatched ==
  ASSUME NEW s, NEW t, NEW n \in Nat, Watched(s, n), IsFiniteSet(Queued(s)),
         s.activeClass \in [Pools -> Nat], NEW k \in Pools,
         s.activeClass[k] <= ClassCap(k),
         t.activeClass = [s.activeClass EXCEPT ![k] = @ - 1],
         Queued(t) = Queued(s)
  PROVE  Watched(t, n + 1)
<1> SUFFICES ASSUME NEW X \in SUBSET Queued(s), Startable(t, X)
             PROVE  Cardinality(X) <= n + 1
  BY Zenon DEF Watched
<1>0. \A c \in Pools : t.activeClass[c] + Cardinality(ForPool(X, c)) <= ClassCap(c)
  BY Zenon DEF Startable
<1>1. \A c \in Pools : t.activeClass[c] = IF c = k THEN s.activeClass[c] - 1
                                          ELSE s.activeClass[c]
  BY Zenon
<1>2. IsFiniteSet(X)
  BY FS_Subset, Zenon
<1>3. CASE ForPool(X, k) = {}
  <2>1. ASSUME NEW c \in Pools
        PROVE  s.activeClass[c] + Cardinality(ForPool(X, c)) <= ClassCap(c)
    <3>1. CASE c = k
      <4>1. Cardinality(ForPool(X, c)) = 0 /\ s.activeClass[c] \in Nat
        BY <1>3, <3>1, FS_EmptySet, Zenon
      <4> QED
        BY <3>1, <4>1
    <3>2. CASE c # k
      BY <1>0, <1>1, <3>2, Zenon
    <3> QED
      BY <3>1, <3>2, Zenon
  <2>2. Cardinality(X) <= n
    BY <2>1, Zenon DEF Watched, Startable
  <2>3. Cardinality(X) \in Nat
    BY <1>2, FS_CardinalityType, Zenon
  <2> QED
    BY <2>2, <2>3
<1>4. CASE ForPool(X, k) # {}
  <2>1. PICK j \in X : j[1][2] = k
    BY <1>4, Zenon DEF ForPool
  <2> DEFINE Y == X \ {j}
  <2>2. Y \in SUBSET Queued(s) /\ j \notin Y /\ X = Y \cup {j}
    BY <2>1, Zenon
  <2>3. IsFiniteSet(Y)
    BY <2>2, FS_Subset, Zenon
  <2> HIDE DEF Y
  <2>4. /\ Cardinality(Y) \in Nat /\ Cardinality(X) = Cardinality(Y) + 1
        /\ \A c : /\ Cardinality(ForPool(Y, c)) \in Nat
                  /\ Cardinality(ForPool(X, c)) =
                       IF j[1][2] = c THEN Cardinality(ForPool(Y, c)) + 1
                       ELSE Cardinality(ForPool(Y, c))
    <3>1. OneJoins(Y, j, X)
      BY <2>2, <2>3, JobJoins, Zenon
    <3> QED
      BY <3>1, Zenon DEF OneJoins
  <2>5. ASSUME NEW c \in Pools
        PROVE  s.activeClass[c] + Cardinality(ForPool(Y, c)) <= ClassCap(c)
    <3>1. CASE c = k
      <4>1. /\ Cardinality(ForPool(X, c)) = Cardinality(ForPool(Y, c)) + 1
            /\ t.activeClass[c] = s.activeClass[c] - 1
            /\ s.activeClass[c] \in Nat /\ Cardinality(ForPool(Y, c)) \in Nat
        BY <1>1, <2>1, <2>4, <3>1, Zenon
      <4>2. t.activeClass[c] + Cardinality(ForPool(X, c)) =
              s.activeClass[c] + Cardinality(ForPool(Y, c))
        BY <4>1
      <4> QED
        BY <1>0, <4>2, Zenon
    <3>2. CASE c # k
      <4>1. /\ Cardinality(ForPool(X, c)) = Cardinality(ForPool(Y, c))
            /\ t.activeClass[c] = s.activeClass[c]
        BY <1>1, <2>1, <2>4, <3>2, Zenon
      <4> QED
        BY <1>0, <4>1, Zenon
    <3> QED
      BY <3>1, <3>2, Zenon
  <2>6. Cardinality(Y) <= n
    BY <2>2, <2>5, Zenon DEF Watched, Startable
  <2> QED
    BY <2>4, <2>6
<1> QED
  BY <1>3, <1>4, Zenon

\* The relaxed pass takes any job of a pool with room.
LEMMA OfferFound ==
  ASSUME NEW s, ~(s.active >= WorkerCount), NEW p \in Priorities,
         Offers(s, "relaxed", p) # {}
  PROVE  Found(s) # 0
<1> DEFINE n == Len(Order(s))
<1>1. /\ Order(s) \in Seq(Priorities) /\ DOMAIN Attempts(s) = 1..(n + n)
      /\ \A i \in 1..n : Attempts(s)[n + i] = <<"relaxed", Order(s)[i]>>
  BY AttemptFacts, Zenon
<1>2. PICK i \in 1..n : Order(s)[i] = p
  BY OrderFacts, Zenon
<1>3. n \in Nat /\ n + i \in 1..(n + n) /\ 1..(n + n) \in SUBSET Nat /\ 0 \notin 1..(n + n)
  BY <1>1
<1> HIDE DEF n
<1>4. Attempts(s)[n + i] = <<"relaxed", p>>
  BY <1>1, <1>2, Zenon
<1>5. Offers(s, Attempts(s)[n + i][1], Attempts(s)[n + i][2]) # {}
  <2>1. Attempts(s)[n + i][1] = "relaxed" /\ Attempts(s)[n + i][2] = p
    BY <1>4
  <2> QED
    BY <2>1, Zenon
<1>6. n + i \in Successful(s) /\ Successful(s) \subseteq 1..(n + n)
  BY <1>1, <1>3, <1>5, Zenon DEF Successful
<1>7. Successful(s) # {} /\ Successful(s) \in SUBSET Nat
  BY <1>3, <1>6, Zenon
<1>8. First(Successful(s)) \in Successful(s)
  BY <1>7, FirstIn, Zenon
<1>9. Found(s) = First(Successful(s))
  BY <1>7, Zenon DEF Found
<1> QED
  BY <1>3, <1>6, <1>8, <1>9, Zenon

\* If pop_next finds nothing for a worker that is free, nothing can be started.
LEMMA NothingStartable ==
  ASSUME NEW s, QueueTyped(s), Waits(s), ~(s.active >= WorkerCount), Found(s) = 0
  PROVE  Watched(s, 0)
<1> SUFFICES ASSUME NEW X \in SUBSET Queued(s), Startable(s, X) PROVE X = {}
  BY FS_EmptySet DEF Watched
<1> SUFFICES ASSUME NEW j \in X PROVE FALSE
  BY Zenon
<1>1. PICK l \in Lanes, h \in Hosts : \E i \in 1..s.jobs[l][h] : j = <<l, h, i>>
  BY InQueued
<1>2. PICK i \in 1..s.jobs[l][h] : j = <<l, h, i>>
  BY <1>1, Zenon
<1>3. s.jobs[l][h] \in Nat
  BY DEF Waits, JobTable
<1>4. s.jobs[l][h] > 0
  BY <1>2, <1>3
<1>5. l[1] \in Priorities /\ l[2] \in Pools /\ l = <<l[1], l[2]>>
  BY DEF Lanes
<1>6. h \in InTurn(s, l) /\ Eligible(s, "relaxed", h)
  <2>1. h \in InTurn(s, l)
    BY <1>4, Zenon DEF Waits, InTurn, Members
  <2> QED
    BY <2>1 DEF Eligible
<1>7. s.activeClass[l[2]] < ClassCap(l[2])
  <2> DEFINE P == ForPool(X, l[2])
  <2>1. j \in P /\ P \subseteq Queued(s)
    BY <1>2, Zenon DEF ForPool
  <2>2. IsFiniteSet(P) /\ P # {}
    BY <2>1, FS_Subset, Zenon DEF Waits
  <2>3. Cardinality(P) \in Nat /\ Cardinality(P) # 0
    BY <2>2, FS_EmptySet, FS_CardinalityType, Zenon
  <2>4. /\ s.activeClass[l[2]] + Cardinality(P) <= ClassCap(l[2])
        /\ s.activeClass[l[2]] \in Nat /\ ClassCap(l[2]) \in Nat
    BY <1>5, CapTyped, Zenon DEF Startable, QueueTyped
  <2> HIDE DEF P
  <2> QED
    BY <2>3, <2>4
<1>8. l[2] \in Offers(s, "relaxed", l[1])
  BY <1>5, <1>6, <1>7, Zenon DEF Offers
<1> QED
  BY <1>5, <1>8, OfferFound, Zenon

\* If pop_next finds a job, one can be started.
LEMMA OneStartable ==
  ASSUME NEW s, QueueTyped(s), Waits(s), \A c \in Pools : s.activeClass[c] <= ClassCap(c),
         Found(s) # 0, NEW n \in Nat, Watched(s, n)
  PROVE  n # 0
<1> DEFINE a == Attempts(s)[Found(s)]
<1>1. Offers(s, a[1], a[2]) # {} /\ a[2] \in Priorities
  BY FoundOffers, AttemptPriority, Zenon
<1>2. PICK c \in Pools : /\ s.activeClass[c] < ClassCap(c)
                         /\ \E h \in InTurn(s, <<a[2], c>>) : Eligible(s, a[1], h)
  BY <1>1, Zenon DEF Offers
<1> DEFINE l == <<a[2], c>>
<1>3. PICK h : h \in InTurn(s, l)
  BY <1>2, Zenon
<1>4. l \in Lanes /\ l[2] = c
  BY <1>1, Zenon DEF Lanes
<1> HIDE DEF a, l
<1>5. h \in Hosts /\ s.jobs[l][h] > 0
  BY <1>3, <1>4, Zenon DEF Waits, InTurn, Members
<1>6. 1 \in 1..s.jobs[l][h]
  <2>1. s.jobs[l][h] \in Nat
    BY <1>4, <1>5 DEF Waits, JobTable
  <2> QED
    BY <1>5, <2>1
<1> DEFINE j == <<l, h, 1>>
<1>7. j \in Queued(s) /\ j[1][2] = c
  BY <1>4, <1>5, <1>6, InQueued, Zenon
<1> HIDE DEF j
<1>8. IsFiniteSet({}) /\ Cardinality({}) = 0 /\ j \notin {} /\ {} \cup {j} = {j}
  BY FS_EmptySet, Zenon
<1>9. ASSUME NEW d \in Pools
      PROVE  s.activeClass[d] + Cardinality(ForPool({j}, d)) <= ClassCap(d)
  <2>1. ForPool({}, d) = {}
    BY Zenon DEF ForPool
  <2>2. Cardinality(ForPool({j}, d)) = IF j[1][2] = d THEN 0 + 1 ELSE 0
    <3>1. OneJoins({}, j, {j})
      BY <1>8, JobJoins, Zenon
    <3> QED
      BY <1>8, <2>1, <3>1, Zenon DEF OneJoins
  <2>3. s.activeClass[d] \in Nat /\ ClassCap(d) \in Nat /\ s.activeClass[d] <= ClassCap(d)
    BY CapTyped, Zenon DEF QueueTyped
  <2> QED
    BY <1>2, <1>7, <2>2, <2>3
<1>10. Cardinality({j}) = 1
  BY FS_Singleton, Zenon
<1>11. Cardinality({j}) <= n
  BY <1>7, <1>9, Zenon DEF Watched, Startable
<1> QED
  BY <1>10, <1>11

\* notify_one wakes a worker that sleeps.
LEMMA NotifyLookers ==
  ASSUME AccountInv, NEW others \in NotifyOne, AsleepOf(at) # {}
  PROVE  \E v \in AsleepOf(at) : LookersOf(others) = LookersOf(at) \cup {v}
<1>1. PICK v \in AsleepOf(at) : others = [at EXCEPT ![v].pc = "woken"]
  BY Zenon DEF NotifyOne, Asleep, AsleepOf
<1>2. v \in Workers /\ at[v].pc = "asleep" /\ at \in [Workers -> Unoccupied \cup Jobs]
  BY <1>1, Zenon DEF AsleepOf, AccountInv
<1>3. at[v] \in Unoccupied
  BY <1>2, Zenon DEF Jobs
<1>4. [at[v] EXCEPT !.pc = "woken"].pc = "woken"
  BY <1>3, Zenon DEF Unoccupied
<1>5. others = [at EXCEPT ![v] = [at[v] EXCEPT !.pc = "woken"]]
  BY <1>1, Zenon
<1>6. others[v].pc = "woken" /\ \A u \in Workers \ {v} : others[u] = at[u]
  BY <1>2, <1>4, <1>5, Zenon
<1> QED
  BY <1>1, <1>2, <1>6, Zenon DEF LookersOf

\* The numbers of workers that look.
LEMMA LookersCount ==
  ASSUME NEW a
  PROVE  /\ IsFiniteSet(LookersOf(a)) /\ Cardinality(LookersOf(a)) \in Nat
         /\ \A v : v \notin LookersOf(a) =>
              Cardinality(LookersOf(a) \cup {v}) = Cardinality(LookersOf(a)) + 1
         /\ \A v \in LookersOf(a) :
              Cardinality(LookersOf(a) \ {v}) = Cardinality(LookersOf(a)) - 1
<1>1. LookersOf(a) \subseteq Workers
  BY Zenon DEF LookersOf
<1>2. IsFiniteSet(LookersOf(a))
  BY <1>1, ExecutorAssumption, FS_Subset, Zenon
<1> QED
  BY <1>2, FS_AddElement, FS_RemoveElement, FS_CardinalityType

\* A lane's count that goes up by one is a job added.
LEMMA JobAdds ==
  ASSUME NEW s, Waits(s), NEW t, NEW l \in Lanes, NEW h \in Hosts,
         t.jobs = [s.jobs EXCEPT ![l][h] = s.jobs[l][h] + 1]
  PROVE  JobAdded(s, t, l, h)
<1>1. s.jobs \in JobTable
  BY Zenon DEF Waits
<1>2. s.jobs[l][h] \in Nat /\ s.jobs[l][h] + 1 \in Nat
  BY <1>1 DEF JobTable
<1>3. /\ t.jobs \in JobTable /\ t.jobs[l][h] = s.jobs[l][h] + 1
      /\ \A k \in Lanes, x \in Hosts : k # l \/ x # h => t.jobs[k][x] = s.jobs[k][x]
  BY <1>1, <1>2, JobsMove
<1> QED
  BY <1>1, <1>3, Zenon DEF JobAdded

\* submit: the job that joins has a worker woken for it.
LEMMA EnqueueKeepsAwake ==
  ASSUME WakeInv, NEW h \in Hosts, NEW l \in Lanes, Enqueue(h, l), AsleepOf(at') # {}
  PROVE  Watched(q', Cardinality(LookersOf(at')))
<1> DEFINE t == Push(q, h, l)
<1>1. q' = t /\ at' \in NotifyOne
  BY Zenon DEF Enqueue
<1>2. AccountInv /\ QueueTyped(q) /\ DOMAIN q = Fields /\ Waits(q)
  BY Zenon DEF WakeInv, WaitInv, AccountInv, QueueTyped
<1>3. AsleepOf(at) # {}
  <2>1. \A u \in Workers : at'[u] = at[u] \/ (u \notin Busy /\ at'[u].pc = "woken")
    BY <1>1, <1>2, NotifyFacts, Zenon
  <2> QED
    BY <2>1, Zenon DEF AsleepOf
<1>4. PICK v \in AsleepOf(at) : LookersOf(at') = LookersOf(at) \cup {v}
  BY <1>1, <1>2, <1>3, NotifyLookers, Zenon
<1>5. v \notin LookersOf(at)
  BY <1>4, Zenon DEF AsleepOf, LookersOf
<1>6. t.activeClass = q.activeClass
  BY <1>2, Zenon DEF Push, Fields
<1>13. t.jobs = [q.jobs EXCEPT ![l][h] = q.jobs[l][h] + 1]
  BY <1>2, Zenon DEF Push, Fields
<1> HIDE DEF t
<1>8. JobAdded(q, t, l, h)
  BY <1>2, <1>13, JobAdds, Zenon
<1>9. PICK j : j \notin Queued(q) /\ Queued(t) = Queued(q) \cup {j}
  BY <1>8, OneJobMore
<1> DEFINE n == Cardinality(LookersOf(at))
<1>10. n \in Nat /\ Cardinality(LookersOf(at')) = n + 1
  BY <1>4, <1>5, LookersCount, Zenon
<1>11. Watched(q, n) /\ IsFiniteSet(Queued(q)) /\ q.activeClass \in [Pools -> Nat]
  BY <1>2, <1>3, Zenon DEF WakeInv, Waits, QueueTyped
<1> HIDE DEF n
<1>12. Watched(t, n + 1)
  BY <1>6, <1>9, <1>10, <1>11, PushWatched
<1> QED
  BY <1>1, <1>10, <1>12, Zenon

\* complete leaves the jobs that wait alone.
LEMMA CompleteRoom ==
  ASSUME WaitInv, NEW w \in Workers, at[w].pc = "done", NEW s, s = Completed(w)
  PROVE  /\ at[w].pool \in Pools /\ Queued(s) = Queued(q)
         /\ s.activeClass = [q.activeClass EXCEPT ![at[w].pool] = @ - 1]
         /\ s.pending = q.pending
<1> DEFINE g == at[w].host
           c == at[w].pool
           d == [q EXCEPT !.active = @ - 1, !.activeClass[c] = @ - 1,
                          !.activeHost[g] = @ - 1]
<1>1. s = CleanupRetiredHost(d, g)
  BY Zenon DEF Completed, Complete
<1>2. c \in Pools /\ g \in Hosts
  BY Zenon DEF WaitInv, AccountInv, Unoccupied, Jobs
<1>3. q.activeHost[g] >= 1
  BY CompleteFacts, Zenon DEF WaitInv
<1>4. DOMAIN q = Fields
  BY Zenon DEF WaitInv, AccountInv, QueueTyped
<1> HIDE DEF g, c
<1>5. DOMAIN d = Fields /\ d.jobs = q.jobs /\ d.pending = q.pending
  BY <1>4, Zenon DEF Fields
<1>6. d.pendingHost = q.pendingHost
  BY <1>4, Zenon DEF Fields
<1>7. d.activeHost = [q.activeHost EXCEPT ![g] = @ - 1]
  BY <1>4, Zenon DEF Fields
<1>8. d.activeClass = [q.activeClass EXCEPT ![c] = @ - 1]
  BY <1>4, Zenon DEF Fields
<1> HIDE DEF d
<1>9. q.pendingHost \in [Hosts -> Nat] /\ q.activeHost \in [Hosts -> Nat]
  BY Zenon DEF WaitInv, Waits, AccountInv, QueueTyped
<1>10. d.activeHost[g] \in Nat /\ d.pendingHost[g] \in Nat
  BY <1>2, <1>3, <1>6, <1>7, <1>9, SMTT(30)
<1>11. CleanedUp(d, s, g)
  BY <1>1, <1>5, <1>10, CleanupFacts
<1>12. s.jobs = q.jobs /\ s.pending = q.pending /\ s.activeClass = d.activeClass
  BY <1>5, <1>11, Zenon DEF CleanedUp
<1>13. Queued(s) = Queued(q)
  <2>1. ASSUME NEW x PROVE x \in Queued(s) <=> x \in Queued(q)
    BY <1>12, InQueued
  <2> QED
    BY <2>1, Zenon
<1> QED
  BY <1>2, <1>8, <1>12, <1>13, Zenon DEF c

\* next_job: the worker takes one of the jobs that could be started, and wakes
\* another if it made room for one.
LEMMA DispatchKeepsAwake ==
  ASSUME WakeInv, NEW w \in Workers, Dispatch(w), AsleepOf(at') # {}
  PROVE  Watched(q', Cardinality(LookersOf(at')))
<1> DEFINE s == Completed(w)
           n == Cardinality(LookersOf(at))
<1>1. PICK job, others : /\ job = PopNext(s) /\ others \in Notified(w)
                         /\ q' = job.state
                         /\ at' = [others EXCEPT ![w] =
                              [pc |-> "running", host |-> job.host, pool |-> job.pool]]
  BY Zenon DEF Dispatch
<1>2. Looks(w) /\ Found(s) # 0
  BY Zenon DEF Dispatch
<1>3. WaitInv /\ AccountInv /\ QueueTyped(q) /\ Waits(q)
  BY Zenon DEF WakeInv, WaitInv, AccountInv
<1>4. QueueTyped(s) /\ Waits(s)
  BY <1>2, <1>3, LooksFacts, CompletedWaits, Zenon
<1>5. /\ others \in [Workers -> Unoccupied \cup Jobs]
      /\ \A u \in Workers : others[u] = at[u] \/ (u \notin Busy /\ others[u].pc = "woken")
  <2>1. others \in NotifyOne \/ others = at
    BY <1>1, Zenon DEF Notified
  <2> QED
    BY <1>3, <2>1, NotifyFacts, Zenon DEF AccountInv
<1>6. at'[w].pc = "running" /\ \A u \in Workers \ {w} : at'[u] = others[u]
  BY <1>1, <1>5, Zenon
<1>7. AsleepOf(at) # {}
  BY <1>5, <1>6, Zenon DEF AsleepOf
<1>8. Watched(q, n) /\ n \in Nat
  BY <1>7, LookersCount, Zenon DEF WakeInv
<1>9. w \in LookersOf(others) /\ LookersOf(at') = LookersOf(others) \ {w}
  <2>1. w \in LookersOf(others)
    BY <1>2, <1>5, Zenon DEF LookersOf, Looks
  <2>2. LookersOf(at') = LookersOf(others) \ {w}
    BY <1>6, Zenon DEF LookersOf
  <2> QED
    BY <2>1, <2>2
<1>10. Cardinality(LookersOf(at')) = Cardinality(LookersOf(others)) - 1
  BY <1>9, LookersCount, Zenon
<1>11. Watched(s, Cardinality(LookersOf(others)))
  <2>1. CASE at[w].pc # "done"
    <3>1. s = q /\ others = at
      BY <1>1, <2>1, Zenon DEF Completed, Notified
    <3> QED
      BY <1>8, <3>1, Zenon
  <2>2. CASE at[w].pc = "done"
    <3>1. /\ at[w].pool \in Pools /\ Queued(s) = Queued(q)
          /\ s.activeClass = [q.activeClass EXCEPT ![at[w].pool] = @ - 1]
      BY <1>3, <2>2, CompleteRoom, Zenon
    <3>2. /\ IsFiniteSet(Queued(q)) /\ q.activeClass \in [Pools -> Nat]
          /\ q.activeClass[at[w].pool] <= ClassCap(at[w].pool)
      BY <1>3, <3>1, Zenon DEF Waits, QueueTyped, AccountInv, Accounts
    <3>3. s.pending # 0
      <4> HIDE DEF s
      <4> DEFINE t == job.state
                 h == job.host
      <4>1. TakenInTurn(s, job)
        BY <1>1, <1>2, <1>4, PopTakes
      <4>2. PICK l \in Lanes : TakenFrom(s, t, l, h)
        BY <4>1, Zenon DEF TakenInTurn
      <4> HIDE DEF t, h
      <4>3. /\ Waits(t) /\ h \in Hosts /\ s.jobs[l][h] > 0
            /\ s.pendingHost[h] \in Nat /\ s.pendingHost[h] > 0
        BY <1>4, <4>2, TakeWaits, Zenon
      <4>4. s.jobs[l][h] \in Nat
        BY <1>4, <4>3 DEF Waits, JobTable
      <4>5. 1 \in 1..s.jobs[l][h]
        BY <4>3, <4>4
      <4>6. <<l, h, 1>> \in Queued(s)
        BY <4>3, <4>5, InQueued
      <4>7. IsFiniteSet(Queued(s)) /\ s.pending = Cardinality(Queued(s))
        BY <1>4, Zenon DEF Waits
      <4> QED
        BY <4>6, <4>7, FS_EmptySet, Zenon
    <3>4. others \in NotifyOne
      BY <1>1, <2>2, <3>3, Zenon DEF Notified
    <3>5. PICK v \in AsleepOf(at) : LookersOf(others) = LookersOf(at) \cup {v}
      BY <1>3, <1>7, <3>4, NotifyLookers, Zenon
    <3>6. v \notin LookersOf(at)
      BY <3>5, Zenon DEF AsleepOf, LookersOf
    <3>7. Cardinality(LookersOf(others)) = n + 1
      BY <3>5, <3>6, LookersCount, Zenon
    <3> HIDE DEF s, n
    <3>8. Watched(s, n + 1)
      BY <1>8, <3>1, <3>2, CompleteWatched
    <3> QED
      BY <3>7, <3>8, Zenon
  <2> QED
    BY <2>1, <2>2, Zenon
<1> HIDE DEF s
<1> DEFINE t == job.state
           m == Cardinality(LookersOf(others))
<1>12. /\ job.pool \in Pools
       /\ t.activeClass = [s.activeClass EXCEPT ![job.pool] = @ + 1]
  <2>1. /\ job.pool \in Pools /\ job.host \in Hosts
        /\ s.activeClass[job.pool] < ClassCap(job.pool)
        /\ QueueTyped(job.state)
        /\ job.state.active = s.active + 1
        /\ job.state.activeClass = [s.activeClass EXCEPT ![job.pool] = @ + 1]
        /\ job.state.activeHost = [s.activeHost EXCEPT ![job.host] = @ + 1]
    BY <1>1, <1>2, <1>4, PopFacts
  <2> QED
    BY <2>1, Zenon
<1>13. PICK j : /\ j \notin Queued(t) /\ Queued(s) = Queued(t) \cup {j}
                /\ j[1][2] = job.pool
  <2>1. TakenInTurn(s, job)
    BY <1>1, <1>2, <1>4, PopTakes
  <2>2. PICK l \in Lanes : l[2] = job.pool /\ TakenFrom(s, t, l, job.host)
    BY <2>1, Zenon DEF TakenInTurn
  <2> DEFINE h == job.host
  <2>3. h \in Hosts /\ s.jobs[l][h] > 0
    BY <1>4, <2>2, TakeWaits
  <2>4. t.jobs = [s.jobs EXCEPT ![l][h] = s.jobs[l][h] - 1]
    BY <2>2, Zenon DEF TakenFrom, Taken
  <2> HIDE DEF t, h
  <2>5. s.jobs \in JobTable /\ s.jobs[l][h] \in Nat /\ s.jobs[l][h] - 1 \in Nat
        /\ s.jobs[l][h] = (s.jobs[l][h] - 1) + 1
    BY <1>4, <2>3 DEF Waits, JobTable
  <2>6. /\ t.jobs \in JobTable /\ t.jobs[l][h] = s.jobs[l][h] - 1
        /\ \A k \in Lanes, x \in Hosts : k # l \/ x # h => t.jobs[k][x] = s.jobs[k][x]
    BY <2>3, <2>4, <2>5, JobsMove
  <2>7. JobAdded(t, s, l, h)
    BY <2>5, <2>6, Zenon DEF JobAdded
  <2>8. /\ NewJob(t, l, h) \notin Queued(t)
        /\ Queued(s) = Queued(t) \cup {NewJob(t, l, h)}
    BY <2>3, <2>7, OneJobMore
  <2>9. NewJob(t, l, h)[1] = l
    BY Zenon DEF NewJob
  <2> QED
    BY <2>2, <2>8, <2>9, Zenon
<1>14. IsFiniteSet(Queued(s)) /\ s.activeClass \in [Pools -> Nat]
  BY <1>4, Zenon DEF Waits, QueueTyped
<1>15. IsFiniteSet(Queued(t))
  BY <1>13, <1>14, FS_Subset, Zenon
<1>16. m \in Nat
  BY LookersCount, Zenon
<1> HIDE DEF t, m
<1>17. Watched(t, m - 1)
  <2>1. Watched(s, m)
    BY <1>11, Zenon DEF m
  <2> QED
    BY <1>12, <1>13, <1>14, <1>15, <1>16, <2>1, PopWatched, SMTT(30)
<1> QED
  BY <1>1, <1>10, <1>17, Zenon DEF t, m

\* next_job: a worker goes to sleep only when nothing can be started.
LEMMA FindNothingKeepsAwake ==
  ASSUME WakeInv, NEW w \in Workers, FindNothing(w)
  PROVE  Watched(q', Cardinality(LookersOf(at')))
<1> DEFINE s == Completed(w)
<1>1. Looks(w) /\ q' = s /\ Found(s) = 0
  BY Zenon DEF FindNothing
<1>2. WaitInv /\ AccountInv
  BY Zenon DEF WakeInv, WaitInv
<1>3. QueueTyped(s) /\ Waits(s) /\ Accounts(s, Busy \ {w})
  BY <1>1, <1>2, LooksFacts, CompletedWaits, Zenon
<1> HIDE DEF s
<1>4. ~(s.active >= WorkerCount)
  <2> DEFINE B == Busy \ {w}
             R == Workers \ {w}
  <2>1. B \in SUBSET R /\ s.active = Cardinality(B)
    BY <1>3, Zenon DEF Busy, Accounts
  <2>2. IsFiniteSet(R) /\ Cardinality(R) = WorkerCount - 1 /\ WorkerCount \in Nat
    BY ExecutorAssumption, FS_RemoveElement, FS_CardinalityType DEF WorkerCount
  <2> HIDE DEF B, R
  <2>3. Cardinality(B) <= Cardinality(R) /\ IsFiniteSet(B)
    BY <2>1, <2>2, FS_Subset, Zenon
  <2>4. Cardinality(B) \in Nat
    BY <2>3, FS_CardinalityType, Zenon
  <2> QED
    BY <2>1, <2>2, <2>3, <2>4, SMTT(30)
<1>5. Watched(s, 0)
  BY <1>1, <1>3, <1>4, NothingStartable
<1> DEFINE n == Cardinality(LookersOf(at'))
<1>6. n \in Nat
  BY LookersCount, Zenon
<1> HIDE DEF n
<1>7. ASSUME NEW X \in SUBSET Queued(s), Startable(s, X) PROVE Cardinality(X) <= n
  <2>1. Cardinality(X) <= 0
    BY <1>5, <1>7, Zenon DEF Watched
  <2>2. IsFiniteSet(X)
    BY <1>3, FS_Subset, Zenon DEF Waits
  <2>3. Cardinality(X) \in Nat
    BY <2>2, FS_CardinalityType, Zenon
  <2> QED
    BY <1>6, <2>1, <2>3
<1> QED
  BY <1>1, <1>7, Zenon DEF Watched, n

\* A job that ends: its worker looks for another.
LEMMA FinishKeepsAwake ==
  ASSUME WakeInv, NEW w \in Workers, Finish(w), AsleepOf(at') # {}
  PROVE  Watched(q', Cardinality(LookersOf(at')))
<1>1. /\ q' = q /\ at[w].pc = "running"
      /\ at' = [at EXCEPT ![w] = [at[w] EXCEPT !.pc = "done"]]
  BY Zenon DEF Finish
<1>2. at \in [Workers -> Unoccupied \cup Jobs] /\ at[w] \in Jobs /\ Waits(q)
  BY <1>1, Zenon DEF WakeInv, WaitInv, AccountInv, Unoccupied
<1>3. [at[w] EXCEPT !.pc = "done"].pc = "done"
  BY <1>2, Zenon DEF Jobs
<1>4. at'[w].pc = "done" /\ \A u \in Workers \ {w} : at'[u] = at[u]
  BY <1>1, <1>2, <1>3, Zenon
<1>5. AsleepOf(at) # {} /\ LookersOf(at') = LookersOf(at) \cup {w} /\ w \notin LookersOf(at)
  BY <1>1, <1>4, Zenon DEF AsleepOf, LookersOf
<1> DEFINE n == Cardinality(LookersOf(at))
<1>6. n \in Nat /\ Cardinality(LookersOf(at')) = n + 1 /\ Watched(q, n)
  BY <1>5, LookersCount, Zenon DEF WakeInv
<1> HIDE DEF n
<1>7. ASSUME NEW X \in SUBSET Queued(q), Startable(q, X) PROVE Cardinality(X) <= n + 1
  <2>1. Cardinality(X) <= n
    BY <1>6, <1>7, Zenon DEF Watched
  <2>2. IsFiniteSet(X)
    BY <1>2, FS_Subset, Zenon DEF Waits
  <2>3. Cardinality(X) \in Nat
    BY <2>2, FS_CardinalityType, Zenon
  <2> QED
    BY <1>6, <2>1, <2>3
<1> QED
  BY <1>1, <1>6, <1>7, Zenon DEF Watched

\* What changes neither the jobs, nor the pools, nor the workers.
LEMMA SameWatched ==
  ASSUME NEW s, NEW t, NEW n, Watched(s, n), t.jobs = s.jobs,
         t.activeClass = s.activeClass
  PROVE  Watched(t, n)
<1>1. Queued(t) = Queued(s)
  <2>1. ASSUME NEW x PROVE x \in Queued(t) <=> x \in Queued(s)
    BY InQueued
  <2> QED
    BY <2>1, Zenon
<1> QED
  BY <1>1, Zenon DEF Watched, Startable

\* retire_host.
LEMMA RetireKeepsAwake ==
  ASSUME WakeInv, NEW h \in Hosts, RetireHost(h), AsleepOf(at') # {}
  PROVE  Watched(q', Cardinality(LookersOf(at')))
<1> DEFINE d == [q EXCEPT !.retired = @ \cup {h}]
           t == CleanupRetiredHost(d, h)
<1>1. q' = t /\ at' = at
  BY Zenon DEF RetireHost
<1>2. DOMAIN q = Fields /\ q.pendingHost \in [Hosts -> Nat] /\ q.activeHost \in [Hosts -> Nat]
  BY Zenon DEF WakeInv, WaitInv, Waits, AccountInv, QueueTyped
<1>3. DOMAIN d = Fields /\ d.jobs = q.jobs /\ d.activeClass = q.activeClass
  BY <1>2, Zenon DEF Fields
<1>4. d.pendingHost = q.pendingHost /\ d.activeHost = q.activeHost
  BY <1>2, Zenon DEF Fields
<1> HIDE DEF d
<1>5. d.pendingHost[h] \in Nat /\ d.activeHost[h] \in Nat
  BY <1>2, <1>4, Zenon
<1>6. CleanedUp(d, t, h)
  BY <1>3, <1>5, CleanupFacts
<1> HIDE DEF t
<1>7. t.jobs = q.jobs /\ t.activeClass = q.activeClass
  BY <1>3, <1>6, Zenon DEF CleanedUp
<1>8. Watched(q, Cardinality(LookersOf(at)))
  BY <1>1, Zenon DEF WakeInv
<1> QED
  BY <1>1, <1>7, <1>8, SameWatched, Zenon

\* Every step keeps enough workers awake.
THEOREM WakeInvariant == Spec => []WakeInv
<1>1. Init => (AsleepOf(at) # {} => Watched(q, Cardinality(LookersOf(at))))
  <2> SUFFICES ASSUME Init PROVE AsleepOf(at) = {}
    BY Zenon
  <2>1. \A u \in Workers : at[u].pc = "none"
    BY Zenon DEF Init
  <2> QED
    BY <2>1, Zenon DEF AsleepOf
<1>2. WakeInv /\ [Next]_vars => (AsleepOf(at) # {} => Watched(q, Cardinality(LookersOf(at))))'
  <2> SUFFICES ASSUME WakeInv, [Next]_vars, AsleepOf(at') # {}
               PROVE  Watched(q', Cardinality(LookersOf(at')))
    BY Zenon
  <2>1. CASE EnsureStarted
    <3>1. \A u \in Workers : at'[u].pc = "start"
      BY <2>1, Zenon DEF EnsureStarted
    <3> QED
      BY <3>1, Zenon DEF AsleepOf
  <2>2. CASE Close
    <3>1. \A u \in Workers : at'[u].pc # "asleep"
      BY <2>2, Zenon DEF Close, Asleep
    <3> QED
      BY <3>1, Zenon DEF AsleepOf
  <2>3. ASSUME NEW h \in Hosts, RetireHost(h) PROVE Watched(q', Cardinality(LookersOf(at')))
    BY <2>3, RetireKeepsAwake, Zenon
  <2>4. ASSUME NEW h \in Hosts, NEW l \in Kinds, Enqueue(h, l)
        PROVE  Watched(q', Cardinality(LookersOf(at')))
    <3>1. l \in Lanes
      BY KindsAssumption, Zenon
    <3> QED
      BY <2>4, <3>1, EnqueueKeepsAwake, Zenon
  <2>5. ASSUME NEW w \in Workers, Dispatch(w) \/ FindNothing(w) \/ Finish(w)
        PROVE  Watched(q', Cardinality(LookersOf(at')))
    BY <2>5, DispatchKeepsAwake, FindNothingKeepsAwake, FinishKeepsAwake, Zenon
  <2>6. CASE UNCHANGED vars
    <3>1. q' = q /\ at' = at
      BY <2>6 DEF vars
    <3> QED
      BY <3>1, Zenon DEF WakeInv
  <2> QED
    BY <2>1, <2>2, <2>3, <2>4, <2>5, <2>6, Zenon DEF Next
<1> QED
  BY <1>1, <1>2, WaitInvariant, PTL DEF Spec, WakeInv

\* For every number of workers, hosts and pools: no wakeup is lost.  submit wakes
\* one worker for its job, and a worker that completes a job makes room for one
\* more than it takes and wakes one more for it.
THEOREM AwakeHolds == Spec => []NoIdleWorker
<1>1. WakeInv => NoIdleWorker
  <2> SUFFICES ASSUME WakeInv, Asleep # {}, Found(q) # 0
               PROVE  \E w \in Workers : Looks(w)
    BY Zenon DEF NoIdleWorker
  <2> DEFINE n == Cardinality(LookersOf(at))
  <2>1. Watched(q, n) /\ n \in Nat
    BY LookersCount, Zenon DEF WakeInv, Asleep, AsleepOf
  <2>2. QueueTyped(q) /\ Waits(q) /\ \A c \in Pools : q.activeClass[c] <= ClassCap(c)
    BY Zenon DEF WakeInv, WaitInv, AccountInv, Accounts
  <2> HIDE DEF n
  <2>3. n # 0
    BY <2>1, <2>2, OneStartable
  <2>4. LookersOf(at) # {}
    BY <2>3, FS_EmptySet, Zenon DEF n
  <2> QED
    BY <2>4, Zenon DEF LookersOf, Looks
<1> QED
  BY <1>1, WakeInvariant, PTL

=============================================================================
