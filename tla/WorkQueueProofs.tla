--------------------------- MODULE WorkQueueProofs --------------------------
(***************************************************************************)
(* The safety of the work queues, for every set of items, every number of  *)
(* retries and runs of every length.                                       *)
(***************************************************************************)
EXTENDS WorkQueue, SequenceTheorems, TLAPS

-----------------------------------------------------------------------------
(* The lists of the loop.                                                  *)

\* A multiple of the granularity that is not 0 is at least the granularity:
\* what the test of the yield (workqueue.c:352) relies on.
LEMMA MultipleReachesGranularity ==
    ASSUME NEW c \in Nat \ {0}, NEW g \in Nat \ {0}, c % g = 0
    PROVE  c >= g
OBVIOUS

\* The node of a listed item.
LEMMA PositionFact ==
    ASSUME NEW list \in Seq(Items), NEW i \in Range(list)
    PROVE  /\ Position(list, i) \in 1..Len(list)
           /\ list[Position(list, i)] = i
  <1>1. \E k \in 1..Len(list) : list[k] = i
    BY DEF Range
  <1> QED  BY <1>1 DEF Position

\* list_delete_node leaves the other items, in their order.
LEMMA WithoutFact ==
    ASSUME NEW list \in Seq(Items), IsInjective(list), NEW i \in Range(list)
    PROVE  /\ Without(list, i) \in Seq(Items)
           /\ IsInjective(Without(list, i))
           /\ Range(Without(list, i)) = Range(list) \ {i}
  <1> DEFINE k == Position(list, i)
             w == Without(list, i)
  <1>1. k \in 1..Len(list) /\ list[k] = i
    BY PositionFact
  <1>2. /\ w \in Seq(Items) /\ Len(w) = Len(list) - 1
        /\ \A n \in 1..Len(w) : w[n] = IF n < k THEN list[n] ELSE list[n + 1]
    <2> DEFINE a == SubSeq(list, 1, k - 1)
               b == SubSeq(list, k + 1, Len(list))
    <2>1. /\ a \in Seq(Items) /\ Len(a) = k - 1
          /\ \A n \in 1..(k - 1) : a[n] = list[n]
      <3> HIDE DEF k
      <3> QED  BY <1>1
    <2>2. /\ b \in Seq(Items) /\ Len(b) = Len(list) - k
          /\ \A n \in 1..(Len(list) - k) : b[n] = list[k + n]
      <3> HIDE DEF k
      <3> QED  BY <1>1
    <2>3. w = a \o b
      BY DEF Without, RemoveAt
    <2> HIDE DEF a, b, k, w
    <2>4. w \in Seq(Items) /\ Len(w) = Len(list) - 1
      BY <1>1, <2>1, <2>2, <2>3
    <2>5. ASSUME NEW n \in 1..Len(w)
          PROVE  w[n] = IF n < k THEN list[n] ELSE list[n + 1]
      <3>1. CASE n < k
        BY <3>1, <1>1, <2>1, <2>2, <2>3, <2>4
      <3>2. CASE n >= k
        <4>1. w[n] = b[n - (k - 1)] /\ n - (k - 1) \in 1..(Len(list) - k)
          BY <3>2, <1>1, <2>1, <2>2, <2>3, <2>4
        <4> QED  BY <4>1, <3>2, <1>1, <2>2
      <3> QED  BY <3>1, <3>2, <1>1, <2>4
    <2> QED  BY <2>4, <2>5
  <1> HIDE DEF k, w
  <1>3. IsInjective(w)
    <2> DEFINE old(n) == IF n < k THEN n ELSE n + 1
    <2>1. DOMAIN w = 1..Len(w) /\ DOMAIN list = 1..Len(list)
      BY <1>2
    <2> SUFFICES ASSUME NEW m \in 1..Len(w), NEW n \in 1..Len(w), w[m] = w[n]
                 PROVE  m = n
      BY <2>1 DEF IsInjective
    <2>2. old(m) \in 1..Len(list) /\ old(n) \in 1..Len(list)
      BY <1>1, <1>2
    <2>3. list[old(m)] = list[old(n)]
      BY <1>2
    <2>4. old(m) = old(n)
      <3> HIDE DEF old
      <3> QED  BY <2>1, <2>2, <2>3 DEF IsInjective
    <2> QED  BY <2>4, <1>1, <1>2
  <1>4. Range(w) = Range(list) \ {i}
    <2>1. ASSUME NEW n \in 1..Len(w) PROVE w[n] \in Range(list) \ {i}
      <3> DEFINE p == IF n < k THEN n ELSE n + 1
      <3>1. p \in 1..Len(list) /\ p # k /\ w[n] = list[p]
        BY <2>1, <1>1, <1>2
      <3> HIDE DEF p
      <3>2. list[p] # list[k]
        BY <3>1, <1>1 DEF IsInjective
      <3> QED  BY <3>1, <3>2, <1>1 DEF Range
    <2>2. ASSUME NEW n \in 1..Len(list), list[n] # i
          PROVE  \E p \in 1..Len(w) : w[p] = list[n]
      <3>1. CASE n < k
        BY <3>1, <1>1, <1>2
      <3>2. CASE n > k
        <4>1. n - 1 \in 1..Len(w) /\ ~(n - 1 < k)
          BY <3>2, <1>1, <1>2
        <4>2. w[n - 1] = list[(n - 1) + 1]
          BY <4>1, <1>2
        <4> QED  BY <4>1, <4>2
      <3> QED  BY <3>1, <3>2, <2>2, <1>1
    <2>3. DOMAIN w = 1..Len(w) /\ DOMAIN list = 1..Len(list)
      BY <1>2
    <2>4. ASSUME NEW x \in Range(w) PROVE x \in Range(list) \ {i}
      <3>1. PICK n \in 1..Len(w) : x = w[n]
        BY <2>3 DEF Range
      <3> QED  BY <3>1, <2>1
    <2>5. ASSUME NEW x \in Range(list) \ {i} PROVE x \in Range(w)
      <3>1. PICK n \in 1..Len(list) : x = list[n]
        BY <2>3 DEF Range
      <3>2. PICK p \in 1..Len(w) : w[p] = x
        BY <3>1, <2>2
      <3> QED  BY <3>2, <2>3 DEF Range
    <2> QED  BY <2>4, <2>5
  <1> QED  BY <1>2, <1>3, <1>4 DEF w

\* The item after a listed one is another listed one, or there is none.
LEMMA AfterFact ==
    ASSUME NEW list \in Seq(Items), IsInjective(list), NEW i \in Range(list)
    PROVE  After(list, i) \in (Range(list) \ {i}) \cup {NULL}
  <1>1. Position(list, i) \in 1..Len(list) /\ list[Position(list, i)] = i
    BY PositionFact
  <1> QED  BY <1>1 DEF After, Range, IsInjective

\* listnode_add of an item that is not listed.
LEMMA AppendFact ==
    ASSUME NEW list \in Seq(Items), IsInjective(list),
           NEW i \in Items, i \notin Range(list)
    PROVE  /\ Append(list, i) \in Seq(Items)
           /\ IsInjective(Append(list, i))
           /\ Range(Append(list, i)) = Range(list) \cup {i}
  BY DEF Range, IsInjective

-----------------------------------------------------------------------------
(* The inductive invariant.                                                *)

\* The list and the loop's two nodes, which differ in the workfunc.
ListInv ==
    /\ items \in Seq(Items) /\ IsInjective(items)
    /\ node \in Items \cup {NULL} /\ nnode \in Items \cup {NULL}
    /\ LoopOnList
    /\ pc = "work" => nnode # node

\* The item was within its retries when its workfunc was called.
RetryInv ==
    /\ ran \in [Items -> Nat]
    /\ RetriesBounded
    /\ pc = "work" => ran[node] <= max_retries

\* bgp_clear_node_complete and its like find the queue as idle code does.
ScheduleInv ==
    /\ unplugged \in BOOLEAN /\ thread \in BOOLEAN
    /\ pc \in {"idle", "loop", "work", "stats", "completion"}
    /\ ScheduledIfWork
    /\ pc = "completion" /\ unplugged /\ items # <<>> => thread

\* A run that yielded is over and had a full number of cycles, so that worst
\* is never lowered.
GranularityInv ==
    /\ yielded \in BOOLEAN /\ cycles \in Nat /\ best \in Nat
    /\ granularity \in Nat \ {0} /\ granularity <= UINT_MAX
    /\ GranularityWithinBest
    /\ yielded => pc = "stats" /\ cycles >= granularity
    /\ worst = UINT_MAX

QueueInv == ListInv /\ RetryInv /\ ScheduleInv /\ GranularityInv

\* The queue that work_queue_new makes satisfies the invariant.
LEMMA InitQueueInv == Init => QueueInv
  <1> SUFFICES ASSUME Init PROVE QueueInv
    OBVIOUS
  <1>1. ListInv
    BY DEF Init, ListInv, LoopOnList, IsInjective
  <1>2. RetryInv
    BY QueueAssumption DEF Init, RetryInv, RetriesBounded
  <1>3. ScheduleInv
    BY DEF Init, ScheduleInv, ScheduledIfWork
  <1>4. GranularityInv
    <2>1. /\ cycles \in Nat /\ best \in Nat /\ worst = UINT_MAX
          /\ granularity \in Nat \ {0} /\ granularity <= UINT_MAX
          /\ ~(granularity > MIN_GRANULARITY)
      BY QueueAssumption DEF Init, MIN_GRANULARITY
    <2>2. yielded = FALSE
      BY DEF Init
    <2> QED  BY Zenon, <2>1, <2>2 DEF GranularityInv, GranularityWithinBest
  <1> QED  BY <1>1, <1>2, <1>3, <1>4 DEF QueueInv

\* The loop follows the list (lines 290-346): each step keeps the list free of
\* duplicates and the loop's nodes on it.
LEMMA NextList ==
    QueueInv /\ [Next]_vars => ListInv'
  <1> SUFFICES ASSUME ListInv, [Next]_vars PROVE ListInv'
    BY DEF QueueInv
  <1> USE DEF ListInv
  <1>a. Range(items) \subseteq Items
    BY DEF Range
  <1>1. CASE UNCHANGED vars
    BY <1>1 DEF vars, LoopOnList, spec, loop, stats, vars
  <1>2. CASE Run
    <2>1. First(items) \in Range(items) \cup {NULL}
      BY DEF First, Range
    <2> QED  BY <1>2, <2>1, <1>a DEF Run, LoopOnList
  <1>3. CASE EndOfList
    BY <1>3 DEF EndOfList, LoopOnList, spec, loop, stats, vars
  <1>4. CASE PastRetries
    <2>1. node \in Range(items)
      BY <1>4, NullAssumption DEF PastRetries, LoopOnList
    <2>2. /\ items' = Without(items, node) /\ node' = After(items, node)
          /\ nnode' = nnode /\ pc' = "loop"
      BY <1>4 DEF PastRetries
    <2>3. /\ Without(items, node) \in Seq(Items)
          /\ IsInjective(Without(items, node))
          /\ Range(Without(items, node)) = Range(items) \ {node}
          /\ After(items, node) \in (Range(items) \ {node}) \cup {NULL}
      BY <2>1, WithoutFact, AfterFact
    <2> QED  BY <2>2, <2>3, <1>a DEF LoopOnList
  <1>5. CASE CallWorkfunc
    <2>1. node \in Range(items) /\ node # NULL
      BY <1>5 DEF CallWorkfunc, LoopOnList
    <2>2. After(items, node) \in (Range(items) \ {node}) \cup {NULL}
      BY <2>1, AfterFact
    <2> QED  BY <1>5, <2>1, <2>2, <1>a DEF CallWorkfunc, spec, LoopOnList
  <1>6. CASE RetryNow
    BY <1>6 DEF RetryNow, LoopOnList, spec, loop, stats, vars
  <1>7. ASSUME NEW ret \in Codes, StopHere(ret) PROVE ListInv'
    BY <1>7 DEF StopHere, LoopOnList, spec, loop, stats, vars
  <1>8. ASSUME NEW ret \in Codes, NEW slow \in BOOLEAN, Done(ret, slow) PROVE ListInv'
    <2>1. node \in Range(items)
      BY <1>8 DEF Done, LoopOnList
    <2>2. /\ items' = Without(items, node) /\ node' = nnode /\ nnode' = nnode
          /\ pc' # "work"
      BY <1>8 DEF Done, Tested
    <2>3. /\ Without(items, node) \in Seq(Items)
          /\ IsInjective(Without(items, node))
          /\ Range(Without(items, node)) = Range(items) \ {node}
      BY <2>1, WithoutFact
    <2>4. nnode \in (Range(items) \ {node}) \cup {NULL}
      BY <1>8 DEF Done, LoopOnList
    <2> QED  BY <2>2, <2>3, <2>4 DEF LoopOnList
  <1>9. ASSUME NEW slow \in BOOLEAN, Requeue(slow) PROVE ListInv'
    <2>1. node \in Range(items)
      BY <1>9 DEF Requeue, LoopOnList
    <2>2. /\ items' = Append(Without(items, node), node)
          /\ node' = nnode /\ nnode' = nnode /\ pc' # "work"
      BY <1>9 DEF Requeue, Tested
    <2>3. /\ Without(items, node) \in Seq(Items)
          /\ IsInjective(Without(items, node))
          /\ Range(Without(items, node)) = Range(items) \ {node}
      BY <2>1, WithoutFact
    <2>4. items' \in Seq(Items) /\ IsInjective(items') /\ Range(items') = Range(items)
      <3> DEFINE w == Without(items, node)
      <3>1. w \in Seq(Items) /\ IsInjective(w) /\ node \in Items /\ node \notin Range(w)
        BY <2>1, <2>3, <1>a
      <3> HIDE DEF w
      <3>2. /\ Append(w, node) \in Seq(Items) /\ IsInjective(Append(w, node))
            /\ Range(Append(w, node)) = Range(w) \cup {node}
        BY <3>1, AppendFact
      <3> QED  BY <3>2, <2>1, <2>2, <2>3 DEF w
    <2>5. nnode \in Range(items) \cup {NULL}
      BY <1>9 DEF Requeue, LoopOnList
    <2> QED  BY <2>2, <2>4, <2>5 DEF LoopOnList
  <1>10. CASE Stats
    BY <1>10 DEF Stats, Reschedule, LoopOnList
  <1>11. CASE CompletionReturns
    BY <1>11 DEF CompletionReturns, LoopOnList, spec, loop, stats, vars
  <1>12. CASE work_queue_plug
    BY <1>12 DEF work_queue_plug, LoopOnList, spec, loop, stats, vars
  <1>13. CASE work_queue_unplug
    BY <1>13 DEF work_queue_unplug, LoopOnList, spec, loop, stats, vars
  <1>14. CASE work_queue_free
    BY <1>14 DEF work_queue_free, loop, LoopOnList, IsInjective
  <1>15. ASSUME NEW i \in Items, work_queue_add(i) PROVE ListInv'
    <2>1. /\ items' = Append(items, i) /\ i \notin Range(items)
          /\ node' = node /\ nnode' = nnode /\ pc' = pc
      BY <1>15 DEF work_queue_add, loop
    <2>2. /\ items' \in Seq(Items) /\ IsInjective(items')
          /\ Range(items') = Range(items) \cup {i}
      BY <2>1, AppendFact
    <2> QED  BY <2>1, <2>2 DEF LoopOnList
  <1> QED
    BY Zenon, <1>1, <1>2, <1>3, <1>4, <1>5, <1>6, <1>7, <1>8,
       <1>9, <1>10, <1>11, <1>12, <1>13, <1>14, <1>15
    DEF Next, RunStep, User, WorkfuncReturns

\* The count of an item's runs (lines 295-332, work_queue_item_new).
LEMMA NextRetry ==
    QueueInv /\ [Next]_vars => RetryInv'
  <1> SUFFICES ASSUME ListInv, RetryInv, [Next]_vars PROVE RetryInv'
    BY DEF QueueInv
  <1> USE DEF RetryInv, RetriesBounded
  <1>a. pc = "work" => node \in Items /\ node \in Range(items)
    BY DEF ListInv, LoopOnList, Range
  <1>1. CASE UNCHANGED vars
    BY <1>1 DEF vars, spec, loop, stats, vars
  <1>2. CASE Run
    BY <1>2 DEF Run, spec, loop, stats, vars
  <1>3. CASE EndOfList
    BY <1>3 DEF EndOfList, spec, loop, stats, vars
  <1>4. CASE PastRetries
    BY <1>4 DEF PastRetries
  <1>5. CASE CallWorkfunc
    BY <1>5 DEF CallWorkfunc, spec
  <1>6. CASE RetryNow
    BY <1>6, <1>a, QueueAssumption DEF RetryNow, loop
  <1>7. ASSUME NEW ret \in Codes, StopHere(ret) PROVE RetryInv'
    <2>1. node \in Items /\ ran[node] <= max_retries /\ pc' = "stats"
      BY <1>7, <1>a DEF StopHere
    <2>2. ran' = ran \/ ran' = [ran EXCEPT ![node] = @ + 1]
      BY <1>7 DEF StopHere
    <2> QED  BY <2>1, <2>2, QueueAssumption
  <1>8. ASSUME NEW ret \in Codes, NEW slow \in BOOLEAN, Done(ret, slow) PROVE RetryInv'
    <2>1. /\ node \in Items /\ ran[node] <= max_retries /\ pc' # "work"
          /\ ran' = [ran EXCEPT ![node] = @ + 1]
      BY <1>8, <1>a DEF Done, Tested
    <2> QED  BY <2>1, QueueAssumption
  <1>9. ASSUME NEW slow \in BOOLEAN, Requeue(slow) PROVE RetryInv'
    BY <1>9 DEF Requeue, Tested
  <1>10. CASE Stats
    BY <1>10 DEF Stats, Reschedule
  <1>11. CASE CompletionReturns
    BY <1>11 DEF CompletionReturns, spec, loop, stats, vars
  <1>12. CASE work_queue_plug
    BY <1>12 DEF work_queue_plug, spec, loop, stats, vars
  <1>13. CASE work_queue_unplug
    BY <1>13 DEF work_queue_unplug, spec, loop, stats, vars
  <1>14. CASE work_queue_free
    BY <1>14 DEF work_queue_free, spec, loop, stats, vars
  <1>15. ASSUME NEW i \in Items, work_queue_add(i) PROVE RetryInv'
    BY <1>15, <1>a, QueueAssumption DEF work_queue_add, loop
  <1> QED
    BY Zenon, <1>1, <1>2, <1>3, <1>4, <1>5, <1>6, <1>7, <1>8,
       <1>9, <1>10, <1>11, <1>12, <1>13, <1>14, <1>15
    DEF Next, RunStep, User, WorkfuncReturns

\* The thread of the queue (work_queue_schedule and its callers).
LEMMA NextSchedule ==
    QueueInv /\ [Next]_vars => ScheduleInv'
  <1> SUFFICES ASSUME ScheduleInv, [Next]_vars PROVE ScheduleInv'
    BY DEF QueueInv
  <1> USE DEF ScheduleInv, ScheduledIfWork
  <1>1. CASE UNCHANGED vars
    BY <1>1 DEF vars, spec, loop, stats, vars, UserCode
  <1>2. CASE Run
    BY <1>2 DEF Run, spec, loop, stats, vars, UserCode
  <1>3. CASE EndOfList
    BY <1>3 DEF EndOfList, spec, loop, stats, vars, UserCode
  <1>4. CASE PastRetries
    BY <1>4 DEF PastRetries, spec, loop, stats, vars, UserCode
  <1>5. CASE CallWorkfunc
    BY <1>5 DEF CallWorkfunc, spec, loop, stats, vars, UserCode
  <1>6. CASE RetryNow
    BY <1>6 DEF RetryNow, spec, loop, stats, vars, UserCode
  <1>7. ASSUME NEW ret \in Codes, StopHere(ret) PROVE ScheduleInv'
    BY <1>7 DEF StopHere, spec, loop, stats, vars, UserCode
  <1>8. ASSUME NEW ret \in Codes, NEW slow \in BOOLEAN, Done(ret, slow) PROVE ScheduleInv'
    BY <1>8 DEF Done, Tested
  <1>9. ASSUME NEW slow \in BOOLEAN, Requeue(slow) PROVE ScheduleInv'
    BY <1>9 DEF Requeue, Tested
  <1>10. CASE Stats
    BY <1>10 DEF Stats, Reschedule, Schedule
  <1>11. CASE CompletionReturns
    BY <1>11 DEF CompletionReturns, spec, loop, stats, vars, UserCode
  <1>12. CASE work_queue_plug
    BY <1>12 DEF work_queue_plug, spec, loop, stats, vars, UserCode
  <1>13. CASE work_queue_unplug
    BY <1>13 DEF work_queue_unplug, spec, loop, stats, vars, UserCode
  <1>14. CASE work_queue_free
    BY <1>14 DEF work_queue_free, spec, loop, stats, vars, UserCode
  <1>15. ASSUME NEW i \in Items, work_queue_add(i) PROVE ScheduleInv'
    BY <1>15 DEF work_queue_add, Schedule, UserCode
  <1> QED
    BY Zenon, <1>1, <1>2, <1>3, <1>4, <1>5, <1>6, <1>7, <1>8,
       <1>9, <1>10, <1>11, <1>12, <1>13, <1>14, <1>15
    DEF Next, RunStep, User, WorkfuncReturns

\* A cycle that ends in a yield is a multiple of the granularity.
LEMMA TestedGranularity ==
    ASSUME GranularityInv, NEW slow \in BOOLEAN, Tested(slow), UNCHANGED stats
    PROVE  GranularityInv'
  <1> USE DEF GranularityInv
  <1>1. /\ cycles' \in Nat \ {0} /\ granularity' = granularity
        /\ best' = best /\ worst' = worst
    BY DEF Tested, stats
  <1>2. yielded' \in BOOLEAN
    BY Zenon DEF Tested
  <1>3. yielded' => pc' = "stats" /\ cycles' % granularity = 0
    BY Zenon DEF Tested
  <1>4. yielded' => pc' = "stats" /\ cycles' >= granularity'
    BY <1>1, <1>3, MultipleReachesGranularity
  <1> QED  BY <1>1, <1>2, <1>4 DEF GranularityWithinBest

\* The granularity (lines 287 and 348-391): a yield is tested only at its
\* multiples, so that the branch that lowers it is never taken.
LEMMA NextGranularity ==
    QueueInv /\ [Next]_vars => GranularityInv'
  <1> SUFFICES ASSUME GranularityInv, [Next]_vars PROVE GranularityInv'
    BY DEF QueueInv
  <1> USE DEF GranularityInv
  <1>1. CASE UNCHANGED vars
    BY <1>1 DEF vars, loop, stats, GranularityWithinBest
  <1>2. CASE Run
    <2>1. granularity' = granularity /\ best' = best /\ worst' = worst
      BY <1>2 DEF Run
    <2>2. cycles' \in Nat /\ yielded' = FALSE
      BY <1>2 DEF Run
    <2> QED  BY <2>1, <2>2 DEF GranularityWithinBest
  <1>3. CASE EndOfList
    BY <1>3 DEF EndOfList, GranularityWithinBest, spec, loop, stats, UserCode
  <1>4. CASE PastRetries
    BY <1>4 DEF PastRetries, GranularityWithinBest, spec, loop, stats, UserCode
  <1>5. CASE CallWorkfunc
    BY <1>5 DEF CallWorkfunc, GranularityWithinBest, spec, loop, stats, UserCode
  <1>6. CASE RetryNow
    BY <1>6 DEF RetryNow, GranularityWithinBest, spec, loop, stats, UserCode
  <1>7. ASSUME NEW ret \in Codes, StopHere(ret) PROVE GranularityInv'
    BY <1>7 DEF StopHere, GranularityWithinBest, spec, loop, stats, UserCode
  <1>8. ASSUME NEW ret \in Codes, NEW slow \in BOOLEAN, Done(ret, slow) PROVE GranularityInv'
    <2>1. Tested(slow) /\ ~yielded /\ UNCHANGED stats
      BY <1>8 DEF Done
    <2> QED  BY <2>1, TestedGranularity DEF GranularityInv
  <1>9. ASSUME NEW slow \in BOOLEAN, Requeue(slow) PROVE GranularityInv'
    <2>1. Tested(slow) /\ ~yielded /\ UNCHANGED stats
      BY <1>9 DEF Requeue
    <2> QED  BY <2>1, TestedGranularity DEF GranularityInv
  <1>10. CASE Stats
    <2>1. ~(yielded /\ cycles < granularity)
      BY DEF GranularityWithinBest
    <2>2. /\ best' = IF cycles > best THEN cycles ELSE best
          /\ granularity' = IF cycles >= granularity
                            THEN MinOf(Ramped(granularity), worst)
                            ELSE granularity
          /\ worst' = worst /\ cycles' = 0 /\ yielded' = FALSE
      BY <1>10, <2>1 DEF Stats
    <2>3. Ramped(granularity) \in Nat \ {0}
          /\ (Ramped(granularity) = granularity \/ Ramped(granularity) <= cycles)
      BY DEF Ramped, HYSTERESIS
    <2>4. granularity' \in Nat \ {0} /\ granularity' <= UINT_MAX
      BY <2>2, <2>3, QueueAssumption DEF MinOf
    <2>5. GranularityWithinBest'
      BY <2>2, <2>3, QueueAssumption DEF MinOf, GranularityWithinBest, MIN_GRANULARITY
    <2>6. best' \in Nat /\ cycles' \in Nat /\ worst' = UINT_MAX /\ yielded' = FALSE
      BY <2>2
    <2> QED  BY Zenon, <2>4, <2>5, <2>6 DEF GranularityInv
  <1>11. CASE CompletionReturns
    BY <1>11 DEF CompletionReturns, GranularityWithinBest, spec, loop, stats, UserCode
  <1>12. CASE work_queue_plug
    BY <1>12 DEF work_queue_plug, GranularityWithinBest, spec, loop, stats, UserCode
  <1>13. CASE work_queue_unplug
    BY <1>13 DEF work_queue_unplug, GranularityWithinBest, spec, loop, stats, UserCode
  <1>14. CASE work_queue_free
    <2>1. /\ granularity' = 1 /\ best' = 0 /\ worst' = UINT_MAX
          /\ cycles' = cycles /\ yielded' = yielded /\ ~yielded
      BY <1>14 DEF work_queue_free, loop, MIN_GRANULARITY
    <2> QED  BY <2>1, QueueAssumption DEF GranularityWithinBest, MIN_GRANULARITY
  <1>15. ASSUME NEW i \in Items, work_queue_add(i) PROVE GranularityInv'
    BY <1>15 DEF work_queue_add, GranularityWithinBest, spec, loop, stats, UserCode
  <1> QED
    BY Zenon, <1>1, <1>2, <1>3, <1>4, <1>5, <1>6, <1>7, <1>8,
       <1>9, <1>10, <1>11, <1>12, <1>13, <1>14, <1>15
    DEF Next, RunStep, User, WorkfuncReturns

\* The work queues of bgpd and zebra, for every set of items and every bound of
\* the retries: the loop stays on the list its callbacks change, work is never
\* left unscheduled, no item outlives its retries and the granularity stays
\* within the best run.
THEOREM QueueSafe ==
    Spec => [](/\ TypeOK /\ LoopOnList /\ ScheduledIfWork /\ RetriesBounded
               /\ GranularityWithinBest)
  <1>1. QueueInv /\ [Next]_vars => QueueInv'
    BY NextList, NextRetry, NextSchedule, NextGranularity DEF QueueInv, ScheduleInv
  <1>2. QueueInv => /\ TypeOK /\ LoopOnList /\ ScheduledIfWork /\ RetriesBounded
                    /\ GranularityWithinBest
    BY QueueAssumption DEF QueueInv, ListInv, RetryInv, ScheduleInv, GranularityInv, TypeOK
  <1> QED  BY InitQueueInv, <1>1, <1>2, PTL DEF Spec

\* The comment of work_queue_run says that the granularity "can be decreased
\* if we run to end of time slot"; whatever the runs, it never is.
THEOREM GranularityNeverFalls == Spec => GranularityGrows
  <1>1. QueueInv /\ [Next]_vars => QueueInv'
    BY NextList, NextRetry, NextSchedule, NextGranularity DEF QueueInv, ScheduleInv
  <1>2. QueueInv /\ [Next]_vars => [granularity' >= granularity \/ work_queue_free]_vars
    <2> SUFFICES ASSUME QueueInv, Next PROVE granularity' >= granularity \/ work_queue_free
      BY DEF vars
    <2> USE DEF QueueInv, GranularityInv
    <2>1. CASE Stats
      <3>1. ~(yielded /\ cycles < granularity)
        BY DEF GranularityWithinBest
      <3>2. granularity' = IF cycles >= granularity
                           THEN MinOf(Ramped(granularity), worst)
                           ELSE granularity
        BY <2>1, <3>1 DEF Stats
      <3>3. Ramped(granularity) \in Nat /\ Ramped(granularity) >= granularity
        BY DEF Ramped, HYSTERESIS
      <3> QED  BY <3>2, <3>3, QueueAssumption DEF MinOf
    <2>2. CASE Run
      BY <2>2 DEF Run
    <2>3. CASE EndOfList \/ PastRetries \/ CallWorkfunc \/ CompletionReturns
      BY <2>3 DEF EndOfList, PastRetries, CallWorkfunc, CompletionReturns, stats
    <2>4. CASE WorkfuncReturns
      BY <2>4 DEF WorkfuncReturns, RetryNow, StopHere, Done, Requeue, stats
    <2>5. CASE User
      BY <2>5 DEF User, work_queue_plug, work_queue_unplug, work_queue_add, stats
    <2> QED  BY Zenon, <2>1, <2>2, <2>3, <2>4, <2>5 DEF Next, RunStep
  <1> QED  BY InitQueueInv, <1>1, <1>2, PTL DEF Spec, GranularityGrows
=============================================================================
