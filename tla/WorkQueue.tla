----------------------------- MODULE WorkQueue ------------------------------
(***************************************************************************)
(* The work queues of Quagga (lib/workqueue.c): bgpd processes and clears  *)
(* routes from them, zebra its RIB.  One background thread per queue calls *)
(* the user's workfunc for the items in turn; the workfunc and every other *)
(* thread may add items and plug or unplug the queue.                      *)
(***************************************************************************)
EXTENDS Integers, Sequences, SequencesExt

CONSTANTS
    Items,         \* bound: the work_queue_items alive at once
    max_retries,   \* spec.max_retries
    UINT_MAX,      \* initial cycles.worst
    MaxCycles      \* bound: items that one run meets

ASSUME QueueAssumption ==
    /\ max_retries \in Nat
    /\ UINT_MAX \in Nat \ {0}
    /\ MaxCycles \in Nat

NULL == "null"
ASSUME NullAssumption == NULL \notin Items

VARIABLES
    items,         \* the list of the queue
    ran,           \* item->ran
    unplugged,     \* WQ_UNPLUGGED
    thread,        \* wq->thread # NULL: work_queue_is_scheduled
    pc,            \* work_queue_run: not running, at the top of its loop, in
                   \* the workfunc, in its last part, in the completion_func
    node, nnode,   \* the loop's item and the one after it
    cycles, yielded,
    granularity, best, worst

spec  == <<items, ran, unplugged, thread>>
loop  == <<node, nnode, cycles, yielded>>
stats == <<granularity, best, worst>>
vars  == <<spec, pc, loop, stats>>

MIN_GRANULARITY == 1
HYSTERESIS == 4

Codes == {"SUCCESS", "ERROR", "RETRY_NOW", "RETRY_LATER", "REQUEUE",
          "QUEUE_BLOCKED"}

\* work_queue_new
Init ==
    /\ items = <<>> /\ ran = [i \in Items |-> 0]
    /\ unplugged = TRUE /\ thread = FALSE
    /\ pc = "idle" /\ node = NULL /\ nnode = NULL
    /\ cycles = 0 /\ yielded = FALSE
    /\ granularity = MIN_GRANULARITY /\ best = 0 /\ worst = UINT_MAX

-----------------------------------------------------------------------------
\* work_queue_schedule, with the list that items will be.
Schedule(list) == thread' = (thread \/ (unplugged /\ list # <<>>))

\* User code runs in other threads and inside the callbacks.
UserCode == pc \in {"idle", "work", "completion"}

\* Items the run has met or will meet.
Met == cycles + Len(items)

work_queue_add(i) ==
    /\ UserCode /\ i \notin Range(items)
    /\ pc = "work" => Met < MaxCycles
    /\ items' = Append(items, i)
    /\ ran' = [ran EXCEPT ![i] = 0]
    /\ Schedule(items')
    /\ UNCHANGED <<unplugged, pc, loop, stats>>

work_queue_plug ==
    /\ UserCode
    /\ thread' = FALSE
    /\ unplugged' = FALSE
    /\ UNCHANGED <<items, ran, pc, loop, stats>>

\* Variant of work_queue_unplug that leaves scheduling to the next item.
UnplugOnly ==
    /\ UserCode
    /\ unplugged' = TRUE
    /\ UNCHANGED <<items, ran, thread, pc, loop, stats>>

work_queue_unplug ==
    /\ UserCode
    /\ unplugged' = TRUE
    /\ thread' = (thread \/ items # <<>>)
    /\ UNCHANGED <<items, ran, pc, loop, stats>>

\* work_queue_free, and a work_queue_new for the next use.
work_queue_free ==
    /\ pc = "idle"
    /\ items' = <<>> /\ thread' = FALSE /\ unplugged' = TRUE
    /\ granularity' = MIN_GRANULARITY /\ best' = 0 /\ worst' = UINT_MAX
    /\ UNCHANGED <<ran, pc, loop>>

-----------------------------------------------------------------------------
(* work_queue_run                                                          *)

\* The list node of i, the item after it, the list without it, and the item
\* the loop starts with.
Position(list, i) == CHOOSE k \in 1..Len(list) : list[k] = i

After(list, i) ==
    IF Position(list, i) < Len(list) THEN list[Position(list, i) + 1] ELSE NULL

Without(list, i) == RemoveAt(list, Position(list, i))

First(list) == IF list = <<>> THEN NULL ELSE Head(list)

Run ==
    /\ pc = "idle" /\ thread
    /\ thread' = FALSE
    /\ pc' = "loop"
    /\ node' = First(items) /\ nnode' = NULL
    /\ cycles' = 0 /\ yielded' = FALSE
    /\ granularity' = IF granularity = 0 THEN MIN_GRANULARITY ELSE granularity
    /\ UNCHANGED <<items, ran, unplugged, best, worst>>

EndOfList ==
    /\ pc = "loop" /\ node = NULL
    /\ pc' = "stats"
    /\ UNCHANGED <<spec, loop, stats>>

\* An item past its retries goes to errorfunc and is removed.
PastRetries ==
    /\ pc = "loop" /\ node # NULL /\ ran[node] > max_retries
    /\ items' = Without(items, node)
    /\ node' = After(items, node)
    /\ UNCHANGED <<ran, unplugged, thread, pc, nnode, cycles, yielded, stats>>

CallWorkfunc ==
    /\ pc = "loop" /\ node # NULL /\ ran[node] <= max_retries
    /\ nnode' = After(items, node)
    /\ pc' = "work"
    /\ UNCHANGED <<spec, node, cycles, yielded, stats>>

\* The workfunc wants to be called again at once and still may be.
RetryNow ==
    /\ pc = "work" /\ ran[node] + 1 < max_retries
    /\ ran' = [ran EXCEPT ![node] = @ + 1]
    /\ UNCHANGED <<items, unplugged, thread, pc, loop, stats>>

\* The queue is left to the next run; a blocked queue costs the item nothing.
StopHere(ret) ==
    /\ pc = "work" /\ ret \in {"RETRY_LATER", "QUEUE_BLOCKED"}
    /\ ran' = IF ret = "QUEUE_BLOCKED" THEN ran ELSE [ran EXCEPT ![node] = @ + 1]
    /\ pc' = "stats"
    /\ UNCHANGED <<items, unplugged, thread, loop, stats>>

\* Variant of Tested that asks at every cycle.
TestedAlways(slow) ==
    /\ cycles' = cycles + 1
    /\ yielded' = slow
    /\ pc' = IF yielded' THEN "stats" ELSE "loop"

\* A cycle is complete; slow is what thread_should_yield answers if asked.
Tested(slow) ==
    /\ cycles' = cycles + 1
    /\ yielded' = (cycles' % granularity = 0 /\ slow)
    /\ pc' = IF yielded' THEN "stats" ELSE "loop"

\* Variant of Requeue that leaves the node in its place.
RequeueInPlace(slow) ==
    /\ pc = "work" /\ Met < MaxCycles
    /\ node' = nnode
    /\ Tested(slow)
    /\ UNCHANGED <<items, ran, unplugged, thread, nnode, stats>>

Requeue(slow) ==
    /\ pc = "work" /\ Met < MaxCycles
    /\ items' = Append(Without(items, node), node)
    /\ node' = nnode
    /\ Tested(slow)
    /\ UNCHANGED <<ran, unplugged, thread, nnode, stats>>

\* Variant of Done in a loop that reads its next node from the freed one.
DoneUnsafe(ret, slow) ==
    /\ pc = "work"
    /\ \/ ret \in {"SUCCESS", "ERROR"}
       \/ ret = "RETRY_NOW" /\ ran[node] + 1 >= max_retries
    /\ items' = Without(items, node)
    /\ ran' = [ran EXCEPT ![node] = @ + 1]
    /\ Tested(slow)
    /\ UNCHANGED <<unplugged, thread, node, nnode, stats>>

\* SUCCESS, ERROR, or a RETRY_NOW that has used up its retries.
Done(ret, slow) ==
    /\ pc = "work"
    /\ \/ ret \in {"SUCCESS", "ERROR"}
       \/ ret = "RETRY_NOW" /\ ran[node] + 1 >= max_retries
    /\ items' = Without(items, node)
    /\ ran' = [ran EXCEPT ![node] = @ + 1]
    /\ node' = nnode
    /\ Tested(slow)
    /\ UNCHANGED <<unplugged, thread, nnode, stats>>

\* The granularity after a run that was not cut short below it.
Ramped(g) ==
    CASE cycles > g * HYSTERESIS * HYSTERESIS -> g * HYSTERESIS
      [] cycles > g * HYSTERESIS /\ cycles <= g * HYSTERESIS * HYSTERESIS ->
             g + HYSTERESIS
      [] OTHER -> g

MinOf(a, b) == IF a < b THEN a ELSE b

\* Variant of Reschedule: a run that yielded calls no completion_func.
RescheduleIfYielded ==
    IF items # <<>> \/ yielded THEN Schedule(items) /\ pc' = "idle"
    ELSE thread' = thread /\ pc' = "completion"

\* Is the queue done yet?
Reschedule ==
    IF items # <<>> THEN Schedule(items) /\ pc' = "idle"
    ELSE thread' = thread /\ pc' = "completion"

Stats ==
    /\ pc = "stats"
    /\ best' = IF cycles > best THEN cycles ELSE best
    /\ IF yielded /\ cycles < granularity
       THEN /\ granularity' = IF cycles > 0 THEN cycles ELSE MIN_GRANULARITY
            /\ worst' = MinOf(cycles, worst)
       ELSE /\ granularity' = IF cycles >= granularity
                              THEN MinOf(Ramped(granularity), worst)
                              ELSE granularity
            /\ worst' = worst
    /\ Reschedule
    /\ node' = NULL /\ nnode' = NULL /\ cycles' = 0 /\ yielded' = FALSE
    /\ UNCHANGED <<items, ran, unplugged>>

CompletionReturns ==
    /\ pc = "completion"
    /\ pc' = "idle"
    /\ UNCHANGED <<spec, loop, stats>>

-----------------------------------------------------------------------------
WorkfuncReturns ==
    \/ RetryNow
    \/ \E ret \in Codes, slow \in BOOLEAN : StopHere(ret) \/ Done(ret, slow)
    \/ \E slow \in BOOLEAN : Requeue(slow)

RunStep ==
    \/ Run \/ EndOfList \/ PastRetries \/ CallWorkfunc
    \/ WorkfuncReturns
    \/ Stats \/ CompletionReturns

User ==
    \/ work_queue_plug \/ work_queue_unplug \/ work_queue_free
    \/ \E i \in Items : work_queue_add(i)

Next == RunStep \/ User

\* The background thread is run (TaskSchedule) and callbacks return.
Spec == Init /\ [][Next]_vars /\ WF_vars(RunStep)

-----------------------------------------------------------------------------
\* The types of the members, and the loop's nodes are items of the list.
TypeOK ==
    /\ items \in Seq(Items) /\ IsInjective(items)
    /\ ran \in [Items -> Nat]
    /\ {unplugged, thread, yielded} \subseteq BOOLEAN
    /\ pc \in {"idle", "loop", "work", "stats", "completion"}
    /\ {node, nnode} \subseteq Items \cup {NULL}
    /\ {cycles, best, worst} \subseteq Nat
    /\ granularity \in Nat \ {0}

\* The loop follows the list although the callbacks change it: its item is
\* on the list while the workfunc has it, and so is the next one.
LoopOnList ==
    /\ pc \in {"loop", "work"} => node \in Range(items) \cup {NULL}
    /\ pc = "work" => node # NULL /\ nnode \in Range(items) \cup {NULL}

\* Work that may be done is scheduled: when no run is under way, an unplugged
\* queue with items has its thread, and a plugged one has none.
ScheduledIfWork ==
    /\ pc = "idle" /\ unplugged /\ items # <<>> => thread
    /\ thread => unplugged

\* An item is run at most once more than max_retries, however often the
\* queue was blocked or the item requeued.
RetriesBounded == \A i \in Items : ran[i] <= max_retries + 1

\* "granularity should be > 0, and can increase slowly after each run to
\* provide some hysteris, but not past cycles.best".
GranularityWithinBest == granularity > MIN_GRANULARITY => granularity <= best

\* A run that uses up its time slot never lowers the granularity: the yield is
\* only tested at multiples of it, so a run that yielded had that many cycles.
GranularityGrows == [][granularity' >= granularity \/ work_queue_free]_vars

\* A workfunc that does not stop the queue, and does not put item i back.
Cooperative(i) ==
    ~ \/ StopHere("QUEUE_BLOCKED")
      \/ node = i /\ \E slow \in BOOLEAN : Requeue(slow)

\* Every item is disposed of, although others are added, requeued and
\* retried, unless the user keeps the queue plugged or blocked.
Drains ==
    \A i \in Items :
        <>[]unplugged /\ <>[][Cooperative(i)]_vars
            => (i \in Range(items) ~> i \notin Range(items))

\* As work_queue_new leaves it, after a work_queue_free.
New == items = <<>> /\ best = 0

\* "completion callback, called when queue is emptied": bgp_clear_node_complete
\* is what lets a session leave Clearing, unless its queue is freed first.
Completes ==
    /\ <>[]unplugged
    /\ <>[][\A i \in Items : Cooperative(i) /\ ~work_queue_add(i)]_vars
    => (items # <<>> ~> pc = "completion" \/ New)
=============================================================================
