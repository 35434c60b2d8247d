---------------------------- MODULE ThreadMaster ----------------------------
(***************************************************************************)
(* The event loop of the Quagga daemons (lib/thread.c) with the pointers   *)
(* its users keep.  The loop is cooperative: one thread runs to its end,   *)
(* and while it runs any part of the daemon may schedule and cancel.       *)
(*                                                                         *)
(* A slot is a struct thread * of a user (peer->t_read, wq->thread ...).   *)
(* Times are relative to now.                                              *)
(***************************************************************************)
EXTENDS Pqueue, FiniteSets, FiniteSetsExt

CONSTANTS
    NThreads,   \* bound: struct threads that are ever allocated
    Slots, Kind, Owner, Fd, Delays,
                \* of a slot: thread type, THREAD_ARG, descriptor, delays
    Vals,       \* values of events
    NFds,       \* descriptors 1..NFds
    MaxLate     \* bound: ticks a timer may be overdue

Threads == 1..NThreads
Owners == {Owner[s] : s \in Slots}
NULL == 0
MAIN == NThreads + 1     \* start-up, before thread_main

ASSUME SlotAssumption ==
    /\ NThreads \in Nat /\ NFds \in Nat /\ MaxLate \in Nat
    /\ Kind \in [Slots -> {"READ", "WRITE", "TIMER", "BACKGROUND"}]
    /\ Fd \in [Slots -> 0..NFds]
    /\ \A s \in Slots : Delays[s] \subseteq Nat
    \* no two slots register the same descriptor in the same direction
    /\ \A s, t \in Slots :
          s # t /\ Kind[s] = Kind[t] /\ Kind[s] \in {"READ", "WRITE"}
              => Fd[s] # Fd[t]

VARIABLES
    m,          \* struct thread_master and the threads in it
    ptr,        \* the users' pointers
    running,    \* the thread that runs, NULL inside thread_fetch
    phase       \* where thread_main is: at the top of thread_fetch, in one of
                \* its parts after select(), or in a call

vars == <<m, ptr, running, phase>>

NoTask == [arg |-> "none", func |-> "none", val |-> 0]
SlotTask(s) == [arg |-> Owner[s], func |-> s, val |-> 0]
EventTask(o, v) == [arg |-> o, func |-> "event", val |-> v]

Init ==
    /\ m = [type |-> [t \in Threads |-> "NONE"],
            task |-> [t \in Threads |-> NoTask],
            sands |-> [t \in Threads |-> 0],
            index |-> [t \in Threads |-> 0],
            event |-> <<>>, ready |-> <<>>, unuse |-> <<>>,
            timer |-> <<>>, background |-> <<>>,
            read |-> [f \in 1..NFds |-> NULL], write |-> [f \in 1..NFds |-> NULL],
            readfd |-> {}, writefd |-> {}]
    /\ ptr = [s \in Slots |-> NULL]
    /\ running = MAIN /\ phase = "call"

-----------------------------------------------------------------------------
(* The functions of thread.c, on a thread_master mm.                       *)

\* A node that is alone, as a thread that runs is, has no neighbours: taking
\* it off a list it is not on empties the list.
thread_list_delete(list, t) ==
    IF t \in Range(list) THEN Remove(list, t) ELSE <<>>

\* The fields a thread had are not read any more.
thread_add_unuse(mm, t) ==
    [mm EXCEPT !.type[t] = "UNUSED", !.task[t] = NoTask, !.sands[t] = 0,
               !.index[t] = 0, !.unuse = Append(@, t)]

CanAlloc(mm) == mm.unuse # <<>> \/ \E t \in Threads : mm.type[t] = "NONE"

\* The thread that thread_get takes: the oldest unused one or a new one.
NextThread(mm) ==
    IF mm.unuse # <<>> THEN Head(mm.unuse)
    ELSE Min({t \in Threads : mm.type[t] = "NONE"})

thread_get(mm, type, task) ==
    LET t == NextThread(mm)
    IN  [mm EXCEPT !.type[t] = type, !.task[t] = task,
                   !.unuse = IF @ = <<>> THEN @ ELSE Tail(@)]

\* The queue of timers or of background threads, and its change.
QueueOf(mm, type) ==
    [array |-> IF type = "TIMER" THEN mm.timer ELSE mm.background,
     index |-> mm.index]

WithQueue(mm, type, q) ==
    IF type = "TIMER" THEN [mm EXCEPT !.timer = q.array, !.index = q.index]
    ELSE [mm EXCEPT !.background = q.array, !.index = q.index]

thread_add_timer(mm, type, task, delay) ==
    LET t == NextThread(mm)
        got == [thread_get(mm, type, task) EXCEPT !.sands[t] = delay]
    IN  WithQueue(got, type, pqueue_enqueue(t, QueueOf(got, type), got.sands))

\* FD_ISSET: the caller gets no thread, and NULL as its pointer.
FdTaken(mm, type, fd) ==
    fd \in IF type = "READ" THEN mm.readfd ELSE mm.writefd

thread_add_read_write(mm, type, task, fd) ==
    LET t == NextThread(mm)
        got == thread_get(mm, type, task)
    IN  IF FdTaken(mm, type, fd) THEN mm
        ELSE IF type = "READ"
        THEN [got EXCEPT !.readfd = @ \cup {fd}, !.read[fd] = t]
        ELSE [got EXCEPT !.writefd = @ \cup {fd}, !.write[fd] = t]

thread_add_event(mm, task) ==
    LET t == NextThread(mm)
    IN  [thread_get(mm, "EVENT", task) EXCEPT !.event = Append(@, t)]

\* Variant of thread_cancel that forgets the descriptor set.
CancelKeepingFd(mm, t) ==
    LET type == mm.type[t]
        fd == Fd[mm.task[t].func]
        off == CASE type = "READ" -> [mm EXCEPT !.read[fd] = NULL]
                 [] type = "WRITE" -> [mm EXCEPT !.write[fd] = NULL]
                 [] type \in {"TIMER", "BACKGROUND"} ->
                      WithQueue(mm, type, pqueue_remove_at(mm.index[t],
                                            QueueOf(mm, type), mm.sands))
                 [] type = "EVENT" -> [mm EXCEPT !.event = thread_list_delete(@, t)]
                 [] type = "READY" -> [mm EXCEPT !.ready = thread_list_delete(@, t)]
                 [] OTHER -> mm
    IN  IF off = mm THEN mm ELSE thread_add_unuse(off, t)

thread_cancel(mm, t) ==
    LET type == mm.type[t]
        fd == Fd[mm.task[t].func]
        off == CASE type = "READ" -> [mm EXCEPT !.readfd = @ \ {fd}, !.read[fd] = NULL]
                 [] type = "WRITE" -> [mm EXCEPT !.writefd = @ \ {fd}, !.write[fd] = NULL]
                 [] type \in {"TIMER", "BACKGROUND"} ->
                      WithQueue(mm, type, pqueue_remove_at(mm.index[t],
                                            QueueOf(mm, type), mm.sands))
                 [] type = "EVENT" -> [mm EXCEPT !.event = thread_list_delete(@, t)]
                 [] type = "READY" -> [mm EXCEPT !.ready = thread_list_delete(@, t)]
    IN  IF type = "UNUSED" THEN mm ELSE thread_add_unuse(off, t)

\* Variant of thread_cancel_event that overlooks the ready list.
CancelEventOnly(mm, arg) ==
    LET gone == SelectSeq(mm.event, LAMBDA t : mm.task[t].arg = arg)
        kept == [mm EXCEPT !.event = SelectSeq(@, LAMBDA t : mm.task[t].arg # arg)]
    IN  FoldLeft(thread_add_unuse, kept, gone)

\* Both lists, whatever the type of the threads on the ready list.
thread_cancel_event(mm, arg) ==
    LET Of(t) == mm.task[t].arg = arg
        Other(t) == ~Of(t)
        gone == SelectSeq(mm.event, Of) \o SelectSeq(mm.ready, Of)
        kept == [mm EXCEPT !.event = SelectSeq(@, Other),
                           !.ready = SelectSeq(@, Other)]
    IN  FoldLeft(thread_add_unuse, kept, gone)

\* The threads in list join the ready list.
MakeReady(mm, list) ==
    [mm EXCEPT !.ready = @ \o list,
               !.type = [t \in Threads |-> IF t \in Range(list) THEN "READY" ELSE @[t]],
               !.sands = [t \in Threads |-> IF t \in Range(list) THEN 0 ELSE @[t]]]

thread_process(mm) == [MakeReady(mm, mm.event) EXCEPT !.event = <<>>]

\* One turn of the loop of thread_timer_process: the top of the heap, if due.
IsDue(mm, type) ==
    LET q == QueueOf(mm, type).array IN q # <<>> /\ mm.sands[Head(q)] <= 0

PopTimer(mm, type) ==
    LET q == QueueOf(mm, type)
    IN  MakeReady(WithQueue(mm, type, pqueue_dequeue(q, mm.sands)),
                  <<Head(q.array)>>)

\* readable, writable: the descriptors select() returned.
thread_process_fds(mm, readable, writable) ==
    LET At(fd) == (IF fd \in readable THEN <<mm.read[fd]>> ELSE <<>>)
                  \o (IF fd \in writable THEN <<mm.write[fd]>> ELSE <<>>)
        list == FlattenSeq([fd \in 1..NFds |-> At(fd)])
    IN  [MakeReady(mm, list) EXCEPT
            !.readfd = @ \ readable, !.writefd = @ \ writable,
            !.read = [fd \in 1..NFds |-> IF fd \in readable THEN NULL ELSE @[fd]],
            !.write = [fd \in 1..NFds |-> IF fd \in writable THEN NULL ELSE @[fd]]]

-----------------------------------------------------------------------------
(* What a running thread may do.  THREAD_..._ON and THREAD_OFF test and set *)
(* the user's pointer.                                                     *)

THREAD_ON(s, delay) ==
    LET t == NextThread(m)
        added == IF Kind[s] \in {"READ", "WRITE"}
                 THEN thread_add_read_write(m, Kind[s], SlotTask(s), Fd[s])
                 ELSE thread_add_timer(m, Kind[s], SlotTask(s), delay)
    IN  /\ phase = "call" /\ ptr[s] = NULL /\ CanAlloc(m)
        /\ m' = added
        /\ ptr' = [ptr EXCEPT ![s] = IF added = m THEN NULL ELSE t]
        /\ UNCHANGED <<running, phase>>

THREAD_OFF(s) ==
    /\ phase = "call" /\ ptr[s] # NULL
    /\ m' = thread_cancel(m, ptr[s])
    /\ ptr' = [ptr EXCEPT ![s] = NULL]
    /\ UNCHANGED <<running, phase>>

AddEvent(o, v) ==
    /\ phase = "call" /\ CanAlloc(m)
    /\ m' = thread_add_event(m, EventTask(o, v))
    /\ UNCHANGED <<ptr, running, phase>>

\* bgp_stop: the events are flushed, then every pointer is turned off.  The
\* flush may already have cancelled the threads some of them point to.
Stop(o) ==
    LET mine == SetToSeq({s \in Slots : Owner[s] = o /\ ptr[s] # NULL})
        Off(mm, s) == thread_cancel(mm, ptr[s])
    IN  /\ phase = "call"
        /\ m' = FoldLeft(Off, thread_cancel_event(m, o), mine)
        /\ ptr' = [s \in Slots |-> IF Owner[s] = o THEN NULL ELSE ptr[s]]
        /\ UNCHANGED <<running, phase>>

-----------------------------------------------------------------------------
(* thread_main: fetch a thread, call it, put it away.                      *)

\* Variant of TakeReady whose handler keeps its pointer.
TakeReadyKeepingPointer ==
    /\ phase = "top" /\ m.ready # <<>>
    /\ running' = Head(m.ready) /\ phase' = "call"
    /\ m' = [m EXCEPT !.ready = Tail(@)]
    /\ UNCHANGED ptr

\* The ready list is drained first.  Every handler begins by forgetting the
\* pointer to the thread that runs it.
TakeReady ==
    /\ phase = "top" /\ m.ready # <<>>
    /\ LET t == Head(m.ready)
           func == m.task[t].func
       IN  /\ running' = t /\ phase' = "call"
           /\ m' = [m EXCEPT !.ready = Tail(@)]
           /\ ptr' = IF func \in Slots THEN [ptr EXCEPT ![func] = NULL] ELSE ptr

\* Variant of Select that returns to the top once events are ready.
SelectUnlessEvents ==
    /\ phase = "top" /\ m.ready = <<>>
    /\ m' = thread_process(m)
    /\ phase' = IF m.event # <<>> THEN "top" ELSE "timer"
    /\ UNCHANGED <<ptr, running>>

\* Events become ready, and select() returns.
Select ==
    /\ phase = "top" /\ m.ready = <<>>
    /\ m' = thread_process(m)
    /\ phase' = "timer"
    /\ UNCHANGED <<ptr, running>>

\* A signal interrupts select(): the loop starts again from the top.
SelectInterrupted ==
    /\ phase = "top" /\ m.ready = <<>>
    /\ m' = thread_process(m)
    /\ UNCHANGED <<ptr, running, phase>>

\* All timers that are due, then the phase next.
thread_timer_process(type, now, next) ==
    /\ phase = now
    /\ IF IsDue(m, type) THEN m' = PopTimer(m, type) /\ UNCHANGED phase
       ELSE phase' = next /\ UNCHANGED m
    /\ UNCHANGED <<ptr, running>>

ProcessFds(readable, writable) ==
    /\ phase = "fds"
    /\ m' = thread_process_fds(m, readable, writable)
    /\ phase' = "background"
    /\ UNCHANGED <<ptr, running>>

\* thread_call, after the handler has returned.
Return ==
    /\ phase = "call"
    /\ m' = IF running = MAIN THEN m ELSE thread_add_unuse(m, running)
    /\ running' = NULL /\ phase' = "top"
    /\ UNCHANGED ptr

Queued == Range(m.timer) \cup Range(m.background)

\* While the loop gathers, the time it compares with stays the same.
Tick ==
    /\ phase \in {"top", "call"}
    /\ \A t \in Queued : m.sands[t] > -MaxLate
    /\ m' = [m EXCEPT !.sands = [t \in Threads |-> IF t \in Queued THEN @[t] - 1 ELSE 0]]
    /\ UNCHANGED <<ptr, running, phase>>

Handler ==
    \/ \E s \in Slots : THREAD_OFF(s) \/ \E d \in Delays[s] : THREAD_ON(s, d)
    \/ \E o \in Owners : Stop(o) \/ \E v \in Vals : AddEvent(o, v)

\* Foreground timers, descriptors and background threads, in this order.
GatherStep ==
    \/ thread_timer_process("TIMER", "timer", "fds")
    \/ \E readable \in SUBSET m.readfd, writable \in SUBSET m.writefd :
          ProcessFds(readable, writable)
    \/ thread_timer_process("BACKGROUND", "background", "top")

Next ==
    \/ Handler \/ Return
    \/ TakeReady \/ Select \/ SelectInterrupted \/ GatherStep
    \/ Tick

\* Handlers return, the loop goes on, time passes, and signals do not
\* interrupt every select().  Nothing is assumed of the descriptors.
Fairness ==
    /\ WF_vars(Return)
    /\ WF_vars(TakeReady)
    /\ SF_vars(Select)
    /\ WF_vars(GatherStep)
    /\ SF_vars(Tick)

Spec == Init /\ [][Next]_vars /\ Fairness

-----------------------------------------------------------------------------
\* The structure of struct thread_master.
TypeOK ==
    /\ m.type \in [Threads -> {"NONE", "READ", "WRITE", "TIMER", "BACKGROUND",
                               "EVENT", "READY", "UNUSED"}]
    /\ m.sands \in [Threads -> -MaxLate..Max(UNION {Delays[s] : s \in Slots})]
    /\ \A list \in {m.event, m.ready, m.unuse, m.timer, m.background} :
          list \in Seq(Threads)
    /\ m.read \in [1..NFds -> Threads \cup {NULL}]
    /\ m.write \in [1..NFds -> Threads \cup {NULL}]
    /\ m.readfd \cup m.writefd \subseteq 1..NFds
    /\ ptr \in [Slots -> Threads \cup {NULL}]
    /\ running \in Threads \cup {NULL, MAIN}
    /\ phase \in {"top", "timer", "fds", "background", "call"}

\* A thread is where its type says, and only there and once: on one list, in
\* one heap at the index it was told, at its descriptor with the bit set for
\* select(), or running.  This is what thread_cancel's assertions rely on.
InOnePlace ==
    LET Where == [EVENT |-> m.event, UNUSED |-> m.unuse, TIMER |-> m.timer,
                  BACKGROUND |-> m.background,
                  READY |-> m.ready \o IF running \in Threads THEN <<running>>
                                       ELSE <<>>]
        At(type) == {t \in Threads : m.type[t] = type}
        Bound(fds) == {fds[f] : f \in 1..NFds} \ {NULL}
    IN  /\ \A type \in DOMAIN Where : /\ Range(Where[type]) = At(type)
                                      /\ IsInjective(Where[type])
        /\ IndexExact([array |-> m.timer, index |-> m.index])
        /\ IndexExact([array |-> m.background, index |-> m.index])
        /\ Bound(m.read) = At("READ") /\ Bound(m.write) = At("WRITE")
        /\ m.readfd = {f \in 1..NFds : m.read[f] # NULL}
        /\ m.writefd = {f \in 1..NFds : m.write[f] # NULL}

\* A pointer that a user keeps is NULL or leads to a scheduled thread of that
\* very user, never to a thread that was given away in the meantime; and each
\* such thread is known to its user.
PointersAreOwn ==
    /\ \A s \in Slots : ptr[s] # NULL =>
          /\ m.task[ptr[s]] = SlotTask(s)
          /\ m.type[ptr[s]] \in {Kind[s], "READY"}
          /\ ptr[s] # running
    /\ \A t \in Threads \ {running} :
          m.task[t].func \in Slots => ptr[m.task[t].func] = t

\* The loop seen from its users.
ArmedOf(s) ==
    CASE ptr[s] = NULL -> -1
      [] ptr[s] # NULL /\ m.type[ptr[s]] = Kind[s] -> Max({m.sands[ptr[s]], 0})
      [] OTHER -> 0

PostedOf(o) ==
    LET pending == m.ready \o m.event
        Mine(t) == m.task[t].arg = o /\ m.task[t].func = "event"
        mine == SelectSeq(pending, Mine)
    IN  [i \in 1..Len(mine) |-> m.task[mine[i]].val]

Users == INSTANCE TaskSchedule WITH armed <- [s \in Slots |-> ArmedOf(s)],
                                    posted <- [o \in Owners |-> PostedOf(o)]

\* Nothing runs early, twice or once cancelled, and the events of one owner
\* run in the order they were added, whatever the handlers do.
ImplementsSchedule == Users!Spec

\* "To be fair to all kinds of threads, and avoid starvation": however busy
\* the other kinds are, a timer or background thread is run or cancelled, and
\* while events of an owner wait, one of them (the oldest, by the above) is.
NoStarvation ==
    /\ \A s \in Slots : Kind[s] \in {"TIMER", "BACKGROUND"} =>
          (ptr[s] # NULL ~> ptr[s] = NULL)
    /\ \A o \in Owners :
          PostedOf(o) # <<>> ~>
              \/ PostedOf(o) = <<>>
              \/ \E v \in Vals : running \in Threads /\ m.task[running] = EventTask(o, v)
=============================================================================
