----------------------------- MODULE Scheduler -----------------------------
(***************************************************************************)
(* CScheduler (scheduler.cpp): threads in serviceQueue wait for the first  *)
(* task of taskQueue to be due and run it; callers schedule tasks and      *)
(* stop or interrupt the threads.  The node runs one such thread, the      *)
(* tests run many.                                                         *)
(*                                                                         *)
(* A section under newTaskMutex is one step.  schedule() and stop() notify *)
(* after they have unlocked it, which is a step of its own.  Times are     *)
(* relative: `due' is how long until a task's time, 0 once it has come, so *)
(* the clock needs no bound; scheduleFromNow is how every caller under     *)
(* src/ schedules.  A task that throws ends the process (TraceThread       *)
(* rethrows) and is left out.                                              *)
(***************************************************************************)
EXTENDS Integers, Sequences, FiniteSets

CONSTANTS Servers,      \* threads that run serviceQueue
          Tasks,        \* functions callers schedule, each once
          Repeating,    \* the ones scheduled with scheduleEvery
          deltaSeconds, \* the delay each is scheduled with
          NoTask

ASSUME SchedulerAssumption ==
    /\ IsFiniteSet(Servers)
    /\ Repeating \subseteq Tasks /\ NoTask \notin Tasks
    /\ deltaSeconds \in [Tasks -> Nat]

VARIABLES
    taskQueue,              \* the multimap, in its order
    nThreadsServicingQueue,
    stopRequested, stopWhenEmpty,
    serverAt,               \* where each thread is
    deadline,               \* how long until its timeToWaitFor
    sleepers,               \* threads in a wait on newTaskScheduled
    serving,                \* the task a thread is running
    notifies, notifyAll,    \* notifications callers have still to send
    interrupted,            \* the thread group was interrupted
    called,                 \* tasks callers have scheduled
    finished,               \* tasks that ran and will not run again
    early                   \* some task was taken before its time

schedVars == <<taskQueue, nThreadsServicingQueue, stopRequested, stopWhenEmpty, serverAt,
               deadline, sleepers, serving, notifies, notifyAll, interrupted, called,
               finished, early>>

SchedulerInit ==
    /\ taskQueue = <<>> /\ nThreadsServicingQueue = 0
    /\ stopRequested = FALSE /\ stopWhenEmpty = FALSE
    /\ serverAt = [s \in Servers |-> "start"] /\ deadline = [s \in Servers |-> 0]
    /\ sleepers = {} /\ serving = [s \in Servers |-> NoTask]
    /\ notifies = 0 /\ notifyAll = FALSE /\ interrupted = FALSE
    /\ called = {} /\ finished = {} /\ early = FALSE

\* multimap::insert puts a task behind those of the same time.
Inserted(q, f) ==
    LET d == deltaSeconds[f]
        k == Cardinality({i \in DOMAIN q : q[i].due <= d})
    IN  SubSeq(q, 1, k) \o <<[task |-> f, due |-> d]>> \o SubSeq(q, k + 1, Len(q))

shouldStop == stopRequested \/ (stopWhenEmpty /\ taskQueue = <<>>)

\* notify_one: any one of the sleeping threads, if there is one.
OneNotified(S) == IF S = {} THEN {S} ELSE {S \ {s} : s \in S}

-----------------------------------------------------------------------------
(* serviceQueue.                                                            *)

\* The loop is left: the thread is no longer counted and notifies another.
Leave(s, n) ==
    /\ shouldStop
    /\ serverAt' = [serverAt EXCEPT ![s] = "done"]
    /\ nThreadsServicingQueue' = n - 1
    /\ sleepers' \in OneNotified(sleepers)
    /\ UNCHANGED deadline

\* wait(lock) while there is no task, wait_until the first one's time otherwise.
SleepIdle(s, n) ==
    /\ ~shouldStop /\ ~interrupted /\ taskQueue = <<>>
    /\ serverAt' = [serverAt EXCEPT ![s] = "idle"]
    /\ nThreadsServicingQueue' = n
    /\ sleepers' = sleepers \cup {s}
    /\ UNCHANGED deadline

SleepTimed(s, n) ==
    /\ ~shouldStop /\ ~interrupted /\ taskQueue # <<>>
    /\ serverAt' = [serverAt EXCEPT ![s] = "timed"]
    /\ deadline' = [deadline EXCEPT ![s] = Head(taskQueue).due]
    /\ nThreadsServicingQueue' = n
    /\ sleepers' = sleepers \cup {s}

\* Either wait throws at once in a thread that was interrupted.
ThrownAtWait(s, n) ==
    /\ ~shouldStop /\ interrupted
    /\ serverAt' = [serverAt EXCEPT ![s] = "dead"]
    /\ nThreadsServicingQueue' = n - 1
    /\ UNCHANGED <<sleepers, deadline>>

ServiceLoop(s, n) ==
    /\ Leave(s, n) \/ SleepIdle(s, n) \/ SleepTimed(s, n) \/ ThrownAtWait(s, n)
    /\ UNCHANGED <<taskQueue, stopRequested, stopWhenEmpty, serving, notifies, notifyAll,
                   interrupted, called, finished, early>>

ServerStart(s) == serverAt[s] = "start" /\ ServiceLoop(s, nThreadsServicingQueue + 1)

\* Notified before the deadline: both loops start over.
WokenServer(s) ==
    /\ s \notin sleepers /\ ~interrupted
    /\ serverAt[s] = "idle" \/ (serverAt[s] = "timed" /\ deadline[s] > 0)
    /\ ServiceLoop(s, nThreadsServicingQueue)

\* Mutant: the task is copied, and erased only after it ran.
TakeKeeping(s) ==
    /\ serving' = [serving EXCEPT ![s] = Head(taskQueue).task]
    /\ early' = (early \/ Head(taskQueue).due > 0)
    /\ UNCHANGED taskQueue

\* The first task of the queue, whatever the one waited for has become.
TakeFirst(s) ==
    /\ serving' = [serving EXCEPT ![s] = Head(taskQueue).task]
    /\ early' = (early \/ Head(taskQueue).due > 0)
    /\ taskQueue' = Tail(taskQueue)

\* wait_until reports a timeout once the time has come, notified or not.
TimedOut(s) ==
    /\ serverAt[s] = "timed" /\ deadline[s] = 0 /\ ~interrupted
    /\ ~shouldStop /\ taskQueue # <<>>
    /\ TakeFirst(s)
    /\ serverAt' = [serverAt EXCEPT ![s] = "run"]
    /\ sleepers' = sleepers \ {s}
    /\ UNCHANGED <<nThreadsServicingQueue, stopRequested, stopWhenEmpty, deadline, notifies,
                   notifyAll, interrupted, called, finished>>

TimedOutInVain(s) ==
    /\ serverAt[s] = "timed" /\ deadline[s] = 0 /\ ~interrupted
    /\ shouldStop \/ taskQueue = <<>>
    /\ \/ Leave(s, nThreadsServicingQueue)
       \/ SleepIdle(s, nThreadsServicingQueue)
    /\ UNCHANGED <<taskQueue, stopRequested, stopWhenEmpty, serving, notifies, notifyAll,
                   interrupted, called, finished, early>>

\* f() runs without the lock; Repeat schedules itself again when f is done.
RunTask(s) ==
    LET f == serving[s] IN
    /\ serverAt[s] = "run"
    /\ serving' = [serving EXCEPT ![s] = NoTask]
    /\ IF f \in Repeating
       THEN /\ taskQueue' = Inserted(taskQueue, f)
            /\ serverAt' = [serverAt EXCEPT ![s] = "notify"] /\ UNCHANGED finished
       ELSE /\ finished' = finished \cup {f}
            /\ serverAt' = [serverAt EXCEPT ![s] = "relock"] /\ UNCHANGED taskQueue
    /\ UNCHANGED <<nThreadsServicingQueue, stopRequested, stopWhenEmpty, deadline, sleepers,
                   notifies, notifyAll, interrupted, called, early>>

RepeatNotify(s) ==
    /\ serverAt[s] = "notify"
    /\ sleepers' \in OneNotified(sleepers)
    /\ serverAt' = [serverAt EXCEPT ![s] = "relock"]
    /\ UNCHANGED <<taskQueue, nThreadsServicingQueue, stopRequested, stopWhenEmpty, deadline,
                   serving, notifies, notifyAll, interrupted, called, finished, early>>

Relock(s) == serverAt[s] = "relock" /\ ServiceLoop(s, nThreadsServicingQueue)

\* boost::thread_interrupted is thrown out of either wait, into catch (...);
\* an interrupted thread returns from a wait in no other way.
Thrown(s) ==
    /\ interrupted /\ serverAt[s] \in {"idle", "timed"}
    /\ serverAt' = [serverAt EXCEPT ![s] = "dead"]
    /\ nThreadsServicingQueue' = nThreadsServicingQueue - 1
    /\ sleepers' = sleepers \ {s}
    /\ UNCHANGED <<taskQueue, stopRequested, stopWhenEmpty, deadline, serving, notifies,
                   notifyAll, interrupted, called, finished, early>>

Serve(s) ==
    \/ WokenServer(s) \/ TimedOut(s) \/ TimedOutInVain(s) \/ RunTask(s) \/ RepeatNotify(s)
    \/ Relock(s) \/ Thrown(s)

SpuriousWake(s) ==
    /\ s \in sleepers /\ sleepers' = sleepers \ {s}
    /\ UNCHANGED <<taskQueue, nThreadsServicingQueue, stopRequested, stopWhenEmpty, serverAt,
                   deadline, serving, notifies, notifyAll, interrupted, called, finished,
                   early>>

-----------------------------------------------------------------------------
(* Callers, and the clock.                                                  *)

\* Mutant: the task is inserted and nobody is notified.
ScheduleQuietly(f) ==
    /\ f \in Tasks \ called /\ ~stopRequested /\ ~stopWhenEmpty
    /\ taskQueue' = Inserted(taskQueue, f)
    /\ called' = called \cup {f}
    /\ UNCHANGED <<nThreadsServicingQueue, stopRequested, stopWhenEmpty, serverAt, deadline,
                   sleepers, serving, notifies, notifyAll, interrupted, finished, early>>

\* Nothing is scheduled from outside once the scheduler is being stopped.
Schedule(f) ==
    /\ f \in Tasks \ called /\ ~stopRequested /\ ~stopWhenEmpty
    /\ taskQueue' = Inserted(taskQueue, f)
    /\ called' = called \cup {f} /\ notifies' = notifies + 1
    /\ UNCHANGED <<nThreadsServicingQueue, stopRequested, stopWhenEmpty, serverAt, deadline,
                   sleepers, serving, notifyAll, interrupted, finished, early>>

StopScheduler(drain) ==
    /\ ~stopRequested /\ ~stopWhenEmpty
    /\ IF drain THEN stopWhenEmpty' = TRUE /\ UNCHANGED stopRequested
                ELSE stopRequested' = TRUE /\ UNCHANGED stopWhenEmpty
    /\ notifyAll' = TRUE
    /\ UNCHANGED <<taskQueue, nThreadsServicingQueue, serverAt, deadline, sleepers, serving,
                   notifies, interrupted, called, finished, early>>

Notify ==
    /\ \/ /\ notifies > 0 /\ notifies' = notifies - 1
          /\ sleepers' \in OneNotified(sleepers) /\ UNCHANGED notifyAll
       \/ /\ notifyAll /\ notifyAll' = FALSE
          /\ sleepers' = {} /\ UNCHANGED notifies
    /\ UNCHANGED <<taskQueue, nThreadsServicingQueue, stopRequested, stopWhenEmpty, serverAt,
                   deadline, serving, interrupted, called, finished, early>>

\* threadGroup.interrupt_all.
InterruptServers ==
    /\ ~interrupted /\ interrupted' = TRUE
    /\ UNCHANGED <<taskQueue, nThreadsServicingQueue, stopRequested, stopWhenEmpty, serverAt,
                   deadline, sleepers, serving, notifies, notifyAll, called, finished, early>>

Sooner(n) == IF n > 0 THEN n - 1 ELSE 0

Tick ==
    /\ taskQueue' = [i \in DOMAIN taskQueue |-> [taskQueue[i] EXCEPT !.due = Sooner(@)]]
    /\ deadline' = [s \in Servers |-> Sooner(deadline[s])]
    /\ UNCHANGED <<nThreadsServicingQueue, stopRequested, stopWhenEmpty, serverAt, sleepers,
                   serving, notifies, notifyAll, interrupted, called, finished, early>>

SchedulerNext ==
    \/ \E s \in Servers : ServerStart(s) \/ Serve(s) \/ SpuriousWake(s)
    \/ \E f \in Tasks : Schedule(f)
    \/ \E drain \in BOOLEAN : StopScheduler(drain)
    \/ Notify \/ InterruptServers \/ Tick

SchedulerSpec == SchedulerInit /\ [][SchedulerNext]_schedVars

\* At least one thread is started.
FirstStart == (\A s \in Servers : serverAt[s] = "start") /\ (\E s \in Servers : ServerStart(s))

-----------------------------------------------------------------------------
SchedulerTypeOK ==
    /\ \A i \in DOMAIN taskQueue : taskQueue[i].task \in Tasks /\ taskQueue[i].due \in Nat
    /\ nThreadsServicingQueue \in Nat /\ notifies \in Nat
    /\ stopRequested \in BOOLEAN /\ stopWhenEmpty \in BOOLEAN /\ notifyAll \in BOOLEAN
    /\ interrupted \in BOOLEAN /\ early \in BOOLEAN
    /\ serverAt \in [Servers -> {"start", "idle", "timed", "run", "notify", "relock", "done", "dead"}]
    /\ deadline \in [Servers -> Nat] /\ sleepers \subseteq Servers
    /\ serving \in [Servers -> Tasks \cup {NoTask}]
    /\ called \subseteq Tasks /\ finished \subseteq called

\* A scheduled task exists exactly once, in the queue or in the hands of one
\* thread, until it has run for the last time: none is lost or run twice when
\* several threads wait for it, and a repeating one never overlaps itself.
TasksOnce ==
    \A f \in Tasks :
        Cardinality({i \in DOMAIN taskQueue : taskQueue[i].task = f})
        + Cardinality({s \in Servers : serving[s] = f})
            = (IF f \in called \ finished THEN 1 ELSE 0)

\* "Call func at/after time t": with the one thread the node runs no task is
\* taken before its time, although the thread takes whatever is first when its
\* wait for an earlier first task ends.
NeverEarly == early => Cardinality({s \in Servers : serverAt[s] # "start"}) > 1

\* The destructor's assertion: once every thread has left by itself or was
\* interrupted the count is back at zero, and before that it is exact.
ServersCounted ==
    nThreadsServicingQueue =
        Cardinality({s \in Servers : serverAt[s] \notin {"start", "done", "dead"}})

\* stop(true), "when there is no work left to be done": the last thread to
\* leave leaves an empty queue, although a task may schedule itself again while
\* the other threads find the queue empty and go.
DrainLeavesNothing ==
    stopWhenEmpty /\ (\E s \in Servers : serverAt[s] = "done")
        /\ (\A s \in Servers : serverAt[s] \in {"start", "done"}) => taskQueue = <<>>

\* No task is lost, doubled, early or left behind, and the threads are counted.
SchedulerSafe ==
    /\ SchedulerTypeOK /\ TasksOnce /\ NeverEarly /\ ServersCounted
    /\ DrainLeavesNothing

\* Whenever the queue is filled it is served later, unless the threads are stopped
\* or interrupted: no notification is lost between the callers and several waiting
\* threads.
QueueServed ==
    []<>(taskQueue = <<>> \/ (\E s \in Servers : serving[s] # NoTask)
         \/ stopRequested \/ interrupted)

\* stop(false) and an interruption reach every thread; so does stop(true) when
\* no repeating task keeps the queue filled.
ServersStop ==
    stopRequested \/ interrupted \/ (stopWhenEmpty /\ called \cap Repeating = {})
        ~> \A s \in Servers : serverAt[s] \in {"start", "done", "dead"}

\* The threads work while there is work, and end when they are told to.
SchedulerLive == QueueServed /\ ServersStop
=============================================================================
