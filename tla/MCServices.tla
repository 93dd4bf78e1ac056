----------------------------- MODULE MCServices -----------------------------
(***************************************************************************)
(* Three components that share no state: the scheduler, the RPC server's   *)
(* work queue and the orphan pool.  They do not interact, so one run       *)
(* checks the union of their behaviours: `focus' says which of them moves, *)
(* the others stay in their initial state.                                 *)
(***************************************************************************)
EXTENDS Scheduler, HttpServer, OrphanPool

CONSTANT f1

VARIABLE focus

allVars == <<focus, schedVars, httpVars, orphanVars>>

MCInit ==
    /\ focus \in {"scheduler", "http", "orphans"}
    /\ SchedulerInit /\ HttpInit /\ OrphanInit

MCNext ==
    \/ /\ focus = "scheduler" /\ SchedulerNext
       /\ UNCHANGED <<focus, httpVars, orphanVars>>
    \/ /\ focus = "http" /\ HttpNext
       /\ UNCHANGED <<focus, schedVars, orphanVars>>
    \/ /\ focus = "orphans" /\ OrphanNext
       /\ UNCHANGED <<focus, schedVars, httpVars>>

\* At least one thread is started, started threads run and get the lock, a call
\* that has begun ends, and time passes.  No spurious wake-up is counted on.
SchedulerFairness ==
    /\ \A s \in Servers : WF_schedVars(focus = "scheduler" /\ Serve(s))
    /\ WF_schedVars(focus = "scheduler" /\ FirstStart)
    /\ WF_schedVars(focus = "scheduler" /\ Notify)
    /\ WF_schedVars(focus = "scheduler" /\ Tick)

\* Threads run and get their locks, and a shutdown that has begun goes on.  A
\* wait with a timeout times out however often it is woken before: the deadline
\* of wait_for is fixed when it is called.  No block, no request, no shutdown and
\* no spurious wake-up is counted on.
HttpFairness ==
    /\ \A w \in RpcWorkers :
           /\ WF_httpVars(focus = "http" /\ (StartWorker(w) \/ WorkerStep(w)))
           /\ SF_httpVars(focus = "http" /\ WaitTimesOut(w))
    /\ WF_httpVars(focus = "http" /\ (Enqueue \/ EnqueueDeleted))
    /\ WF_httpVars(focus = "http" /\ NotifyBlock)
    /\ WF_httpVars(focus = "http" /\ Finishing)

\* The message thread comes to every connected peer again and again.
OrphanFairness ==
    \A p \in OrphanPeers : WF_orphanVars(focus = "orphans" /\ ProcessOrphans(p))

MCSpec ==
    /\ MCInit /\ [][MCNext]_allVars
    /\ SchedulerFairness /\ HttpFairness /\ OrphanFairness

\* f1 repeats after one second, the other task is due at once.
Deltas == [f \in Tasks |-> IF f = f1 THEN 1 ELSE 0]

\* 1 has two outputs; 2 spends the first, 3 the second and that of 2; 4 is an
\* invalid rival of 2; 6 is too big for an orphan, and its parent 5 never comes.
FamilySpends == <<{<<0, 1>>}, {<<1, 1>>}, {<<2, 1>>, <<1, 2>>}, {<<1, 1>>}, {}, {<<5, 1>>}>>
FamilyOuts == <<2, 1, 1, 1, 1, 1>>
=============================================================================
