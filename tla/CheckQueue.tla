----------------------------- MODULE CheckQueue -----------------------------
(***************************************************************************)
(* The script verification queue (checkqueue.h): CCheckQueue<CScriptCheck> *)
(* and its RAII controller CCheckQueueControl, as ConnectBlock uses them.  *)
(* A thread that validates a block (a master) takes ControlMutex, adds the *)
(* script checks of the block's transactions in batches, joins the worker  *)
(* threads in Loop(true) and returns the conjunction of all checks.  When  *)
(* ConnectBlock returns early the controller's destructor waits instead.   *)
(*                                                                         *)
(* Every critical section under `mutex' is one step; cond.wait splits a    *)
(* section in two.  The queue is a set: the code uses it as a stack, and   *)
(* says itself that the order does not matter.  fQuit is never set by any  *)
(* caller and is left out.                                                 *)
(***************************************************************************)
EXTENDS Integers, FiniteSets

CONSTANTS Workers,    \* threads running CCheckQueue::Thread
          Masters,    \* threads that construct a CCheckQueueControl
          Checks,     \* the CScriptCheck objects one block can add
          nBatchSize, \* constructor argument nBatchSizeIn
          NoThread    \* ControlMutex is free

ASSUME ThreadsAssumption ==
    /\ Workers \cap Masters = {}
    /\ NoThread \notin Masters
    /\ IsFiniteSet(Workers) /\ IsFiniteSet(Masters)

ASSUME ChecksAssumption ==
    /\ IsFiniteSet(Checks)
    /\ nBatchSize \in Nat \ {0}

VARIABLES
    queue,        \* checks nobody has taken yet
    nIdle,        \* threads inside cond.wait
    nTotal,       \* threads inside Loop
    fAllOk,       \* conjunction of the batches cleaned up so far
    nTodo,        \* checks added and not yet cleaned up
    pc,           \* where each thread is
    vChecks,      \* the batch a thread took; nNow is its size
    fOk,          \* the local result of that batch
    waiting,      \* threads enqueued on condWorker or condMaster
    ControlMutex, \* the master whose controller is alive
    fDone,        \* that controller's Wait has returned ...
    fRet,         \* ... with this result
    added,        \* the checks that controller has added
    bad           \* the checks of that block that evaluate to false

vars == <<queue, nIdle, nTotal, fAllOk, nTodo, pc, vChecks, fOk, waiting,
          ControlMutex, fDone, fRet, added, bad>>

Threads == Workers \cup Masters

(***************************************************************************)
(* "out":   outside Loop (a master: no controller; a worker: not started)  *)
(* "ctl":   a master between the controller's constructor and destructor   *)
(* "enter": about to lock mutex for the first iteration of Loop            *)
(* "wait":  inside cond.wait            "exec":  running its batch         *)
(* "clean": about to lock mutex to clean up after its batch                *)
(* "dead":  a worker that boost::thread interruption threw out of wait     *)
(***************************************************************************)
PCs == {"out", "ctl", "enter", "wait", "exec", "clean", "dead"}

Init ==
    /\ queue = {} /\ nIdle = 0 /\ nTotal = 0 /\ fAllOk = TRUE /\ nTodo = 0
    /\ pc = [t \in Threads |-> IF t \in Workers THEN "enter" ELSE "out"]
    /\ vChecks = [t \in Threads |-> {}]
    /\ fOk = [t \in Threads |-> TRUE]
    /\ waiting = {}
    /\ ControlMutex = NoThread
    /\ fDone = FALSE /\ fRet = TRUE /\ added = {} /\ bad = {}

-----------------------------------------------------------------------------
(* CCheckQueueControl.  The block's bad scripts are an arbitrary set.       *)

Construct(m) ==
    /\ pc[m] = "out" /\ ControlMutex = NoThread
    /\ ControlMutex' = m
    /\ pc' = [pc EXCEPT ![m] = "ctl"]
    /\ fDone' = FALSE /\ fRet' = TRUE /\ added' = {}
    /\ bad' \in SUBSET Checks
    /\ UNCHANGED <<queue, nIdle, nTotal, fAllOk, nTodo, vChecks, fOk, waiting>>

\* notify_one wakes one waiting worker if there is one, notify_all every one.
Notified(n, C) ==
    IF n = 0 \/ waiting \cap C = {} THEN {{}}
    ELSE IF n = 1 THEN {{t} : t \in waiting \cap C}
    ELSE {waiting \cap C}

Add(m, C) ==
    /\ pc[m] = "ctl" /\ ~fDone
    /\ queue' = queue \cup C
    /\ nTodo' = nTodo + Cardinality(C)
    /\ added' = added \cup C
    /\ \E W \in Notified(Cardinality(C), Workers) : waiting' = waiting \ W
    /\ UNCHANGED <<nIdle, nTotal, fAllOk, pc, vChecks, fOk, ControlMutex,
                   fDone, fRet, bad>>

\* control.Wait() in ConnectBlock, or the Wait that the destructor of a
\* controller left by an early return calls: both enter Loop(true).
CallWait(m) ==
    /\ pc[m] = "ctl" /\ ~fDone
    /\ pc' = [pc EXCEPT ![m] = "enter"]
    /\ UNCHANGED <<queue, nIdle, nTotal, fAllOk, nTodo, vChecks, fOk, waiting,
                   ControlMutex, fDone, fRet, added, bad>>

\* The destructor unlocks ControlMutex once Wait has returned.
Destruct(m) ==
    /\ pc[m] = "ctl" /\ fDone
    /\ ControlMutex' = NoThread
    /\ pc' = [pc EXCEPT ![m] = "out"]
    /\ UNCHANGED <<queue, nIdle, nTotal, fAllOk, nTodo, vChecks, fOk, waiting,
                   fDone, fRet, added, bad>>

-----------------------------------------------------------------------------
(* Loop.  LoopTop is the critical section from `while (queue.empty())' on;  *)
(* total, idle, todo, ok and asleep are nTotal, nIdle, nTodo, fAllOk and    *)
(* the wait sets as the first part of the section left them.                *)

BatchSize(total, idle) ==
    LET share == Cardinality(queue) \div (total + idle + 1)
        capped == IF nBatchSize < share THEN nBatchSize ELSE share
    IN  IF capped < 1 THEN 1 ELSE capped

\* Mutant: the master keeps fAllOk for the next block.
ReturnStaleStatus(t, total, idle, todo, ok, asleep) ==
    /\ queue = {} /\ t \in Masters /\ todo = 0
    /\ nTotal' = total - 1
    /\ fRet' = ok /\ fAllOk' = ok /\ fDone' = TRUE
    /\ pc' = [pc EXCEPT ![t] = "ctl"]
    /\ vChecks' = [vChecks EXCEPT ![t] = {}]
    /\ nIdle' = idle /\ nTodo' = todo /\ waiting' = asleep
    /\ UNCHANGED <<queue, fOk>>

\* Mutant: an empty queue is taken for finished work.
ReturnEarly(t, total, idle, todo, ok, asleep) ==
    /\ queue = {} /\ t \in Masters
    /\ nTotal' = total - 1
    /\ fRet' = ok /\ fAllOk' = TRUE /\ fDone' = TRUE
    /\ pc' = [pc EXCEPT ![t] = "ctl"]
    /\ vChecks' = [vChecks EXCEPT ![t] = {}]
    /\ nIdle' = idle /\ nTodo' = todo /\ waiting' = asleep
    /\ UNCHANGED <<queue, fOk>>

\* Only the master returns, when nothing is queued or in a batch any more.
Return(t, total, idle, todo, ok, asleep) ==
    /\ queue = {} /\ t \in Masters /\ todo = 0
    /\ nTotal' = total - 1
    /\ fRet' = ok /\ fAllOk' = TRUE /\ fDone' = TRUE
    /\ pc' = [pc EXCEPT ![t] = "ctl"]
    /\ vChecks' = [vChecks EXCEPT ![t] = {}]
    /\ nIdle' = idle /\ nTodo' = todo /\ waiting' = asleep
    /\ UNCHANGED <<queue, fOk>>

Sleep(t, total, idle, todo, ok, asleep) ==
    /\ queue = {} /\ ~(t \in Masters /\ todo = 0)
    /\ nIdle' = idle + 1
    /\ waiting' = asleep \cup {t}
    /\ pc' = [pc EXCEPT ![t] = "wait"]
    /\ vChecks' = [vChecks EXCEPT ![t] = {}]
    /\ nTotal' = total /\ nTodo' = todo /\ fAllOk' = ok
    /\ UNCHANGED <<queue, fOk, fDone, fRet>>

Take(t, total, idle, todo, ok, asleep) ==
    /\ \E B \in SUBSET queue :
          /\ B # {} /\ Cardinality(B) = BatchSize(total, idle)
          /\ vChecks' = [vChecks EXCEPT ![t] = B]
          /\ queue' = queue \ B
    /\ fOk' = [fOk EXCEPT ![t] = ok]
    /\ pc' = [pc EXCEPT ![t] = "exec"]
    /\ nTotal' = total /\ nIdle' = idle /\ nTodo' = todo
    /\ fAllOk' = ok /\ waiting' = asleep
    /\ UNCHANGED <<fDone, fRet>>

LoopTop(t, total, idle, todo, ok, asleep) ==
    /\ \/ Return(t, total, idle, todo, ok, asleep)
       \/ Sleep(t, total, idle, todo, ok, asleep)
       \/ Take(t, total, idle, todo, ok, asleep)
    /\ UNCHANGED <<ControlMutex, added, bad>>

\* First iteration: nNow = 0.
Enter(t) ==
    /\ pc[t] = "enter"
    /\ LoopTop(t, nTotal + 1, nIdle, nTodo, fAllOk, waiting)

\* cond.wait returns once the thread was notified, or spuriously.
Wake(t) ==
    /\ pc[t] = "wait" /\ t \notin waiting
    /\ LoopTop(t, nTotal, nIdle - 1, nTodo, fAllOk, waiting)

Spurious(t) ==
    /\ pc[t] = "wait" /\ t \in waiting
    /\ waiting' = waiting \ {t}
    /\ UNCHANGED <<queue, nIdle, nTotal, fAllOk, nTodo, pc, vChecks, fOk,
                   ControlMutex, fDone, fRet, added, bad>>

\* The batch runs without the lock and stops at the first failing check.
Execute(t) ==
    /\ pc[t] = "exec"
    /\ fOk' = [fOk EXCEPT ![t] = @ /\ vChecks[t] \cap bad = {}]
    /\ pc' = [pc EXCEPT ![t] = "clean"]
    /\ UNCHANGED <<queue, nIdle, nTotal, fAllOk, nTodo, vChecks, waiting,
                   ControlMutex, fDone, fRet, added, bad>>

\* Mutant: the last batch does not notify the master.
CleanUpSilently(t) ==
    /\ pc[t] = "clean"
    /\ LoopTop(t, nTotal, nIdle, nTodo - Cardinality(vChecks[t]),
               fAllOk /\ fOk[t], waiting)

\* The next iteration first accounts for the batch; the thread that brings
\* nTodo to 0 notifies the master.
CleanUp(t) ==
    LET todo == nTodo - Cardinality(vChecks[t])
        n == IF todo = 0 /\ t \in Workers THEN 1 ELSE 0
    IN  /\ pc[t] = "clean"
        /\ \E M \in Notified(n, Masters) :
              LoopTop(t, nTotal, nIdle, todo, fAllOk /\ fOk[t], waiting \ M)

\* Shutdown interrupts the worker threads (init.cpp, threadGroup); cond.wait
\* is the only interruption point, and throws past nIdle-- and nTotal--.
Interrupt(w) ==
    /\ pc[w] = "wait"
    /\ pc' = [pc EXCEPT ![w] = "dead"]
    /\ waiting' = waiting \ {w}
    /\ UNCHANGED <<queue, nIdle, nTotal, fAllOk, nTodo, vChecks, fOk,
                   ControlMutex, fDone, fRet, added, bad>>

Thread(t) == Enter(t) \/ Wake(t) \/ Execute(t) \/ CleanUp(t)

Next ==
    \/ \E m \in Masters :
          \/ Construct(m) \/ CallWait(m) \/ Destruct(m)
          \/ \E C \in SUBSET (Checks \ added) : Add(m, C)
    \/ \E t \in Threads : Thread(t) \/ Spurious(t)
    \/ \E w \in Workers : Interrupt(w)

Spec == Init /\ [][Next]_vars

\* Every thread inside Loop keeps running, gets the mutex eventually and its
\* script checks terminate.  Callers owe nothing but to let Wait run.
FairSpec == Spec /\ \A t \in Threads : WF_vars(Thread(t))

-----------------------------------------------------------------------------
TypeOK ==
    /\ queue \in SUBSET Checks
    /\ nIdle \in Nat /\ nTotal \in Nat /\ nTodo \in Nat
    /\ fAllOk \in BOOLEAN /\ fDone \in BOOLEAN /\ fRet \in BOOLEAN
    /\ pc \in [Threads -> PCs]
    /\ vChecks \in [Threads -> SUBSET Checks]
    /\ fOk \in [Threads -> BOOLEAN]
    /\ waiting \in SUBSET Threads
    /\ ControlMutex \in Masters \cup {NoThread}
    /\ added \in SUBSET Checks /\ bad \in SUBSET Checks

\* Wait returns the conjunction of all checks the controller added: a failing
\* script is never lost between threads, and a failure of one block never
\* leaks into the verdict of the next (fAllOk is reset by the master).
VerdictExact == fDone => (fRet <=> added \cap bad = {})

\* Once Wait has returned, and whenever no controller is alive, no thread
\* holds or can still take a check: the checks point into the block and the
\* coins view that ConnectBlock is about to release.
NoCheckOutlivesControl ==
    fDone \/ ControlMutex = NoThread =>
        /\ queue = {} /\ nTodo = 0
        /\ \A t \in Threads : vChecks[t] = {}

\* nIdle and nTotal, which size the batches, count the threads they claim to;
\* workers killed in their wait stay counted.
IdleCount ==
    /\ nIdle = Cardinality({t \in Threads : pc[t] \in {"wait", "dead"}})
    /\ nTotal = Cardinality({t \in Threads :
                   pc[t] \in {"wait", "dead", "exec", "clean"}})

\* A master that waits for the result gets it, whatever the workers do:
\* no wake-up is lost, even when every worker is interrupted by shutdown.
WaitReturns ==
    \A m \in Masters :
        pc[m] \in {"enter", "wait", "exec", "clean"} ~> pc[m] = "ctl" /\ fDone
=============================================================================
