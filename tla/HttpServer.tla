----------------------------- MODULE HttpServer -----------------------------
(***************************************************************************)
(* The RPC server's threads: libevent's event thread takes requests, the   *)
(* WorkQueue hands them to worker threads (httpserver.cpp), some of them   *)
(* wait for a block (rpc/blockchain.cpp), and the main thread interrupts   *)
(* and stops it all (init.cpp).                                            *)
(*                                                                         *)
(* A section under WorkQueue::cs or cs_blockchange is one step.  A waiting *)
(* call tests its condition and goes to sleep in two steps, because        *)
(* g_rpc_running and the notification at shutdown do not take              *)
(* cs_blockchange.  What a request asks for and what the reply says are    *)
(* left out: a request is answered at once or after a wait.                *)
(***************************************************************************)
EXTENDS Integers, Sequences, FiniteSets

CONSTANTS RpcWorkers,  \* -rpcthreads
          Requests,    \* what clients send, each once
          Polls,       \* the ones that call waitfornewblock
          Untimed,     \* the ones of these with timeout 0
          maxDepth,    \* -rpcworkqueue
          MaxBlocks,   \* bound: blocks that become the tip
          NoRequest

ASSUME HttpAssumption ==
    /\ IsFiniteSet(RpcWorkers)
    /\ Polls \subseteq Requests /\ Untimed \subseteq Polls /\ NoRequest \notin Requests
    /\ maxDepth \in Nat \ {0} /\ MaxBlocks \in Nat

VARIABLES
    httpQueue, running, numThreads, \* WorkQueue: queue, running, numThreads
    condSleepers,   \* threads asleep on WorkQueue::cond; WaitExit sleeps there too
    workerAt,       \* where each worker is
    request,        \* the item it runs
    seen,           \* the block a waiting call started from
    pollSleepers,   \* workers asleep on cond_blockchange
    latestblock, blockNotifies, \* the tip it knows; a notify_all still to come
    rpcRunning,     \* g_rpc_running
    rejecting,      \* http_reject_request_cb is the general callback
    dispatching,    \* the request http_request_cb has in its hands
    replies,        \* how often each request was answered
    arrived,
    mainAt,         \* where the main thread is in Interrupt() and Shutdown()
    afterDelete     \* some thread used the queue after its deletion

httpVars == <<httpQueue, running, numThreads, condSleepers, workerAt, request, seen,
              pollSleepers, latestblock, blockNotifies, rpcRunning, rejecting, dispatching,
              replies, arrived, mainAt, afterDelete>>
queueVars == <<httpQueue, running, numThreads, condSleepers>>
workerVars == <<workerAt, request, seen, pollSleepers>>
blockVars == <<latestblock, blockNotifies>>
clientVars == <<dispatching, arrived>>
mainVars == <<rpcRunning, rejecting, mainAt>>

HttpInit ==
    /\ httpQueue = <<>> /\ running = TRUE /\ numThreads = 0 /\ condSleepers = {}
    /\ workerAt = [w \in RpcWorkers |-> "created"]
    /\ request = [w \in RpcWorkers |-> NoRequest] /\ seen = [w \in RpcWorkers |-> 0]
    /\ pollSleepers = {} /\ latestblock = 0 /\ blockNotifies = FALSE
    /\ rpcRunning = TRUE /\ rejecting = FALSE /\ dispatching = NoRequest
    /\ replies = [r \in Requests |-> 0] /\ arrived = {}
    /\ mainAt = "run" /\ afterDelete = FALSE

Main == "main"
deleted == mainAt \in {"join", "stopped"}
Counted == {"loop", "asleep", "item", "testing", "waiting", "leaving"}

Reply(S) == replies' = [r \in Requests |-> replies[r] + IF r \in S THEN 1 ELSE 0]

-----------------------------------------------------------------------------
(* The event thread.                                                        *)

Arrive(r) ==
    /\ r \in Requests \ arrived /\ dispatching = NoRequest /\ mainAt # "stopped"
    /\ arrived' = arrived \cup {r}
    /\ IF rejecting
       THEN Reply({r}) /\ UNCHANGED dispatching
       ELSE dispatching' = r /\ UNCHANGED replies
    /\ UNCHANGED <<queueVars, workerVars, blockVars, mainVars, afterDelete>>

depthExceeded == Len(httpQueue) >= maxDepth

\* Mutant: a request the full queue refuses is dropped without an answer.
Drop(r) == UNCHANGED replies

\* http_request_cb answers what the queue refuses.
Refuse(r) == Reply({r})

NotifyOne == IF condSleepers = {} THEN UNCHANGED condSleepers
             ELSE \E t \in condSleepers : condSleepers' = condSleepers \ {t}

Enqueue ==
    /\ dispatching # NoRequest /\ ~deleted
    /\ dispatching' = NoRequest
    /\ IF depthExceeded
       THEN Refuse(dispatching) /\ UNCHANGED <<httpQueue, condSleepers>>
       ELSE httpQueue' = Append(httpQueue, dispatching) /\ NotifyOne /\ UNCHANGED replies
    /\ UNCHANGED <<running, numThreads, workerVars, blockVars, mainVars, arrived, afterDelete>>

\* The queue the callback had looked up is gone.
EnqueueDeleted ==
    /\ dispatching # NoRequest /\ deleted
    /\ dispatching' = NoRequest /\ afterDelete' = TRUE
    /\ UNCHANGED <<queueVars, workerVars, blockVars, mainVars, arrived, replies>>

-----------------------------------------------------------------------------
(* WorkQueue::Run, the body of a worker thread.                             *)

At(w, place) == workerAt' = [workerAt EXCEPT ![w] = place]

\* The thread is detached as soon as it is created; the counter's constructor
\* runs when the scheduler lets it.
StartWorker(w) ==
    /\ workerAt[w] = "created"
    /\ IF deleted
       THEN At(w, "gone") /\ afterDelete' = TRUE /\ UNCHANGED numThreads
       ELSE At(w, "loop") /\ numThreads' = numThreads + 1 /\ UNCHANGED afterDelete
    /\ UNCHANGED <<httpQueue, running, condSleepers, request, seen, pollSleepers, blockVars,
                   mainVars, clientVars, replies>>

Dequeue(w) ==
    /\ workerAt[w] = "loop" \/ (workerAt[w] = "asleep" /\ w \notin condSleepers)
    /\ \/ /\ ~running /\ At(w, "leaving")
          /\ UNCHANGED <<httpQueue, condSleepers, request>>
       \/ /\ running /\ httpQueue = <<>> /\ At(w, "asleep")
          /\ condSleepers' = condSleepers \cup {w}
          /\ UNCHANGED <<httpQueue, request>>
       \/ /\ running /\ httpQueue # <<>> /\ At(w, "item")
          /\ request' = [request EXCEPT ![w] = Head(httpQueue)]
          /\ httpQueue' = Tail(httpQueue) /\ UNCHANGED condSleepers
    /\ UNCHANGED <<running, numThreads, seen, pollSleepers, blockVars, mainVars, clientVars,
                   replies, afterDelete>>

LeaveRun(w) ==
    /\ workerAt[w] = "leaving" /\ At(w, "gone")
    /\ numThreads' = numThreads - 1 /\ condSleepers' = {}
    /\ UNCHANGED <<httpQueue, running, request, seen, pollSleepers, blockVars, mainVars,
                   clientVars, replies, afterDelete>>

Finish(w) ==
    /\ Reply({request[w]}) /\ At(w, "loop")
    /\ request' = [request EXCEPT ![w] = NoRequest]

RunItem(w) ==
    /\ workerAt[w] = "item" /\ request[w] \notin Polls
    /\ Finish(w)
    /\ UNCHANGED <<queueVars, seen, pollSleepers, blockVars, mainVars, clientVars, afterDelete>>

-----------------------------------------------------------------------------
(* waitfornewblock, and who wakes it.                                       *)

changeLocked == \E w \in RpcWorkers : workerAt[w] = "testing"

\* The call takes cs_blockchange, and tests the condition before it waits.
BeginWait(w) ==
    /\ workerAt[w] = "item" /\ request[w] \in Polls /\ ~changeLocked
    /\ seen' = [seen EXCEPT ![w] = latestblock]
    /\ IF rpcRunning THEN At(w, "testing") /\ UNCHANGED <<request, replies>> ELSE Finish(w)
    /\ UNCHANGED <<queueVars, pollSleepers, blockVars, mainVars, clientVars, afterDelete>>

\* It found nothing to return for: it sleeps and releases the lock at once.
FallAsleep(w) ==
    /\ workerAt[w] = "testing" /\ At(w, "waiting")
    /\ pollSleepers' = pollSleepers \cup {w}
    /\ UNCHANGED <<queueVars, request, seen, blockVars, mainVars, clientVars, replies,
                   afterDelete>>

Tested(w) == latestblock # seen[w] \/ ~rpcRunning

\* Notified, it tests again.
TestAgain(w) ==
    /\ workerAt[w] = "waiting" /\ w \notin pollSleepers /\ ~changeLocked
    /\ IF Tested(w) THEN Finish(w) ELSE At(w, "testing") /\ UNCHANGED <<request, replies>>
    /\ UNCHANGED <<queueVars, seen, pollSleepers, blockVars, mainVars, clientVars, afterDelete>>

\* wait_for returns when its time is over.
WaitTimesOut(w) ==
    /\ workerAt[w] = "waiting" /\ request[w] \notin Untimed /\ ~changeLocked
    /\ Finish(w) /\ pollSleepers' = pollSleepers \ {w}
    /\ UNCHANGED <<queueVars, seen, blockVars, mainVars, clientVars, afterDelete>>

\* RPCNotifyBlockChange with a block, connected until OnRPCStopped.
NewBlock ==
    /\ latestblock < MaxBlocks /\ ~changeLocked
    /\ mainAt \in {"run", "interrupted", "closing", "shutdown"}
    /\ latestblock' = latestblock + 1 /\ blockNotifies' = TRUE
    /\ UNCHANGED <<queueVars, workerVars, mainVars, clientVars, replies, afterDelete>>

NotifyBlock ==
    /\ blockNotifies /\ blockNotifies' = FALSE /\ pollSleepers' = {}
    /\ UNCHANGED <<queueVars, workerAt, request, seen, latestblock, mainVars, clientVars,
                   replies, afterDelete>>

WorkerStep(w) ==
    \/ Dequeue(w) \/ LeaveRun(w) \/ RunItem(w)
    \/ BeginWait(w) \/ FallAsleep(w) \/ TestAgain(w) \/ WaitTimesOut(w)

-----------------------------------------------------------------------------
(* The main thread: Interrupt(), then Shutdown() as far as StopHTTPServer.  *)

\* InterruptHTTPServer: requests are rejected, then the queue is interrupted.
RejectRequests ==
    /\ mainAt = "run" /\ mainAt' = "interrupted" /\ rejecting' = TRUE
    /\ UNCHANGED <<queueVars, workerVars, blockVars, rpcRunning, clientVars, replies,
                   afterDelete>>

\* Mutant: Interrupt() sets running and notifies nobody.
InterruptQuietly ==
    /\ mainAt = "interrupted" /\ mainAt' = "closing"
    /\ running' = FALSE
    /\ UNCHANGED <<httpQueue, numThreads, condSleepers, workerVars, blockVars, rpcRunning,
                   rejecting, clientVars, replies, afterDelete>>

InterruptQueue ==
    /\ mainAt = "interrupted" /\ mainAt' = "closing"
    /\ running' = FALSE /\ condSleepers' = {}
    /\ UNCHANGED <<httpQueue, numThreads, workerVars, blockVars, rpcRunning, rejecting,
                   clientVars, replies, afterDelete>>

InterruptRPC ==
    /\ mainAt = "closing" /\ mainAt' = "shutdown" /\ rpcRunning' = FALSE
    /\ UNCHANGED <<queueVars, workerVars, blockVars, rejecting, clientVars, replies,
                   afterDelete>>

\* StopRPC: OnRPCStopped notifies every waiting call, without cs_blockchange.
StopRPC ==
    /\ mainAt = "shutdown" /\ mainAt' = "waitexit" /\ pollSleepers' = {}
    /\ UNCHANGED <<queueVars, workerAt, request, seen, blockVars, rpcRunning, rejecting,
                   clientVars, replies, afterDelete>>

\* WaitExit, whose test and sleep are one section under WorkQueue::cs.
WaitExit ==
    /\ mainAt = "waitexit" /\ numThreads > 0 /\ Main \notin condSleepers
    /\ condSleepers' = condSleepers \cup {Main}
    /\ UNCHANGED <<httpQueue, running, numThreads, workerVars, blockVars, mainVars, clientVars,
                   replies, afterDelete>>

\* delete workQueue: the destructors of the requests left in it answer them.
DeleteQueue ==
    /\ mainAt = "waitexit" /\ numThreads = 0 /\ Main \notin condSleepers
    /\ mainAt' = "join"
    /\ Reply({httpQueue[i] : i \in DOMAIN httpQueue}) /\ httpQueue' = <<>>
    /\ UNCHANGED <<running, numThreads, condSleepers, workerVars, blockVars, rpcRunning,
                   rejecting, clientVars, afterDelete>>

JoinEventThread ==
    /\ mainAt = "join" /\ dispatching = NoRequest /\ mainAt' = "stopped"
    /\ UNCHANGED <<queueVars, workerVars, blockVars, rpcRunning, rejecting, clientVars,
                   replies, afterDelete>>

Finishing == InterruptQueue \/ InterruptRPC \/ StopRPC \/ WaitExit \/ DeleteQueue \/ JoinEventThread

HttpStopped ==
    /\ mainAt = "stopped" /\ \A w \in RpcWorkers : workerAt[w] = "gone"
    /\ UNCHANGED httpVars

\* A thread of either condition variable may wake up for no reason.
WakeSpuriously ==
    /\ \/ /\ \E t \in condSleepers : condSleepers' = condSleepers \ {t}
          /\ UNCHANGED pollSleepers
       \/ /\ \E t \in pollSleepers : pollSleepers' = pollSleepers \ {t}
          /\ UNCHANGED condSleepers
    /\ UNCHANGED <<httpQueue, running, numThreads, workerAt, request, seen, blockVars, mainVars,
                   clientVars, replies, afterDelete>>

HttpNext ==
    \/ \E r \in Requests : Arrive(r)
    \/ Enqueue \/ EnqueueDeleted
    \/ \E w \in RpcWorkers : StartWorker(w) \/ WorkerStep(w)
    \/ NewBlock \/ NotifyBlock \/ RejectRequests \/ Finishing \/ WakeSpuriously
    \/ HttpStopped

HttpSpec == HttpInit /\ [][HttpNext]_httpVars

-----------------------------------------------------------------------------
HttpTypeOK ==
    /\ \A i \in DOMAIN httpQueue : httpQueue[i] \in Requests
    /\ Len(httpQueue) <= maxDepth /\ numThreads \in Nat
    /\ condSleepers \subseteq RpcWorkers \cup {Main} /\ pollSleepers \subseteq RpcWorkers
    /\ workerAt \in [RpcWorkers -> Counted \cup {"created", "gone"}]
    /\ request \in [RpcWorkers -> Requests \cup {NoRequest}]
    /\ seen \in [RpcWorkers -> 0 .. MaxBlocks] /\ latestblock \in 0 .. MaxBlocks
    /\ {running, blockNotifies, rpcRunning, rejecting, afterDelete} \subseteq BOOLEAN
    /\ dispatching \in Requests \cup {NoRequest} /\ arrived \subseteq Requests
    /\ replies \in [Requests -> Nat]
    /\ mainAt \in {"run", "interrupted", "closing", "shutdown", "waitexit", "join", "stopped"}

\* Every request is answered once and only once, whoever gets hold of it: a
\* worker, the event thread when the queue is full or the server is rejecting,
\* or the destructor of an item the queue is deleted with.
AnsweredOnce ==
    /\ \A r \in Requests : replies[r] <= 1
    /\ mainAt = "stopped" /\ ~afterDelete =>
           \A r \in arrived : replies[r] = 1

\* "Precondition: worker threads have all stopped": when WaitExit lets the main
\* thread delete the queue no worker that has entered Run() is left in it.
NoWorkerAtDelete ==
    deleted => \A w \in RpcWorkers : workerAt[w] \in {"created", "gone"}

\* No request is dropped or answered twice, and the queue is not deleted under a
\* worker that was in Run() (WaitExit, httpserver.cpp).
HttpSafe == HttpTypeOK /\ AnsweredOnce /\ NoWorkerAtDelete

\* A worker that slept through the notification at shutdown: it tested its
\* condition before InterruptRPC and fell asleep after StopRPC.
Missed(w) ==
    /\ workerAt[w] = "waiting" /\ request[w] \in Untimed
    /\ w \in pollSleepers /\ mainAt = "waitexit"

\* Shutdown gets past StopHTTPServer, whatever the workers are doing, unless a
\* waitfornewblock without timeout missed the notification.
HttpStops == mainAt # "run" ~> (mainAt = "stopped" \/ \E w \in RpcWorkers : Missed(w))

\* The requests that have arrived are all answered, with however few workers and
\* however full a queue, as long as no call waits for a block without timeout.
RequestsAnswered ==
    []<>(afterDelete \/ arrived \cap Untimed # {} \/ \A r \in arrived : replies[r] = 1)

\* Work is done while the server runs, and shutdown gets past the workers.
HttpLive == HttpStops /\ RequestsAnswered
=============================================================================
