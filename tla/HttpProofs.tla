----------------------------- MODULE HttpProofs -----------------------------
(***************************************************************************)
(* The HTTP work queue, for any number of workers and requests and any     *)
(* depth.  That a request is answered once needs where it is until then:   *)
(* with the event thread, in the queue or with one worker, and in no two   *)
(* of these; that the queue is deleted without its workers needs that      *)
(* numThreads counts the threads inside Run().                             *)
(***************************************************************************)
EXTENDS HttpServer, FiniteSetTheorems, SequenceTheorems, TLAPS

Working == {"item", "testing", "waiting"}
Inside == {w \in RpcWorkers : workerAt[w] \in Counted}

\* Who has a request that is not answered yet.
Queued(r) == \E i \in DOMAIN httpQueue : httpQueue[i] = r
HeldBy(r) == \E w \in RpcWorkers : request[w] = r
Pending(r) == r = dispatching \/ Queued(r) \/ HeldBy(r)

\* The threads in Run() are counted, and hold a request while they work on one.
Crew ==
    /\ IsFiniteSet(Inside) /\ numThreads = Cardinality(Inside)
    /\ \A w \in RpcWorkers : workerAt[w] \in Working <=> request[w] # NoRequest

\* No request is in two places.
Apart ==
    /\ \A i, j \in DOMAIN httpQueue : httpQueue[i] = httpQueue[j] => i = j
    /\ \A v, w \in RpcWorkers : request[v] = request[w] => v = w \/ request[v] = NoRequest
    /\ \A i \in DOMAIN httpQueue : httpQueue[i] # dispatching /\ ~HeldBy(httpQueue[i])
    /\ dispatching # NoRequest => ~HeldBy(dispatching)

\* A request was answered, or somebody has it who will answer it.
Accounted ==
    \A r \in Requests :
        /\ replies[r] \in {0, 1}
        /\ Pending(r) => r \in arrived /\ replies[r] = 0
        /\ r \notin arrived => replies[r] = 0
        /\ r \in arrived /\ replies[r] = 0 => Pending(r) \/ afterDelete

\* Shutdown leaves nothing behind.
Closed ==
    /\ deleted => httpQueue = <<>> /\ Inside = {}
    /\ mainAt = "stopped" => dispatching = NoRequest

HttpTyped == HttpTypeOK /\ httpQueue \in Seq(Requests)
HttpInv == HttpTyped /\ Crew /\ Apart /\ Accounted /\ Closed

\* What is true of the items of a queue, without sequences.
LEMMA QueueItems ==
    ASSUME HttpTyped
    PROVE  /\ Len(httpQueue) \in Nat /\ DOMAIN httpQueue = 1 .. Len(httpQueue)
           /\ \A i \in DOMAIN httpQueue : httpQueue[i] \in Requests
BY DEF HttpTyped

-----------------------------------------------------------------------------
\* Replies go to the requests of a set.
LEMMA Replied ==
    ASSUME HttpTyped, NEW S, Reply(S)
    PROVE  /\ replies' \in [Requests -> Nat]
           /\ \A r \in Requests : replies'[r] = IF r \in S THEN replies[r] + 1 ELSE replies[r]
<1>1. \A r \in Requests : replies[r] \in Nat /\ replies[r] + 0 = replies[r]
  BY DEF HttpTyped, HttpTypeOK
<1>2. replies' = [r \in Requests |-> replies[r] + IF r \in S THEN 1 ELSE 0]
  BY Zenon DEF Reply
<1> QED
  BY <1>1, <1>2

\* A worker goes somewhere else.
LEMMA Moved ==
    ASSUME HttpTyped, NEW w \in RpcWorkers, NEW place \in Counted \cup {"created", "gone"}, At(w, place)
    PROVE  /\ workerAt' \in [RpcWorkers -> Counted \cup {"created", "gone"}]
           /\ workerAt'[w] = place
           /\ \A v \in RpcWorkers : v # w => workerAt'[v] = workerAt[v]
BY Zenon DEF HttpTyped, HttpTypeOK, At

-----------------------------------------------------------------------------
(* Steps by what they do to the requests.                                   *)

\* Nobody gets or gives away a request, enters Run() or leaves it.
InPlace ==
    /\ UNCHANGED <<httpQueue, numThreads, request, dispatching, replies, arrived, afterDelete>>
    /\ \A w \in RpcWorkers : /\ workerAt'[w] \in Counted <=> workerAt[w] \in Counted
                             /\ workerAt'[w] \in Working <=> workerAt[w] \in Working
    /\ deleted' = deleted
    /\ mainAt' = "stopped" => dispatching = NoRequest

LEMMA QuietStep ==
    ASSUME HttpInv, HttpTyped', InPlace
    PROVE  HttpInv'
<1>1. Inside' = Inside
  BY Zenon DEF InPlace, Inside
<1>2. Crew'
  BY <1>1, Zenon DEF HttpInv, InPlace, Crew
<1>3. \A r : /\ Queued(r)' = Queued(r) /\ HeldBy(r)' = HeldBy(r) /\ Pending(r)' = Pending(r)
  BY Zenon DEF InPlace, Queued, HeldBy, Pending
<1>4. Apart'
  BY Zenon DEF HttpInv, InPlace, Apart, HeldBy
<1>5. Accounted'
  BY <1>3, Zenon DEF HttpInv, InPlace, Accounted
<1>6. Closed'
  BY <1>1, Zenon DEF HttpInv, InPlace, Closed
<1> QED
  BY <1>2, <1>4, <1>5, <1>6, Zenon DEF HttpInv

LEMMA ArriveStep ==
    ASSUME HttpInv, NEW r \in Requests, Arrive(r)
    PROVE  HttpInv'
<1>1. /\ r \notin arrived /\ dispatching = NoRequest /\ mainAt # "stopped"
      /\ arrived' = arrived \cup {r}
      /\ UNCHANGED <<queueVars, workerVars, blockVars, mainVars, afterDelete>>
  BY Zenon DEF Arrive
<1>2. \/ Reply({r}) /\ UNCHANGED dispatching
      \/ dispatching' = r /\ UNCHANGED replies
  BY Zenon DEF Arrive
<1>3. replies' \in [Requests -> Nat]
  BY <1>2, Replied, Zenon DEF HttpInv, HttpTyped, HttpTypeOK
<1>4. HttpTyped'
  BY <1>1, <1>2, <1>3, Zenon DEF HttpInv, HttpTyped, HttpTypeOK, queueVars, workerVars, blockVars, mainVars
<1>5. Inside' = Inside /\ Crew'
  BY <1>1, Zenon DEF HttpInv, Crew, Inside, queueVars, workerVars
<1>6. \A q : Queued(q)' = Queued(q) /\ HeldBy(q)' = HeldBy(q)
  BY <1>1, Zenon DEF Queued, HeldBy, queueVars, workerVars
<1>7. ~Pending(r) /\ replies[r] = 0
  BY <1>1, Zenon DEF HttpInv, Accounted
<1>8. Apart'
  <2>1. UNCHANGED <<httpQueue, request>>
    BY <1>1, Zenon DEF queueVars, workerVars
  <2>2. \A i \in DOMAIN httpQueue : httpQueue[i] # r /\ ~HeldBy(httpQueue[i])
    BY <1>7, Zenon DEF HttpInv, Apart, Pending, Queued
  <2>3. \A i \in DOMAIN httpQueue : httpQueue[i] # dispatching
    BY Zenon DEF HttpInv, Apart
  <2>4. ~HeldBy(r)
    BY <1>7 DEF Pending
  <2>5. \A i \in DOMAIN httpQueue' : httpQueue'[i] # dispatching' /\ ~HeldBy(httpQueue[i])'
    BY <1>2, <1>6, <2>1, <2>2, <2>3, Zenon
  <2>6. dispatching' # NoRequest => ~HeldBy(dispatching)'
    BY <1>1, <1>2, <2>1, <2>4 DEF HeldBy
  <2> QED
    BY <2>1, <2>5, <2>6, Zenon DEF HttpInv, Apart
<1>9. Accounted'
  <2> SUFFICES ASSUME NEW q \in Requests
               PROVE  /\ replies'[q] \in {0, 1}
                      /\ Pending(q)' => q \in arrived' /\ replies'[q] = 0
                      /\ q \notin arrived' => replies'[q] = 0
                      /\ q \in arrived' /\ replies'[q] = 0 => Pending(q)' \/ afterDelete'
    BY Zenon DEF Accounted
  <2>1. afterDelete' = afterDelete
    BY <1>1, Zenon
  <2>2. CASE q = r
    <3>1. CASE dispatching' = r /\ UNCHANGED replies
      BY <1>1, <1>7, <2>2, <3>1, Zenon DEF Pending
    <3>2. CASE Reply({r}) /\ UNCHANGED dispatching
      <4>1. replies'[r] = 1
        BY <1>7, <3>2, Replied DEF HttpInv
      <4>2. ~Pending(r)'
        BY <1>1, <1>6, <1>7, <3>2, Zenon DEF Pending
      <4> QED
        BY <1>1, <2>2, <4>1, <4>2
    <3> QED
      BY <1>2, <3>1, <3>2
  <2>3. CASE q # r
    <3>1. replies'[q] = replies[q]
      BY <1>2, <2>3, Replied, Zenon DEF HttpInv
    <3>2. Pending(q)' = Pending(q)
      <4>1. NoRequest # q
        BY HttpAssumption, Zenon
      <4> QED
        BY <1>1, <1>2, <1>6, <2>3, <4>1, Zenon DEF Pending
    <3> QED
      BY <1>1, <2>1, <2>3, <3>1, <3>2 DEF HttpInv, Accounted
  <2> QED
    BY <2>2, <2>3, Zenon
<1>10. Closed'
  BY <1>1, <1>5, Zenon DEF HttpInv, Closed, deleted, queueVars, mainVars
<1> QED
  BY <1>4, <1>5, <1>8, <1>9, <1>10, Zenon DEF HttpInv

\* Requests that are answered were pending and are not any more.
LEMMA Accounting ==
    ASSUME HttpInv, NEW S, (UNCHANGED replies /\ S = {}) \/ Reply(S),
           \A q \in Requests : q \in S => Pending(q),
           \A q \in Requests : Pending(q)' <=> Pending(q) /\ q \notin S,
           UNCHANGED <<arrived, afterDelete>>
    PROVE  Accounted'
<1> SUFFICES ASSUME NEW q \in Requests
             PROVE  /\ replies'[q] \in {0, 1}
                    /\ Pending(q)' => q \in arrived' /\ replies'[q] = 0
                    /\ q \notin arrived' => replies'[q] = 0
                    /\ q \in arrived' /\ replies'[q] = 0 => Pending(q)' \/ afterDelete'
  BY Zenon DEF Accounted
<1>1. replies'[q] = IF q \in S THEN replies[q] + 1 ELSE replies[q]
  BY Replied, Zenon DEF HttpInv
<1>2. /\ replies[q] \in {0, 1} /\ (Pending(q) => q \in arrived /\ replies[q] = 0)
      /\ (q \notin arrived => replies[q] = 0)
      /\ (q \in arrived /\ replies[q] = 0 => Pending(q) \/ afterDelete)
  BY Zenon DEF HttpInv, Accounted
<1>3. CASE q \in S
  BY <1>1, <1>2, <1>3
<1>4. CASE q \notin S
  BY <1>1, <1>2, <1>4, Zenon
<1> QED
  BY <1>3, <1>4, Zenon

\* Nobody is answered and nobody is forgotten.
LEMMA StillPending ==
    ASSUME HttpInv, UNCHANGED <<replies, arrived, afterDelete>>,
           \A q \in Requests : Pending(q)' <=> Pending(q)
    PROVE  Accounted'
<1> DEFINE S == {}
<1>1. /\ S = {} /\ \A q \in Requests : q \in S => Pending(q)
      /\ \A q \in Requests : Pending(q)' <=> Pending(q) /\ q \notin S
  BY Zenon
<1> HIDE DEF S
<1> QED
  BY <1>1, Accounting, Zenon

LEMMA EnqueueStep ==
    ASSUME HttpInv, Enqueue
    PROVE  HttpInv'
<1> DEFINE r == dispatching
<1>1. /\ r # NoRequest /\ dispatching' = NoRequest /\ ~deleted
      /\ UNCHANGED <<running, numThreads, workerVars, blockVars, mainVars, arrived, afterDelete>>
  BY Zenon DEF Enqueue
<1>2. \/ Reply({r}) /\ UNCHANGED <<httpQueue, condSleepers>>
      \/ /\ ~depthExceeded /\ httpQueue' = Append(httpQueue, r) /\ condSleepers' \subseteq condSleepers
         /\ UNCHANGED replies
  BY Zenon DEF Enqueue, Refuse, NotifyOne
<1>3. r \in Requests /\ HttpTyped
  BY <1>1, Zenon DEF HttpInv, HttpTyped, HttpTypeOK
<1>4. Inside' = Inside /\ Crew' /\ UNCHANGED <<request, workerAt, mainAt>>
  BY <1>1, Zenon DEF HttpInv, Crew, Inside, workerVars, mainVars
<1>5. Closed'
  BY <1>1, <1>4, Zenon DEF HttpInv, Closed, deleted
<1>6. \A q : HeldBy(q)' = HeldBy(q)
  BY <1>4, Zenon DEF HeldBy
<1>7. ~HeldBy(r) /\ ~Queued(r) /\ Pending(r)
  BY <1>1, Zenon DEF HttpInv, Apart, Queued, Pending
<1>8. NoRequest \notin Requests
  BY HttpAssumption, Zenon
<1>9. CASE Reply({r}) /\ UNCHANGED <<httpQueue, condSleepers>>
  <2>1. HttpTyped'
    <3>1. replies' \in [Requests -> Nat]
      BY <1>3, <1>9, Replied, Zenon
    <3> QED
      BY <1>1, <1>3, <1>9, <3>1, Zenon DEF HttpTyped, HttpTypeOK, workerVars, blockVars, mainVars
  <2>2. \A q : Queued(q)' = Queued(q)
    BY <1>9, Zenon DEF Queued
  <2>3. Apart'
    <3>1. \A i \in DOMAIN httpQueue : httpQueue[i] # NoRequest
      BY <1>3, <1>8, QueueItems, Zenon
    <3> QED
      BY <1>1, <1>4, <1>6, <1>9, <3>1, Zenon DEF HttpInv, Apart
  <2>4. \A q \in Requests : Pending(q)' <=> Pending(q) /\ q \notin {r}
    BY <1>1, <1>6, <1>7, <1>8, <2>2, Zenon DEF Pending
  <2>5. Accounted'
    BY <1>1, <1>7, <1>9, <2>4, Accounting, Zenon
  <2> QED
    BY <1>4, <1>5, <2>1, <2>3, <2>5, Zenon DEF HttpInv
<1>10. CASE /\ ~depthExceeded /\ httpQueue' = Append(httpQueue, r) /\ condSleepers' \subseteq condSleepers
            /\ UNCHANGED replies
  <2> DEFINE n == Len(httpQueue)
  <2>1. /\ n \in Nat /\ DOMAIN httpQueue = 1 .. n /\ \A i \in 1 .. n : httpQueue[i] \in Requests
    BY <1>3, QueueItems, Zenon
  <2>2. /\ httpQueue' \in Seq(Requests) /\ Len(httpQueue') = n + 1 /\ DOMAIN httpQueue' = 1 .. n + 1
        /\ \A i \in 1 .. n : httpQueue'[i] = httpQueue[i]
        /\ httpQueue'[n + 1] = r
    BY <1>3, <1>10, AppendProperties DEF HttpTyped
  <2>3. n + 1 <= maxDepth
    BY <1>10, <2>1, HttpAssumption DEF depthExceeded
  <2> HIDE DEF n
  <2>4. HttpTyped'
    <3>1. \A i \in DOMAIN httpQueue' : httpQueue'[i] \in Requests
      BY <1>3, <2>1, <2>2
    <3> QED
      BY <1>1, <1>3, <1>10, <2>2, <2>3, <3>1, Zenon DEF HttpTyped, HttpTypeOK, workerVars, blockVars, mainVars
  <2>5. \A q : Queued(q)' <=> Queued(q) \/ q = r
    BY <2>1, <2>2 DEF Queued
  <2>6. Apart'
    <3>1. \A i \in 1 .. n : httpQueue[i] # r
      BY <1>7, <2>1, Zenon DEF Queued
    <3>2. \A i, j \in 1 .. n + 1 : httpQueue'[i] = httpQueue'[j] => i = j
      <4> SUFFICES ASSUME NEW i \in 1 .. n + 1, NEW j \in 1 .. n + 1, httpQueue'[i] = httpQueue'[j]
                   PROVE  i = j
        BY Zenon
      <4>1. CASE i \in 1 .. n /\ j \in 1 .. n
        BY <2>1, <2>2, <4>1, Zenon DEF HttpInv, Apart
      <4>2. CASE i = n + 1 \/ j = n + 1
        BY <2>1, <2>2, <3>1, <4>2
      <4> QED
        BY <2>1, <4>1, <4>2
    <3>3. \A i \in 1 .. n + 1 : httpQueue'[i] # NoRequest /\ ~HeldBy(httpQueue'[i])
      BY <1>3, <1>7, <1>8, <2>1, <2>2 DEF HttpInv, Apart
    <3>4. \A i \in DOMAIN httpQueue' : httpQueue'[i] # dispatching' /\ ~HeldBy(httpQueue[i])'
      BY <1>1, <1>4, <2>2, <3>3, Zenon DEF HeldBy
    <3> QED
      BY <1>1, <1>4, <2>2, <3>2, <3>4, Zenon DEF HttpInv, Apart
  <2>7. \A q \in Requests : Pending(q)' <=> Pending(q)
    BY <1>1, <1>6, <1>8, <2>5, Zenon DEF Pending
  <2>8. Accounted'
    BY <1>1, <1>10, <2>7, StillPending, Zenon
  <2> QED
    BY <1>4, <1>5, <2>4, <2>6, <2>8, Zenon DEF HttpInv
<1> QED
  BY <1>2, <1>9, <1>10, Zenon

LEMMA EnqueueDeletedStep ==
    ASSUME HttpInv, EnqueueDeleted
    PROVE  HttpInv'
<1>1. /\ dispatching # NoRequest /\ dispatching' = NoRequest /\ afterDelete' = TRUE
      /\ UNCHANGED <<queueVars, workerVars, blockVars, mainVars, arrived, replies>>
  BY Zenon DEF EnqueueDeleted
<1>2. HttpTyped'
  BY <1>1, Zenon DEF HttpInv, HttpTyped, HttpTypeOK, queueVars, workerVars, blockVars, mainVars
<1>3. Inside' = Inside /\ Crew' /\ UNCHANGED <<request, workerAt, mainAt, httpQueue>>
  BY <1>1, Zenon DEF HttpInv, Crew, Inside, queueVars, workerVars, mainVars
<1>4. Closed'
  BY <1>1, <1>3, Zenon DEF HttpInv, Closed, deleted
<1>5. Apart'
  <2>1. \A i \in DOMAIN httpQueue : httpQueue[i] # NoRequest
    BY HttpAssumption, QueueItems, Zenon DEF HttpInv
  <2> QED
    BY <1>1, <1>3, <2>1, Zenon DEF HttpInv, Apart, HeldBy
<1>6. Accounted'
  BY <1>1, <1>3, HttpAssumption DEF HttpInv, Accounted, Pending, Queued, HeldBy
<1> QED
  BY <1>2, <1>3, <1>4, <1>5, <1>6, Zenon DEF HttpInv

-----------------------------------------------------------------------------
\* A worker enters Run(), or finds the queue deleted.
LEMMA StartStep ==
    ASSUME HttpInv, NEW w \in RpcWorkers, StartWorker(w)
    PROVE  HttpInv'
<1>1. /\ workerAt[w] = "created"
      /\ UNCHANGED <<httpQueue, running, condSleepers, request, seen, pollSleepers, blockVars,
                     mainVars, clientVars, replies>>
  BY Zenon DEF StartWorker
<1>2. \/ deleted /\ At(w, "gone") /\ afterDelete' = TRUE /\ UNCHANGED numThreads
      \/ ~deleted /\ At(w, "loop") /\ numThreads' = numThreads + 1 /\ UNCHANGED afterDelete
  BY Zenon DEF StartWorker
<1>3. /\ workerAt' \in [RpcWorkers -> Counted \cup {"created", "gone"}]
      /\ workerAt'[w] \in {"gone", "loop"}
      /\ deleted => workerAt'[w] = "gone"
      /\ ~deleted => workerAt'[w] = "loop"
      /\ \A v \in RpcWorkers : v # w => workerAt'[v] = workerAt[v]
  BY <1>2, Moved, Zenon DEF HttpInv, Counted
<1>4. numThreads' \in Nat
  BY <1>2 DEF HttpInv, HttpTyped, HttpTypeOK
<1>5. HttpTyped'
  BY <1>1, <1>2, <1>3, <1>4, Zenon DEF HttpInv, HttpTyped, HttpTypeOK, blockVars, mainVars, clientVars
<1>6. w \notin Inside
  BY <1>1, Zenon DEF Inside, Counted
<1>7. Crew' /\ (deleted => Inside' = Inside)
  <2>1. CASE deleted
    <3>1. Inside' = Inside /\ numThreads' = numThreads
      BY <1>1, <1>2, <1>3, <2>1, Zenon DEF Inside, Counted
    <3> QED
      BY <1>1, <1>3, <3>1 DEF HttpInv, Crew, Working
  <2>2. CASE ~deleted
    <3>1. Inside' = Inside \cup {w} /\ numThreads' = numThreads + 1
      BY <1>1, <1>2, <1>3, <2>2, Zenon DEF Inside, Counted
    <3>2. IsFiniteSet(Inside') /\ Cardinality(Inside') = Cardinality(Inside) + 1
      BY <1>6, <3>1, FS_AddElement, Zenon DEF HttpInv, Crew
    <3> QED
      BY <1>1, <1>3, <2>2, <3>1, <3>2, Zenon DEF HttpInv, Crew, Working
  <2> QED
    BY <2>1, <2>2, Zenon
<1>8. UNCHANGED <<httpQueue, request, mainAt, dispatching, arrived, replies>>
  BY <1>1, Zenon DEF mainVars, clientVars
<1>9. Apart' /\ Closed'
  BY <1>7, <1>8, Zenon DEF HttpInv, Apart, HeldBy, Closed, deleted
<1>10. Accounted'
  BY <1>2, <1>8 DEF HttpInv, Accounted, Pending, Queued, HeldBy
<1> QED
  BY <1>5, <1>7, <1>9, <1>10, Zenon DEF HttpInv

LEMMA LeaveStep ==
    ASSUME HttpInv, NEW w \in RpcWorkers, LeaveRun(w)
    PROVE  HttpInv'
<1>1. /\ workerAt[w] = "leaving" /\ At(w, "gone")
      /\ numThreads' = numThreads - 1 /\ condSleepers' = {}
      /\ UNCHANGED <<httpQueue, running, request, seen, pollSleepers, blockVars, mainVars,
                     clientVars, replies, afterDelete>>
  BY Zenon DEF LeaveRun
<1>2. /\ workerAt' \in [RpcWorkers -> Counted \cup {"created", "gone"}]
      /\ workerAt'[w] = "gone"
      /\ \A v \in RpcWorkers : v # w => workerAt'[v] = workerAt[v]
  BY <1>1, Moved, Zenon DEF HttpInv, Counted
<1>3. w \in Inside /\ Inside' = Inside \ {w}
  BY <1>1, <1>2, Zenon DEF Inside, Counted
<1>4. IsFiniteSet(Inside') /\ Cardinality(Inside') = Cardinality(Inside) - 1
  BY <1>3, FS_RemoveElement, Zenon DEF HttpInv, Crew
<1>5. numThreads' = Cardinality(Inside')
  BY <1>1, <1>4, Zenon DEF HttpInv, Crew
<1>6. numThreads' \in Nat
  BY <1>4, <1>5, FS_CardinalityType
<1>7. HttpTyped'
  BY <1>1, <1>2, <1>6, Zenon DEF HttpInv, HttpTyped, HttpTypeOK, blockVars, mainVars, clientVars
<1>8. Crew'
  BY <1>1, <1>2, <1>4, <1>5, Zenon DEF HttpInv, Crew, Working
<1>9. UNCHANGED <<httpQueue, request, mainAt, dispatching, arrived, replies, afterDelete>>
  BY <1>1, Zenon DEF mainVars, clientVars
<1>10. Apart' /\ Closed'
  BY <1>3, <1>9, Zenon DEF HttpInv, Apart, HeldBy, Closed, deleted
<1>11. Accounted'
  BY <1>9, Zenon DEF HttpInv, Accounted, Pending, Queued, HeldBy
<1> QED
  BY <1>7, <1>8, <1>10, <1>11, Zenon DEF HttpInv

\* A worker takes the first request.
LEMMA TakeStep ==
    ASSUME HttpInv, NEW w \in RpcWorkers, workerAt[w] \in {"loop", "asleep"},
           httpQueue # <<>>, At(w, "item"),
           request' = [request EXCEPT ![w] = Head(httpQueue)], httpQueue' = Tail(httpQueue),
           UNCHANGED <<condSleepers, running, numThreads, seen, pollSleepers, blockVars, mainVars,
                       clientVars, replies, afterDelete>>
    PROVE  HttpInv'
<1> DEFINE n == Len(httpQueue)
           r == httpQueue[1]
<1>1. /\ n \in Nat /\ DOMAIN httpQueue = 1 .. n /\ n > 0 /\ Head(httpQueue) = r
      /\ \A i \in 1 .. n : httpQueue[i] \in Requests
      /\ httpQueue \in Seq(Requests) /\ n <= maxDepth
  <2>1. httpQueue \in Seq(Requests) /\ n <= maxDepth
    BY Zenon DEF HttpInv, HttpTyped, HttpTypeOK
  <2>2. n \in Nat /\ DOMAIN httpQueue = 1 .. n /\ \A i \in 1 .. n : httpQueue[i] \in Requests
    BY QueueItems, Zenon DEF HttpInv
  <2>3. n > 0 /\ Head(httpQueue) = r
    BY <2>1, <2>2, EmptySeq
  <2> QED
    BY <2>1, <2>2, <2>3, Zenon
<1>2. /\ httpQueue' \in Seq(Requests) /\ Len(httpQueue') = n - 1 /\ DOMAIN httpQueue' = 1 .. n - 1
      /\ \A i \in 1 .. n - 1 : httpQueue'[i] = httpQueue[i + 1]
  BY <1>1, HeadTailProperties
<1>3. r \in Requests /\ r # NoRequest
  BY <1>1, HttpAssumption
<1>4. /\ workerAt' \in [RpcWorkers -> Counted \cup {"created", "gone"}]
      /\ workerAt'[w] = "item"
      /\ \A v \in RpcWorkers : v # w => workerAt'[v] = workerAt[v]
  BY Moved, Zenon DEF HttpInv, Counted
<1>5. /\ request' \in [RpcWorkers -> Requests \cup {NoRequest}] /\ request'[w] = r
      /\ \A v \in RpcWorkers : v # w => request'[v] = request[v]
  BY <1>1, <1>3, Zenon DEF HttpInv, HttpTyped, HttpTypeOK
<1> HIDE DEF n, r
<1>6. n \in Nat /\ n > 0 /\ n <= maxDepth /\ maxDepth \in Nat
  BY <1>1, HttpAssumption, Zenon
<1>7. HttpTyped'
  <2>1. Len(httpQueue') <= maxDepth /\ \A i \in DOMAIN httpQueue' : httpQueue'[i] \in Requests
    BY <1>1, <1>2, <1>6
  <2> QED
    BY <1>2, <1>4, <1>5, <2>1, Zenon DEF HttpInv, HttpTyped, HttpTypeOK, blockVars, mainVars, clientVars
<1>8. Inside' = Inside /\ Inside # {}
  BY <1>4, Zenon DEF Inside, Counted
<1>9. request[w] = NoRequest
  BY Zenon DEF HttpInv, Crew, Working
<1>10. Crew'
  BY <1>3, <1>4, <1>5, <1>8, Zenon DEF HttpInv, Crew, Working
<1>11. UNCHANGED <<mainAt, dispatching, arrived>>
  BY Zenon DEF mainVars, clientVars
<1>12. Closed'
  BY <1>8, <1>11, Zenon DEF HttpInv, Closed, deleted
<1>13. \A q \in Requests : HeldBy(q)' <=> HeldBy(q) \/ q = r
  BY <1>5, <1>9, HttpAssumption, Zenon DEF HeldBy
<1>14. \A i \in 1 .. n : httpQueue[i] = r => i = 1
  BY <1>1, <1>6 DEF HttpInv, Apart, r
<1>15. \A q : Queued(q)' <=> Queued(q) /\ q # r
  <2> SUFFICES ASSUME NEW q PROVE Queued(q)' <=> Queued(q) /\ q # r
    BY Zenon
  <2>1. ASSUME Queued(q)' PROVE Queued(q) /\ q # r
    <3>1. PICK i \in 1 .. n - 1 : httpQueue'[i] = q
      BY <1>2, <2>1, Zenon DEF Queued
    <3>2. i + 1 \in 1 .. n /\ i + 1 # 1 /\ httpQueue[i + 1] = q
      BY <1>2, <1>6, <3>1
    <3> QED
      BY <1>1, <1>14, <3>2, Zenon DEF Queued
  <2>2. ASSUME Queued(q), q # r PROVE Queued(q)'
    <3>1. PICK i \in 1 .. n : httpQueue[i] = q
      BY <1>1, <2>2, Zenon DEF Queued
    <3>2. i # 1
      BY <2>2, <3>1, Zenon DEF r
    <3>3. i - 1 \in 1 .. n - 1 /\ (i - 1) + 1 = i
      BY <1>6, <3>2
    <3>4. httpQueue'[i - 1] = q
      BY <1>2, <3>1, <3>3, Zenon
    <3> QED
      BY <1>2, <3>3, <3>4, Zenon DEF Queued
  <2> QED
    BY <2>1, <2>2, Zenon
<1>16. Queued(r)
  BY <1>1, <1>6 DEF Queued, r
<1>17. r # dispatching /\ ~HeldBy(r)
  BY <1>16, Zenon DEF HttpInv, Apart, Queued
<1>18. Apart'
  <2>1. \A i, j \in 1 .. n - 1 : httpQueue'[i] = httpQueue'[j] => i = j
    <3> SUFFICES ASSUME NEW i \in 1 .. n - 1, NEW j \in 1 .. n - 1, httpQueue'[i] = httpQueue'[j]
                 PROVE  i = j
      BY Zenon
    <3>1. i + 1 \in 1 .. n /\ j + 1 \in 1 .. n /\ httpQueue[i + 1] = httpQueue[j + 1]
      BY <1>2, <1>6
    <3>2. i + 1 = j + 1
      BY <1>1, <3>1, Zenon DEF HttpInv, Apart
    <3> QED
      BY <3>2
  <2>2. \A v, u \in RpcWorkers : request'[v] = request'[u] => v = u \/ request'[v] = NoRequest
    BY <1>5, <1>17 DEF HttpInv, Apart, HeldBy
  <2>3. ASSUME NEW i \in 1 .. n - 1
        PROVE  httpQueue'[i] # dispatching /\ ~HeldBy(httpQueue[i])'
    <3>1. i + 1 \in 1 .. n /\ i + 1 # 1 /\ httpQueue'[i] = httpQueue[i + 1]
      BY <1>2, <1>6
    <3>2. httpQueue[i + 1] # r /\ httpQueue[i + 1] # dispatching /\ ~HeldBy(httpQueue[i + 1])
      BY <1>1, <1>14, <3>1, Zenon DEF HttpInv, Apart
    <3> QED
      BY <1>5, <3>1, <3>2, Zenon DEF HeldBy
  <2>4. dispatching # NoRequest => ~HeldBy(dispatching)'
    BY <1>5, <1>11, <1>17, Zenon DEF HttpInv, Apart, HeldBy
  <2> QED
    BY <1>2, <1>11, <2>1, <2>2, <2>3, <2>4, Zenon DEF Apart
<1>19. \A q \in Requests : Pending(q)' <=> Pending(q)
  BY <1>11, <1>13, <1>15, <1>16, Zenon DEF Pending
<1>20. Accounted'
  BY <1>11, <1>19, StillPending, Zenon
<1> QED
  BY <1>7, <1>10, <1>12, <1>18, <1>20, Zenon DEF HttpInv

\* A worker answers the request it holds.
LEMMA FinishStep ==
    ASSUME HttpInv, NEW w \in RpcWorkers, workerAt[w] \in Working, Finish(w),
           seen' \in [RpcWorkers -> 0 .. MaxBlocks], pollSleepers' \subseteq pollSleepers,
           UNCHANGED <<queueVars, blockVars, mainVars, clientVars, afterDelete>>
    PROVE  HttpInv'
<1> DEFINE r == request[w]
<1>1. Reply({r}) /\ At(w, "loop") /\ request' = [request EXCEPT ![w] = NoRequest]
  BY Zenon DEF Finish
<1>2. r \in Requests /\ r # NoRequest
  BY HttpAssumption, Zenon DEF HttpInv, HttpTyped, HttpTypeOK, Crew
<1>3. /\ workerAt' \in [RpcWorkers -> Counted \cup {"created", "gone"}]
      /\ workerAt'[w] = "loop"
      /\ \A v \in RpcWorkers : v # w => workerAt'[v] = workerAt[v]
  BY <1>1, Moved, Zenon DEF HttpInv, Counted
<1>4. /\ request' \in [RpcWorkers -> Requests \cup {NoRequest}] /\ request'[w] = NoRequest
      /\ \A v \in RpcWorkers : v # w => request'[v] = request[v]
  BY <1>1, Zenon DEF HttpInv, HttpTyped, HttpTypeOK
<1>5. replies' \in [Requests -> Nat]
  BY <1>1, Replied, Zenon DEF HttpInv
<1>6. HttpTyped'
  BY <1>3, <1>4, <1>5, Zenon DEF HttpInv, HttpTyped, HttpTypeOK, queueVars, blockVars, mainVars, clientVars
<1>7. UNCHANGED <<httpQueue, numThreads, mainAt, dispatching, arrived>>
  BY Zenon DEF queueVars, mainVars, clientVars
<1>8. Inside' = Inside
  BY <1>3, Zenon DEF Inside, Counted, Working
<1>9. Crew' /\ Closed'
  <2>1. \A v \in RpcWorkers : workerAt'[v] \in Working <=> request'[v] # NoRequest
    BY <1>3, <1>4, Zenon DEF HttpInv, Crew, Working
  <2> QED
    BY <1>7, <1>8, <2>1, Zenon DEF HttpInv, Crew, Closed, deleted
<1>10. \A q \in Requests : HeldBy(q)' <=> HeldBy(q) /\ q # r
  BY <1>2, <1>4, HttpAssumption DEF HttpInv, Apart, HeldBy
<1>11. HeldBy(r) /\ ~Queued(r) /\ r # dispatching
  BY <1>2, Zenon DEF HttpInv, Apart, HeldBy, Queued
<1>12. Apart'
  <2>1. \A v, u \in RpcWorkers : request'[v] = request'[u] => v = u \/ request'[v] = NoRequest
    BY <1>4, Zenon DEF HttpInv, Apart
  <2>2. \A i \in DOMAIN httpQueue : httpQueue[i] \in Requests
    BY QueueItems, Zenon DEF HttpInv
  <2>3. \A q \in Requests : ~HeldBy(q) => ~HeldBy(q)'
    BY <1>10, Zenon
  <2>4. \A i \in DOMAIN httpQueue : httpQueue[i] # dispatching /\ ~HeldBy(httpQueue[i])'
    BY <1>7, <2>2, <2>3, Zenon DEF HttpInv, Apart, HeldBy
  <2>5. dispatching # NoRequest => ~HeldBy(dispatching)'
    BY <1>7, <2>3, Zenon DEF HttpInv, HttpTyped, HttpTypeOK, Apart, HeldBy
  <2> QED
    BY <1>7, <2>1, <2>4, <2>5, Zenon DEF HttpInv, Apart
<1>13. \A q : Queued(q)' <=> Queued(q)
  BY <1>7, Zenon DEF Queued
<1>14. \A q \in Requests : Pending(q)' <=> Pending(q) /\ q \notin {r}
  BY <1>7, <1>10, <1>11, <1>13, Zenon DEF Pending
<1>15. Pending(r)
  BY <1>11, Zenon DEF Pending
<1> HIDE DEF r
<1>16. Accounted'
  BY <1>1, <1>7, <1>14, <1>15, Accounting, Zenon
<1> QED
  BY <1>6, <1>9, <1>12, <1>16, Zenon DEF HttpInv

\* The destructors answer what is left in the queue.
LEMMA DeleteStep ==
    ASSUME HttpInv, DeleteQueue
    PROVE  HttpInv'
<1> DEFINE S == {httpQueue[i] : i \in DOMAIN httpQueue}
<1>1. /\ mainAt = "waitexit" /\ numThreads = 0 /\ mainAt' = "join"
      /\ Reply(S) /\ httpQueue' = <<>>
      /\ UNCHANGED <<running, numThreads, condSleepers, workerVars, blockVars, rpcRunning,
                     rejecting, clientVars, afterDelete>>
  BY Zenon DEF DeleteQueue
<1>2. UNCHANGED <<workerAt, request, dispatching, arrived>>
  BY <1>1, Zenon DEF workerVars, clientVars
<1>3. Inside' = Inside /\ Inside = {}
  BY <1>1, <1>2, FS_EmptySet, Zenon DEF HttpInv, Crew, Inside
<1>4. \A q \in S : Queued(q)
  BY Zenon DEF Queued
<1>5. \A q : q \in S <=> Queued(q)
  BY Zenon DEF Queued
<1> HIDE DEF S
<1>6. replies' \in [Requests -> Nat]
  BY <1>1, Replied, Zenon DEF HttpInv
<1>7. HttpTyped'
  <2>1. httpQueue' \in Seq(Requests) /\ Len(httpQueue') = 0 /\ DOMAIN httpQueue' = {}
    BY <1>1
  <2>2. Len(httpQueue') <= maxDepth
    BY <2>1, HttpAssumption
  <2> QED
    BY <1>1, <1>6, <2>1, <2>2, Zenon DEF HttpInv, HttpTyped, HttpTypeOK, workerVars, blockVars, clientVars
<1>8. Crew'
  BY <1>1, <1>2, <1>3, Zenon DEF HttpInv, Crew
<1>9. \A q : ~Queued(q)'
  BY <1>1 DEF Queued
<1>10. Apart'
  BY <1>1, <1>2 DEF HttpInv, Apart, HeldBy
<1>11. Closed'
  BY <1>1, <1>3, Zenon DEF Closed
<1>12. \A q \in Requests : ~HeldBy(q) /\ ~HeldBy(q)'
  BY <1>2, <1>3, HttpAssumption, Zenon DEF HttpInv, Crew, Inside, HeldBy, Working, Counted
<1>13. \A q \in Requests : Pending(q)' <=> Pending(q) /\ q \notin S
  <2>1. \A q \in Requests : q = dispatching => q \notin S
    BY <1>5, Zenon DEF HttpInv, Apart, Queued
  <2> QED
    BY <1>2, <1>5, <1>9, <1>12, <2>1, Zenon DEF Pending
<1>14. Accounted'
  BY <1>1, <1>2, <1>5, <1>13, Accounting, Zenon DEF Pending
<1> QED
  BY <1>7, <1>8, <1>10, <1>11, <1>14, Zenon DEF HttpInv

-----------------------------------------------------------------------------
\* A worker sleeps, leaves the loop, or takes a request.
LEMMA DequeueStep ==
    ASSUME HttpInv, NEW w \in RpcWorkers, Dequeue(w)
    PROVE  HttpInv'
<1>1. /\ workerAt[w] \in {"loop", "asleep"}
      /\ UNCHANGED <<running, numThreads, seen, pollSleepers, blockVars, mainVars, clientVars,
                     replies, afterDelete>>
  BY Zenon DEF Dequeue
<1>2. \/ /\ At(w, "leaving") /\ UNCHANGED <<httpQueue, condSleepers, request>>
      \/ /\ At(w, "asleep") /\ condSleepers' = condSleepers \cup {w} /\ UNCHANGED <<httpQueue, request>>
      \/ /\ httpQueue # <<>> /\ At(w, "item") /\ request' = [request EXCEPT ![w] = Head(httpQueue)]
         /\ httpQueue' = Tail(httpQueue) /\ UNCHANGED condSleepers
  BY Zenon DEF Dequeue
<1>3. CASE /\ httpQueue # <<>> /\ At(w, "item") /\ request' = [request EXCEPT ![w] = Head(httpQueue)]
           /\ httpQueue' = Tail(httpQueue) /\ UNCHANGED condSleepers
  BY <1>1, <1>3, TakeStep
<1>4. CASE /\ At(w, "leaving") \/ At(w, "asleep")
           /\ condSleepers' \subseteq condSleepers \cup {w} /\ UNCHANGED <<httpQueue, request>>
  <2>1. /\ workerAt' \in [RpcWorkers -> Counted \cup {"created", "gone"}]
        /\ workerAt'[w] \in {"leaving", "asleep"}
        /\ \A v \in RpcWorkers : v # w => workerAt'[v] = workerAt[v]
    BY <1>4, Moved DEF HttpInv, Counted
  <2>2. HttpTyped'
    BY <1>1, <1>4, <2>1, Zenon DEF HttpInv, HttpTyped, HttpTypeOK, blockVars, mainVars, clientVars
  <2>3. InPlace
    BY <1>1, <1>4, <2>1 DEF HttpInv, Closed, InPlace, Counted, Working, deleted, mainVars, clientVars
  <2> QED
    BY <2>2, <2>3, QuietStep, Zenon
<1> QED
  BY <1>2, <1>3, <1>4, Zenon

\* waitfornewblock, and what ends it.
LEMMA WaitStep ==
    ASSUME HttpInv, NEW w \in RpcWorkers, BeginWait(w) \/ FallAsleep(w) \/ TestAgain(w)
    PROVE  HttpInv'
<1>1. /\ workerAt[w] \in Working /\ seen' \in [RpcWorkers -> 0 .. MaxBlocks]
      /\ UNCHANGED <<queueVars, blockVars, mainVars, clientVars, afterDelete>>
  BY Zenon DEF HttpInv, HttpTyped, HttpTypeOK, BeginWait, FallAsleep, TestAgain, Working
<1>2. \/ Finish(w) /\ UNCHANGED pollSleepers
      \/ /\ At(w, "testing") \/ At(w, "waiting")
         /\ pollSleepers' \subseteq pollSleepers \cup {w} /\ UNCHANGED <<request, replies>>
  BY Zenon DEF BeginWait, FallAsleep, TestAgain
<1>3. CASE Finish(w) /\ UNCHANGED pollSleepers
  BY <1>1, <1>3, FinishStep, Zenon
<1>4. CASE /\ At(w, "testing") \/ At(w, "waiting")
           /\ pollSleepers' \subseteq pollSleepers \cup {w} /\ UNCHANGED <<request, replies>>
  <2>1. /\ workerAt' \in [RpcWorkers -> Counted \cup {"created", "gone"}]
        /\ workerAt'[w] \in {"testing", "waiting"}
        /\ \A v \in RpcWorkers : v # w => workerAt'[v] = workerAt[v]
    BY <1>4, Moved DEF HttpInv, Counted
  <2>2. HttpTyped'
    BY <1>1, <1>4, <2>1, Zenon
       DEF HttpInv, HttpTyped, HttpTypeOK, queueVars, blockVars, mainVars, clientVars
  <2>3. InPlace
    BY <1>1, <1>4, <2>1
       DEF HttpInv, Closed, InPlace, Counted, Working, deleted, queueVars, mainVars, clientVars
  <2> QED
    BY <2>2, <2>3, QuietStep, Zenon
<1> QED
  BY <1>2, <1>3, <1>4, Zenon

\* A request without a wait, and a wait whose time is over.
LEMMA AnswerStep ==
    ASSUME HttpInv, NEW w \in RpcWorkers, RunItem(w) \/ WaitTimesOut(w)
    PROVE  HttpInv'
<1>1. /\ workerAt[w] \in Working /\ Finish(w) /\ pollSleepers' \subseteq pollSleepers
      /\ UNCHANGED <<queueVars, seen, blockVars, mainVars, clientVars, afterDelete>>
  BY Zenon DEF RunItem, WaitTimesOut, Working
<1>2. seen' \in [RpcWorkers -> 0 .. MaxBlocks]
  BY <1>1, Zenon DEF HttpInv, HttpTyped, HttpTypeOK
<1> QED
  BY <1>1, <1>2, FinishStep, Zenon

\* Blocks, wake-ups, and the main thread up to the deletion and after it.
LEMMA OtherStep ==
    ASSUME HttpInv,
           \/ NewBlock \/ NotifyBlock \/ RejectRequests \/ InterruptQueue \/ InterruptRPC \/ StopRPC
           \/ WaitExit \/ JoinEventThread \/ WakeSpuriously \/ UNCHANGED httpVars
    PROVE  HttpInv'
<1> USE DEF queueVars, workerVars, blockVars, clientVars, mainVars
<1>1. /\ UNCHANGED <<httpQueue, numThreads, workerAt, request, seen, dispatching, replies, arrived,
                     afterDelete>>
      /\ condSleepers' \subseteq condSleepers \cup {Main} /\ pollSleepers' \subseteq pollSleepers
  BY Zenon DEF NewBlock, NotifyBlock, RejectRequests, InterruptQueue, InterruptRPC, StopRPC, WaitExit,
         JoinEventThread, WakeSpuriously, httpVars
<1>2. /\ {running, blockNotifies, rpcRunning, rejecting, afterDelete}' \subseteq BOOLEAN
      /\ latestblock' \in 0 .. MaxBlocks
  <2>1. /\ running \in BOOLEAN /\ blockNotifies \in BOOLEAN /\ rpcRunning \in BOOLEAN
        /\ rejecting \in BOOLEAN /\ afterDelete \in BOOLEAN /\ latestblock \in 0 .. MaxBlocks
        /\ MaxBlocks \in Nat
    BY HttpAssumption, Zenon DEF HttpInv, HttpTyped, HttpTypeOK
  <2>2. /\ running' \in {running, FALSE} /\ blockNotifies' \in {blockNotifies, TRUE, FALSE}
        /\ rpcRunning' \in {rpcRunning, FALSE} /\ rejecting' \in {rejecting, TRUE}
        /\ afterDelete' = afterDelete
    BY Zenon DEF NewBlock, NotifyBlock, RejectRequests, InterruptQueue, InterruptRPC, StopRPC, WaitExit,
                 JoinEventThread, WakeSpuriously, httpVars
  <2>3. latestblock' = latestblock \/ (latestblock < MaxBlocks /\ latestblock' = latestblock + 1)
    BY Zenon DEF NewBlock, NotifyBlock, RejectRequests, InterruptQueue, InterruptRPC, StopRPC, WaitExit,
                 JoinEventThread, WakeSpuriously, httpVars
  <2>4. latestblock' \in 0 .. MaxBlocks
    BY <2>1, <2>3
  <2>5. {running, blockNotifies, rpcRunning, rejecting, afterDelete}' \subseteq BOOLEAN
    BY <2>1, <2>2, Zenon
  <2> QED
    BY <2>4, <2>5, Zenon
<1>3. /\ mainAt' \in {"run", "interrupted", "closing", "shutdown", "waitexit", "join", "stopped"}
      /\ deleted' = deleted
      /\ mainAt' = "stopped" => dispatching = NoRequest
  BY DEF HttpInv, HttpTyped, HttpTypeOK, Closed, deleted,
         NewBlock, NotifyBlock, RejectRequests, InterruptQueue, InterruptRPC, StopRPC, WaitExit,
         JoinEventThread, WakeSpuriously, httpVars
<1>4. HttpTyped'
  BY <1>1, <1>2, <1>3, Zenon DEF HttpInv, HttpTyped, HttpTypeOK
<1>5. InPlace
  BY <1>1, <1>3, Zenon DEF InPlace
<1> QED
  BY <1>4, <1>5, QuietStep, Zenon

LEMMA HttpFirst == HttpInit => HttpInv
<1> SUFFICES ASSUME HttpInit PROVE HttpInv
  BY Zenon
<1>1. Inside = {} /\ IsFiniteSet(Inside) /\ Cardinality(Inside) = 0
  BY FS_EmptySet, Zenon DEF HttpInit, Inside, Counted
<1>2. /\ httpQueue \in Seq(Requests) /\ Len(httpQueue) = 0 /\ DOMAIN httpQueue = {}
  BY DEF HttpInit
<1>3. Len(httpQueue) <= maxDepth
  BY <1>2, HttpAssumption
<1>4. HttpTyped
  <2>1. 0 \in 0 .. MaxBlocks /\ 0 \in Nat /\ numThreads \in Nat
    BY HttpAssumption DEF HttpInit
  <2>2. /\ seen \in [RpcWorkers -> 0 .. MaxBlocks] /\ replies \in [Requests -> Nat]
        /\ latestblock \in 0 .. MaxBlocks
    BY <2>1, Zenon DEF HttpInit
  <2>3. /\ workerAt \in [RpcWorkers -> Counted \cup {"created", "gone"}]
        /\ request \in [RpcWorkers -> Requests \cup {NoRequest}]
    BY Zenon DEF HttpInit
  <2>4. {running, blockNotifies, rpcRunning, rejecting, afterDelete} \subseteq BOOLEAN
    BY Zenon DEF HttpInit
  <2> QED
    BY <1>2, <1>3, <2>1, <2>2, <2>3, <2>4, Zenon DEF HttpInit, HttpTyped, HttpTypeOK
<1>5. Crew
  BY <1>1, Zenon DEF HttpInit, Crew, Working
<1>6. \A r \in Requests : ~Pending(r)
  BY <1>2, HttpAssumption, Zenon DEF HttpInit, Pending, Queued, HeldBy
<1>7. Apart
  BY <1>2, Zenon DEF HttpInit, Apart
<1>8. Accounted
  BY <1>6, Zenon DEF HttpInit, Accounted
<1>9. Closed
  BY DEF HttpInit, Closed, deleted
<1> QED
  BY <1>4, <1>5, <1>7, <1>8, <1>9, Zenon DEF HttpInv

(***************************************************************************)
(* HttpSafe.  However many workers there are and however long the queue    *)
(* is, every request is answered once, by a worker, by the event thread or *)
(* by the destructor of a queued item, and WaitExit lets the queue be      *)
(* deleted only when no thread is in WorkQueue::Run.                       *)
(***************************************************************************)
THEOREM HttpIsSafe == HttpSpec => []HttpSafe
<1>1. HttpInv /\ [HttpNext]_httpVars => HttpInv'
  <2> SUFFICES ASSUME HttpInv, [HttpNext]_httpVars PROVE HttpInv'
    OBVIOUS
  <2>1. ASSUME NEW w \in RpcWorkers, StartWorker(w) \/ WorkerStep(w) PROVE HttpInv'
    BY <2>1, StartStep, DequeueStep, LeaveStep, AnswerStep, WaitStep, Zenon DEF WorkerStep
  <2>2. CASE Finishing
    BY <2>2, DeleteStep, OtherStep, Zenon DEF Finishing
  <2>3. CASE HttpStopped
    BY <2>3, OtherStep, Zenon DEF HttpStopped
  <2> QED
    BY <2>1, <2>2, <2>3, ArriveStep, EnqueueStep, EnqueueDeletedStep, OtherStep, Zenon DEF HttpNext
<1>2. HttpInv => HttpSafe
  <2> SUFFICES ASSUME HttpInv PROVE HttpSafe
    BY Zenon
  <2>1. AnsweredOnce
    <3>1. mainAt = "stopped" => \A r \in Requests : ~Pending(r)
      BY HttpAssumption
         DEF HttpInv, Closed, Crew, Inside, deleted, Pending, Queued, HeldBy, Counted, Working
    <3>2. \A r \in Requests : replies[r] <= 1
      BY DEF HttpInv, Accounted
    <3>3. mainAt = "stopped" /\ ~afterDelete => \A r \in arrived : replies[r] = 1
      <4>1. arrived \subseteq Requests
        BY Zenon DEF HttpInv, HttpTyped, HttpTypeOK
      <4> QED
        BY <3>1, <4>1, Zenon DEF HttpInv, Accounted
    <3> QED
      BY <3>2, <3>3, Zenon DEF AnsweredOnce
  <2>2. NoWorkerAtDelete
    BY Zenon DEF HttpInv, HttpTyped, HttpTypeOK, Closed, Inside, NoWorkerAtDelete
  <2> QED
    BY <2>1, <2>2, Zenon DEF HttpInv, HttpTyped, HttpSafe
<1> QED
  BY <1>1, <1>2, HttpFirst, PTL DEF HttpSpec
=============================================================================
