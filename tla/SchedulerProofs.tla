-------------------------- MODULE SchedulerProofs ---------------------------
(***************************************************************************)
(* The scheduler, for any number of threads and tasks and any delays.      *)
(* That no task is lost or run twice needs where each one is, in the       *)
(* queue or with one thread; that a thread which is alone takes none       *)
(* early, that the first task is due no later than the thread's wait ends, *)
(* although tasks are inserted before it; and that a drained scheduler     *)
(* leaves nothing, that no thread leaves before stop().                    *)
(***************************************************************************)
EXTENDS Scheduler, FiniteSetTheorems, SequenceTheorems, TLAPS

QueueEntry == [task : Tasks, due : Nat]
InQueue(q, f) == \E i \in DOMAIN q : q[i].task = f
Distinct(q) == \A i, j \in DOMAIN q : q[i].task = q[j].task => i = j
Ticked(q) == [i \in DOMAIN q |-> [q[i] EXCEPT !.due = Sooner(@)]]

\* A task that is scheduled and not over is in one place.
TaskPlaces ==
    /\ Distinct(taskQueue)
    /\ \A s, u \in Servers : serving[s] = serving[u] => s = u \/ serving[s] = NoTask
    /\ \A s \in Servers : serving[s] # NoTask => ~InQueue(taskQueue, serving[s])
    /\ \A s \in Servers : serverAt[s] = "run" <=> serving[s] # NoTask
    /\ \A f \in Tasks : f \in called \ finished <=>
           InQueue(taskQueue, f) \/ \E s \in Servers : serving[s] = f

\* At most one thread was started.
Alone == \A s, u \in Servers : serverAt[s] # "start" /\ serverAt[u] # "start" => s = u

\* A thread that is alone waits for the first task or for a later time.
Timely ==
    Alone => /\ ~early
             /\ \A s \in Servers : serverAt[s] = "timed" =>
                    taskQueue # <<>> /\ Head(taskQueue).due <= deadline[s]

\* A thread leaves by itself only after stop().
Stopping ==
    /\ ~(stopRequested /\ stopWhenEmpty)
    /\ (\E s \in Servers : serverAt[s] = "done") => stopRequested \/ stopWhenEmpty

Outside == {"start", "done", "dead"}
Serving == {s \in Servers : serverAt[s] \notin Outside}

SchedTyped == SchedulerTypeOK /\ taskQueue \in Seq(QueueEntry)
SchedInv ==
    /\ SchedTyped /\ TaskPlaces /\ Timely /\ Stopping
    /\ nThreadsServicingQueue = Cardinality(Serving) /\ DrainLeavesNothing

-----------------------------------------------------------------------------
LEMMA CountUpTo ==
    ASSUME NEW n \in Nat
    PROVE  IsFiniteSet(1 .. n) /\ Cardinality(1 .. n) = n
  <1>1. /\ IsFiniteSet(1 .. n)
        /\ Cardinality(1 .. n) = IF 1 > n THEN 0 ELSE n - 1 + 1
    BY FS_Interval
  <1>2. (IF 1 > n THEN 0 ELSE n - 1 + 1) = n
    OBVIOUS
  <1> QED
    BY <1>1, <1>2

\* What insertion does to the queue, entry by entry.
LEMMA InsertedIs ==
    ASSUME NEW q \in Seq(QueueEntry), NEW f \in Tasks
    PROVE  \E k \in 0 .. Len(q) :
             /\ Inserted(q, f) \in Seq(QueueEntry)
             /\ Len(Inserted(q, f)) = Len(q) + 1
             /\ \A i \in 1 .. Len(q) + 1 : Inserted(q, f)[i] =
                    IF i <= k THEN q[i]
                    ELSE IF i = k + 1 THEN [task |-> f, due |-> deltaSeconds[f]] ELSE q[i - 1]
             /\ k = 0 => \A i \in 1 .. Len(q) : q[i].due > deltaSeconds[f]
  <1> DEFINE d == deltaSeconds[f]
             new == [task |-> f, due |-> d]
             K == {i \in DOMAIN q : q[i].due <= d}
             k == Cardinality(K)
             a == SubSeq(q, 1, k)
             b == SubSeq(q, k + 1, Len(q))
  <1>1. Len(q) \in Nat /\ DOMAIN q = 1 .. Len(q) /\ d \in Nat /\ new \in QueueEntry
        /\ \A i \in 1 .. Len(q) : q[i] \in QueueEntry
    BY LenProperties, ElementOfSeq, SchedulerAssumption, Zenon DEF QueueEntry
  <1>2. IsFiniteSet(1 .. Len(q)) /\ Cardinality(1 .. Len(q)) = Len(q)
    <2>1. \A n \in Nat : IsFiniteSet(1 .. n) /\ Cardinality(1 .. n) = n
      BY CountUpTo, Zenon
    <2> QED
      BY <1>1, <2>1, Zenon
  <1>3. K \in SUBSET (1 .. Len(q))
    BY <1>1, Zenon
  <1>4. IsFiniteSet(K) /\ k \in 0 .. Len(q)
    <2>1. IsFiniteSet(K) /\ k <= Len(q)
      BY <1>2, <1>3, FS_Subset
    <2>2. k \in Nat
      BY <2>1, FS_CardinalityType, Zenon
    <2> QED
      BY <1>1, <2>1, <2>2
  <1>5. k = 0 => \A i \in 1 .. Len(q) : q[i].due > d
    <2> SUFFICES ASSUME k = 0, NEW i \in 1 .. Len(q) PROVE q[i].due > d
      BY Zenon
    <2>1. K = {}
      BY <1>4, FS_EmptySet, Zenon
    <2>2. q[i].due \in Nat /\ ~(q[i].due <= d)
      BY <1>1, <2>1, Zenon DEF QueueEntry
    <2> QED
      BY <1>1, <2>2
  <1> HIDE DEF K, k, d
  <1>6. /\ a \in Seq(QueueEntry) /\ Len(a) = k
        /\ \A i \in 1 .. k : a[i] = q[i]
    BY <1>1, <1>4, SubSeqProperties
  <1>7. /\ b \in Seq(QueueEntry) /\ Len(b) = Len(q) - k
        /\ \A i \in 1 .. Len(q) - k : b[i] = q[k + i]
    <2>1. k \in Nat /\ k <= Len(q) /\ \A i \in k + 1 .. Len(q) : q[i] \in QueueEntry
      BY <1>1, <1>4
    <2>2. k + 1 \in Int /\ Len(q) \in Int
      BY <1>1, <2>1
    <2>3. /\ b \in Seq(QueueEntry)
          /\ Len(b) = IF k + 1 <= Len(q) THEN Len(q) - (k + 1) + 1 ELSE 0
          /\ \A i \in 1 .. Len(q) - (k + 1) + 1 : b[i] = q[k + 1 + i - 1]
      BY <2>1, <2>2, SubSeqProperties
    <2> HIDE DEF b
    <2>4. Len(b) = Len(q) - k /\ Len(q) - (k + 1) + 1 = Len(q) - k
      <3> DEFINE n == Len(q)
      <3>1. n \in Nat /\ k \in Nat /\ k <= n /\ Len(b) = IF k + 1 <= n THEN n - (k + 1) + 1 ELSE 0
        BY <1>1, <2>1, <2>3, Zenon
      <3> HIDE DEF n
      <3>2. Len(b) = n - k /\ n - (k + 1) + 1 = n - k
        BY <3>1
      <3> QED
        BY <3>2, Zenon DEF n
    <2>5. \A i \in 1 .. Len(q) - k : k + 1 + i - 1 = k + i
      BY <1>1, <2>1
    <2> QED
      BY <2>3, <2>4, <2>5, Zenon
  <1>8. <<new>> \in Seq(QueueEntry) /\ Len(<<new>>) = 1 /\ <<new>>[1] = new
    BY <1>1
  <1> HIDE DEF new, a, b
  <1> DEFINE an == a \o <<new>>
  <1>9. /\ an \in Seq(QueueEntry) /\ Len(an) = k + 1
        /\ \A i \in 1 .. k + 1 : an[i] = IF i <= k THEN a[i] ELSE new
    BY <1>4, <1>6, <1>8, ConcatProperties
  <1> HIDE DEF an
  <1>10. /\ an \o b \in Seq(QueueEntry) /\ Len(an \o b) = Len(q) + 1
         /\ \A i \in 1 .. Len(q) + 1 :
               (an \o b)[i] = IF i <= k + 1 THEN an[i] ELSE b[i - (k + 1)]
    <2>1. /\ an \o b \in Seq(QueueEntry) /\ Len(an \o b) = Len(an) + Len(b)
          /\ \A i \in 1 .. Len(an) + Len(b) :
                (an \o b)[i] = IF i <= Len(an) THEN an[i] ELSE b[i - Len(an)]
      BY <1>7, <1>9, ConcatProperties, Zenon
    <2>2. Len(an) = k + 1 /\ Len(an) + Len(b) = Len(q) + 1
      BY <1>1, <1>4, <1>7, <1>9
    <2> QED
      BY <2>1, <2>2, Zenon
  <1>11. Inserted(q, f) = an \o b
    BY Zenon DEF Inserted, an, a, b, new, k, K, d
  <1>12. \A i \in 1 .. Len(q) + 1 :
            (an \o b)[i] = IF i <= k THEN q[i] ELSE IF i = k + 1 THEN new ELSE q[i - 1]
    <2> SUFFICES ASSUME NEW i \in 1 .. Len(q) + 1
                 PROVE  (an \o b)[i] = IF i <= k THEN q[i]
                                       ELSE IF i = k + 1 THEN new ELSE q[i - 1]
      BY Zenon
    <2>1. CASE i <= k
      BY <1>1, <1>4, <1>6, <1>9, <1>10, <2>1
    <2>2. CASE i = k + 1
      BY <1>1, <1>4, <1>9, <1>10, <2>2
    <2>3. CASE i > k + 1
      <3>1. i - (k + 1) \in 1 .. Len(q) - k /\ k + (i - (k + 1)) = i - 1
        BY <1>1, <1>4, <2>3
      <3>2. (an \o b)[i] = b[i - (k + 1)]
        BY <1>1, <1>4, <1>10, <2>3
      <3>3. b[i - (k + 1)] = q[k + (i - (k + 1))]
        BY <1>7, <3>1
      <3>4. ~(i <= k) /\ i # k + 1
        BY <1>1, <1>4, <2>3
      <3> QED
        BY <3>1, <3>2, <3>3, <3>4, Zenon
    <2>4. i <= k \/ i = k + 1 \/ i > k + 1
      BY <1>1, <1>4
    <2> QED
      BY <2>1, <2>2, <2>3, <2>4, Zenon
  <1> QED
    BY <1>1, <1>4, <1>5, <1>10, <1>11, <1>12, Zenon DEF new, d

\* Insertion adds the task and nothing else, and the first is not due later.
LEMMA InsertedQueue ==
    ASSUME NEW q \in Seq(QueueEntry), NEW f \in Tasks, ~InQueue(q, f), Distinct(q)
    PROVE  /\ Inserted(q, f) \in Seq(QueueEntry) /\ Inserted(q, f) # <<>>
           /\ Distinct(Inserted(q, f))
           /\ \A g : InQueue(Inserted(q, f), g) <=> g = f \/ InQueue(q, g)
           /\ q # <<>> => Head(Inserted(q, f)).due <= Head(q).due
  <1> DEFINE r == Inserted(q, f)
             new == [task |-> f, due |-> deltaSeconds[f]]
  <1>1. PICK k \in 0 .. Len(q) :
             /\ r \in Seq(QueueEntry) /\ Len(r) = Len(q) + 1
             /\ \A i \in 1 .. Len(q) + 1 :
                   r[i] = IF i <= k THEN q[i] ELSE IF i = k + 1 THEN new ELSE q[i - 1]
             /\ k = 0 => \A i \in 1 .. Len(q) : q[i].due > deltaSeconds[f]
    BY InsertedIs, Zenon
  <1>2. Len(q) \in Nat /\ DOMAIN q = 1 .. Len(q) /\ DOMAIN r = 1 .. Len(q) + 1
        /\ deltaSeconds[f] \in Nat /\ \A i \in 1 .. Len(q) : q[i] \in QueueEntry
    BY <1>1, LenProperties, ElementOfSeq, SchedulerAssumption, Zenon
  <1> HIDE DEF r
  <1>3. \A i \in 1 .. Len(q) : q[i].task # f
    BY <1>2, Zenon DEF InQueue
  <1>4. \A i \in 1 .. Len(q) + 1 : r[i].task =
            IF i <= k THEN q[i].task ELSE IF i = k + 1 THEN f ELSE q[i - 1].task
    BY <1>1, <1>2
  <1>5. Distinct(r)
    <2> SUFFICES ASSUME NEW i \in 1 .. Len(q) + 1, NEW j \in 1 .. Len(q) + 1,
                        r[i].task = r[j].task
                 PROVE  i = j
      BY <1>2, Zenon DEF Distinct
    <2>1. \A m, n \in 1 .. Len(q) : q[m].task = q[n].task => m = n
      BY <1>2, Zenon DEF Distinct
    <2>2. CASE i = k + 1 \/ j = k + 1
      BY <1>1, <1>2, <1>3, <1>4, <2>2
    <2>3. CASE i # k + 1 /\ j # k + 1
      <3> DEFINE m == IF i <= k THEN i ELSE i - 1
                 n == IF j <= k THEN j ELSE j - 1
      <3>1. m \in 1 .. Len(q) /\ n \in 1 .. Len(q)
        BY <1>1, <1>2, <2>3
      <3>2. r[i].task = q[m].task /\ r[j].task = q[n].task
        BY <1>1, <1>2, <1>4, <2>3, Zenon
      <3>3. m = n
        BY <2>1, <3>1, <3>2, Zenon
      <3> QED
        BY <1>1, <1>2, <2>3, <3>3
    <2> QED
      BY <2>2, <2>3, Zenon
  <1>6. ASSUME NEW g PROVE InQueue(r, g) <=> g = f \/ InQueue(q, g)
    <2>1. ASSUME InQueue(r, g) PROVE g = f \/ InQueue(q, g)
      <3>1. PICK i \in 1 .. Len(q) + 1 : r[i].task = g
        BY <1>2, <2>1, Zenon DEF InQueue
      <3> DEFINE m == IF i <= k THEN i ELSE i - 1
      <3>2. CASE i = k + 1
        BY <1>1, <1>2, <1>4, <3>1, <3>2
      <3>3. CASE i # k + 1
        <4>1. m \in DOMAIN q /\ r[i].task = q[m].task
          BY <1>1, <1>2, <1>4, <3>3
        <4> QED
          BY <3>1, <4>1, Zenon DEF InQueue
      <3> QED
        BY <3>2, <3>3, Zenon
    <2>2. InQueue(r, f)
      <3>1. k + 1 \in DOMAIN r /\ r[k + 1].task = f
        BY <1>1, <1>2, <1>4
      <3> QED
        BY <3>1, Zenon DEF InQueue
    <2>3. ASSUME InQueue(q, g) PROVE InQueue(r, g)
      <3>1. PICK i \in 1 .. Len(q) : q[i].task = g
        BY <1>2, <2>3, Zenon DEF InQueue
      <3> DEFINE m == IF i <= k THEN i ELSE i + 1
      <3>2. m \in DOMAIN r
        BY <1>1, <1>2
      <3>3. r[m].task = g
        BY <1>1, <1>2, <1>4, <3>1
      <3> QED
        BY <3>2, <3>3, Zenon DEF InQueue
    <2> QED
      BY <2>1, <2>2, <2>3, Zenon
  <1>7. r # <<>>
    BY <1>1, <1>2, EmptySeq
  <1>8. ASSUME q # <<>> PROVE Head(r).due <= Head(q).due
    <2>1. Len(q) > 0 /\ Head(q) = q[1] /\ Head(r) = r[1] /\ q[1].due \in Nat
      BY <1>1, <1>2, <1>7, <1>8, EmptySeq DEF QueueEntry
    <2> QED
      BY <1>1, <1>2, <2>1
  <1> QED
    BY <1>1, <1>5, <1>6, <1>7, <1>8, Zenon DEF r

\* Taking the first task takes it and nothing else.
LEMMA TailQueue ==
    ASSUME NEW q \in Seq(QueueEntry), q # <<>>, Distinct(q)
    PROVE  /\ Tail(q) \in Seq(QueueEntry) /\ Distinct(Tail(q))
           /\ Head(q).task \in Tasks /\ InQueue(q, Head(q).task)
           /\ \A g : InQueue(Tail(q), g) <=> InQueue(q, g) /\ g # Head(q).task
  <1>1. /\ Len(q) \in Nat \ {0} /\ DOMAIN q = 1 .. Len(q) /\ Head(q) = q[1]
        /\ Tail(q) \in Seq(QueueEntry) /\ DOMAIN Tail(q) = 1 .. Len(q) - 1
        /\ \A i \in 1 .. Len(q) - 1 : Tail(q)[i] = q[i + 1]
        /\ \A i \in 1 .. Len(q) : q[i] \in QueueEntry
    BY LenProperties, ElementOfSeq, EmptySeq, HeadTailProperties
  <1>2. Distinct(Tail(q))
    BY <1>1 DEF Distinct
  <1>3. Head(q).task \in Tasks /\ InQueue(q, Head(q).task)
    BY <1>1 DEF QueueEntry, InQueue
  <1>4. ASSUME NEW g PROVE InQueue(Tail(q), g) <=> InQueue(q, g) /\ g # Head(q).task
    <2>1. ASSUME InQueue(Tail(q), g) PROVE InQueue(q, g) /\ g # Head(q).task
      <3>1. PICK i \in 1 .. Len(q) - 1 : q[i + 1].task = g
        BY <1>1, <2>1, Zenon DEF InQueue
      <3> QED
        BY <1>1, <3>1 DEF InQueue, Distinct
    <2>2. ASSUME InQueue(q, g), g # Head(q).task PROVE InQueue(Tail(q), g)
      <3>1. PICK i \in 1 .. Len(q) : q[i].task = g
        BY <1>1, <2>2, Zenon DEF InQueue
      <3>2. i - 1 \in DOMAIN Tail(q) /\ Tail(q)[i - 1].task = g
        BY <1>1, <2>2, <3>1
      <3> QED
        BY <3>2, Zenon DEF InQueue
    <2> QED
      BY <2>1, <2>2, Zenon
  <1> QED
    BY <1>1, <1>2, <1>3, <1>4, Zenon

\* Time passes and moves nothing.
LEMMA TickedQueue ==
    ASSUME NEW q \in Seq(QueueEntry)
    PROVE  /\ Ticked(q) \in Seq(QueueEntry)
           /\ Ticked(q) = <<>> <=> q = <<>>
           /\ Distinct(q) => Distinct(Ticked(q))
           /\ \A g : InQueue(Ticked(q), g) <=> InQueue(q, g)
           /\ q # <<>> => Head(Ticked(q)).due = Sooner(Head(q).due)
  <1>1. Len(q) \in Nat /\ DOMAIN q = 1 .. Len(q) /\ \A i \in 1 .. Len(q) : q[i] \in QueueEntry
    BY LenProperties, ElementOfSeq, Zenon
  <1>2. \A i \in 1 .. Len(q) : /\ Ticked(q)[i] \in QueueEntry /\ Ticked(q)[i].task = q[i].task
                               /\ Ticked(q)[i].due = Sooner(q[i].due)
    BY <1>1 DEF Ticked, QueueEntry, Sooner
  <1>3. Ticked(q) \in [1 .. Len(q) -> QueueEntry]
    BY <1>1, <1>2, Zenon DEF Ticked
  <1>4. Ticked(q) \in Seq(QueueEntry) /\ Len(Ticked(q)) = Len(q) /\ DOMAIN Ticked(q) = 1 .. Len(q)
    BY <1>1, <1>3
  <1>5. Ticked(q) = <<>> <=> q = <<>>
    BY <1>1, <1>4, EmptySeq, Zenon
  <1>6. q # <<>> => Head(Ticked(q)).due = Sooner(Head(q).due)
    BY <1>1, <1>2, <1>4, <1>5, EmptySeq
  <1> QED
    BY <1>1, <1>2, <1>4, <1>5, <1>6, Zenon DEF Distinct, InQueue


\* What a queue holds.
LEMMA QueueTyped ==
    ASSUME NEW q \in Seq(QueueEntry)
    PROVE  /\ \A i \in DOMAIN q : q[i].task \in Tasks /\ q[i].due \in Nat
           /\ q # <<>> => Head(q).task \in Tasks /\ Head(q).due \in Nat
  <1>1. \A e \in QueueEntry : e.task \in Tasks /\ e.due \in Nat
    BY Zenon DEF QueueEntry
  <1>2. \A i \in DOMAIN q : q[i] \in QueueEntry
    BY LenProperties, ElementOfSeq, Zenon
  <1>3. q # <<>> => Head(q) \in QueueEntry
    BY HeadTailProperties, Zenon
  <1> QED
    BY <1>1, <1>2, <1>3, Zenon

\* One thread moves: the count of those in the loop follows.
LEMMA ThreadMoves ==
    ASSUME SchedTyped, NEW s \in Servers, NEW x,
           serverAt' = [serverAt EXCEPT ![s] = x]
    PROVE  /\ Cardinality(Serving) \in Nat
           /\ s \in Serving /\ x \in Outside
                 => Cardinality(Serving)' = Cardinality(Serving) - 1
           /\ s \notin Serving /\ x \notin Outside
                 => Cardinality(Serving)' = Cardinality(Serving) + 1
           /\ (s \in Serving <=> x \notin Outside)
                 => Cardinality(Serving)' = Cardinality(Serving)
  <1>1. IsFiniteSet(Serving)
    BY SchedulerAssumption, FS_Subset, Zenon DEF Serving
  <1>2. Serving' = IF x \in Outside THEN Serving \ {s} ELSE Serving \cup {s}
    BY Zenon DEF Serving, SchedTyped, SchedulerTypeOK
  <1>3. /\ Cardinality(Serving \ {s}) =
              IF s \in Serving THEN Cardinality(Serving) - 1 ELSE Cardinality(Serving)
        /\ Cardinality(Serving \cup {s}) =
              IF s \in Serving THEN Cardinality(Serving) ELSE Cardinality(Serving) + 1
        /\ Cardinality(Serving) \in Nat
    BY <1>1, FS_AddElement, FS_RemoveElement, FS_CardinalityType, Zenon
  <1> HIDE DEF Serving
  <1> QED
    BY <1>2, <1>3, Zenon

-----------------------------------------------------------------------------
\* Whoever is notified, the others sleep on.
LEMMA NotifiedSleepers ==
    ASSUME sleepers \subseteq Servers, sleepers' \in OneNotified(sleepers)
    PROVE  sleepers' \subseteq Servers
BY Zenon DEF OneNotified

\* A step that leaves tasks, places and flags alone.
Still ==
    /\ UNCHANGED <<taskQueue, nThreadsServicingQueue, stopRequested, stopWhenEmpty, serverAt, deadline,
                   serving, called, finished, early>>
    /\ sleepers' \subseteq Servers /\ notifies' \in Nat /\ notifyAll' \in BOOLEAN
    /\ interrupted' \in BOOLEAN

LEMMA StillStep ==
    ASSUME SchedInv, Still
    PROVE  SchedInv'
<1>1. SchedTyped'
  BY Zenon DEF SchedInv, SchedTyped, SchedulerTypeOK, Still
<1>2. TaskPlaces' /\ Stopping'
  BY Zenon DEF SchedInv, TaskPlaces, Stopping, Distinct, InQueue, Still
<1>3. Timely' /\ DrainLeavesNothing'
  BY Zenon DEF SchedInv, Timely, Alone, DrainLeavesNothing, Still
<1>4. (nThreadsServicingQueue = Cardinality(Serving))'
  BY Zenon DEF SchedInv, Serving, Still
<1> QED
  BY <1>1, <1>2, <1>3, <1>4, Zenon DEF SchedInv

\* The loops of serviceQueue: a thread leaves, sleeps, or is interrupted.
LEMMA LoopStep ==
    ASSUME SchedInv, NEW s \in Servers, serverAt[s] \in {"start", "idle", "timed", "notify", "relock"},
           NEW n, n = IF serverAt[s] = "start" THEN nThreadsServicingQueue + 1 ELSE nThreadsServicingQueue,
           ServiceLoop(s, n)
    PROVE  SchedInv'
<1>1. UNCHANGED <<taskQueue, stopRequested, stopWhenEmpty, serving, notifies, notifyAll,
                  interrupted, called, finished, early>>
  BY Zenon DEF ServiceLoop
<1>2. PICK x \in {"done", "idle", "timed", "dead"} :
        /\ serverAt' = [serverAt EXCEPT ![s] = x]
        /\ nThreadsServicingQueue' = IF x \in {"done", "dead"} THEN n - 1 ELSE n
        /\ x = "done" => shouldStop
        /\ x = "timed" => taskQueue # <<>> /\ deadline' = [deadline EXCEPT ![s] = Head(taskQueue).due]
        /\ x # "timed" => UNCHANGED deadline
        /\ sleepers' \in OneNotified(sleepers) \cup {sleepers, sleepers \cup {s}}
  BY Zenon DEF ServiceLoop, Leave, SleepIdle, SleepTimed, ThrownAtWait
<1>3. /\ SchedTyped /\ TaskPlaces /\ Timely /\ Stopping /\ DrainLeavesNothing
      /\ nThreadsServicingQueue = Cardinality(Serving)
  BY Zenon DEF SchedInv
<1>4. serverAt \in [Servers -> {"start", "idle", "timed", "run", "notify", "relock", "done", "dead"}]
      /\ deadline \in [Servers -> Nat] /\ sleepers \subseteq Servers
  BY <1>3, Zenon DEF SchedTyped, SchedulerTypeOK
<1>5. /\ serverAt' \in [Servers -> {"start", "idle", "timed", "run", "notify", "relock", "done", "dead"}]
      /\ serverAt'[s] = x /\ \A u \in Servers : u # s => serverAt'[u] = serverAt[u]
  BY <1>2, <1>4
<1>6. taskQueue # <<>> => Head(taskQueue).due \in Nat
  BY <1>3, QueueTyped, Zenon DEF SchedTyped
<1>7. deadline' \in [Servers -> Nat]
      /\ (x = "timed" => deadline'[s] = Head(taskQueue).due)
      /\ \A u \in Servers : u # s => deadline'[u] = deadline[u]
  BY <1>2, <1>4, <1>6, Zenon
<1>8. sleepers' \subseteq Servers
  BY <1>2, <1>4 DEF OneNotified
<1>9. nThreadsServicingQueue' = Cardinality(Serving)' /\ nThreadsServicingQueue' \in Nat
  <2>1. s \in Serving <=> serverAt[s] # "start"
    BY Zenon DEF Serving, Outside
  <2>2. x \in Outside <=> x \in {"done", "dead"}
    BY Zenon DEF Outside
  <2>3. /\ Cardinality(Serving) \in Nat
        /\ s \in Serving /\ x \in Outside => Cardinality(Serving)' = Cardinality(Serving) - 1
        /\ s \notin Serving /\ x \notin Outside => Cardinality(Serving)' = Cardinality(Serving) + 1
        /\ (s \in Serving <=> x \notin Outside) => Cardinality(Serving)' = Cardinality(Serving)
    BY <1>2, <1>3, ThreadMoves
  <2>4. nThreadsServicingQueue' = Cardinality(Serving)'
    BY <1>2, <1>3, <2>1, <2>2, <2>3
  <2>5. Serving' \subseteq Servers
    BY Zenon DEF Serving
  <2>6. Cardinality(Serving') \in Nat
    BY <2>5, SchedulerAssumption, FS_Subset, FS_CardinalityType, Zenon
  <2> QED
    BY <2>4, <2>6, Zenon
<1>10. SchedTyped'
  BY <1>1, <1>3, <1>5, <1>7, <1>8, <1>9 DEF SchedTyped, SchedulerTypeOK
<1>11. TaskPlaces'
  <2>1. \A u \in Servers : serverAt'[u] = "run" <=> serverAt[u] = "run"
    BY <1>5
  <2> QED
    BY <1>1, <1>3, <2>1, Zenon DEF TaskPlaces
<1>12. Timely'
  <2>1. Alone' => Alone
    BY <1>5 DEF Alone
  <2>2. ASSUME Alone', NEW u \in Servers, serverAt'[u] = "timed"
        PROVE  taskQueue # <<>> /\ Head(taskQueue).due <= deadline'[u]
    <3>1. u = s
      BY <1>5, <2>2, Zenon DEF Alone
    <3>2. x = "timed"
      BY <1>5, <2>2, <3>1, Zenon
    <3> QED
      BY <1>2, <1>6, <1>7, <3>1, <3>2
  <2> QED
    BY <1>1, <1>3, <2>1, <2>2, Zenon DEF Timely
<1>13. Stopping'
  BY <1>1, <1>2, <1>3, <1>5, Zenon DEF Stopping, shouldStop
<1>14. DrainLeavesNothing'
  <2> SUFFICES ASSUME stopWhenEmpty, \A u \in Servers : serverAt'[u] \in {"start", "done"}
               PROVE  taskQueue = <<>>
    BY <1>1, Zenon DEF DrainLeavesNothing
  <2>1. x = "done"
    BY <1>5, Zenon
  <2> QED
    BY <1>2, <1>3, <2>1, Zenon DEF Stopping, shouldStop
<1> QED
  BY <1>9, <1>10, <1>11, <1>12, <1>13, <1>14, Zenon DEF SchedInv

\* A thread's wait ends and it takes the first task.
LEMMA TakeTaskStep ==
    ASSUME SchedInv, NEW s \in Servers, TimedOut(s)
    PROVE  SchedInv'
<1> DEFINE f == Head(taskQueue).task
<1>1. /\ serverAt[s] = "timed" /\ deadline[s] = 0 /\ taskQueue # <<>>
      /\ serving' = [serving EXCEPT ![s] = f]
      /\ early' = (early \/ Head(taskQueue).due > 0) /\ taskQueue' = Tail(taskQueue)
      /\ serverAt' = [serverAt EXCEPT ![s] = "run"] /\ sleepers' = sleepers \ {s}
      /\ UNCHANGED <<nThreadsServicingQueue, stopRequested, stopWhenEmpty, deadline, notifies,
                     notifyAll, interrupted, called, finished>>
  BY Zenon DEF TimedOut, TakeFirst
<1>2. /\ SchedTyped /\ TaskPlaces /\ Timely /\ Stopping /\ DrainLeavesNothing
      /\ nThreadsServicingQueue = Cardinality(Serving)
  BY Zenon DEF SchedInv
<1>3. taskQueue \in Seq(QueueEntry) /\ Distinct(taskQueue)
  BY <1>2, Zenon DEF SchedTyped, TaskPlaces
<1>4. /\ taskQueue' \in Seq(QueueEntry) /\ Distinct(taskQueue')
      /\ f \in Tasks /\ InQueue(taskQueue, f)
      /\ \A g : InQueue(taskQueue', g) <=> InQueue(taskQueue, g) /\ g # f
  BY <1>1, <1>3, TailQueue
<1>5. Head(taskQueue).due \in Nat
  BY <1>1, <1>3, QueueTyped, Zenon
<1> HIDE DEF f
<1>6. /\ serverAt' \in [Servers -> {"start", "idle", "timed", "run", "notify", "relock", "done", "dead"}]
      /\ serverAt'[s] = "run" /\ \A u \in Servers : u # s => serverAt'[u] = serverAt[u]
  BY <1>1, <1>2 DEF SchedTyped, SchedulerTypeOK
<1>7. /\ serving' \in [Servers -> Tasks \cup {NoTask}]
      /\ serving'[s] = f /\ \A u \in Servers : u # s => serving'[u] = serving[u]
  BY <1>1, <1>2, <1>4, Zenon DEF SchedTyped, SchedulerTypeOK
<1>8. SchedTyped'
  <2>1. \A i \in DOMAIN taskQueue' : taskQueue'[i].task \in Tasks /\ taskQueue'[i].due \in Nat
    BY <1>4, QueueTyped, Zenon
  <2>2. early' \in BOOLEAN
    BY <1>1
  <2> QED
    BY <1>1, <1>2, <1>4, <1>6, <1>7, <2>1, <2>2, Zenon DEF SchedTyped, SchedulerTypeOK
<1>9. f # NoTask /\ serving[s] = NoTask
  BY <1>1, <1>2, <1>4, SchedulerAssumption, Zenon DEF TaskPlaces
<1>10. \A u \in Servers : serving[u] # f
  BY <1>2, <1>4, <1>9, Zenon DEF TaskPlaces
<1>11. TaskPlaces'
  <2>1. \A u, v \in Servers : serving'[u] = serving'[v] => u = v \/ serving'[u] = NoTask
    BY <1>2, <1>7, <1>10, Zenon DEF TaskPlaces
  <2>2. \A u \in Servers : serving'[u] # NoTask => ~InQueue(taskQueue', serving'[u])
    BY <1>2, <1>4, <1>7, <1>10, Zenon DEF TaskPlaces
  <2>3. \A u \in Servers : serverAt'[u] = "run" <=> serving'[u] # NoTask
    BY <1>2, <1>6, <1>7, <1>9, Zenon DEF TaskPlaces
  <2>4. \A g \in Tasks : (\E u \in Servers : serving'[u] = g) <=> g = f \/ \E u \in Servers : serving[u] = g
    BY <1>7, <1>9, SchedulerAssumption, Zenon
  <2>5. \A g \in Tasks : g \in called \ finished <=>
           InQueue(taskQueue', g) \/ \E u \in Servers : serving'[u] = g
    BY <1>2, <1>4, <2>4, Zenon DEF TaskPlaces
  <2> QED
    BY <1>1, <1>4, <2>1, <2>2, <2>3, <2>5, Zenon DEF TaskPlaces
<1>12. Timely'
  <2>1. Alone' => Alone
    BY <1>1, <1>6 DEF Alone
  <2>2. Alone' => ~early'
    <3>1. Alone => ~early /\ Head(taskQueue).due <= 0
      BY <1>1, <1>2, Zenon DEF Timely
    <3>2. Alone => ~(Head(taskQueue).due > 0)
      BY <1>5, <3>1
    <3> QED
      BY <1>1, <2>1, <3>1, <3>2, Zenon
  <2>3. Alone' => \A u \in Servers : serverAt'[u] # "timed"
    BY <1>6, Zenon DEF Alone
  <2> QED
    BY <2>2, <2>3, Zenon DEF Timely
<1>13. Stopping' /\ DrainLeavesNothing'
  BY <1>1, <1>2, <1>6, Zenon DEF Stopping, DrainLeavesNothing
<1>14. (nThreadsServicingQueue = Cardinality(Serving))'
  <2>1. Serving' = Serving
    BY <1>1, <1>6 DEF Serving, Outside
  <2> QED
    BY <1>1, <1>2, <2>1, Zenon
<1> QED
  BY <1>8, <1>11, <1>12, <1>13, <1>14, Zenon DEF SchedInv

\* A thread is done with its task: it goes back, or the task is scheduled again.
LEMMA RunTaskStep ==
    ASSUME SchedInv, NEW s \in Servers, RunTask(s)
    PROVE  SchedInv'
<1> DEFINE f == serving[s]
<1>1. /\ serverAt[s] = "run"
      /\ serving' = [serving EXCEPT ![s] = NoTask]
      /\ \E x \in {"notify", "relock"} : serverAt' = [serverAt EXCEPT ![s] = x]
      /\ \/ taskQueue' = Inserted(taskQueue, f) /\ finished' = finished
         \/ taskQueue' = taskQueue /\ finished' = finished \cup {f}
      /\ UNCHANGED <<nThreadsServicingQueue, stopRequested, stopWhenEmpty, deadline, sleepers,
                     notifies, notifyAll, interrupted, called, early>>
  BY DEF RunTask
<1>2. /\ SchedTyped /\ TaskPlaces /\ Timely /\ Stopping /\ DrainLeavesNothing
      /\ nThreadsServicingQueue = Cardinality(Serving)
  BY Zenon DEF SchedInv
<1>3. taskQueue \in Seq(QueueEntry) /\ Distinct(taskQueue)
  BY <1>2, Zenon DEF SchedTyped, TaskPlaces
<1>4. /\ f \in Tasks /\ f # NoTask /\ f \in called /\ f \notin finished /\ ~InQueue(taskQueue, f)
      /\ \A u \in Servers : u # s => serving[u] # f
  <2>1. f # NoTask
    BY <1>1, <1>2, Zenon DEF TaskPlaces
  <2>2. f \in Tasks
    BY <1>2, <2>1, Zenon DEF SchedTyped, SchedulerTypeOK
  <2> QED
    BY <1>2, <2>1, <2>2, Zenon DEF TaskPlaces
<1> HIDE DEF f
<1>5. /\ serverAt' \in [Servers -> {"start", "idle", "timed", "run", "notify", "relock", "done", "dead"}]
      /\ serverAt'[s] \in {"notify", "relock"}
      /\ \A u \in Servers : u # s => serverAt'[u] = serverAt[u]
  BY <1>1, <1>2 DEF SchedTyped, SchedulerTypeOK
<1>6. /\ serving' \in [Servers -> Tasks \cup {NoTask}]
      /\ serving'[s] = NoTask /\ \A u \in Servers : u # s => serving'[u] = serving[u]
  BY <1>1, <1>2, Zenon DEF SchedTyped, SchedulerTypeOK
<1>7. /\ taskQueue' \in Seq(QueueEntry) /\ Distinct(taskQueue')
      /\ \/ /\ finished' = finished
            /\ \A g : InQueue(taskQueue', g) <=> g = f \/ InQueue(taskQueue, g)
         \/ taskQueue' = taskQueue /\ finished' = finished \cup {f}
  <2>1. CASE taskQueue' = Inserted(taskQueue, f) /\ finished' = finished
    BY <1>3, <1>4, <2>1, InsertedQueue, Zenon
  <2>2. CASE taskQueue' = taskQueue /\ finished' = finished \cup {f}
    BY <1>3, <2>2, Zenon
  <2> QED
    BY <1>1, <2>1, <2>2
<1>8. SchedTyped'
  <2>1. \A i \in DOMAIN taskQueue' : taskQueue'[i].task \in Tasks /\ taskQueue'[i].due \in Nat
    BY <1>7, QueueTyped
  <2>2. finished' \subseteq called'
    BY <1>1, <1>2, <1>4, Zenon DEF SchedTyped, SchedulerTypeOK
  <2> QED
    BY <1>1, <1>2, <1>5, <1>6, <1>7, <2>1, <2>2, Zenon DEF SchedTyped, SchedulerTypeOK
<1>9. TaskPlaces'
  <2>1. \A u, v \in Servers : serving'[u] = serving'[v] => u = v \/ serving'[u] = NoTask
    BY <1>2, <1>6, Zenon DEF TaskPlaces
  <2>2. \A g : InQueue(taskQueue', g) => g = f \/ InQueue(taskQueue, g)
    BY <1>7, Zenon
  <2>3. \A u \in Servers : serving'[u] # NoTask => ~InQueue(taskQueue', serving'[u])
    BY <1>2, <1>4, <1>6, <2>2, Zenon DEF TaskPlaces
  <2>4. \A u \in Servers : serverAt'[u] = "run" <=> serving'[u] # NoTask
    BY <1>2, <1>5, <1>6 DEF TaskPlaces
  <2>5. \A g \in Tasks : (\E u \in Servers : serving'[u] = g) <=> g # f /\ \E u \in Servers : serving[u] = g
    BY <1>4, <1>6, SchedulerAssumption, Zenon DEF f
  <2>6. \A g \in Tasks : g \in called \ finished' <=>
           InQueue(taskQueue', g) \/ \E u \in Servers : serving'[u] = g
    <3>1. \A g \in Tasks : g \in called \ finished <=>
             InQueue(taskQueue, g) \/ \E u \in Servers : serving[u] = g
      BY <1>2, Zenon DEF TaskPlaces
    <3>2. CASE /\ finished' = finished
               /\ \A g : InQueue(taskQueue', g) <=> g = f \/ InQueue(taskQueue, g)
      BY <1>4, <2>5, <3>1, <3>2, Zenon
    <3>3. CASE taskQueue' = taskQueue /\ finished' = finished \cup {f}
      BY <1>4, <2>5, <3>1, <3>3, Zenon
    <3> QED
      BY <1>7, <3>2, <3>3, Zenon
  <2> QED
    BY <1>1, <1>7, <2>1, <2>3, <2>4, <2>6, Zenon DEF TaskPlaces
<1>10. Timely'
  <2>1. Alone' => Alone
    BY <1>1, <1>5 DEF Alone
  <2>2. Alone' => \A u \in Servers : serverAt'[u] # "timed"
    BY <1>5, Zenon DEF Alone
  <2> QED
    BY <1>1, <1>2, <2>1, <2>2, Zenon DEF Timely
<1>11. Stopping' /\ DrainLeavesNothing'
  BY <1>1, <1>2, <1>5, Zenon DEF Stopping, DrainLeavesNothing
<1>12. (nThreadsServicingQueue = Cardinality(Serving))'
  <2>1. Serving' = Serving
    BY <1>1, <1>5 DEF Serving, Outside
  <2> QED
    BY <1>1, <1>2, <2>1, Zenon
<1> QED
  BY <1>8, <1>9, <1>10, <1>11, <1>12, Zenon DEF SchedInv

\* A thread that notified goes on, one that was interrupted ends.
LEMMA AsideStep ==
    ASSUME SchedInv, NEW s \in Servers, RepeatNotify(s) \/ Thrown(s)
    PROVE  SchedInv'
<1>1. PICK x \in {"relock", "dead"} :
        /\ serverAt[s] \in {"notify", "idle", "timed"} /\ serverAt' = [serverAt EXCEPT ![s] = x]
        /\ nThreadsServicingQueue' = IF x = "dead" THEN nThreadsServicingQueue - 1
                                                   ELSE nThreadsServicingQueue
        /\ sleepers' \in OneNotified(sleepers) \cup {sleepers \ {s}}
        /\ UNCHANGED <<taskQueue, stopRequested, stopWhenEmpty, deadline, serving, notifies,
                       notifyAll, interrupted, called, finished, early>>
  BY Zenon DEF RepeatNotify, Thrown
<1>2. /\ SchedTyped /\ TaskPlaces /\ Timely /\ Stopping /\ DrainLeavesNothing
      /\ nThreadsServicingQueue = Cardinality(Serving)
  BY Zenon DEF SchedInv
<1>3. /\ serverAt' \in [Servers -> {"start", "idle", "timed", "run", "notify", "relock", "done", "dead"}]
      /\ serverAt'[s] = x /\ \A u \in Servers : u # s => serverAt'[u] = serverAt[u]
  BY <1>1, <1>2, Zenon DEF SchedTyped, SchedulerTypeOK
<1>4. sleepers' \subseteq Servers
  BY <1>1, <1>2 DEF OneNotified, SchedTyped, SchedulerTypeOK
<1>5. nThreadsServicingQueue' = Cardinality(Serving)' /\ nThreadsServicingQueue' \in Nat
  <2>1. s \in Serving /\ (x \in Outside <=> x = "dead")
    BY <1>1 DEF Serving, Outside
  <2>2. /\ s \in Serving /\ x \in Outside => Cardinality(Serving)' = Cardinality(Serving) - 1
        /\ (s \in Serving <=> x \notin Outside) => Cardinality(Serving)' = Cardinality(Serving)
    BY <1>1, <1>2, ThreadMoves, Zenon
  <2>3. nThreadsServicingQueue' = Cardinality(Serving)'
    BY <1>1, <1>2, <2>1, <2>2, Zenon
  <2>4. Serving' \subseteq Servers
    BY Zenon DEF Serving
  <2>5. Cardinality(Serving') \in Nat
    BY <2>4, SchedulerAssumption, FS_Subset, FS_CardinalityType, Zenon
  <2> QED
    BY <2>3, <2>5, Zenon
<1>6. SchedTyped'
  BY <1>1, <1>2, <1>3, <1>4, <1>5, Zenon DEF SchedTyped, SchedulerTypeOK
<1>7. TaskPlaces'
  <2>1. \A u \in Servers : serverAt'[u] = "run" <=> serverAt[u] = "run"
    BY <1>1, <1>3, Zenon
  <2> QED
    BY <1>1, <1>2, <2>1 DEF TaskPlaces
<1>8. Timely'
  <2>1. Alone' => Alone
    BY <1>1, <1>3 DEF Alone
  <2>2. \A u \in Servers : serverAt'[u] = "timed" => serverAt[u] = "timed"
    BY <1>3, Zenon
  <2> QED
    BY <1>1, <1>2, <2>1, <2>2, Zenon DEF Timely
<1>9. Stopping' /\ DrainLeavesNothing'
  BY <1>1, <1>2, <1>3, Zenon DEF Stopping, DrainLeavesNothing
<1> QED
  BY <1>5, <1>6, <1>7, <1>8, <1>9, Zenon DEF SchedInv

\* A caller schedules a task that was not scheduled before.
LEMMA ScheduleStep ==
    ASSUME SchedInv, NEW f \in Tasks, Schedule(f)
    PROVE  SchedInv'
<1>1. /\ f \notin called /\ ~stopRequested /\ ~stopWhenEmpty
      /\ taskQueue' = Inserted(taskQueue, f)
      /\ called' = called \cup {f} /\ notifies' = notifies + 1
      /\ UNCHANGED <<nThreadsServicingQueue, stopRequested, stopWhenEmpty, serverAt, deadline,
                     sleepers, serving, notifyAll, interrupted, finished, early>>
  BY Zenon DEF Schedule
<1>2. /\ SchedTyped /\ TaskPlaces /\ Timely /\ Stopping /\ DrainLeavesNothing
      /\ nThreadsServicingQueue = Cardinality(Serving)
  BY Zenon DEF SchedInv
<1>3. taskQueue \in Seq(QueueEntry) /\ Distinct(taskQueue)
  BY <1>2, Zenon DEF SchedTyped, TaskPlaces
<1>4. ~InQueue(taskQueue, f) /\ \A s \in Servers : serving[s] # f
  BY <1>1, <1>2 DEF TaskPlaces
<1>5. /\ taskQueue' \in Seq(QueueEntry) /\ Distinct(taskQueue') /\ taskQueue' # <<>>
      /\ \A g : InQueue(taskQueue', g) <=> g = f \/ InQueue(taskQueue, g)
      /\ taskQueue # <<>> => Head(taskQueue').due <= Head(taskQueue).due
  BY <1>1, <1>3, <1>4, InsertedQueue, Zenon
<1>6. SchedTyped'
  <2>1. \A i \in DOMAIN taskQueue' : taskQueue'[i].task \in Tasks /\ taskQueue'[i].due \in Nat
    BY <1>5, QueueTyped, Zenon
  <2> QED
    BY <1>1, <1>2, <1>5, <2>1 DEF SchedTyped, SchedulerTypeOK
<1>7. TaskPlaces'
  <2>1. \A s \in Servers : serving[s] # NoTask => ~InQueue(taskQueue', serving[s])
    BY <1>2, <1>4, <1>5, Zenon DEF TaskPlaces
  <2>2. f \notin finished
    BY <1>1, <1>2, Zenon DEF SchedTyped, SchedulerTypeOK
  <2>3. \A g \in Tasks : g \in called' \ finished <=>
           InQueue(taskQueue', g) \/ \E s \in Servers : serving[s] = g
    BY <1>1, <1>2, <1>5, <2>2, Zenon DEF TaskPlaces
  <2> QED
    BY <1>1, <1>2, <1>5, <2>1, <2>3, Zenon DEF TaskPlaces
<1>8. Timely'
  <2>1. ASSUME Alone, NEW s \in Servers, serverAt[s] = "timed"
        PROVE  Head(taskQueue').due <= deadline[s]
    <3>1. taskQueue # <<>> /\ Head(taskQueue).due <= deadline[s]
      BY <1>2, <2>1, Zenon DEF Timely
    <3>2. Head(taskQueue).due \in Nat /\ Head(taskQueue').due \in Nat /\ deadline[s] \in Nat
      BY <1>2, <1>3, <1>5, <3>1, QueueTyped, Zenon DEF SchedTyped, SchedulerTypeOK
    <3> QED
      BY <1>5, <3>1, <3>2
  <2>2. Alone' <=> Alone
    BY <1>1 DEF Alone
  <2> QED
    BY <1>1, <1>2, <1>5, <2>1, <2>2, Zenon DEF Timely
<1>9. Stopping' /\ DrainLeavesNothing'
  BY <1>1, <1>2, Zenon DEF Stopping, DrainLeavesNothing
<1>10. (nThreadsServicingQueue = Cardinality(Serving))'
  BY <1>1, <1>2 DEF Serving
<1> QED
  BY <1>6, <1>7, <1>8, <1>9, <1>10, Zenon DEF SchedInv

\* stop(): no thread has left before it.
LEMMA StopStep ==
    ASSUME SchedInv, NEW drain \in BOOLEAN, StopScheduler(drain)
    PROVE  SchedInv'
<1>1. /\ ~stopRequested /\ ~stopWhenEmpty /\ notifyAll' = TRUE
      /\ stopWhenEmpty' \in BOOLEAN /\ stopRequested' \in BOOLEAN
      /\ ~(stopRequested' /\ stopWhenEmpty') /\ (stopRequested' \/ stopWhenEmpty')
      /\ UNCHANGED <<taskQueue, nThreadsServicingQueue, serverAt, deadline, sleepers, serving,
                     notifies, interrupted, called, finished, early>>
  <2>1. stopRequested \in BOOLEAN /\ stopWhenEmpty \in BOOLEAN
    BY Zenon DEF SchedInv, SchedTyped, SchedulerTypeOK
  <2>2. CASE drain
    BY <2>1, <2>2, Zenon DEF StopScheduler
  <2>3. CASE ~drain
    BY <2>1, <2>3, Zenon DEF StopScheduler
  <2> QED
    BY <2>2, <2>3, Zenon
<1>2. /\ SchedTyped /\ TaskPlaces /\ Timely /\ Stopping /\ DrainLeavesNothing
      /\ nThreadsServicingQueue = Cardinality(Serving)
  BY Zenon DEF SchedInv
<1>3. SchedTyped'
  BY <1>1, <1>2, Zenon DEF SchedTyped, SchedulerTypeOK
<1>4. TaskPlaces'
  BY <1>1, <1>2, Zenon DEF TaskPlaces, Distinct, InQueue
<1>5. Timely'
  BY <1>1, <1>2, Zenon DEF Timely, Alone
<1>6. Stopping' /\ DrainLeavesNothing'
  BY <1>1, <1>2 DEF Stopping, DrainLeavesNothing
<1>7. (nThreadsServicingQueue = Cardinality(Serving))'
  BY <1>1, <1>2, Zenon DEF Serving
<1> QED
  BY <1>3, <1>4, <1>5, <1>6, <1>7, Zenon DEF SchedInv

\* Time passes for the tasks and for the waits alike.
LEMMA TickStep ==
    ASSUME SchedInv, Tick
    PROVE  SchedInv'
<1>1. /\ taskQueue' = Ticked(taskQueue)
      /\ deadline' = [s \in Servers |-> Sooner(deadline[s])]
      /\ UNCHANGED <<nThreadsServicingQueue, stopRequested, stopWhenEmpty, serverAt, sleepers,
                     serving, notifies, notifyAll, interrupted, called, finished, early>>
  BY Zenon DEF Tick, Ticked
<1>2. /\ SchedTyped /\ TaskPlaces /\ Timely /\ Stopping /\ DrainLeavesNothing
      /\ nThreadsServicingQueue = Cardinality(Serving)
  BY Zenon DEF SchedInv
<1>3. taskQueue \in Seq(QueueEntry) /\ Distinct(taskQueue)
  BY <1>2, Zenon DEF SchedTyped, TaskPlaces
<1>4. /\ taskQueue' \in Seq(QueueEntry) /\ Distinct(taskQueue')
      /\ taskQueue' = <<>> <=> taskQueue = <<>>
      /\ \A g : InQueue(taskQueue', g) <=> InQueue(taskQueue, g)
      /\ taskQueue # <<>> => Head(taskQueue').due = Sooner(Head(taskQueue).due)
  BY <1>1, <1>3, TickedQueue, Zenon
<1>5. \A m, n \in Nat : Sooner(m) \in Nat /\ (m <= n => Sooner(m) <= Sooner(n))
  BY DEF Sooner
<1>6. deadline' \in [Servers -> Nat] /\ \A s \in Servers : deadline[s] \in Nat
  BY <1>1, <1>2, <1>5, Zenon DEF SchedTyped, SchedulerTypeOK
<1>7. SchedTyped'
  <2>1. \A i \in DOMAIN taskQueue' : taskQueue'[i].task \in Tasks /\ taskQueue'[i].due \in Nat
    BY <1>4, QueueTyped, Zenon
  <2> QED
    BY <1>1, <1>2, <1>4, <1>6, <2>1, Zenon DEF SchedTyped, SchedulerTypeOK
<1>8. TaskPlaces'
  BY <1>1, <1>2, <1>4, Zenon DEF TaskPlaces
<1>9. Timely'
  <2>1. ASSUME Alone, NEW s \in Servers, serverAt[s] = "timed"
        PROVE  taskQueue' # <<>> /\ Head(taskQueue').due <= deadline'[s]
    <3>1. taskQueue # <<>> /\ Head(taskQueue).due <= deadline[s]
      BY <1>2, <2>1, Zenon DEF Timely
    <3>2. Head(taskQueue).due \in Nat
      BY <1>3, <3>1, QueueTyped, Zenon
    <3>3. Sooner(Head(taskQueue).due) <= Sooner(deadline[s])
      BY <1>5, <1>6, <3>1, <3>2, Zenon
    <3> QED
      BY <1>1, <1>4, <3>1, <3>3, Zenon
  <2>2. Alone' <=> Alone
    BY <1>1 DEF Alone
  <2> QED
    BY <1>1, <1>2, <2>1, <2>2, Zenon DEF Timely
<1>10. Stopping' /\ DrainLeavesNothing'
  BY <1>1, <1>2, <1>4, Zenon DEF Stopping, DrainLeavesNothing
<1>11. (nThreadsServicingQueue = Cardinality(Serving))'
  BY <1>1, <1>2, Zenon DEF Serving
<1> QED
  BY <1>7, <1>8, <1>9, <1>10, <1>11, Zenon DEF SchedInv

LEMMA SchedulerFirst ==
    ASSUME SchedulerInit
    PROVE  SchedInv
<1>1. taskQueue \in Seq(QueueEntry) /\ DOMAIN taskQueue = {}
  BY DEF SchedulerInit
<1>2. SchedTyped
  BY <1>1, Zenon DEF SchedulerInit, SchedTyped, SchedulerTypeOK
<1>3. TaskPlaces
  BY <1>1, SchedulerAssumption, Zenon DEF SchedulerInit, TaskPlaces, Distinct, InQueue
<1>4. Timely /\ Stopping /\ DrainLeavesNothing
  BY Zenon DEF SchedulerInit, Timely, Stopping, DrainLeavesNothing
<1>5. Serving = {}
  BY Zenon DEF SchedulerInit, Serving, Outside
<1>6. nThreadsServicingQueue = Cardinality(Serving)
  BY <1>5, FS_EmptySet, Zenon DEF SchedulerInit
<1> QED
  BY <1>2, <1>3, <1>4, <1>6, Zenon DEF SchedInv

LEMMA SchedulerStep ==
    ASSUME SchedInv, [SchedulerNext]_schedVars
    PROVE  SchedInv'
<1>1. ASSUME NEW s \in Servers, ServerStart(s) PROVE SchedInv'
  BY <1>1, LoopStep DEF ServerStart
<1>2. ASSUME NEW s \in Servers, WokenServer(s) \/ TimedOutInVain(s) \/ Relock(s) PROVE SchedInv'
  <2>1. serverAt[s] \in {"idle", "timed", "relock"} /\ ServiceLoop(s, nThreadsServicingQueue)
    BY <1>2, Zenon DEF WokenServer, TimedOutInVain, Relock, ServiceLoop
  <2> QED
    BY <2>1, LoopStep, Zenon
<1>3. ASSUME NEW s \in Servers, SpuriousWake(s) PROVE SchedInv'
  <2>1. Still
    BY <1>3, Zenon DEF SpuriousWake, Still, SchedInv, SchedTyped, SchedulerTypeOK
  <2> QED
    BY <2>1, StillStep, Zenon
<1>4. ASSUME Notify PROVE SchedInv'
  <2>1. sleepers \subseteq Servers /\ notifies \in Nat /\ notifyAll \in BOOLEAN
        /\ interrupted \in BOOLEAN
    BY Zenon DEF SchedInv, SchedTyped, SchedulerTypeOK
  <2>2. sleepers' \subseteq Servers
    BY <1>4, <2>1, NotifiedSleepers, Zenon DEF Notify
  <2>3. notifies' \in Nat
    BY <1>4, <2>1 DEF Notify
  <2>4. notifyAll' \in BOOLEAN
    BY <1>4, <2>1, Zenon DEF Notify
  <2>5. Still
    BY <1>4, <2>1, <2>2, <2>3, <2>4, Zenon DEF Notify, Still
  <2> QED
    BY <2>5, StillStep, Zenon
<1>5. ASSUME InterruptServers \/ UNCHANGED schedVars PROVE SchedInv'
  <2>1. Still
    BY <1>5, Zenon DEF InterruptServers, schedVars, Still, SchedInv, SchedTyped, SchedulerTypeOK
  <2> QED
    BY <2>1, StillStep, Zenon
<1> QED
  BY <1>1, <1>2, <1>3, <1>4, <1>5, TakeTaskStep, RunTaskStep, AsideStep, ScheduleStep,
     StopStep, TickStep, Zenon DEF SchedulerNext, Serve

\* At most one member counts as one or none.
LEMMA AtMostOne ==
    ASSUME NEW S, \A x, y \in S : x = y
    PROVE  Cardinality(S) = IF S = {} THEN 0 ELSE 1
<1>1. CASE S = {}
  BY <1>1, FS_EmptySet
<1>2. CASE S # {}
  <2>1. PICK x : S = {x}
    BY <1>2
  <2> QED
    BY <1>2, <2>1, FS_Singleton, Zenon
<1> QED
  BY <1>1, <1>2, Zenon

LEMMA SchedulerMeans ==
    ASSUME SchedInv
    PROVE  SchedulerSafe
<1>1. /\ SchedTyped /\ TaskPlaces /\ Timely /\ DrainLeavesNothing
      /\ nThreadsServicingQueue = Cardinality(Serving)
  BY Zenon DEF SchedInv
<1>2. TasksOnce
  <2> SUFFICES ASSUME NEW f \in Tasks
               PROVE  Cardinality({i \in DOMAIN taskQueue : taskQueue[i].task = f})
                      + Cardinality({s \in Servers : serving[s] = f})
                          = (IF f \in called \ finished THEN 1 ELSE 0)
    BY Zenon DEF TasksOnce
  <2> DEFINE Q == {i \in DOMAIN taskQueue : taskQueue[i].task = f}
             R == {s \in Servers : serving[s] = f}
  <2>1. f # NoTask
    BY SchedulerAssumption, Zenon
  <2>2. (\A i, j \in Q : i = j) /\ (\A s, u \in R : s = u)
    BY <1>1, <2>1, Zenon DEF TaskPlaces, Distinct
  <2>3. /\ Q # {} <=> InQueue(taskQueue, f)
        /\ R # {} <=> \E s \in Servers : serving[s] = f
    BY Zenon DEF InQueue
  <2>4. Q = {} \/ R = {}
    BY <1>1, <2>1, <2>3, Zenon DEF TaskPlaces
  <2>5. f \in called \ finished <=> Q # {} \/ R # {}
    BY <1>1, <2>3, Zenon DEF TaskPlaces
  <2> HIDE DEF Q, R
  <2>6. /\ Cardinality(Q) = IF Q = {} THEN 0 ELSE 1
        /\ Cardinality(R) = IF R = {} THEN 0 ELSE 1
    BY <2>2, AtMostOne, Zenon
  <2>7. Cardinality(Q) + Cardinality(R) = (IF f \in called \ finished THEN 1 ELSE 0)
    BY <2>4, <2>5, <2>6
  <2> QED
    BY <2>7, Zenon DEF Q, R
<1>3. NeverEarly
  <2> SUFFICES ASSUME early
               PROVE  Cardinality({s \in Servers : serverAt[s] # "start"}) > 1
    BY Zenon DEF NeverEarly
  <2> DEFINE W == {s \in Servers : serverAt[s] # "start"}
  <2>1. PICK s \in W, u \in W : s # u
    BY <1>1, Zenon DEF Timely, Alone
  <2>2. IsFiniteSet(W)
    BY SchedulerAssumption, FS_Subset
  <2> HIDE DEF W
  <2>3. IsFiniteSet(W \ {s}) /\ Cardinality(W \ {s}) = Cardinality(W) - 1
    BY <2>1, <2>2, FS_RemoveElement, Zenon
  <2>4. Cardinality(W \ {s}) # 0
    BY <2>1, <2>3, FS_EmptySet
  <2>5. Cardinality(W) \in Nat /\ Cardinality(W \ {s}) \in Nat
    BY <2>2, <2>3, FS_CardinalityType, Zenon
  <2>6. Cardinality(W) > 1
    BY <2>3, <2>4, <2>5
  <2> QED
    BY <2>6, Zenon DEF W
<1>4. ServersCounted
  BY <1>1 DEF ServersCounted, Serving, Outside
<1> QED
  BY <1>1, <1>2, <1>3, <1>4 DEF SchedulerSafe, SchedTyped

\* However many threads serve the queue, and whenever callers schedule, stop
\* or interrupt: a task is in the queue or with one thread and nowhere else, a
\* thread that is alone takes none before its time, the count of threads is
\* exact, and a drained scheduler is left with an empty queue.
THEOREM SchedulerIsSafe == SchedulerSpec => []SchedulerSafe
<1>1. SchedulerInit => SchedInv
  BY SchedulerFirst, Zenon
<1>2. SchedInv /\ [SchedulerNext]_schedVars => SchedInv'
  BY SchedulerStep, Zenon
<1>3. SchedInv => SchedulerSafe
  BY SchedulerMeans, Zenon
<1> QED
  BY <1>1, <1>2, <1>3, PTL DEF SchedulerSpec
=============================================================================
