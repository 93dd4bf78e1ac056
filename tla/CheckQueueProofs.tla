-------------------------- MODULE CheckQueueProofs --------------------------
(***************************************************************************)
(* The script check queue, for any number of workers, masters and checks   *)
(* and any batch size.  VerdictExact is not inductive: a verdict is right  *)
(* because fAllOk speaks for exactly the checks that have left the queue   *)
(* and the batches, and because nTodo counts those that have not.          *)
(***************************************************************************)
EXTENDS CheckQueue, FiniteSetTheorems, TLAPS

Busy == {"exec", "clean"}
Running == {"enter", "wait", "exec", "clean"}

\* The checks that are queued or in somebody's batch.
Out(q, v) == {c \in Checks : c \in q \/ \E t \in Threads : c \in v[t]}

\* Only the owner of ControlMutex is inside the queue, until its Wait returns.
Placed ==
    /\ \A m \in Masters : m # ControlMutex => pc[m] = "out"
    /\ \A m \in Masters : m = ControlMutex =>
          pc[m] = "ctl" \/ (pc[m] \in Running /\ ~fDone)
    /\ \A w \in Workers : pc[w] \in Running \cup {"dead"}

\* No check is in two places.
Batches ==
    /\ \A t \in Threads : vChecks[t] # {} <=> pc[t] \in Busy
    /\ \A t \in Threads : vChecks[t] \cap queue = {}
    /\ \A t, u \in Threads : t # u => vChecks[t] \cap vChecks[u] = {}

Todo ==
    /\ nTodo = Cardinality(Out(queue, vChecks))
    /\ Out(queue, vChecks) \subseteq added

Quiet == fDone \/ ControlMutex = NoThread => Out(queue, vChecks) = {} /\ fAllOk

\* fAllOk is the verdict on the checks that are done with.
Verdict ==
    ~fDone => /\ fAllOk => (added \ Out(queue, vChecks)) \cap bad = {}
              /\ ~fAllOk => added \cap bad # {}

\* fOk is the verdict on a batch, and may repeat an earlier failure.
Locals ==
    \A t \in Threads : pc[t] \in Busy =>
        /\ ~fOk[t] => added \cap bad # {}
        /\ pc[t] = "clean" /\ fOk[t] => vChecks[t] \cap bad = {}

IInv ==
    /\ TypeOK /\ Placed /\ Batches /\ Todo /\ Quiet /\ Verdict /\ Locals
    /\ VerdictExact /\ IdleCount
-----------------------------------------------------------------------------
(* Counting.                                                                *)

\* There are finitely many threads, and checks that are out.
LEMMA Finite ==
    /\ IsFiniteSet(Threads)
    /\ \A q, v : IsFiniteSet(Out(q, v))
  <1>1. IsFiniteSet(Threads)
    BY ThreadsAssumption, FS_Union, Zenon DEF Threads
  <1>2. ASSUME NEW q, NEW v PROVE IsFiniteSet(Out(q, v))
    <2>1. Out(q, v) \in SUBSET Checks
      BY Zenon DEF Out
    <2> QED BY <2>1, ChecksAssumption, FS_Subset, Zenon
  <1> QED BY <1>1, <1>2, Zenon

At(p, X) == {u \in Threads : p[u] \in X}
Others(p, t, X) == {u \in Threads : u # t /\ p[u] \in X}
One(b) == IF b THEN 1 ELSE 0

\* How many threads are at X, with and without t.
LEMMA CountOne ==
    ASSUME NEW p, NEW t \in Threads, NEW X
    PROVE  /\ Cardinality(Others(p, t, X)) \in Nat
           /\ Cardinality(At(p, X)) = Cardinality(Others(p, t, X)) + One(p[t] \in X)
  <1>1. Others(p, t, X) \in SUBSET Threads
    BY Zenon DEF Others
  <1>2. IsFiniteSet(Others(p, t, X))
    BY <1>1, Finite, FS_Subset
  <1>3. Cardinality(Others(p, t, X)) \in Nat
    BY <1>2, FS_CardinalityType, Zenon
  <1>4. CASE p[t] \in X
    <2>1. At(p, X) = Others(p, t, X) \cup {t} /\ t \notin Others(p, t, X)
      BY <1>4, Zenon DEF Others, At
    <2>2. Cardinality(Others(p, t, X) \cup {t}) = Cardinality(Others(p, t, X)) + 1
      BY <1>2, <2>1, FS_AddElement
    <2> QED BY <1>3, <1>4, <2>1, <2>2 DEF One
  <1>5. CASE p[t] \notin X
    <2>1. At(p, X) = Others(p, t, X)
      BY <1>5, Zenon DEF Others, At
    <2> QED BY <1>3, <1>5, <2>1 DEF One
  <1> QED BY <1>4, <1>5, Zenon

Asleep == {"wait", "dead"}
Inside == {"wait", "dead", "exec", "clean"}

\* nTotal and nIdle when thread t is at x and the others where pc says.
Counted(t, x, total, idle) ==
    /\ idle = Cardinality(Others(pc, t, Asleep)) + One(x \in Asleep)
    /\ total = Cardinality(Others(pc, t, Inside)) + One(x \in Inside)

\* The counts of a thread that moves.
LEMMA IdleMoves ==
    ASSUME NEW t \in Threads, NEW x \in PCs, pc \in [Threads -> PCs],
           pc' = [pc EXCEPT ![t] = x], Counted(t, x, nTotal', nIdle')
    PROVE  IdleCount'
  <1>1. pc'[t] = x /\ Others(pc', t, Asleep) = Others(pc, t, Asleep)
                  /\ Others(pc', t, Inside) = Others(pc, t, Inside)
    BY Zenon DEF Others
  <1>2. Cardinality(At(pc', Asleep)) = Cardinality(Others(pc', t, Asleep)) + One(pc'[t] \in Asleep)
    BY CountOne, Zenon
  <1>3. Cardinality(At(pc', Inside)) = Cardinality(Others(pc', t, Inside)) + One(pc'[t] \in Inside)
    BY CountOne, Zenon
  <1>4. nIdle' = Cardinality(At(pc', Asleep)) /\ nTotal' = Cardinality(At(pc', Inside))
    BY <1>1, <1>2, <1>3, Zenon DEF Counted
  <1> QED BY <1>4, Zenon DEF IdleCount, At, Asleep, Inside

\* The counts of a thread where it is.
LEMMA IdleNow ==
    ASSUME NEW t \in Threads, IdleCount
    PROVE  Counted(t, pc[t], nTotal, nIdle)
  <1>1. nIdle = Cardinality(At(pc, Asleep)) /\ nTotal = Cardinality(At(pc, Inside))
    BY Zenon DEF IdleCount, At, Asleep, Inside
  <1> QED BY <1>1, CountOne, Zenon DEF Counted

\* A step that moves a thread between places counted alike.
LEMMA IdleSame ==
    ASSUME NEW t \in Threads, NEW x \in PCs, pc \in [Threads -> PCs], IdleCount,
           pc' = [pc EXCEPT ![t] = x], UNCHANGED <<nIdle, nTotal>>,
           x \in Asleep <=> pc[t] \in Asleep, x \in Inside <=> pc[t] \in Inside
    PROVE  IdleCount'
  <1>1. Counted(t, pc[t], nTotal, nIdle)
    BY IdleNow, Zenon
  <1>2. Counted(t, x, nTotal', nIdle')
    BY <1>1, Zenon DEF Counted, One
  <1> QED BY <1>2, IdleMoves, Zenon
-----------------------------------------------------------------------------
(* The critical section of Loop.  Mid describes the values LoopTop starts   *)
(* from: thread t has reported its batch, if it had one.                    *)

Rest(t) == Out(queue, [vChecks EXCEPT ![t] = {}])

MidVerdict(t, ok) ==
    /\ fDone \/ ControlMutex = NoThread => Rest(t) = {} /\ ok
    /\ ~fDone => /\ ok => (added \ Rest(t)) \cap bad = {}
                 /\ ~ok => added \cap bad # {}

Mid(t, total, idle, todo, ok, asleep) ==
    /\ pc[t] \in Running
    /\ Counted(t, "exec", total, idle) /\ total \in Nat /\ idle \in Nat
    /\ todo = Cardinality(Rest(t)) /\ todo \in Nat
    /\ Rest(t) \subseteq added
    /\ ok \in BOOLEAN /\ asleep \in SUBSET Threads
    /\ MidVerdict(t, ok)

\* A master inside Loop owns ControlMutex and its Wait has not returned.
LEMMA MasterInside ==
    ASSUME Placed, TypeOK, NEW t \in Masters, pc[t] \in Running
    PROVE  ControlMutex = t /\ ~fDone /\ ControlMutex # NoThread
  <1>1. pc[t] # "out" /\ pc[t] # "ctl"
    BY Zenon DEF Running
  <1> QED BY <1>1, ThreadsAssumption, Zenon DEF Placed

\* What the queue and the batches hold after LoopTop.
LEMMA OutAfter ==
    ASSUME TypeOK, NEW t \in Threads, NEW total, NEW idle, NEW todo, NEW ok, NEW asleep,
           LoopTop(t, total, idle, todo, ok, asleep)
    PROVE  Out(queue', vChecks') = Rest(t)
  <1>0. vChecks \in [Threads -> SUBSET Checks] /\ queue \in SUBSET Checks
    BY Zenon DEF TypeOK
  <1>1. CASE vChecks' = [vChecks EXCEPT ![t] = {}] /\ queue' = queue
    BY <1>1, Zenon DEF Rest
  <1>2. ASSUME NEW B \in SUBSET queue, vChecks' = [vChecks EXCEPT ![t] = B],
               queue' = queue \ B
        PROVE  Out(queue', vChecks') = Rest(t)
    BY <1>0, <1>2, Zenon DEF Out, Rest
  <1> QED BY <1>1, <1>2, Zenon DEF LoopTop, Return, Sleep, Take

\* Batches stay disjoint whatever LoopTop does.
LEMMA BatchesAfter ==
    ASSUME TypeOK, Batches, NEW t \in Threads, NEW B \in SUBSET queue, NEW x,
           vChecks' = [vChecks EXCEPT ![t] = B], queue' = queue \ B,
           pc' = [pc EXCEPT ![t] = x], B # {} <=> x \in Busy
    PROVE  Batches'
  <1>0. /\ vChecks \in [Threads -> SUBSET Checks] /\ queue \in SUBSET Checks
        /\ pc \in [Threads -> PCs]
    BY Zenon DEF TypeOK
  <1>1. \A u \in Threads : vChecks'[u] = (IF u = t THEN B ELSE vChecks[u])
                          /\ pc'[u] = (IF u = t THEN x ELSE pc[u])
    BY <1>0, Zenon
  <1>2. \A u \in Threads : vChecks'[u] # {} <=> pc'[u] \in Busy
    BY <1>1 DEF Batches
  <1>3. \A u \in Threads : vChecks'[u] \cap queue' = {}
    BY <1>1 DEF Batches
  <1>4. \A u, w \in Threads : u # w => vChecks'[u] \cap vChecks'[w] = {}
    BY <1>1 DEF Batches
  <1> QED BY <1>2, <1>3, <1>4, Zenon DEF Batches

\* Only the thread's own entry of Locals changes.
LEMMA LocalsOthers ==
    ASSUME TypeOK, Locals, NEW t \in Threads, NEW x, NEW B, NEW f,
           pc' = [pc EXCEPT ![t] = x], vChecks' = [vChecks EXCEPT ![t] = B],
           fOk' = [fOk EXCEPT ![t] = f], UNCHANGED <<added, bad>>,
           x \in Busy => x = "exec" /\ (~f => added \cap bad # {})
    PROVE  Locals'
  <1>0. /\ vChecks \in [Threads -> SUBSET Checks] /\ fOk \in [Threads -> BOOLEAN]
        /\ pc \in [Threads -> PCs]
    BY Zenon DEF TypeOK
  <1> SUFFICES ASSUME NEW u \in Threads, pc'[u] \in Busy
               PROVE  /\ ~fOk'[u] => added \cap bad # {}
                      /\ pc'[u] = "clean" /\ fOk'[u] => vChecks'[u] \cap bad = {}
    BY Zenon DEF Locals
  <1>1. CASE u = t
    <2>1. pc'[u] = x /\ fOk'[u] = f
      BY <1>0, <1>1, Zenon
    <2> QED BY <2>1, Zenon
  <1>2. CASE u # t
    <2>1. pc'[u] = pc[u] /\ fOk'[u] = fOk[u] /\ vChecks'[u] = vChecks[u]
      BY <1>0, <1>2, Zenon
    <2> QED BY <2>1, Zenon DEF Locals
  <1> QED BY <1>1, <1>2, Zenon
\* What every outcome of LoopTop needs.
LEMMA MidFacts ==
    ASSUME IInv, NEW t \in Threads, NEW total, NEW idle, NEW todo, NEW ok, NEW asleep,
           Mid(t, total, idle, todo, ok, asleep),
           LoopTop(t, total, idle, todo, ok, asleep)
    PROVE  /\ TypeOK /\ Placed /\ Batches /\ Locals /\ VerdictExact /\ IdleCount
           /\ pc \in [Threads -> PCs] /\ pc[t] \in Running
           /\ Counted(t, "exec", total, idle) /\ total \in Nat /\ idle \in Nat
           /\ todo \in Nat /\ todo = Cardinality(Rest(t))
           /\ Rest(t) \subseteq added /\ asleep \in SUBSET Threads
           /\ ok \in BOOLEAN
           /\ Out(queue', vChecks') = Rest(t)
           /\ UNCHANGED <<ControlMutex, added, bad>>
  <1>1. TypeOK /\ Placed /\ Batches /\ Locals /\ VerdictExact /\ IdleCount
    BY Zenon DEF IInv
  <1>2. Out(queue', vChecks') = Rest(t)
    BY <1>1, OutAfter
  <1> QED BY <1>1, <1>2, Zenon DEF Mid, LoopTop, TypeOK

\* A master that returns from Wait keeps the invariant.
LEMMA ReturnKeeps ==
    ASSUME IInv, NEW t \in Threads, NEW total, NEW idle, NEW todo, NEW ok, NEW asleep,
           Mid(t, total, idle, todo, ok, asleep),
           LoopTop(t, total, idle, todo, ok, asleep),
           Return(t, total, idle, todo, ok, asleep)
    PROVE  IInv'
  <1>0. /\ TypeOK /\ Placed /\ Batches /\ Locals /\ VerdictExact /\ IdleCount
        /\ pc \in [Threads -> PCs] /\ pc[t] \in Running
        /\ Counted(t, "exec", total, idle) /\ total \in Nat /\ idle \in Nat
        /\ todo \in Nat /\ todo = Cardinality(Rest(t))
        /\ Rest(t) \subseteq added /\ asleep \in SUBSET Threads
        /\ ok \in BOOLEAN
        /\ Out(queue', vChecks') = Rest(t)
        /\ UNCHANGED <<ControlMutex, added, bad>>
    BY MidFacts, Zenon
  <1>1. /\ queue = {} /\ t \in Masters /\ todo = 0
        /\ nTotal' = total - 1 /\ nIdle' = idle /\ nTodo' = todo /\ waiting' = asleep
        /\ pc' = [pc EXCEPT ![t] = "ctl"]
        /\ vChecks' = [vChecks EXCEPT ![t] = {}]
        /\ UNCHANGED <<queue, fOk>>
    BY Zenon DEF Return
  <1>2. fRet' = ok /\ fAllOk' = TRUE /\ fDone' = TRUE
    BY Zenon DEF Return
  <1>3. ControlMutex = t /\ ~fDone
    BY <1>0, <1>1, MasterInside, Zenon
  <1>4. Rest(t) = {}
    BY <1>0, <1>1, Finite, FS_EmptySet DEF Rest
  <1>5. VerdictExact'
    <2>1. MidVerdict(t, ok)
      BY Zenon DEF Mid
    <2>2. ok <=> added \cap bad = {}
      BY <1>3, <1>4, <2>1, Zenon DEF MidVerdict
    <2> QED BY <1>0, <1>2, <2>2, Zenon DEF VerdictExact
  <1>6. Counted(t, "ctl", total - 1, idle) /\ total - 1 \in Nat
    <2>1. Cardinality(Others(pc, t, Inside)) \in Nat /\ Cardinality(Others(pc, t, Asleep)) \in Nat
      BY CountOne, Zenon
    <2> QED BY <1>0, <2>1 DEF Counted, One, Asleep, Inside
  <1>7. IdleCount'
    BY <1>0, <1>1, <1>6, IdleMoves, Zenon DEF PCs
  <1>8. Batches'
    <2>1. queue' = queue \ {} /\ {} \in SUBSET queue /\ ({} # {} <=> "ctl" \in Busy)
      BY <1>1, Zenon DEF Busy
    <2> QED BY <1>0, <1>1, <2>1, BatchesAfter, Zenon
  <1>9. Locals'
    <2>1. fOk' = [fOk EXCEPT ![t] = fOk[t]] /\ "ctl" \notin Busy
      BY <1>0, <1>1, Zenon DEF TypeOK, Busy
    <2> QED BY <1>0, <1>1, <2>1, LocalsOthers, Zenon
  <1>10. TypeOK'
    <2>1. fAllOk' \in BOOLEAN /\ fDone' \in BOOLEAN /\ fRet' \in BOOLEAN
      BY <1>0, <1>2, Zenon
    <2> QED BY <1>0, <1>1, <1>6, <2>1 DEF TypeOK, PCs
  <1>11. Placed'
    <2>1. \A u \in Threads : pc'[u] = IF u = t THEN "ctl" ELSE pc[u]
      BY <1>0, <1>1, Zenon
    <2>2. Masters \subseteq Threads /\ Workers \subseteq Threads /\ t \notin Workers
      BY <1>1, ThreadsAssumption, Zenon DEF Threads
    <2> QED BY <1>0, <1>3, <2>1, <2>2, Zenon DEF Placed
  <1>12. Todo' /\ Quiet' /\ Verdict'
    BY <1>0, <1>1, <1>2, <1>4, Zenon DEF Todo, Quiet, Verdict
  <1> QED BY <1>5, <1>7, <1>8, <1>9, <1>10, <1>11, <1>12, Zenon DEF IInv

\* A thread that goes to sleep keeps the invariant.
LEMMA SleepKeeps ==
    ASSUME IInv, NEW t \in Threads, NEW total, NEW idle, NEW todo, NEW ok, NEW asleep,
           Mid(t, total, idle, todo, ok, asleep),
           LoopTop(t, total, idle, todo, ok, asleep),
           Sleep(t, total, idle, todo, ok, asleep)
    PROVE  IInv'
  <1>0. /\ TypeOK /\ Placed /\ Batches /\ Locals /\ VerdictExact /\ IdleCount
        /\ pc \in [Threads -> PCs] /\ pc[t] \in Running
        /\ Counted(t, "exec", total, idle) /\ total \in Nat /\ idle \in Nat
        /\ todo \in Nat /\ todo = Cardinality(Rest(t))
        /\ Rest(t) \subseteq added /\ asleep \in SUBSET Threads
        /\ ok \in BOOLEAN
        /\ Out(queue', vChecks') = Rest(t)
        /\ UNCHANGED <<ControlMutex, added, bad>>
    BY MidFacts, Zenon
  <1>1. /\ nTotal' = total /\ nIdle' = idle + 1 /\ nTodo' = todo
        /\ waiting' = asleep \cup {t}
        /\ pc' = [pc EXCEPT ![t] = "wait"]
        /\ vChecks' = [vChecks EXCEPT ![t] = {}]
        /\ UNCHANGED <<queue, fOk>>
    BY Zenon DEF Sleep
  <1>2. fAllOk' = ok /\ UNCHANGED <<fDone, fRet>>
    BY Zenon DEF Sleep
  <1>5. VerdictExact' /\ Quiet' /\ Verdict'
    <2>1. MidVerdict(t, ok)
      BY Zenon DEF Mid
    <2> QED BY <1>0, <1>2, <2>1, Zenon DEF VerdictExact, Quiet, Verdict, MidVerdict
  <1>6. Counted(t, "wait", total, idle + 1)
    <2>1. Cardinality(Others(pc, t, Inside)) \in Nat /\ Cardinality(Others(pc, t, Asleep)) \in Nat
      BY CountOne, Zenon
    <2> QED BY <1>0, <2>1 DEF Counted, One, Asleep, Inside
  <1>7. IdleCount'
    BY <1>0, <1>1, <1>6, IdleMoves, Zenon DEF PCs
  <1>8. Batches'
    <2>1. queue' = queue \ {} /\ {} \in SUBSET queue /\ ({} # {} <=> "wait" \in Busy)
      BY <1>1, Zenon DEF Busy
    <2> QED BY <1>0, <1>1, <2>1, BatchesAfter, Zenon
  <1>9. Locals'
    <2>1. fOk' = [fOk EXCEPT ![t] = fOk[t]] /\ "wait" \notin Busy
      BY <1>0, <1>1, Zenon DEF TypeOK, Busy
    <2> QED BY <1>0, <1>1, <2>1, LocalsOthers, Zenon
  <1>10. TypeOK'
    <2>1. fAllOk' \in BOOLEAN /\ fDone' \in BOOLEAN /\ fRet' \in BOOLEAN
      BY <1>0, <1>2, Zenon DEF TypeOK
    <2> QED BY <1>0, <1>1, <2>1 DEF TypeOK, PCs
  <1>11. Placed'
    <2>1. \A u \in Threads : pc'[u] = IF u = t THEN "wait" ELSE pc[u]
      BY <1>0, <1>1, Zenon
    <2>2. Masters \subseteq Threads /\ Workers \subseteq Threads
      BY Zenon DEF Threads
    <2>3. t \in Masters => ControlMutex = t /\ ~fDone
      BY <1>0, MasterInside, Zenon
    <2> QED BY <1>0, <1>2, <2>1, <2>2, <2>3 DEF Placed, Running
  <1>12. Todo'
    BY <1>0, <1>1 DEF Todo
  <1> QED BY <1>5, <1>7, <1>8, <1>9, <1>10, <1>11, <1>12, Zenon DEF IInv

\* A thread that takes a batch keeps the invariant.
LEMMA TakeKeeps ==
    ASSUME IInv, NEW t \in Threads, NEW total, NEW idle, NEW todo, NEW ok, NEW asleep,
           Mid(t, total, idle, todo, ok, asleep),
           LoopTop(t, total, idle, todo, ok, asleep),
           Take(t, total, idle, todo, ok, asleep)
    PROVE  IInv'
  <1>0. /\ TypeOK /\ Placed /\ Batches /\ Locals /\ VerdictExact /\ IdleCount
        /\ pc \in [Threads -> PCs] /\ pc[t] \in Running
        /\ Counted(t, "exec", total, idle) /\ total \in Nat /\ idle \in Nat
        /\ todo \in Nat /\ todo = Cardinality(Rest(t))
        /\ Rest(t) \subseteq added /\ asleep \in SUBSET Threads
        /\ ok \in BOOLEAN
        /\ Out(queue', vChecks') = Rest(t)
        /\ UNCHANGED <<ControlMutex, added, bad>>
    BY MidFacts, Zenon
  <1>1. PICK B \in SUBSET queue :
           /\ B # {}
           /\ vChecks' = [vChecks EXCEPT ![t] = B] /\ queue' = queue \ B
    BY Zenon DEF Take
  <1>2. /\ nTotal' = total /\ nIdle' = idle /\ nTodo' = todo /\ waiting' = asleep
        /\ pc' = [pc EXCEPT ![t] = "exec"]
        /\ fOk' = [fOk EXCEPT ![t] = ok]
    BY Zenon DEF Take
  <1>3. fAllOk' = ok /\ UNCHANGED <<fDone, fRet>>
    BY Zenon DEF Take
  <1>4. MidVerdict(t, ok)
    BY Zenon DEF Mid
  <1>5. VerdictExact' /\ Quiet' /\ Verdict'
    BY <1>0, <1>3, <1>4, Zenon DEF VerdictExact, Quiet, Verdict, MidVerdict
  <1>6. ~fDone
    <2>1. Rest(t) # {}
      BY <1>0, <1>1 DEF Rest, Out, TypeOK
    <2> QED BY <1>4, <2>1, Zenon DEF MidVerdict
  <1>7. IdleCount'
    BY <1>0, <1>2, IdleMoves, Zenon DEF PCs
  <1>8. Batches'
    <2>1. B # {} <=> "exec" \in Busy
      BY <1>1, Zenon DEF Busy
    <2> QED BY <1>0, <1>1, <1>2, <2>1, BatchesAfter
  <1>9. Locals'
    <2>1. ~ok => added \cap bad # {}
      BY <1>4, <1>6, Zenon DEF MidVerdict
    <2> QED BY <1>0, <1>1, <1>2, <2>1, LocalsOthers
  <1>10. TypeOK'
    <2>1. fAllOk' \in BOOLEAN /\ fDone' \in BOOLEAN /\ fRet' \in BOOLEAN
      BY <1>0, <1>3, Zenon DEF TypeOK
    <2>2. fOk' \in [Threads -> BOOLEAN]
      BY <1>0, <1>2 DEF TypeOK
    <2> QED BY <1>0, <1>1, <1>2, <2>1, <2>2 DEF TypeOK, PCs
  <1>11. Placed'
    <2>1. \A u \in Threads : pc'[u] = IF u = t THEN "exec" ELSE pc[u]
      BY <1>0, <1>2, Zenon
    <2>2. Masters \subseteq Threads /\ Workers \subseteq Threads
      BY Zenon DEF Threads
    <2>3. t \in Masters => ControlMutex = t /\ ~fDone
      BY <1>0, MasterInside, Zenon
    <2> QED BY <1>0, <1>3, <2>1, <2>2, <2>3, Zenon DEF Placed, Running
  <1>12. Todo'
    BY <1>0, <1>2, Zenon DEF Todo
  <1> QED BY <1>5, <1>7, <1>8, <1>9, <1>10, <1>11, <1>12, Zenon DEF IInv

\* Whatever a thread does at the top of the loop keeps the invariant.
LEMMA LoopTopKeeps ==
    ASSUME IInv, NEW t \in Threads, NEW total, NEW idle, NEW todo, NEW ok, NEW asleep,
           Mid(t, total, idle, todo, ok, asleep),
           LoopTop(t, total, idle, todo, ok, asleep)
    PROVE  IInv'
  BY ReturnKeeps, SleepKeeps, TakeKeeps, Zenon DEF LoopTop
-----------------------------------------------------------------------------
(* The three ways into LoopTop.                                             *)

\* A thread without a batch leaves everything as it is.
LEMMA RestIdle ==
    ASSUME IInv, NEW t \in Threads, pc[t] \notin Busy
    PROVE  /\ Rest(t) = Out(queue, vChecks)
           /\ nTodo = Cardinality(Rest(t)) /\ Rest(t) \subseteq added
           /\ MidVerdict(t, fAllOk)
  <1>1. vChecks[t] = {} /\ vChecks \in [Threads -> SUBSET Checks]
    BY Zenon DEF IInv, Batches, TypeOK
  <1>2. [vChecks EXCEPT ![t] = {}] = vChecks
    BY <1>1, Zenon
  <1>3. Rest(t) = Out(queue, vChecks)
    BY <1>2, Zenon DEF Rest
  <1>4. MidVerdict(t, fAllOk)
    BY <1>3, Zenon DEF IInv, Quiet, Verdict, MidVerdict
  <1> QED BY <1>3, <1>4, Zenon DEF IInv, Todo

\* A thread that enters Loop keeps the invariant.
LEMMA EnterKeeps ==
    ASSUME IInv, NEW t \in Threads, Enter(t)
    PROVE  IInv'
  <1>1. pc[t] = "enter" /\ LoopTop(t, nTotal + 1, nIdle, nTodo, fAllOk, waiting)
    BY Zenon DEF Enter
  <1>2. pc[t] \notin Busy /\ pc[t] \in Running
    BY <1>1, Zenon DEF Busy, Running
  <1>3. Counted(t, "exec", nTotal + 1, nIdle)
    <2>1. Counted(t, pc[t], nTotal, nIdle)
      BY IdleNow, Zenon DEF IInv
    <2>2. Cardinality(Others(pc, t, Inside)) \in Nat /\ Cardinality(Others(pc, t, Asleep)) \in Nat
      BY CountOne, Zenon
    <2> QED BY <1>1, <2>1, <2>2 DEF Counted, One, Asleep, Inside
  <1>4. /\ nTotal \in Nat /\ nIdle \in Nat /\ nTodo \in Nat /\ waiting \in SUBSET Threads
        /\ fAllOk \in BOOLEAN
    BY Zenon DEF IInv, TypeOK
  <1>5. Mid(t, nTotal + 1, nIdle, nTodo, fAllOk, waiting)
    BY <1>2, <1>3, <1>4, RestIdle DEF Mid
  <1> QED BY <1>1, <1>5, LoopTopKeeps, Zenon

\* A thread that is woken keeps the invariant.
LEMMA WakeKeeps ==
    ASSUME IInv, NEW t \in Threads, Wake(t)
    PROVE  IInv'
  <1>1. pc[t] = "wait" /\ LoopTop(t, nTotal, nIdle - 1, nTodo, fAllOk, waiting)
    BY Zenon DEF Wake
  <1>2. pc[t] \notin Busy /\ pc[t] \in Running
    BY <1>1, Zenon DEF Busy, Running
  <1>3. Counted(t, "exec", nTotal, nIdle - 1) /\ nIdle - 1 \in Nat
    <2>1. Counted(t, pc[t], nTotal, nIdle)
      BY IdleNow, Zenon DEF IInv
    <2>2. Cardinality(Others(pc, t, Inside)) \in Nat /\ Cardinality(Others(pc, t, Asleep)) \in Nat
      BY CountOne, Zenon
    <2> QED BY <1>1, <2>1, <2>2 DEF Counted, One, Asleep, Inside
  <1>4. /\ nTotal \in Nat /\ nTodo \in Nat /\ waiting \in SUBSET Threads
        /\ fAllOk \in BOOLEAN
    BY Zenon DEF IInv, TypeOK
  <1>5. Mid(t, nTotal, nIdle - 1, nTodo, fAllOk, waiting)
    BY <1>2, <1>3, <1>4, RestIdle DEF Mid
  <1> QED BY <1>1, <1>5, LoopTopKeeps, Zenon

\* A batch that is cleaned up leaves the outstanding checks, and fOk speaks for it.
LEMMA RestBatch ==
    ASSUME IInv, NEW t \in Threads, pc[t] = "clean"
    PROVE  /\ nTodo - Cardinality(vChecks[t]) = Cardinality(Rest(t))
           /\ nTodo - Cardinality(vChecks[t]) \in Nat
           /\ Rest(t) \subseteq added
           /\ MidVerdict(t, fAllOk /\ fOk[t])
  <1>1. /\ vChecks \in [Threads -> SUBSET Checks] /\ queue \in SUBSET Checks
        /\ nTodo = Cardinality(Out(queue, vChecks)) /\ Out(queue, vChecks) \subseteq added
        /\ vChecks[t] # {}
    BY Zenon DEF IInv, TypeOK, Todo, Batches, Busy
  <1>2. Rest(t) = Out(queue, vChecks) \ vChecks[t]
    <2>1. \A u \in Threads : [vChecks EXCEPT ![t] = {}][u] = IF u = t THEN {} ELSE vChecks[u]
      BY <1>1, Zenon
    <2>2. /\ vChecks[t] \cap queue = {}
          /\ \A u \in Threads : u # t => vChecks[t] \cap vChecks[u] = {}
      BY Zenon DEF IInv, Batches
    <2> QED BY <2>1, <2>2, Zenon DEF Rest, Out
  <1>3. Out(queue, vChecks) \cap vChecks[t] = vChecks[t]
    BY <1>1, Zenon DEF Out
  <1>4. IsFiniteSet(Out(queue, vChecks)) /\ IsFiniteSet(Rest(t))
    BY Finite, Zenon DEF Rest
  <1>5. Cardinality(Rest(t)) = Cardinality(Out(queue, vChecks)) - Cardinality(vChecks[t])
    BY <1>2, <1>3, <1>4, FS_Difference
  <1>6. Cardinality(Rest(t)) \in Nat
    BY <1>4, FS_CardinalityType, Zenon
  <1>7. ~fDone /\ ControlMutex # NoThread
    <2>1. Out(queue, vChecks) # {}
      BY <1>1, <1>3, Zenon
    <2> QED BY <2>1, Zenon DEF IInv, Quiet
  <1>8. MidVerdict(t, fAllOk /\ fOk[t])
    <2>1. /\ fAllOk => (added \ Out(queue, vChecks)) \cap bad = {}
          /\ ~fAllOk => added \cap bad # {}
      BY <1>7, Zenon DEF IInv, Verdict
    <2>2. /\ ~fOk[t] => added \cap bad # {}
          /\ fOk[t] => vChecks[t] \cap bad = {}
      BY Zenon DEF IInv, Locals, Busy
    <2>3. fAllOk /\ fOk[t] => (added \ Rest(t)) \cap bad = {}
      BY <1>2, <2>1, <2>2, Zenon
    <2>4. ~(fAllOk /\ fOk[t]) => added \cap bad # {}
      BY <2>1, <2>2, Zenon
    <2> QED BY <1>7, <2>3, <2>4, Zenon DEF MidVerdict
  <1> QED BY <1>1, <1>2, <1>5, <1>6, <1>8, Zenon

\* A thread that is done with its batch keeps the invariant.
LEMMA CleanUpKeeps ==
    ASSUME IInv, NEW t \in Threads, CleanUp(t)
    PROVE  IInv'
  <1> DEFINE todo == nTodo - Cardinality(vChecks[t])
  <1>1. pc[t] = "clean" /\ pc[t] \in Running
    BY Zenon DEF CleanUp, Running
  <1>2. PICK M : LoopTop(t, nTotal, nIdle, todo, fAllOk /\ fOk[t], waiting \ M)
    BY Zenon DEF CleanUp
  <1>3. Counted(t, "exec", nTotal, nIdle)
    <2>1. Counted(t, pc[t], nTotal, nIdle)
      BY IdleNow, Zenon DEF IInv
    <2> QED BY <1>1, <2>1, Zenon DEF Counted, One, Asleep, Inside
  <1>4. /\ nTotal \in Nat /\ nIdle \in Nat /\ waiting \ M \in SUBSET Threads
        /\ (fAllOk /\ fOk[t]) \in BOOLEAN
    BY Zenon DEF IInv, TypeOK
  <1>5. Mid(t, nTotal, nIdle, todo, fAllOk /\ fOk[t], waiting \ M)
    BY <1>1, <1>3, <1>4, RestBatch DEF Mid
  <1> HIDE DEF todo
  <1> QED BY <1>2, <1>5, LoopTopKeeps, Zenon
-----------------------------------------------------------------------------
(* The other steps.                                                         *)

\* The construction of a CCheckQueueControl keeps the invariant.
LEMMA ConstructKeeps ==
    ASSUME IInv, NEW m \in Masters, Construct(m)
    PROVE  IInv'
  <1>0. /\ TypeOK /\ Placed /\ Batches /\ Todo /\ Quiet /\ IdleCount
        /\ pc \in [Threads -> PCs] /\ m \in Threads /\ m # NoThread
    BY ThreadsAssumption, Zenon DEF IInv, TypeOK, Threads
  <1>1. /\ pc[m] = "out" /\ ControlMutex = NoThread /\ ControlMutex' = m
        /\ pc' = [pc EXCEPT ![m] = "ctl"] /\ added' = {} /\ bad' \in SUBSET Checks
        /\ UNCHANGED <<queue, nIdle, nTotal, nTodo, vChecks, fOk, waiting>>
    BY Zenon DEF Construct
  <1>2. fDone' = FALSE /\ fRet' = TRUE /\ fAllOk' = fAllOk
    BY Zenon DEF Construct
  <1>3. Out(queue, vChecks) = {} /\ fAllOk
    BY <1>0, <1>1, Zenon DEF Quiet
  <1>4. \A t \in Threads : vChecks[t] = {}
    BY <1>0, <1>3, Zenon DEF Out, TypeOK
  <1>5. \A t \in Threads : pc'[t] = IF t = m THEN "ctl" ELSE pc[t]
    BY <1>0, <1>1, Zenon
  <1>6. TypeOK'
    <2>1. fAllOk' \in BOOLEAN /\ fDone' \in BOOLEAN /\ fRet' \in BOOLEAN
      BY <1>0, <1>2, Zenon DEF TypeOK
    <2> QED BY <1>0, <1>1, <2>1 DEF TypeOK, PCs
  <1>7. Placed'
    <2>1. Masters \subseteq Threads /\ Workers \subseteq Threads /\ m \notin Workers
      BY ThreadsAssumption, Zenon DEF Threads
    <2>2. \A u \in Masters : pc[u] = "out"
      BY <1>0, <1>1, ThreadsAssumption, Zenon DEF Placed
    <2> QED BY <1>0, <1>1, <1>5, <2>1, <2>2, Zenon DEF Placed
  <1>8. \A t \in Threads : pc[t] \notin Busy /\ pc'[t] \notin Busy
    BY <1>0, <1>4, <1>5, Zenon DEF Batches, Busy
  <1>9. Batches' /\ Locals'
    BY <1>0, <1>1, <1>4, <1>8 DEF Batches, Locals
  <1>10. Todo'
    BY <1>0, <1>1, <1>3, Zenon DEF Todo
  <1>11. Quiet' /\ Verdict' /\ VerdictExact'
    BY <1>0, <1>1, <1>2, <1>3 DEF Quiet, Verdict, VerdictExact
  <1>12. IdleCount'
    <2>1. /\ "ctl" \in Asleep <=> pc[m] \in Asleep
          /\ "ctl" \in Inside <=> pc[m] \in Inside
          /\ "ctl" \in PCs
      BY <1>1 DEF Asleep, Inside, PCs
    <2> QED BY <1>0, <1>1, <2>1, IdleSame, Zenon
  <1> QED BY <1>6, <1>7, <1>9, <1>10, <1>11, <1>12, Zenon DEF IInv

\* Add keeps the invariant.
LEMMA AddKeeps ==
    ASSUME IInv, NEW m \in Masters, NEW C \in SUBSET (Checks \ added), Add(m, C)
    PROVE  IInv'
  <1>0. /\ TypeOK /\ Placed /\ Batches /\ Todo /\ Quiet /\ Verdict /\ Locals /\ IdleCount
        /\ vChecks \in [Threads -> SUBSET Checks] /\ queue \in SUBSET Checks
        /\ m \in Threads /\ m # NoThread
    BY ThreadsAssumption, Zenon DEF IInv, TypeOK, Threads
  <1>1. /\ pc[m] = "ctl" /\ queue' = queue \cup C /\ added' = added \cup C
        /\ nTodo' = nTodo + Cardinality(C) /\ waiting' \subseteq waiting
        /\ UNCHANGED <<nIdle, nTotal, pc, vChecks, fOk, ControlMutex, bad>>
    BY Zenon DEF Add
  <1>2. ~fDone /\ UNCHANGED <<fAllOk, fDone, fRet>>
    BY Zenon DEF Add
  <1>3. Out(queue', vChecks') = Out(queue, vChecks) \cup C
    BY <1>0, <1>1, Zenon DEF Out
  <1>4. IsFiniteSet(C) /\ IsFiniteSet(Out(queue, vChecks)) /\ Cardinality(C) \in Nat
    BY ChecksAssumption, Finite, FS_Subset, FS_CardinalityType, Zenon
  <1>5. Out(queue, vChecks) \cap C = {}
    BY <1>0, Zenon DEF Todo
  <1>6. Todo'
    <2>1. Cardinality(Out(queue, vChecks) \cup C) = Cardinality(Out(queue, vChecks)) + Cardinality(C)
      <3>1. Cardinality(Out(queue, vChecks)) \in Nat /\ Cardinality({}) = 0
        BY <1>4, FS_CardinalityType, FS_EmptySet, Zenon
      <3>2. Cardinality(Out(queue, vChecks) \cup C) =
               Cardinality(Out(queue, vChecks)) + Cardinality(C)
               - Cardinality(Out(queue, vChecks) \cap C)
        BY <1>4, FS_Union, Zenon
      <3>3. Cardinality(Out(queue, vChecks) \cap C) = 0
        BY <1>5, <3>1, Zenon
      <3> QED BY <1>4, <3>1, <3>2, <3>3
    <2> QED BY <1>0, <1>1, <1>3, <2>1 DEF Todo
  <1>7. TypeOK'
    <2>1. fAllOk' \in BOOLEAN /\ fDone' \in BOOLEAN /\ fRet' \in BOOLEAN
      BY <1>0, <1>2, Zenon DEF TypeOK
    <2> QED BY <1>0, <1>1, <1>4, <2>1 DEF TypeOK
  <1>8. Placed'
    BY <1>0, <1>1, <1>2, Zenon DEF Placed
  <1>9. Batches'
    <2>1. \A t \in Threads : vChecks[t] \cap C = {}
      BY <1>0, <1>5, Zenon DEF Out
    <2> QED BY <1>0, <1>1, <2>1, Zenon DEF Batches
  <1>10. Locals'
    BY <1>0, <1>1, Zenon DEF Locals
  <1>11. Quiet' /\ VerdictExact'
    <2>1. ControlMutex = m
      BY <1>0, <1>1, Zenon DEF Placed
    <2> QED BY <1>0, <1>1, <1>2, <2>1 DEF Quiet, VerdictExact
  <1>12. Verdict'
    <2>1. (added' \ Out(queue', vChecks')) \cap bad' \subseteq (added \ Out(queue, vChecks)) \cap bad
      BY <1>1, <1>3, Zenon
    <2>2. added \cap bad # {} => added' \cap bad' # {}
      BY <1>1, Zenon
    <2> QED BY <1>0, <1>2, <2>1, <2>2 DEF Verdict
  <1>13. IdleCount'
    BY <1>0, <1>1, Zenon DEF IdleCount
  <1> QED BY <1>6, <1>7, <1>8, <1>9, <1>10, <1>11, <1>12, <1>13, Zenon DEF IInv

\* Steps that only move a thread: CallWait, Destruct, Execute, Interrupt.
LEMMA MoveKeeps ==
    ASSUME IInv, NEW t \in Threads, NEW x \in PCs, pc' = [pc EXCEPT ![t] = x],
           x \in Asleep <=> pc[t] \in Asleep, x \in Busy <=> pc[t] \in Busy,
           UNCHANGED <<queue, nIdle, nTotal, fAllOk, nTodo, vChecks, fDone, fRet, added, bad>>,
           waiting' \subseteq waiting
    PROVE  /\ Batches' /\ Todo' /\ Verdict' /\ VerdictExact' /\ IdleCount'
           /\ pc' \in [Threads -> PCs] /\ queue' \in SUBSET Checks
           /\ nIdle' \in Nat /\ nTotal' \in Nat /\ nTodo' \in Nat
           /\ fAllOk' \in BOOLEAN /\ fDone' \in BOOLEAN /\ fRet' \in BOOLEAN
           /\ vChecks' \in [Threads -> SUBSET Checks] /\ waiting' \in SUBSET Threads
           /\ added' \in SUBSET Checks /\ bad' \in SUBSET Checks
           /\ \A u \in Threads : pc'[u] = IF u = t THEN x ELSE pc[u]
  <1>0. TypeOK /\ Batches /\ Todo /\ Verdict /\ VerdictExact /\ IdleCount
    BY Zenon DEF IInv
  <1>1. \A u \in Threads : pc'[u] = IF u = t THEN x ELSE pc[u]
    BY <1>0, Zenon DEF TypeOK
  <1>2. Batches'
    BY <1>0, <1>1, Zenon DEF Batches
  <1>3. Todo' /\ Verdict' /\ VerdictExact'
    BY <1>0, Zenon DEF Todo, Verdict, VerdictExact
  <1>4. IdleCount'
    <2>1. x \in Inside <=> pc[t] \in Inside
      BY Zenon DEF Inside, Asleep, Busy
    <2> QED BY <1>0, <2>1, IdleSame, Zenon DEF TypeOK
  <1>5. fAllOk' \in BOOLEAN /\ fDone' \in BOOLEAN /\ fRet' \in BOOLEAN
    BY <1>0, Zenon DEF TypeOK
  <1> QED BY <1>0, <1>1, <1>2, <1>3, <1>4, <1>5, Zenon DEF TypeOK
\* The call of Wait keeps the invariant.
LEMMA CallWaitKeeps ==
    ASSUME IInv, NEW m \in Masters, CallWait(m)
    PROVE  IInv'
  <1>0. TypeOK /\ Placed /\ Quiet /\ Locals /\ m \in Threads
    BY Zenon DEF IInv, Threads
  <1>1. /\ pc[m] = "ctl" /\ pc' = [pc EXCEPT ![m] = "enter"]
        /\ UNCHANGED <<queue, nIdle, nTotal, nTodo, vChecks, fOk, waiting,
                       ControlMutex, added, bad>>
        /\ UNCHANGED <<fAllOk, fDone, fRet>>
        /\ waiting' \subseteq waiting
    BY Zenon DEF CallWait
  <1>2. ~fDone
    BY Zenon DEF CallWait
  <1>3. /\ "enter" \in PCs
        /\ "enter" \in Asleep <=> pc[m] \in Asleep
        /\ "enter" \in Busy <=> pc[m] \in Busy
    BY <1>1, Zenon DEF PCs, Asleep, Busy
  <1>4. /\ Batches' /\ Todo' /\ Verdict' /\ VerdictExact' /\ IdleCount'
        /\ pc' \in [Threads -> PCs] /\ queue' \in SUBSET Checks
        /\ nIdle' \in Nat /\ nTotal' \in Nat /\ nTodo' \in Nat
        /\ fAllOk' \in BOOLEAN /\ fDone' \in BOOLEAN /\ fRet' \in BOOLEAN
        /\ vChecks' \in [Threads -> SUBSET Checks] /\ waiting' \in SUBSET Threads
        /\ added' \in SUBSET Checks /\ bad' \in SUBSET Checks
        /\ \A u \in Threads : pc'[u] = IF u = m THEN "enter" ELSE pc[u]
    BY <1>0, <1>1, <1>3, MoveKeeps, Zenon
  <1>5. TypeOK'
    BY <1>0, <1>1, <1>4 DEF TypeOK
  <1>6. Placed'
    BY <1>0, <1>1, <1>2, <1>4, ThreadsAssumption, Zenon DEF Placed, Threads, Running
  <1>7. Quiet'
    BY <1>0, <1>1 DEF Quiet
  <1>8. Locals'
    BY <1>0, <1>1, <1>3, <1>4, Zenon DEF Locals, Busy
  <1> QED BY <1>4, <1>5, <1>6, <1>7, <1>8, Zenon DEF IInv

\* The destruction of a CCheckQueueControl keeps the invariant.
LEMMA DestructKeeps ==
    ASSUME IInv, NEW m \in Masters, Destruct(m)
    PROVE  IInv'
  <1>0. TypeOK /\ Placed /\ Quiet /\ Locals /\ m \in Threads
    BY Zenon DEF IInv, Threads
  <1>1. /\ pc[m] = "ctl" /\ pc' = [pc EXCEPT ![m] = "out"] /\ ControlMutex' = NoThread
        /\ UNCHANGED <<queue, nIdle, nTotal, nTodo, vChecks, fOk, waiting, added, bad>>
        /\ UNCHANGED <<fAllOk, fDone, fRet>>
        /\ waiting' \subseteq waiting
    BY Zenon DEF Destruct
  <1>2. fDone
    BY Zenon DEF Destruct
  <1>3. /\ "out" \in PCs
        /\ "out" \in Asleep <=> pc[m] \in Asleep
        /\ "out" \in Busy <=> pc[m] \in Busy
    BY <1>1, Zenon DEF PCs, Asleep, Busy
  <1>4. /\ Batches' /\ Todo' /\ Verdict' /\ VerdictExact' /\ IdleCount'
        /\ pc' \in [Threads -> PCs] /\ queue' \in SUBSET Checks
        /\ nIdle' \in Nat /\ nTotal' \in Nat /\ nTodo' \in Nat
        /\ fAllOk' \in BOOLEAN /\ fDone' \in BOOLEAN /\ fRet' \in BOOLEAN
        /\ vChecks' \in [Threads -> SUBSET Checks] /\ waiting' \in SUBSET Threads
        /\ added' \in SUBSET Checks /\ bad' \in SUBSET Checks
        /\ \A u \in Threads : pc'[u] = IF u = m THEN "out" ELSE pc[u]
    BY <1>0, <1>1, <1>3, MoveKeeps
  <1>5. TypeOK'
    BY <1>0, <1>1, <1>4, Zenon DEF TypeOK
  <1>6. Placed'
    BY <1>0, <1>1, <1>4, ThreadsAssumption DEF Placed, Threads
  <1>7. Quiet'
    BY <1>0, <1>1, <1>2, Zenon DEF Quiet
  <1>8. Locals'
    BY <1>0, <1>1, <1>3, <1>4, Zenon DEF Locals, Busy
  <1> QED BY <1>4, <1>5, <1>6, <1>7, <1>8, Zenon DEF IInv

\* The execution of a batch keeps the invariant.
LEMMA ExecuteKeeps ==
    ASSUME IInv, NEW t \in Threads, Execute(t)
    PROVE  IInv'
  <1>0. /\ TypeOK /\ Placed /\ Quiet /\ Locals /\ Todo
        /\ vChecks \in [Threads -> SUBSET Checks] /\ fOk \in [Threads -> BOOLEAN]
    BY Zenon DEF IInv, TypeOK
  <1>1. /\ pc[t] = "exec" /\ pc' = [pc EXCEPT ![t] = "clean"]
        /\ UNCHANGED <<queue, nIdle, nTotal, nTodo, vChecks, waiting, ControlMutex, added, bad>>
        /\ UNCHANGED <<fAllOk, fDone, fRet>>
        /\ waiting' \subseteq waiting
    BY Zenon DEF Execute
  <1>2. fOk' = [fOk EXCEPT ![t] = fOk[t] /\ vChecks[t] \cap bad = {}]
    BY Zenon DEF Execute
  <1>3. /\ "clean" \in PCs
        /\ "clean" \in Asleep <=> pc[t] \in Asleep
        /\ "clean" \in Busy <=> pc[t] \in Busy
    BY <1>1 DEF PCs, Asleep, Busy
  <1>4. /\ Batches' /\ Todo' /\ Verdict' /\ VerdictExact' /\ IdleCount'
        /\ pc' \in [Threads -> PCs] /\ queue' \in SUBSET Checks
        /\ nIdle' \in Nat /\ nTotal' \in Nat /\ nTodo' \in Nat
        /\ fAllOk' \in BOOLEAN /\ fDone' \in BOOLEAN /\ fRet' \in BOOLEAN
        /\ vChecks' \in [Threads -> SUBSET Checks] /\ waiting' \in SUBSET Threads
        /\ added' \in SUBSET Checks /\ bad' \in SUBSET Checks
        /\ \A u \in Threads : pc'[u] = IF u = t THEN "clean" ELSE pc[u]
    BY <1>1, <1>3, MoveKeeps, Zenon
  <1>5. TypeOK'
    <2>1. fOk' \in [Threads -> BOOLEAN]
      BY <1>0, <1>2, Zenon
    <2> QED BY <1>0, <1>1, <1>4, <2>1, Zenon DEF TypeOK
  <1>6. Placed'
    BY <1>0, <1>1, <1>4 DEF Placed, Threads, Running
  <1>7. Quiet'
    BY <1>0, <1>1, Zenon DEF Quiet
  <1>8. Locals'
    <2> SUFFICES ASSUME NEW u \in Threads, pc'[u] \in Busy
                 PROVE  /\ ~fOk'[u] => added \cap bad # {}
                        /\ pc'[u] = "clean" /\ fOk'[u] => vChecks[u] \cap bad = {}
      BY <1>1, Zenon DEF Locals
    <2>1. CASE u # t
      <3>1. fOk'[u] = fOk[u] /\ pc'[u] = pc[u]
        BY <1>0, <1>2, <1>4, <2>1, Zenon
      <3> QED BY <1>0, <3>1 DEF Locals
    <2>2. CASE u = t
      <3>1. fOk'[u] <=> fOk[t] /\ vChecks[t] \cap bad = {}
        BY <1>0, <1>2, <2>2, Zenon
      <3>2. ~fOk[t] => added \cap bad # {}
        BY <1>0, <1>1 DEF Locals, Busy
      <3>3. vChecks[t] \subseteq added
        BY <1>0, Zenon DEF Todo, Out
      <3> QED BY <2>2, <3>1, <3>2, <3>3, Zenon
    <2> QED BY <2>1, <2>2, Zenon
  <1> QED BY <1>4, <1>5, <1>6, <1>7, <1>8 DEF IInv

\* An interrupted worker keeps the invariant.
LEMMA InterruptKeeps ==
    ASSUME IInv, NEW w \in Workers, Interrupt(w)
    PROVE  IInv'
  <1>0. TypeOK /\ Placed /\ Quiet /\ Locals /\ w \in Threads /\ w \notin Masters
    BY ThreadsAssumption, Zenon DEF IInv, Threads
  <1>1. /\ pc[w] = "wait" /\ pc' = [pc EXCEPT ![w] = "dead"]
        /\ UNCHANGED <<queue, nIdle, nTotal, nTodo, vChecks, fOk, ControlMutex, added, bad>>
        /\ UNCHANGED <<fAllOk, fDone, fRet>>
        /\ waiting' \subseteq waiting
    BY Zenon DEF Interrupt
  <1>3. /\ "dead" \in PCs
        /\ "dead" \in Asleep <=> pc[w] \in Asleep
        /\ "dead" \in Busy <=> pc[w] \in Busy
    BY <1>1, Zenon DEF PCs, Asleep, Busy
  <1>4. /\ Batches' /\ Todo' /\ Verdict' /\ VerdictExact' /\ IdleCount'
        /\ pc' \in [Threads -> PCs] /\ queue' \in SUBSET Checks
        /\ nIdle' \in Nat /\ nTotal' \in Nat /\ nTodo' \in Nat
        /\ fAllOk' \in BOOLEAN /\ fDone' \in BOOLEAN /\ fRet' \in BOOLEAN
        /\ vChecks' \in [Threads -> SUBSET Checks] /\ waiting' \in SUBSET Threads
        /\ added' \in SUBSET Checks /\ bad' \in SUBSET Checks
        /\ \A u \in Threads : pc'[u] = IF u = w THEN "dead" ELSE pc[u]
    BY <1>0, <1>1, <1>3, MoveKeeps
  <1>5. TypeOK'
    BY <1>0, <1>1, <1>4, Zenon DEF TypeOK
  <1>6. Placed'
    BY <1>0, <1>1, <1>4 DEF Placed, Threads
  <1>7. Quiet'
    BY <1>0, <1>1, Zenon DEF Quiet
  <1>8. Locals'
    BY <1>0, <1>1, <1>3, <1>4 DEF Locals, Busy
  <1> QED BY <1>4, <1>5, <1>6, <1>7, <1>8, Zenon DEF IInv

\* A spurious wake-up, or no step at all.
LEMMA StillKeeps ==
    ASSUME IInv, waiting' \subseteq waiting,
           UNCHANGED <<queue, nIdle, nTotal, fAllOk, nTodo, pc, vChecks, fOk,
                       ControlMutex, fDone, fRet, added, bad>>
    PROVE  IInv'
  <1>1. TypeOK' /\ Placed' /\ Batches'
    BY Zenon DEF IInv, TypeOK, Placed, Batches
  <1>2. Todo' /\ Quiet' /\ Verdict' /\ Locals'
    BY Zenon DEF IInv, Todo, Quiet, Verdict, Locals
  <1>3. VerdictExact' /\ IdleCount'
    BY DEF IInv, VerdictExact, IdleCount
  <1> QED BY <1>1, <1>2, <1>3, Zenon DEF IInv

\* The invariant holds initially.
LEMMA InitHolds ==
    ASSUME Init
    PROVE  IInv
  <1>1. /\ queue = {} /\ nIdle = 0 /\ nTotal = 0 /\ nTodo = 0 /\ waiting = {}
        /\ pc = [t \in Threads |-> IF t \in Workers THEN "enter" ELSE "out"]
        /\ vChecks = [t \in Threads |-> {}]
        /\ ControlMutex = NoThread /\ added = {} /\ bad = {}
    BY Zenon DEF Init
  <1>2. fAllOk = TRUE /\ fDone = FALSE /\ fRet = TRUE /\ fOk = [t \in Threads |-> TRUE]
    BY Zenon DEF Init
  <1>3. Out(queue, vChecks) = {}
    BY <1>1, Zenon DEF Out
  <1>4. TypeOK
    <2>1. fAllOk \in BOOLEAN /\ fDone \in BOOLEAN /\ fRet \in BOOLEAN
      BY <1>2, Zenon
    <2>2. fOk \in [Threads -> BOOLEAN]
      BY <1>2, Zenon
    <2> QED BY <1>1, <2>1, <2>2, Zenon DEF TypeOK, PCs
  <1>5. Placed
    BY <1>1, ThreadsAssumption, Zenon DEF Placed, Threads, Running
  <1>6. Batches /\ Locals
    BY <1>1, Zenon DEF Batches, Locals, Busy
  <1>7. Todo
    BY <1>1, <1>3, FS_EmptySet, Zenon DEF Todo
  <1>8. Quiet /\ Verdict /\ VerdictExact
    BY <1>1, <1>2, <1>3, Zenon DEF Quiet, Verdict, VerdictExact
  <1>9. IdleCount
    <2>1. /\ {t \in Threads : pc[t] \in {"wait", "dead"}} = {}
          /\ {t \in Threads : pc[t] \in {"wait", "dead", "exec", "clean"}} = {}
      BY <1>1, Zenon
    <2> QED BY <1>1, <2>1, FS_EmptySet, Zenon DEF IdleCount
  <1> QED BY <1>4, <1>5, <1>6, <1>7, <1>8, <1>9, Zenon DEF IInv

-----------------------------------------------------------------------------
(* The theorems.                                                            *)

\* The inductive invariant: no check is in two places, nTodo counts those in
\* the queue and the batches, and fAllOk and fOk are the verdict on the rest.
THEOREM Invariance == Spec => []IInv
  <1>1. Init => IInv
    BY InitHolds, Zenon
  <1>2. IInv /\ [Next]_vars => IInv'
    <2> SUFFICES ASSUME IInv, [Next]_vars PROVE IInv'
      BY Zenon
    <2>1. ASSUME NEW m \in Masters, Construct(m) \/ CallWait(m) \/ Destruct(m)
          PROVE  IInv'
      BY <2>1, ConstructKeeps, CallWaitKeeps, DestructKeeps
    <2>2. ASSUME NEW m \in Masters, NEW C \in SUBSET (Checks \ added), Add(m, C)
          PROVE  IInv'
      BY <2>2, AddKeeps, Zenon
    <2>3. ASSUME NEW t \in Threads, Thread(t)
          PROVE  IInv'
      BY <2>3, EnterKeeps, WakeKeeps, ExecuteKeeps, CleanUpKeeps DEF Thread
    <2>4. ASSUME NEW t \in Threads, Spurious(t)
          PROVE  IInv'
      BY <2>4, StillKeeps, Zenon DEF Spurious
    <2>5. ASSUME NEW w \in Workers, Interrupt(w)
          PROVE  IInv'
      BY <2>5, InterruptKeeps, Zenon
    <2>6. CASE UNCHANGED vars
      BY <2>6, StillKeeps, Zenon DEF vars
    <2> QED BY <2>1, <2>2, <2>3, <2>4, <2>5, <2>6, Zenon DEF Next
  <1> QED BY <1>1, <1>2, PTL DEF Spec

\* Every variable of the queue keeps its type; nTodo and nIdle never wrap
\* below zero.
THEOREM TypeCorrect == Spec => []TypeOK
  <1>1. IInv => TypeOK
    BY Zenon DEF IInv
  <1> QED BY <1>1, Invariance, PTL

\* For any number of threads and checks Wait returns the conjunction of exactly
\* the checks its controller added.
THEOREM VerdictCorrect == Spec => []VerdictExact
  <1>1. IInv => VerdictExact
    BY Zenon DEF IInv
  <1> QED BY <1>1, Invariance, PTL

\* When Wait has returned, and while no controller is alive, no thread holds a
\* check: nothing points into a block that ConnectBlock has let go of.
THEOREM NothingOutlives == Spec => []NoCheckOutlivesControl
  <1>1. IInv => NoCheckOutlivesControl
    <2> SUFFICES ASSUME IInv, fDone \/ ControlMutex = NoThread
                 PROVE  /\ queue = {} /\ nTodo = 0
                        /\ \A t \in Threads : vChecks[t] = {}
      BY Zenon DEF NoCheckOutlivesControl
    <2>1. Out(queue, vChecks) = {}
      BY Zenon DEF IInv, Quiet
    <2>2. nTodo = 0
      BY <2>1, FS_EmptySet, Zenon DEF IInv, Todo
    <2>3. queue \in SUBSET Checks /\ vChecks \in [Threads -> SUBSET Checks]
      BY Zenon DEF IInv, TypeOK
    <2> QED BY <2>1, <2>2, <2>3, Zenon DEF Out
  <1> QED BY <1>1, Invariance, PTL

\* nIdle and nTotal count the threads inside Loop, for any number of threads.
THEOREM CountsCorrect == Spec => []IdleCount
  <1>1. IInv => IdleCount
    BY Zenon DEF IInv
  <1> QED BY <1>1, Invariance, PTL

=============================================================================
