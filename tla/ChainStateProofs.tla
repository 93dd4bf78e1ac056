-------------------------- MODULE ChainStateProofs --------------------------
(***************************************************************************)
(* Proofs about ChainState, for every block tree, every set of threads and *)
(* every scenario the theorems name.                                       *)
(***************************************************************************)
EXTENDS ChainState, FiniteSetTheorems, TLAPS

-----------------------------------------------------------------------------
(* The block tree.  A fact about all blocks is shown at a block that breaks *)
(* it whose parent does not.                                                *)

\* A non-empty set of naturals has a least element.
LEMMA LeastNat ==
    ASSUME NEW T \in SUBSET Nat, T # {}
    PROVE  \E n \in T : \A m \in T : n <= m
  <1> DEFINE R == OpToRel(<, Nat)
  <1>1. IsWellFoundedOn(R, Nat)
    BY NatLessThanWellFounded, Zenon
  <1>2. PICK x \in T : \A y \in T : ~(<<y, x>> \in R)
    <2> HIDE DEF R
    <2> QED BY <1>1, WFMin, Zenon
  <1>3. \A y \in T : ~(y < x)
    BY <1>2, Zenon DEF OpToRel
  <1> QED BY <1>3

\* A set of blocks has one where a measure is least.
LEMMA LeastBlock ==
    ASSUME NEW S \in SUBSET Blocks, S # {}, NEW f \in [Blocks -> Nat]
    PROVE  \E b \in S : \A c \in S : f[b] <= f[c]
  <1> DEFINE T == {f[b] : b \in S}
  <1>1. T \in SUBSET Nat /\ T # {}
    BY Zenon
  <1>2. PICK n \in T : \A m \in T : n <= m
    <2> HIDE DEF T
    <2> QED BY <1>1, LeastNat, Zenon
  <1> QED BY <1>2, Zenon

\* The numbers in a finite sequence are bounded.
LEMMA SequenceBounded ==
    ASSUME NEW n \in Nat, NEW f \in [1 .. n -> Nat]
    PROVE  \E m \in Nat : \A i \in 1 .. n : f[i] <= m
  <1> DEFINE Free(k) == \E g \in [1 .. k -> Nat] : \A m \in Nat : \E i \in 1 .. k : ~(g[i] <= m)
             T == {k \in Nat : Free(k)}
  <1>1. SUFFICES ASSUME T # {} PROVE FALSE
    BY Zenon
  <1>2. PICK k \in T : \A j \in T : k <= j
    <2> HIDE DEF Free
    <2> QED BY <1>1, LeastNat, Zenon
  <1>3. PICK g \in [1 .. k -> Nat] : \A m \in Nat : \E i \in 1 .. k : ~(g[i] <= m)
    BY <1>2, Zenon
  <1>4. k \in Nat /\ k # 0
    BY <1>2, <1>3
  <1>5. ~Free(k - 1)
    <2> HIDE DEF Free
    <2> QED BY <1>2, <1>4
  <1> HIDE DEF T
  <1>6. \A i \in 1 .. k - 1 : i \in 1 .. k
    BY <1>4
  <1>7. [i \in 1 .. k - 1 |-> g[i]] \in [1 .. k - 1 -> Nat]
    BY <1>6, Zenon
  <1>8. PICK m \in Nat : \A i \in 1 .. k - 1 : [j \in 1 .. k - 1 |-> g[j]][i] <= m
    BY <1>5, <1>7, Zenon
  <1> HIDE DEF Free
  <1>9. \A i \in 1 .. k - 1 : g[i] <= m
    BY <1>8, Zenon
  <1>10. g[k] \in Nat /\ \A i \in 1 .. k : g[i] \in Nat
    BY <1>4
  <1>11. m + g[k] \in Nat
    BY <1>10
  <1>12. PICK i \in 1 .. k : ~(g[i] <= m + g[k])
    BY <1>3, <1>11, Zenon
  <1>13. i = k \/ i \in 1 .. k - 1
    BY <1>4
  <1> QED
    BY <1>9, <1>10, <1>12, <1>13

\* A measure of blocks is bounded, since there are finitely many.
LEMMA MeasureBounded ==
    ASSUME NEW f \in [Blocks -> Nat]
    PROVE  \E m \in Nat : \A b \in Blocks : f[b] <= m
  <1>1. PICK n \in Nat : ExistsBijection(1 .. n, Blocks)
    BY TreeAssumption, FS_NatBijection, Zenon
  <1>2. PICK h \in [1 .. n -> Blocks] : \A b \in Blocks : \E i \in 1 .. n : h[i] = b
    BY <1>1, Zenon DEF ExistsBijection, Bijection, Surjection
  <1>3. [i \in 1 .. n |-> f[h[i]]] \in [1 .. n -> Nat]
    BY <1>2, Zenon
  <1>4. PICK m \in Nat : \A i \in 1 .. n : [j \in 1 .. n |-> f[h[j]]][i] <= m
    BY <1>3, SequenceBounded, Zenon
  <1> QED
    BY <1>2, <1>4, Zenon

\* A set of blocks has one where a measure is greatest.
LEMMA GreatestBlock ==
    ASSUME NEW S \in SUBSET Blocks, S # {}, NEW f \in [Blocks -> Nat]
    PROVE  \E b \in S : \A c \in S : f[c] <= f[b]
  <1>1. PICK m \in Nat : \A b \in Blocks : f[b] <= m
    BY MeasureBounded, Zenon
  <1> DEFINE g == [b \in Blocks |-> m - f[b]]
  <1>2. g \in [Blocks -> Nat]
    BY <1>1
  <1>3. PICK b \in S : \A c \in S : g[b] <= g[c]
    <2> HIDE DEF g
    <2> QED BY <1>2, LeastBlock, Zenon
  <1>4. \A c \in S : m - f[b] <= m - f[c]
    BY <1>3, Zenon
  <1> QED BY <1>4

\* What Highest picks.
LEMMA HighestPicks ==
    ASSUME NEW S \in SUBSET Blocks, S # {}
    PROVE  Highest(S) \in S /\ \A c \in S : nHeight[c] <= nHeight[Highest(S)]
  <1>1. \E b \in S : \A c \in S : nHeight[c] <= nHeight[b]
    BY GreatestBlock, TreeAssumption, Zenon
  <1> QED BY <1>1, Zenon DEF Highest

\* Best finds one of the blocks it is given.
LEMMA BestPicks ==
    ASSUME NEW S \in SUBSET Blocks, S # {}, NEW seq \in [Blocks -> Int]
    PROVE  Best(seq, S) \in S
  <1>1. PICK w \in S : \A c \in S : nChainWork[c] <= nChainWork[w]
    BY GreatestBlock, TreeAssumption
  <1> DEFINE W == {b \in S : nChainWork[b] = nChainWork[w]}
  <1>2. W \in SUBSET Blocks /\ W # {}
    BY <1>1, Zenon
  <1> DEFINE neg == [b \in Blocks |-> IF seq[b] < 0 THEN -seq[b] ELSE 0]
  <1>3. neg \in [Blocks -> Nat]
    OBVIOUS
  <1>4. PICK m \in Nat : \A b \in Blocks : neg[b] <= m
    <2> HIDE DEF neg
    <2> QED BY <1>3, MeasureBounded, Zenon
  <1> DEFINE up == [b \in Blocks |-> seq[b] + m]
  <1>5. up \in [Blocks -> Nat]
    BY <1>4
  <1>6. PICK s \in W : \A c \in W : up[s] <= up[c]
    <2> HIDE DEF W, up
    <2> QED BY <1>2, <1>5, LeastBlock, Zenon
  <1>7. s \in W /\ \A c \in W : seq[s] <= seq[c]
    <2>1. ASSUME NEW c \in W PROVE seq[s] <= seq[c]
      <3>1. up[s] <= up[c] /\ s \in Blocks /\ c \in Blocks
        BY <1>2, <1>6, Zenon
      <3>2. seq[s] + m <= seq[c] + m /\ seq[s] \in Int /\ seq[c] \in Int
        BY <3>1, Zenon
      <3> QED
        BY <3>2
    <2> QED
      BY <1>6, <2>1, Zenon
  <1> DEFINE Q == {b \in W : seq[b] = seq[s]}
  <1>8. Q \in SUBSET Blocks /\ Q # {}
    BY <1>2, <1>7, Zenon
  <1>9. PICK b \in Q : \A c \in Q : address[b] <= address[c]
    <2> HIDE DEF Q
    <2> QED BY <1>8, LeastBlock, TreeAssumption, Zenon
  <1>10. ASSUME NEW c \in S \ {b} PROVE Worse(seq, c, b)
    <2>1. /\ nChainWork[c] \in Nat /\ nChainWork[b] \in Nat /\ seq[c] \in Int /\ seq[b] \in Int
          /\ address[c] \in Nat /\ address[b] \in Nat /\ address[c] # address[b]
      BY TreeAssumption, Zenon
    <2>2. nChainWork[b] = nChainWork[w] /\ seq[b] = seq[s] /\ b \in S
      BY <1>9, Zenon
    <2>3. CASE nChainWork[c] # nChainWork[b]
      BY <1>1, <2>1, <2>2, <2>3 DEF Worse
    <2>4. CASE nChainWork[c] = nChainWork[b] /\ seq[c] # seq[b]
      BY <1>7, <2>1, <2>2, <2>4 DEF Worse
    <2>5. CASE nChainWork[c] = nChainWork[b] /\ seq[c] = seq[b]
      BY <1>9, <2>1, <2>2, <2>5 DEF Worse
    <2> QED BY <2>3, <2>4, <2>5, Zenon
  <1>11. b \in S
    BY <1>9, Zenon
  <1> QED BY <1>10, <1>11, Zenon DEF Best

\* What TreeAssumption says of one block.
LEMMA Parents ==
    /\ Genesis \in Blocks /\ Up[Genesis] = {Genesis} /\ nHeight[Genesis] = 0
    /\ \A b \in Blocks : nHeight[b] \in Nat /\ nChainWork[b] \in Nat
    /\ \A b \in Blocks : Up[b] \subseteq Blocks /\ b \in Up[b]
    /\ \A b \in Blocks \ {Genesis} :
          /\ pprev[b] \in Blocks /\ Up[b] = Up[pprev[b]] \cup {b}
          /\ nHeight[b] = nHeight[pprev[b]] + 1 /\ nChainWork[b] > nChainWork[pprev[b]]
  BY TreeAssumption

\* A set without the first block has a block whose parent is outside.
LEMMA FirstOf ==
    ASSUME NEW S \in SUBSET Blocks, S # {}, Genesis \notin S
    PROVE  \E b \in S : b \in Blocks \ {Genesis} /\ pprev[b] \notin S
  <1>1. PICK b \in S : \A c \in S : nHeight[b] <= nHeight[c]
    BY LeastBlock, TreeAssumption, Zenon
  <1>2. b \in Blocks \ {Genesis}
    BY Zenon
  <1>3. nHeight[pprev[b]] \in Nat /\ nHeight[b] = nHeight[pprev[b]] + 1
    BY <1>2, Parents, Zenon
  <1>4. ~(nHeight[b] <= nHeight[pprev[b]])
    BY <1>3
  <1> QED BY <1>1, <1>2, <1>4, Zenon

\* Ancestors of ancestors are ancestors, and the first block is everyone's.
LEMMA UpTransitive == \A b \in Blocks : \A a \in Up[b] : Up[a] \subseteq Up[b]
  <1> DEFINE S == {b \in Blocks : ~(\A a \in Up[b] : Up[a] \subseteq Up[b])}
  <1>1. SUFFICES ASSUME S # {} PROVE FALSE
    BY Zenon
  <1>2. Genesis \notin S
    BY Parents, Zenon
  <1>3. PICK b \in S : b \in Blocks \ {Genesis} /\ pprev[b] \notin S
    <2>1. S \in SUBSET Blocks
      BY Zenon
    <2> HIDE DEF S
    <2> QED BY <1>1, <1>2, <2>1, FirstOf, Zenon
  <1>4. pprev[b] \in Blocks /\ Up[b] = Up[pprev[b]] \cup {b}
    BY <1>3, Parents, Zenon
  <1>5. \A a \in Up[pprev[b]] : Up[a] \subseteq Up[pprev[b]]
    BY <1>3, <1>4, Zenon
  <1>6. ~(\A a \in Up[b] : Up[a] \subseteq Up[b])
    BY <1>3, Zenon
  <1> QED BY <1>4, <1>5, <1>6, Zenon

LEMMA UpGenesis == \A b \in Blocks : Genesis \in Up[b]
  <1> DEFINE S == {b \in Blocks : Genesis \notin Up[b]}
  <1>1. SUFFICES ASSUME S # {} PROVE FALSE
    BY Zenon
  <1>2. Genesis \notin S
    BY Parents, Zenon
  <1>3. PICK b \in S : b \in Blocks \ {Genesis} /\ pprev[b] \notin S
    <2>1. S \in SUBSET Blocks
      BY Zenon
    <2> HIDE DEF S
    <2> QED BY <1>1, <1>2, <2>1, FirstOf, Zenon
  <1> QED BY <1>3, Parents

\* Height and work grow along a chain.
LEMMA UpGrows ==
    \A b \in Blocks : \A a \in Up[b] \ {b} :
        nHeight[a] < nHeight[b] /\ nChainWork[a] < nChainWork[b]
  <1> DEFINE Ok(b) == \A a \in Up[b] \ {b} :
                         nHeight[a] < nHeight[b] /\ nChainWork[a] < nChainWork[b]
             S == {b \in Blocks : ~Ok(b)}
  <1>1. SUFFICES ASSUME S # {} PROVE FALSE
    BY Zenon
  <1>2. Genesis \notin S
    BY Parents, Zenon
  <1>3. PICK b \in S : b \in Blocks \ {Genesis} /\ pprev[b] \notin S
    <2>1. S \in SUBSET Blocks
      BY Zenon
    <2> HIDE DEF S
    <2> QED BY <1>1, <1>2, <2>1, FirstOf, Zenon
  <1>4. /\ pprev[b] \in Blocks /\ Up[b] = Up[pprev[b]] \cup {b}
        /\ nHeight[b] = nHeight[pprev[b]] + 1 /\ nChainWork[b] > nChainWork[pprev[b]]
    BY <1>3, Parents, Zenon
  <1>5. Ok(pprev[b])
    BY <1>3, <1>4, Zenon
  <1>6. ASSUME NEW a \in Up[b] \ {b}
        PROVE  nHeight[a] < nHeight[b] /\ nChainWork[a] < nChainWork[b]
    <2>1. a \in Up[pprev[b]] /\ a \in Blocks
      BY <1>3, <1>4, Parents, Zenon
    <2>2. /\ nHeight[a] \in Nat /\ nHeight[b] \in Nat /\ nHeight[pprev[b]] \in Nat
          /\ nChainWork[a] \in Nat /\ nChainWork[b] \in Nat /\ nChainWork[pprev[b]] \in Nat
      BY <1>3, <1>4, <2>1, Parents, Zenon
    <2>3. a = pprev[b] \/ (nHeight[a] < nHeight[pprev[b]] /\ nChainWork[a] < nChainWork[pprev[b]])
      BY <1>5, <2>1, Zenon
    <2> QED BY <1>4, <2>2, <2>3
  <1> QED BY <1>3, <1>6, Zenon

\* Two ancestors of a block lie on one chain.
LEMMA UpLinear == \A b \in Blocks : \A x, y \in Up[b] : x \in Up[y] \/ y \in Up[x]
  <1> DEFINE Ok(b) == \A x, y \in Up[b] : x \in Up[y] \/ y \in Up[x]
             S == {b \in Blocks : ~Ok(b)}
  <1>1. SUFFICES ASSUME S # {} PROVE FALSE
    BY Zenon
  <1>2. Genesis \notin S
    BY Parents, Zenon
  <1>3. PICK b \in S : b \in Blocks \ {Genesis} /\ pprev[b] \notin S
    <2>1. S \in SUBSET Blocks
      BY Zenon
    <2> HIDE DEF S
    <2> QED BY <1>1, <1>2, <2>1, FirstOf, Zenon
  <1>4. pprev[b] \in Blocks /\ Up[b] = Up[pprev[b]] \cup {b}
    BY <1>3, Parents, Zenon
  <1>5. Ok(pprev[b])
    BY <1>3, <1>4, Zenon
  <1>6. Ok(b)
    BY <1>4, <1>5, Zenon
  <1> QED BY <1>3, <1>6, Zenon

\* A block of the chain to c that is not in the chain to p lies above p.
LEMMA UpAbove ==
    ASSUME NEW c \in Blocks, NEW p \in Up[c], NEW x \in Up[c], x \notin Up[p]
    PROVE  p \in Up[x]
  BY UpLinear, Zenon

\* Two blocks that are each other's ancestor are the same.
LEMMA UpAntisymmetric ==
    ASSUME NEW x \in Blocks, NEW y \in Blocks, x \in Up[y], y \in Up[x]
    PROVE  x = y
  <1>1. nHeight[x] \in Nat /\ nHeight[y] \in Nat
    BY Parents, Zenon
  <1> QED BY <1>1, UpGrows

\* The chain of a parent, and the block that follows p on the way to c.
LEMMA UpParent ==
    ASSUME NEW c \in Blocks, NEW b \in Up[c] \ {Genesis}
    PROVE  pprev[b] \in Up[c]
  BY Parents, UpTransitive, Zenon

LEMMA UpNext ==
    ASSUME NEW c \in Blocks, NEW p \in Up[c], p # c
    PROVE  \E b \in Up[c] : nHeight[b] = nHeight[p] + 1
  <1> DEFINE S == {x \in Up[c] : nHeight[x] > nHeight[p]}
  <1>0. Up[c] \subseteq Blocks /\ c \in Up[c] /\ p \in Blocks /\ nHeight[p] \in Nat
    BY Parents, Zenon
  <1>1. S \in SUBSET Blocks /\ S # {}
    <2>1. nHeight[c] > nHeight[p]
      BY <1>0, UpGrows, Parents, Zenon
    <2> QED BY <1>0, <2>1, Zenon
  <1>2. Genesis \notin S
    BY <1>0, Parents
  <1>3. PICK b \in S : b \in Blocks \ {Genesis} /\ pprev[b] \notin S
    <2> HIDE DEF S
    <2> QED BY <1>1, <1>2, FirstOf, Zenon
  <1>4. pprev[b] \in Up[c]
    BY <1>3, UpParent, Zenon
  <1>5. /\ nHeight[pprev[b]] \in Nat /\ ~(nHeight[pprev[b]] > nHeight[p])
        /\ nHeight[b] > nHeight[p] /\ nHeight[b] = nHeight[pprev[b]] + 1
    BY <1>3, <1>4, Parents, Zenon
  <1> QED BY <1>0, <1>3, <1>5

LEMMA UpNextParent ==
    ASSUME NEW c \in Blocks, NEW p \in Up[c], NEW b \in Up[c], nHeight[b] = nHeight[p] + 1
    PROVE  b \in Blocks \ {Genesis} /\ pprev[b] = p
  <1>1. p \in Blocks /\ b \in Blocks /\ nHeight[p] \in Nat
    BY Parents, Zenon
  <1>2. b # Genesis
    BY <1>1, Parents
  <1>3. pprev[b] \in Up[c] /\ pprev[b] \in Blocks /\ nHeight[pprev[b]] \in Nat
    BY <1>1, <1>2, UpParent, Parents, Zenon
  <1>4. nHeight[b] = nHeight[pprev[b]] + 1
    BY <1>1, <1>2, Parents, Zenon
  <1>5. nHeight[pprev[b]] = nHeight[p]
    BY <1>1, <1>3, <1>4
  <1>6. ~(nHeight[pprev[b]] < nHeight[p]) /\ ~(nHeight[p] < nHeight[pprev[b]])
    BY <1>1, <1>3, <1>5
  <1>7. p \in Up[pprev[b]] \/ pprev[b] \in Up[p]
    BY <1>3, UpLinear, Zenon
  <1> QED BY <1>1, <1>2, <1>3, <1>6, <1>7, UpGrows, Zenon

\* A set closed under parents holds the chains of its blocks.
LEMMA ClosedUp ==
    ASSUME NEW S \in SUBSET Blocks, \A b \in S \ {Genesis} : pprev[b] \in S
    PROVE  \A b \in S : Up[b] \subseteq S
  <1> DEFINE B == {b \in S : ~(Up[b] \subseteq S)}
  <1>1. SUFFICES ASSUME B # {} PROVE FALSE
    BY Zenon
  <1>2. Genesis \notin B /\ B \in SUBSET Blocks
    BY Parents, Zenon
  <1>3. PICK b \in B : b \in Blocks \ {Genesis} /\ pprev[b] \notin B
    <2> HIDE DEF B
    <2> QED BY <1>1, <1>2, FirstOf, Zenon
  <1> QED BY <1>3, Parents

-----------------------------------------------------------------------------
(* What holds in every scenario.                                            *)

\* The thread inside a critical section is the one that holds cs_main.
Locked == \A t \in Threads : pc[t] \in {"find", "step", "inval"} <=> cs_main = t

\* What a thread keeps in its locals.  Between the critical sections of
\* ActivateBestChain other threads may have moved the tip.
Chosen ==
    \A t \in Threads :
        /\ pc[t] \in {"idle", "find"} => pindexMostWork[t] = NULL
        /\ pc[t] = "step" => pindexMostWork[t] \in linked /\ pindexMostWork[t] # tip
        /\ pc[t] = "loop" => pindexMostWork[t] \in linked \cup {NULL}
        /\ pc[t] = "inval" => /\ pindexMostWork[t] \in mapBlockIndex \ {Genesis}
                              /\ pindexOldTip[t] \in linked

\* The index: closed under parents, and the validity level says what is known.
Indexed ==
    /\ Genesis \in mapBlockIndex /\ Failed \subseteq mapBlockIndex \ {Genesis}
    /\ \A b \in mapBlockIndex \ {Genesis} : pprev[b] \in mapBlockIndex
    /\ \A b \in Blocks : valid[b] >= TREE <=> b \in mapBlockIndex
    /\ \A b \in Blocks : valid[b] >= TRANSACTIONS <=> b \in received

\* What is stored was received, and what was received passed its checks.
Stored ==
    /\ haveUndo \subseteq haveData /\ haveData \subseteq received
    /\ ~fHavePruned => received \subseteq haveData
    /\ received \cap BadCheck = {}

\* Blocks with nChainTx: closed under parents, and all a candidate can be.
Linked ==
    /\ Genesis \in linked /\ linked \subseteq received
    /\ \A b \in linked \ {Genesis} : pprev[b] \in linked
    /\ \A b \in Blocks \ linked : nSequenceId[b] <= 0
    /\ mapBlocksUnlinked \subseteq received
    /\ ~fHavePruned => mapBlocksUnlinked \cap linked = {}
    /\ setBlockIndexCandidates \subseteq linked /\ tip \in linked

Base ==
    TypeOK /\ Locked /\ Chosen /\ Indexed /\ Stored /\ Linked /\ scenario \in Scenarios

-----------------------------------------------------------------------------
(* The operators the actions are built from.                                *)

LEMMA LinkedUp == ASSUME TypeOK, Linked PROVE \A b \in linked : Up[b] \subseteq linked
  BY ClosedUp, Zenon DEF TypeOK, Linked

LEMMA IndexUp ==
    ASSUME TypeOK, Indexed PROVE \A b \in mapBlockIndex : Up[b] \subseteq mapBlockIndex
  BY ClosedUp, Zenon DEF TypeOK, Indexed

\* RaiseValidity of a block that has not failed reaches the level asked for.
LEMMA Raised ==
    ASSUME TypeOK, NEW b \in Blocks, NEW n \in {TREE, TRANSACTIONS, SCRIPTS}
    PROVE  /\ RaiseValidity(b, n) \in {0, TREE, TRANSACTIONS, SCRIPTS}
           /\ RaiseValidity(b, n) >= valid[b]
           /\ b \notin Failed => RaiseValidity(b, n) >= n
           /\ RaiseValidity(b, n) = valid[b] \/ RaiseValidity(b, n) = n
  <1>1. valid[b] \in {0, TREE, TRANSACTIONS, SCRIPTS}
    BY Zenon DEF TypeOK
  <1> QED BY <1>1 DEF RaiseValidity, TREE, TRANSACTIONS, SCRIPTS

\* The blocks ReceivedBlockTransactions links hang together.
LEMMA LinkableFacts ==
    ASSUME TypeOK, NEW b \in Blocks
    PROVE  /\ b \in Linkable(b) /\ Linkable(b) \subseteq mapBlocksUnlinked \cup {b}
           /\ IsFiniteSet(Linkable(b)) /\ Cardinality(Linkable(b)) \in Nat
           /\ \A d \in Linkable(b) : Up[d] \subseteq Up[b] \cup mapBlocksUnlinked
           /\ \A d \in Linkable(b) \ {b} : d # Genesis /\ pprev[d] \in Linkable(b)
  <1>1. b \in Linkable(b) /\ Linkable(b) \subseteq mapBlocksUnlinked \cup {b}
    BY Parents, Zenon DEF Linkable
  <1>2. Linkable(b) \in SUBSET Blocks
    BY <1>1, Zenon DEF TypeOK
  <1>3. IsFiniteSet(Linkable(b)) /\ Cardinality(Linkable(b)) \in Nat
    BY <1>2, TreeAssumption, FS_Subset, FS_CardinalityType, Zenon
  <1>4. \A d \in Linkable(b) : Up[d] \subseteq Up[b] \cup mapBlocksUnlinked
    BY Zenon DEF Linkable
  <1>5. ASSUME NEW d \in Linkable(b) \ {b} PROVE d # Genesis /\ pprev[d] \in Linkable(b)
    <2>1. d \in Blocks /\ b \in Up[d] /\ Up[d] \ Up[b] \subseteq mapBlocksUnlinked
      BY <1>2, <1>5, Zenon DEF Linkable
    <2>2. d # Genesis
      BY <1>5, <2>1, Parents, Zenon
    <2>3. pprev[d] \in Blocks /\ Up[d] = Up[pprev[d]] \cup {d} /\ pprev[d] \in Up[d]
      BY <2>1, <2>2, Parents, Zenon
    <2>4. b \in Up[pprev[d]]
      BY <1>5, <2>1, <2>3, Zenon
    <2>5. pprev[d] \in Up[b] => pprev[d] = b
      BY <2>3, <2>4, UpAntisymmetric, Zenon
    <2>6. pprev[d] \in mapBlocksUnlinked \cup {b}
      BY <2>1, <2>3, <2>5, Zenon
    <2> QED BY <2>1, <2>2, <2>3, <2>4, <2>6, Zenon DEF Linkable
  <1> QED BY <1>1, <1>3, <1>4, <1>5, Zenon

\* The block that ConnectTip connects is the child of the tip towards
\* pindexMostWork.
LEMMA ConnectFacts ==
    ASSUME TypeOK, Chosen, Linked, NEW t \in Threads, pc[t] = "step",
           tip \in Up[pindexMostWork[t]]
    PROVE  /\ pindexMostWork[t] \in linked /\ pindexConnect(t) \in linked
           /\ pindexConnect(t) \in Up[pindexMostWork[t]]
           /\ pindexConnect(t) \in Blocks \ {Genesis} /\ pprev[pindexConnect(t)] = tip
           /\ Up[pindexConnect(t)] = Up[tip] \cup {pindexConnect(t)}
  <1> DEFINE mw == pindexMostWork[t]
             b == pindexConnect(t)
  <1>1. mw \in linked /\ mw # tip /\ mw \in Blocks /\ tip \in Blocks
    BY Zenon DEF Chosen, TypeOK
  <1>2. \E x \in Up[mw] : nHeight[x] = nHeight[tip] + 1
    BY <1>1, UpNext, Zenon
  <1>3. b \in Up[mw] /\ nHeight[b] = nHeight[tip] + 1
    BY <1>2, Zenon DEF pindexConnect
  <1>4. b \in Blocks \ {Genesis} /\ pprev[b] = tip
    <2> HIDE DEF mw, b
    <2> QED BY <1>1, <1>3, UpNextParent, Zenon DEF mw
  <1> QED BY <1>1, <1>3, <1>4, LinkedUp, Parents, Zenon

\* The candidate FindMostWorkChain looks at.
LEMMA BestCandidate ==
    ASSUME TypeOK, setBlockIndexCandidates # {}
    PROVE  Best(nSequenceId, setBlockIndexCandidates) \in setBlockIndexCandidates
  BY BestPicks DEF TypeOK

\* What DropCandidate takes out lies above the culprit and is itself usable.
LEMMA DropFacts ==
    ASSUME TypeOK, NEW c \in Blocks, Unusable(c) # {},
           NEW x \in Up[c] \ Up[Highest(Unusable(c))]
    PROVE  /\ Highest(Unusable(c)) \in Up[x] /\ x \notin Up[tip]
           /\ x \in haveData /\ x \notin Failed
  <1> DEFINE p == Highest(Unusable(c))
  <1>1. p \in Unusable(c) /\ \A y \in Unusable(c) : nHeight[y] <= nHeight[p]
    <2>1. Unusable(c) \in SUBSET Blocks
      BY Parents, Zenon DEF Unusable
    <2> QED BY <2>1, HighestPicks, Zenon
  <1> HIDE DEF p
  <1>2. p \in Up[c] /\ p \notin Up[tip] /\ x \in Blocks /\ p \in Blocks /\ tip \in Blocks
    BY <1>1, Parents, Zenon DEF Unusable, TypeOK
  <1>3. p \in Up[x] /\ p # x
    BY <1>2, UpAbove, Parents, Zenon DEF p
  <1>4. x \notin Up[tip]
    BY <1>2, <1>3, UpTransitive, Zenon
  <1>5. nHeight[p] < nHeight[x] /\ nHeight[p] \in Nat /\ nHeight[x] \in Nat
    BY <1>2, <1>3, UpGrows, Parents, Zenon
  <1>6. x \notin Unusable(c)
    BY <1>1, <1>5
  <1> QED BY <1>3, <1>4, <1>6, Zenon DEF Unusable, p

LEMMA DropCulprit ==
    ASSUME NEW c \in Blocks, Unusable(c) # {}
    PROVE  Highest(Unusable(c)) \in Unusable(c) /\ Highest(Unusable(c)) \in Up[c]
  <1>1. Unusable(c) \in SUBSET Blocks
    BY Parents, Zenon DEF Unusable
  <1>2. Highest(Unusable(c)) \in Unusable(c)
    BY <1>1, HighestPicks
  <1> QED BY <1>2, Zenon DEF Unusable

\* ReceivedBlockTransactions when the parent is linked, and when it is not.
LEMMA LinkBranch ==
    ASSUME NEW b, ReceivedBlockTransactions(b), b = Genesis \/ pprev[b] \in linked
    PROVE  \E f \in Numberings(Linkable(b)) :
              /\ linked' = linked \cup Linkable(b)
              /\ nSequenceId' = [c \in Blocks |-> IF c \in Linkable(b) THEN f[c]
                                                  ELSE nSequenceId[c]]
              /\ nBlockSequenceId' = nBlockSequenceId + Cardinality(Linkable(b))
              /\ setBlockIndexCandidates' = setBlockIndexCandidates
                    \cup {c \in Linkable(b) : ~Worse(nSequenceId', c, tip)}
              /\ mapBlocksUnlinked' = mapBlocksUnlinked \ Linkable(b)
  <1> DEFINE L == Linkable(b)
             Seq(f) == [c \in Blocks |-> IF c \in L THEN f[c] ELSE nSequenceId[c]]
  <1>1. PICK f \in Numberings(L) :
            /\ linked' = linked \cup L /\ nSequenceId' = Seq(f)
            /\ nBlockSequenceId' = nBlockSequenceId + Cardinality(L)
            /\ setBlockIndexCandidates' = setBlockIndexCandidates
                  \cup {c \in L : ~Worse(Seq(f), c, tip)}
            /\ mapBlocksUnlinked' = mapBlocksUnlinked \ L
    BY Zenon DEF ReceivedBlockTransactions
  <1>2. setBlockIndexCandidates' = setBlockIndexCandidates
            \cup {c \in L : ~Worse(nSequenceId', c, tip)}
    <2> HIDE DEF L, Seq
    <2> QED BY <1>1, Zenon
  <1> QED BY <1>1, <1>2, Zenon

LEMMA WaitBranch ==
    ASSUME NEW b, ReceivedBlockTransactions(b), ~(b = Genesis \/ pprev[b] \in linked)
    PROVE  /\ linked' = linked \ {b}
           /\ mapBlocksUnlinked' =
                 mapBlocksUnlinked \cup (IF IsValid(pprev[b], TREE) THEN {b} ELSE {})
           /\ UNCHANGED <<nSequenceId, nBlockSequenceId, setBlockIndexCandidates>>
  BY Zenon DEF ReceivedBlockTransactions

\* The number PreciousBlock gives a block.
LEMMA PreciousFacts ==
    ASSUME TypeOK, NEW t, NEW b, PreciousBlock(t, b)
    PROVE  \E id \in Int :
              /\ id < 0 /\ nSequenceId' = [nSequenceId EXCEPT ![b] = id]
              /\ nBlockReverseSequenceId' = id - 1
              /\ setBlockIndexCandidates' =
                    IF IsValid(b, TRANSACTIONS) /\ b \in linked
                    THEN PruneBlockIndexCandidates(nSequenceId',
                            (setBlockIndexCandidates \ {b}) \cup {b}, tip)
                    ELSE setBlockIndexCandidates \ {b}
  <1> DEFINE id == IF nChainWork[tip] > nLastPreciousChainwork THEN -1
                   ELSE nBlockReverseSequenceId
  <1>1. id \in Int /\ id < 0
    BY DEF TypeOK
  <1>2. /\ nSequenceId' = [nSequenceId EXCEPT ![b] = id]
        /\ nBlockReverseSequenceId' = id - 1
        /\ setBlockIndexCandidates' =
              IF IsValid(b, TRANSACTIONS) /\ b \in linked
              THEN PruneBlockIndexCandidates([nSequenceId EXCEPT ![b] = id],
                      (setBlockIndexCandidates \ {b}) \cup {b}, tip)
              ELSE setBlockIndexCandidates \ {b}
    BY Zenon DEF PreciousBlock, NextReverse
  <1> HIDE DEF id
  <1> QED BY <1>1, <1>2, Zenon

-----------------------------------------------------------------------------
(* Every step keeps what holds in every scenario.                           *)

\* The types of what belongs to the threads.
ThreadsTyped ==
    /\ cs_main \in Threads \cup {NoThread} /\ pc \in [Threads -> PCs]
    /\ pindexMostWork \in [Threads -> Blocks \cup {NULL}]
    /\ pindexOldTip \in [Threads -> Blocks \cup {NULL}]
    /\ failedCalls \in SUBSET Threads

\* Leaving ActivateBestChain or going round its loop again.
LEMMA ThreadMoves ==
    ASSUME TypeOK, NEW t \in Threads,
           \/ Leave(t) \/ (\E mw \in Blocks \cup {NULL} : Again(t, mw)) \/ ThenActivate(t)
           \/ UNCHANGED threads
    PROVE  ThreadsTyped'
  BY DEF TypeOK, Leave, Again, ThenActivate, threads, ThreadsTyped, PCs

\* The types of the index and the candidates.
IndexTyped ==
    /\ mapBlockIndex \in SUBSET Blocks
    /\ valid \in [Blocks -> {0, TREE, TRANSACTIONS, SCRIPTS}]
    /\ haveData \in SUBSET Blocks /\ haveUndo \in SUBSET Blocks
    /\ failedValid \in SUBSET Blocks /\ failedChild \in SUBSET Blocks
    /\ received \in SUBSET Blocks /\ linked \in SUBSET Blocks
    /\ nSequenceId \in [Blocks -> Int]
    /\ setBlockIndexCandidates \in SUBSET Blocks
    /\ mapBlocksUnlinked \in SUBSET Blocks /\ gFailedBlocks \in SUBSET Blocks

\* The types of the rest.
RestTyped ==
    /\ tip \in Blocks
    /\ pindexBestHeader \in Blocks /\ pindexBestInvalid \in Blocks \cup {NULL}
    /\ nBlockSequenceId \in Nat /\ nBlockReverseSequenceId \in Int /\ nBlockReverseSequenceId < 0
    /\ nLastPreciousChainwork \in Nat

LEMMA TypeParts == TypeOK <=> ThreadsTyped /\ IndexTyped /\ RestTyped
  BY Zenon DEF TypeOK, ThreadsTyped, IndexTyped, RestTyped

LEMMA ThreadsTypedStep ==
    ASSUME TypeOK, Chosen, Linked, [Next]_<<vars, scenario>>
    PROVE  ThreadsTyped'
  <1>1. CASE UNCHANGED threads
    BY <1>1, ThreadMoves, TypeParts, Zenon DEF threads, ThreadsTyped
  <1>2. ASSUME NEW t \in Threads, ThenActivate(t) PROVE ThreadsTyped'
    BY <1>2, ThreadMoves, Zenon
  <1>3. ASSUME NEW t \in Threads, Leave(t) PROVE ThreadsTyped'
    BY <1>3, ThreadMoves, Zenon
  <1>4. ASSUME NEW t \in Threads, NEW mw \in Blocks \cup {NULL}, Again(t, mw) PROVE ThreadsTyped'
    BY <1>4, ThreadMoves, Zenon
  <1>5. ASSUME NEW t \in Threads, Lock(t) PROVE ThreadsTyped'
    <2>1. CASE pindexMostWork[t] = tip
      BY <1>3, <1>5, <2>1, Zenon DEF Lock
    <2>2. CASE pindexMostWork[t] # tip
      BY <1>5, <2>2, Zenon DEF Lock, TypeOK, ThreadsTyped, PCs
    <2> QED BY <2>1, <2>2, Zenon
  <1>6. ASSUME NEW t \in Threads, FindMostWorkChain(t) PROVE ThreadsTyped'
    <2> DEFINE c == IF setBlockIndexCandidates = {} THEN tip
                    ELSE Best(nSequenceId, setBlockIndexCandidates)
    <2>1. c \in Blocks
      BY BestCandidate, Zenon DEF TypeOK
    <2>2. \/ Leave(t)
          \/ /\ pc' = [pc EXCEPT ![t] = "step"]
             /\ pindexMostWork' = [pindexMostWork EXCEPT ![t] = c]
             /\ UNCHANGED <<cs_main, pindexOldTip, failedCalls>>
      BY <1>6, Zenon DEF FindMostWorkChain
    <2> HIDE DEF c
    <2> QED BY <1>3, <2>1, <2>2, Zenon DEF TypeOK, ThreadsTyped, PCs
  <1>7. ASSUME NEW t \in Threads, DropCandidate(t) PROVE ThreadsTyped'
    BY <1>1, <1>7, Zenon DEF DropCandidate
  <1>8. ASSUME NEW t \in Threads, DisconnectTip(t) PROVE ThreadsTyped'
    BY <1>1, <1>3, <1>8, Zenon DEF DisconnectTip
  <1>9. ASSUME NEW t \in Threads, ConnectTip(t) PROVE ThreadsTyped'
    <2>1. pindexMostWork[t] \in Blocks \cup {NULL}
      BY Zenon DEF TypeOK
    <2>2. Leave(t) \/ Again(t, pindexMostWork[t]) \/ UNCHANGED threads
      BY <1>9, Zenon DEF ConnectTip
    <2> QED BY <1>1, <1>3, <1>4, <2>1, <2>2, Zenon
  <1>10. ASSUME NEW t \in Threads, ConnectTipInvalid(t) \/ InvalidateMark(t) PROVE ThreadsTyped'
    BY <1>4, <1>10, Zenon DEF ConnectTipInvalid, InvalidateMark
  <1>11. ASSUME NEW t \in Threads, ReadFails(t) PROVE ThreadsTyped'
    BY <1>11, Zenon DEF ReadFails, TypeOK, ThreadsTyped, PCs
  <1>12. ASSUME NEW t \in Threads, InvalidateDisconnect(t) PROVE ThreadsTyped'
    BY <1>1, <1>12, Zenon DEF InvalidateDisconnect
  <1>13. ASSUME NEW t \in Threads, Restart(t) PROVE ThreadsTyped'
    BY <1>2, <1>13, Zenon DEF Restart
  <1>14. ASSUME NEW t \in Threads, NEW b \in Blocks, Peer(t, b) PROVE ThreadsTyped'
    BY <1>1, <1>2, <1>14, Zenon DEF Peer, AcceptBlockHeader, RejectHeader, AcceptBlock,
        AcceptBlockUnwanted, AcceptBlockInvalid
  <1>15. ASSUME NEW t \in Threads, NEW b \in Blocks, InvalidateBlock(t, b) PROVE ThreadsTyped'
    BY <1>15, Zenon DEF InvalidateBlock, TypeOK, ThreadsTyped, PCs
  <1>16. ASSUME NEW t \in Threads, NEW b \in Blocks, ReconsiderBlock(t, b) \/ PreciousBlock(t, b)
         PROVE  ThreadsTyped'
    BY <1>2, <1>16, Zenon DEF ReconsiderBlock, PreciousBlock
  <1>17. ASSUME NEW b \in Blocks, PruneOneBlockFile(b) PROVE ThreadsTyped'
    BY <1>1, <1>17, Zenon DEF PruneOneBlockFile
  <1>18. CASE UNCHANGED <<vars, scenario>>
    BY <1>1, <1>18 DEF vars
  <1> QED
    BY <1>5, <1>6, <1>7, <1>8, <1>9, <1>10, <1>11, <1>12, <1>13, <1>14, <1>15, <1>16, <1>17,
        <1>18, Zenon
    DEF Next, Activate, Operator

\* Of the sets of blocks only restarts and arriving blocks need an argument.
LEMMA IndexTypedStep ==
    ASSUME TypeOK, Chosen, Linked, [Next]_<<vars, scenario>>
    PROVE  IndexTyped'
  <1>0. IndexTyped /\ tip \in Blocks /\ nBlockSequenceId \in Nat
    BY TypeParts, Zenon DEF RestTyped
  <1>1. ASSUME UNCHANGED <<index, sets>> PROVE IndexTyped'
    BY <1>0, <1>1, Zenon DEF index, sets, IndexTyped
  <1>2. ASSUME NEW b \in Blocks, NEW n \in {TREE, TRANSACTIONS, SCRIPTS}
        PROVE  [valid EXCEPT ![b] = RaiseValidity(b, n)]
                   \in [Blocks -> {0, TREE, TRANSACTIONS, SCRIPTS}]
    BY <1>0, <1>2, Raised, Zenon DEF IndexTyped
  <1>3. ASSUME NEW t \in Threads, NEW b \in Blocks, AcceptBlockHeader(t, b) PROVE IndexTyped'
    BY <1>0, <1>2, <1>3, Zenon DEF AcceptBlockHeader, AddToBlockIndex, IndexTyped, sets
  <1>4. ASSUME NEW t \in Threads, NEW b \in Blocks, RejectHeader(t, b) PROVE IndexTyped'
    <2>1. pprev[b] \in Blocks
      BY <1>0, <1>4, Zenon DEF RejectHeader, IndexTyped
    <2>2. Up[pprev[b]] \subseteq Blocks
      BY <2>1, Parents, Zenon
    <2> QED BY <1>0, <1>4, <2>2, Zenon DEF RejectHeader, IndexTyped, sets
  <1>5. ASSUME NEW t \in Threads, NEW b \in Blocks, NEW r \in BOOLEAN, AcceptBlock(t, b, r)
        PROVE  IndexTyped'
    <2>1. /\ mapBlockIndex' \in SUBSET Blocks /\ received' \in SUBSET Blocks
          /\ haveData' \in SUBSET Blocks
          /\ UNCHANGED <<haveUndo, failedValid, failedChild, gFailedBlocks>>
      BY <1>0, <1>5, Zenon
      DEF AcceptBlock, AddToBlockIndex, ReceivedBlockTransactions, IndexTyped
    <2>2. valid' \in [Blocks -> {0, TREE, TRANSACTIONS, SCRIPTS}]
      BY <1>2, <1>5, Zenon DEF AcceptBlock
    <2>3. CASE b = Genesis \/ pprev[b] \in linked
      <3>1. PICK f \in Numberings(Linkable(b)) :
               /\ linked' = linked \cup Linkable(b)
               /\ nSequenceId' = [c \in Blocks |-> IF c \in Linkable(b) THEN f[c]
                                                   ELSE nSequenceId[c]]
               /\ setBlockIndexCandidates' = setBlockIndexCandidates
                     \cup {c \in Linkable(b) : ~Worse(nSequenceId', c, tip)}
               /\ mapBlocksUnlinked' = mapBlocksUnlinked \ Linkable(b)
        BY <1>5, <2>3, LinkBranch, Zenon DEF AcceptBlock
      <3>2. Linkable(b) \in SUBSET Blocks /\ Cardinality(Linkable(b)) \in Nat
        <4>1. /\ Linkable(b) \subseteq mapBlocksUnlinked \cup {b}
              /\ Cardinality(Linkable(b)) \in Nat
          BY LinkableFacts, Zenon
        <4> QED BY <1>0, <4>1 DEF IndexTyped
      <3>3. f \in [Linkable(b) -> Int]
        BY <1>0, <3>2 DEF Numberings
      <3>4. nSequenceId' \in [Blocks -> Int]
        BY <1>0, <3>1, <3>2, <3>3, Zenon DEF IndexTyped
      <3> QED BY <1>0, <2>1, <2>2, <3>1, <3>2, <3>4, Zenon DEF IndexTyped
    <2>4. CASE ~(b = Genesis \/ pprev[b] \in linked)
      <3>1. /\ linked' \subseteq linked /\ mapBlocksUnlinked' \subseteq mapBlocksUnlinked \cup {b}
            /\ UNCHANGED <<nSequenceId, setBlockIndexCandidates>>
        BY <1>5, <2>4, WaitBranch, Zenon DEF AcceptBlock
      <3> QED BY <1>0, <2>1, <2>2, <3>1, Zenon DEF IndexTyped
    <2> QED BY <2>3, <2>4, Zenon
  <1>6. ASSUME NEW t \in Threads, NEW b \in Blocks, NEW r \in BOOLEAN,
               AcceptBlockUnwanted(t, b, r)
        PROVE  IndexTyped'
    BY <1>0, <1>2, <1>6, Zenon DEF AcceptBlockUnwanted, AddToBlockIndex, IndexTyped, sets
  <1>7. ASSUME NEW t \in Threads, NEW b \in Blocks, NEW r \in BOOLEAN, NEW x \in BOOLEAN,
               AcceptBlockInvalid(t, b, r, x)
        PROVE  IndexTyped'
    BY <1>0, <1>2, <1>7, Zenon DEF AcceptBlockInvalid, AddToBlockIndex, IndexTyped, sets
  <1>8. ASSUME NEW t \in Threads, DropCandidate(t) PROVE IndexTyped'
    <2> DEFINE c == Best(nSequenceId, setBlockIndexCandidates)
    <2>1. Up[c] \subseteq Blocks
      BY <1>8, BestCandidate, Parents, Zenon DEF DropCandidate, TypeOK
    <2>2. /\ failedChild' \subseteq failedChild \cup Up[c]
          /\ mapBlocksUnlinked' \subseteq mapBlocksUnlinked \cup Up[c]
          /\ setBlockIndexCandidates' \subseteq setBlockIndexCandidates
      BY <1>8, Zenon DEF DropCandidate, Unlink
    <2>3. UNCHANGED <<mapBlockIndex, valid, haveData, haveUndo, failedValid, received, linked,
                      nSequenceId, gFailedBlocks>>
      BY <1>8, Zenon DEF DropCandidate
    <2> QED BY <1>0, <2>1, <2>2, <2>3, Zenon DEF IndexTyped
  <1>9. ASSUME NEW t \in Threads, ConnectTip(t) PROVE IndexTyped'
    <2> DEFINE b == pindexConnect(t)
    <2>1. b \in Blocks
      BY <1>9, ConnectFacts, Zenon DEF ConnectTip
    <2> HIDE DEF b
    <2>2. /\ valid' = [valid EXCEPT ![b] = RaiseValidity(b, SCRIPTS)]
          /\ haveUndo' = haveUndo \cup {b}
          /\ setBlockIndexCandidates' \subseteq setBlockIndexCandidates
          /\ UNCHANGED <<mapBlockIndex, haveData, failedValid, failedChild, received, linked,
                         nSequenceId, mapBlocksUnlinked, gFailedBlocks>>
      BY <1>9, Zenon DEF ConnectTip, PruneBlockIndexCandidates, b
    <2> QED BY <1>0, <1>2, <2>1, <2>2, Zenon DEF IndexTyped
  <1>10. ASSUME NEW t \in Threads, ConnectTipInvalid(t) PROVE IndexTyped'
    <2>1. pindexConnect(t) \in Blocks
      BY <1>10, ConnectFacts, Zenon DEF ConnectTipInvalid
    <2> QED BY <1>0, <1>10, <2>1, Zenon DEF ConnectTipInvalid, IndexTyped
  <1>11. ASSUME NEW t \in Threads, InvalidateMark(t) PROVE IndexTyped'
    <2>1. pindexMostWork[t] \in Blocks /\ Up[pindexOldTip[t]] \subseteq Blocks
      BY <1>11, Parents, Zenon DEF InvalidateMark, Chosen, TypeOK
    <2>2. /\ failedChild' \subseteq failedChild \cup Up[pindexOldTip[t]]
          /\ failedValid' = failedValid \cup {pindexMostWork[t]}
          /\ gFailedBlocks' \subseteq gFailedBlocks \cup {pindexMostWork[t]}
          /\ setBlockIndexCandidates' \subseteq setBlockIndexCandidates \cup linked
      BY <1>11, Zenon DEF InvalidateMark, AsGoodAsTip
    <2>3. UNCHANGED <<mapBlockIndex, valid, haveData, haveUndo, received, linked, nSequenceId,
                      mapBlocksUnlinked>>
      BY <1>11, Zenon DEF InvalidateMark
    <2> QED BY <1>0, <2>1, <2>2, <2>3, Zenon DEF IndexTyped
  <1>12. ASSUME NEW t \in Threads, NEW b \in Blocks, ReconsiderBlock(t, b) PROVE IndexTyped'
    <2>1. /\ failedChild' \subseteq failedChild /\ failedValid' \subseteq failedValid
          /\ setBlockIndexCandidates' \subseteq setBlockIndexCandidates \cup linked
          /\ UNCHANGED <<mapBlockIndex, valid, haveData, haveUndo, received, linked,
                         nSequenceId, mapBlocksUnlinked, gFailedBlocks>>
      BY <1>12, Zenon DEF ReconsiderBlock
    <2> QED BY <1>0, <2>1, Zenon DEF IndexTyped
  <1>13. ASSUME NEW t \in Threads, NEW b \in Blocks, PreciousBlock(t, b) PROVE IndexTyped'
    <2>1. /\ \E id \in Int : nSequenceId' = [nSequenceId EXCEPT ![b] = id]
          /\ setBlockIndexCandidates' \subseteq setBlockIndexCandidates \cup {b}
      BY <1>13, PreciousFacts DEF PruneBlockIndexCandidates
    <2>2. UNCHANGED <<mapBlockIndex, valid, haveData, haveUndo, failedValid, failedChild,
                      received, linked, mapBlocksUnlinked, gFailedBlocks>>
      BY <1>13, Zenon DEF PreciousBlock
    <2> QED BY <1>0, <2>1, <2>2, Zenon DEF IndexTyped
  <1>14. ASSUME NEW b \in Blocks, PruneOneBlockFile(b) PROVE IndexTyped'
    BY <1>0, <1>14, Zenon DEF PruneOneBlockFile, IndexTyped
  <1>15. ASSUME NEW t \in Threads, Restart(t) PROVE IndexTyped'
    <2>1. /\ failedChild' \subseteq failedChild \cup received
          /\ linked' \subseteq received /\ gFailedBlocks' = {}
          /\ setBlockIndexCandidates' \subseteq received
          /\ mapBlocksUnlinked' \subseteq received
      BY <1>15, Zenon DEF Restart, LoadedChild, PruneBlockIndexCandidates
    <2>2. /\ nSequenceId' = [b \in Blocks |-> 0]
          /\ UNCHANGED <<mapBlockIndex, valid, haveData, haveUndo, failedValid, received>>
      BY <1>15, Zenon DEF Restart
    <2> QED BY <1>0, <2>1, <2>2 DEF IndexTyped
  <1>16. CASE UNCHANGED <<vars, scenario>>
    BY <1>1, <1>16, Zenon DEF vars
  <1>17. ASSUME NEW t \in Threads,
                \/ Lock(t) \/ FindMostWorkChain(t) \/ DisconnectTip(t) \/ ReadFails(t)
                \/ InvalidateDisconnect(t) \/ (\E b \in Blocks : InvalidateBlock(t, b))
         PROVE  IndexTyped'
    BY <1>1, <1>17, Zenon DEF Lock, FindMostWorkChain, DisconnectTip, ReadFails,
        InvalidateDisconnect, InvalidateBlock
  <1> QED
    BY <1>3, <1>4, <1>5, <1>6, <1>7, <1>8, <1>9, <1>10, <1>11, <1>12, <1>13, <1>14, <1>15,
        <1>16, <1>17, Zenon
    DEF Next, Activate, Peer, Operator

\* pindexBestInvalid after a restart is one of the failed blocks.
LEMMA LoadedInvalidPicks ==
    ASSUME NEW F \in SUBSET Blocks PROVE LoadedInvalid(F) \in Blocks \cup {NULL}
  <1>1. SUFFICES ASSUME F # {} PROVE LoadedInvalid(F) \in F
    BY Zenon DEF LoadedInvalid
  <1>2. PICK w \in F : \A c \in F : nChainWork[c] <= nChainWork[w]
    BY <1>1, GreatestBlock, TreeAssumption, Zenon
  <1> DEFINE W == {b \in F : nChainWork[b] = nChainWork[w]}
  <1>3. W \in SUBSET Blocks /\ W # {}
    BY <1>2, Zenon
  <1>4. PICK h \in W : \A c \in W : nHeight[h] <= nHeight[c]
    <2> HIDE DEF W
    <2> QED BY <1>3, LeastBlock, TreeAssumption, Zenon
  <1> DEFINE H == {b \in W : nHeight[b] = nHeight[h]}
  <1>5. H \in SUBSET Blocks /\ H # {}
    BY <1>3, <1>4, Zenon
  <1>6. PICK b \in H : \A c \in H : address[b] <= address[c]
    <2> HIDE DEF H
    <2> QED BY <1>5, LeastBlock, TreeAssumption, Zenon
  <1>7. b \in F /\ nChainWork[b] = nChainWork[w] /\ nHeight[b] = nHeight[h]
    BY <1>6, Zenon
  <1>8. ASSUME NEW c \in F \ {b}
        PROVE  \/ nChainWork[c] < nChainWork[b]
               \/ /\ nChainWork[c] = nChainWork[b]
                  /\ \/ nHeight[b] < nHeight[c]
                     \/ nHeight[b] = nHeight[c] /\ address[b] < address[c]
    <2>1. /\ nChainWork[c] \in Nat /\ nChainWork[b] \in Nat /\ nHeight[c] \in Nat
          /\ nHeight[b] \in Nat
          /\ address[c] \in Nat /\ address[b] \in Nat /\ address[c] # address[b]
      BY <1>7, TreeAssumption, Zenon
    <2>2. CASE nChainWork[c] # nChainWork[b]
      BY <1>2, <1>7, <2>1, <2>2
    <2>3. CASE nChainWork[c] = nChainWork[b] /\ nHeight[c] # nHeight[b]
      BY <1>4, <1>7, <2>1, <2>3
    <2>4. CASE nChainWork[c] = nChainWork[b] /\ nHeight[c] = nHeight[b]
      BY <1>6, <1>7, <2>1, <2>4
    <2> QED BY <2>2, <2>3, <2>4, Zenon
  <1> QED BY <1>1, <1>7, <1>8, Zenon DEF LoadedInvalid

LEMMA RestTypedStep ==
    ASSUME TypeOK, Chosen, Indexed, Linked, [Next]_<<vars, scenario>>
    PROVE  RestTyped'
  <1>0. RestTyped
    BY TypeParts, Zenon
  <1>1. ASSUME UNCHANGED <<tip, best, counters>> PROVE RestTyped'
    BY <1>0, <1>1, Zenon DEF best, counters, RestTyped
  <1>2. ASSUME NEW b \in Blocks, InvalidChainFound(b), UNCHANGED <<tip, pindexBestHeader, counters>>
        PROVE  RestTyped'
    BY <1>0, <1>2, Zenon DEF InvalidChainFound, counters, RestTyped
  <1>3. ASSUME NEW b \in Blocks, AddToBlockIndex(b), UNCHANGED <<tip, pindexBestInvalid, counters>>
        PROVE  RestTyped'
    BY <1>0, <1>3, Zenon DEF AddToBlockIndex, counters, RestTyped
  <1>4. ASSUME NEW t \in Threads, NEW b \in Blocks, NEW r \in BOOLEAN, AcceptBlock(t, b, r)
        PROVE  RestTyped'
    <2>1. nBlockSequenceId' \in Nat
      <3>1. CASE b = Genesis \/ pprev[b] \in linked
        <4>1. nBlockSequenceId' = nBlockSequenceId + Cardinality(Linkable(b))
          BY <1>4, <3>1, LinkBranch, Zenon DEF AcceptBlock
        <4> QED BY <1>0, <4>1, LinkableFacts DEF RestTyped
      <3>2. CASE ~(b = Genesis \/ pprev[b] \in linked)
        BY <1>0, <1>4, <3>2, WaitBranch, Zenon DEF AcceptBlock, RestTyped
      <3> QED BY <3>1, <3>2, Zenon
    <2>2. pindexBestHeader' \in Blocks
      BY <1>0, <1>4, Zenon DEF AcceptBlock, AddToBlockIndex, RestTyped
    <2>3. UNCHANGED <<tip, pindexBestInvalid, nBlockReverseSequenceId, nLastPreciousChainwork>>
      BY <1>4, Zenon DEF AcceptBlock
    <2> QED BY <1>0, <2>1, <2>2, <2>3, Zenon DEF RestTyped
  <1>5. ASSUME NEW t \in Threads, NEW b \in Blocks, NEW r \in BOOLEAN, NEW x \in BOOLEAN,
               \/ AcceptBlockHeader(t, b) \/ AcceptBlockUnwanted(t, b, r)
               \/ AcceptBlockInvalid(t, b, r, x)
        PROVE  RestTyped'
    BY <1>3, <1>5, Zenon DEF AcceptBlockHeader, AcceptBlockUnwanted, AcceptBlockInvalid
  <1>6. ASSUME NEW t \in Threads, DropCandidate(t) PROVE RestTyped'
    <2> DEFINE c == Best(nSequenceId, setBlockIndexCandidates)
    <2>1. c \in Blocks
      BY <1>6, BestCandidate, Zenon DEF DropCandidate, TypeOK
    <2>2. /\ InvalidChainFound(c) \/ UNCHANGED pindexBestInvalid
          /\ UNCHANGED <<tip, pindexBestHeader, counters>>
      BY <1>6, Zenon DEF DropCandidate
    <2> HIDE DEF c
    <2> QED BY <1>1, <1>2, <2>1, <2>2, Zenon DEF best
  <1>7. ASSUME NEW t \in Threads, DisconnectTip(t) PROVE RestTyped'
    <2>1. Genesis \in Up[pindexMostWork[t]]
      BY <1>7, UpGenesis, Zenon DEF DisconnectTip, Chosen, TypeOK
    <2>2. tip # Genesis
      BY <1>7, <2>1, Zenon DEF DisconnectTip
    <2>3. tip' \in Blocks
      BY <1>0, <1>7, <2>2, Parents, Zenon DEF DisconnectTip, RestTyped
    <2> QED BY <1>0, <1>7, <2>3, Zenon DEF DisconnectTip, RestTyped, best, counters
  <1>8. ASSUME NEW t \in Threads, ConnectTip(t) PROVE RestTyped'
    <2>1. tip' \in Blocks
      BY <1>8, ConnectFacts, Zenon DEF ConnectTip
    <2> QED BY <1>0, <1>8, <2>1, Zenon DEF ConnectTip, RestTyped, best, counters
  <1>9. ASSUME NEW t \in Threads, InvalidateDisconnect(t) PROVE RestTyped'
    <2>1. tip # Genesis
      BY <1>9, Parents, Zenon DEF InvalidateDisconnect, Active, Chosen
    <2>2. tip' \in Blocks
      BY <1>0, <1>9, <2>1, Parents, Zenon DEF InvalidateDisconnect, RestTyped
    <2> QED BY <1>0, <1>9, <2>2, Zenon DEF InvalidateDisconnect, RestTyped, best, counters
  <1>10. ASSUME NEW t \in Threads, ConnectTipInvalid(t) PROVE RestTyped'
    <2>1. pindexConnect(t) \in Blocks
      BY <1>10, ConnectFacts, Zenon DEF ConnectTipInvalid
    <2> QED BY <1>2, <1>10, <2>1, Zenon DEF ConnectTipInvalid
  <1>11. ASSUME NEW t \in Threads, InvalidateMark(t) PROVE RestTyped'
    <2>1. pindexMostWork[t] \in Blocks
      BY <1>11, Zenon DEF InvalidateMark, Chosen, TypeOK
    <2> QED BY <1>2, <1>11, <2>1, Zenon DEF InvalidateMark
  <1>12. ASSUME NEW t \in Threads, NEW b \in Blocks, ReconsiderBlock(t, b) PROVE RestTyped'
    <2>1. pindexBestInvalid' \in {NULL, pindexBestInvalid}
      BY <1>12, Zenon DEF ReconsiderBlock
    <2> QED BY <1>0, <1>12, <2>1, Zenon DEF ReconsiderBlock, RestTyped, counters
  <1>13. ASSUME NEW t \in Threads, NEW b \in Blocks, PreciousBlock(t, b) PROVE RestTyped'
    <2>1. PICK id \in Int : id < 0 /\ nBlockReverseSequenceId' = id - 1
      BY <1>13, PreciousFacts, Zenon
    <2>2. nBlockReverseSequenceId' \in Int /\ nBlockReverseSequenceId' < 0
      BY <2>1
    <2>3. nLastPreciousChainwork' \in Nat /\ UNCHANGED <<tip, best, nBlockSequenceId>>
      BY <1>0, <1>13, Parents, Zenon DEF PreciousBlock, RestTyped
    <2> QED BY <1>0, <2>2, <2>3, Zenon DEF RestTyped, best
  <1>14. ASSUME NEW t \in Threads, Restart(t) PROVE RestTyped'
    <2> DEFINE zero == [b \in Blocks |-> 0]
               failed == Failed \cup LoadedChild
               S == {b \in mapBlockIndex \ failed : valid[b] >= TREE}
    <2>1. S \in SUBSET Blocks /\ failed \in SUBSET Blocks
      BY Zenon DEF TypeOK, Failed, LoadedChild
    <2>2. Genesis \in S
      BY Parents, Zenon DEF Indexed, LoadedChild
    <2>3. zero \in [Blocks -> Int]
      OBVIOUS
    <2>4. pindexBestHeader' = Best(zero, S) /\ pindexBestInvalid' = LoadedInvalid(failed)
      BY <1>14, Zenon DEF Restart
    <2>5. /\ nBlockSequenceId' = 1 /\ nBlockReverseSequenceId' = -1
          /\ nLastPreciousChainwork' = 0 /\ tip' = tip
      BY <1>14, Zenon DEF Restart
    <2> HIDE DEF S, zero, failed
    <2>6. pindexBestHeader' \in Blocks
      BY <2>1, <2>2, <2>3, <2>4, BestPicks, Zenon
    <2>7. pindexBestInvalid' \in Blocks \cup {NULL}
      BY <2>1, <2>4, LoadedInvalidPicks, Zenon
    <2> QED BY <1>0, <2>5, <2>6, <2>7 DEF RestTyped
  <1>15. ASSUME NEW t \in Threads,
                \/ Lock(t) \/ FindMostWorkChain(t) \/ ReadFails(t)
                \/ (\E b \in Blocks : RejectHeader(t, b) \/ InvalidateBlock(t, b))
         PROVE  RestTyped'
    BY <1>1, <1>15, Zenon DEF Lock, FindMostWorkChain, ReadFails, RejectHeader, InvalidateBlock
  <1>16. CASE (\E b \in Blocks : PruneOneBlockFile(b)) \/ UNCHANGED <<vars, scenario>>
    BY <1>1, <1>16, Zenon DEF PruneOneBlockFile, vars
  <1> QED
    BY <1>4, <1>5, <1>6, <1>7, <1>8, <1>9, <1>10, <1>11, <1>12, <1>13, <1>14, <1>15, <1>16, Zenon
    DEF Next, Activate, Peer, Operator

\* A block that is linked stays linked.
LEMMA LinkedGrows ==
    ASSUME TypeOK, Linked, [Next]_<<vars, scenario>>
    PROVE  linked \subseteq linked'
  <1>1. ASSUME NEW t \in Threads, NEW b \in Blocks, NEW r \in BOOLEAN, AcceptBlock(t, b, r)
        PROVE  linked \subseteq linked'
    <2>1. CASE b = Genesis \/ pprev[b] \in linked
      BY <1>1, <2>1, LinkBranch, Zenon DEF AcceptBlock
    <2>2. CASE ~(b = Genesis \/ pprev[b] \in linked)
      BY <1>1, <2>2, WaitBranch, Zenon DEF AcceptBlock, Linked
    <2> QED BY <2>1, <2>2, Zenon
  <1>2. ASSUME NEW t \in Threads, Restart(t) PROVE linked \subseteq linked'
    <2>1. linked' = {b \in received : Up[b] \subseteq received}
      BY <1>2, Zenon DEF Restart
    <2> QED BY <2>1, LinkedUp, Zenon DEF Linked
  <1>3. ASSUME NEW t \in Threads, NEW b \in Blocks, NEW r \in BOOLEAN, NEW x \in BOOLEAN,
               \/ AcceptBlockHeader(t, b) \/ RejectHeader(t, b) \/ AcceptBlockUnwanted(t, b, r)
               \/ AcceptBlockInvalid(t, b, r, x) \/ Operator(t, b)
        PROVE  linked' = linked
    BY <1>3, Zenon DEF AcceptBlockHeader, RejectHeader, AcceptBlockUnwanted, AcceptBlockInvalid,
        Operator, InvalidateBlock, ReconsiderBlock, PreciousBlock, index
  <1>4. ASSUME NEW t \in Threads, Activate(t) PROVE linked' = linked
    BY <1>4, Zenon DEF Activate, Lock, FindMostWorkChain, DropCandidate, DisconnectTip, ConnectTip,
        ConnectTipInvalid, ReadFails, InvalidateDisconnect, InvalidateMark, index
  <1>5. CASE (\E b \in Blocks : PruneOneBlockFile(b)) \/ UNCHANGED <<vars, scenario>>
    BY <1>5 DEF PruneOneBlockFile, vars, index
  <1> QED BY <1>1, <1>2, <1>3, <1>4, <1>5, Zenon DEF Next, Peer

LEMMA LockedStep ==
    ASSUME TypeOK, Locked, [Next]_<<vars, scenario>>
    PROVE  Locked'
  <1>0. pc \in [Threads -> PCs]
    BY Zenon DEF TypeOK
  <1>1. ASSUME UNCHANGED <<cs_main, pc>> PROVE Locked'
    BY <1>1, Zenon DEF Locked
  <1>2. ASSUME NEW t \in Threads, Idle(t), ThenActivate(t) PROVE Locked'
    BY <1>0, <1>2, Zenon DEF Locked, Idle, ThenActivate
  <1>3. ASSUME NEW t \in Threads, cs_main' = NoThread,
               cs_main = t \/ cs_main = NoThread,
               NEW q \in {"idle", "loop"}, pc' = [pc EXCEPT ![t] = q]
        PROVE  Locked'
    BY <1>0, <1>3, ThreadsAssumption, Zenon DEF Locked
  <1>4. ASSUME NEW t \in Threads, cs_main = NoThread \/ cs_main = t, cs_main' = t,
               NEW q \in {"find", "step", "inval"}, pc' = [pc EXCEPT ![t] = q]
        PROVE  Locked'
    BY <1>0, <1>4, ThreadsAssumption, Zenon DEF Locked
  <1>5. ASSUME NEW t \in Threads, Lock(t) PROVE Locked'
    <2>1. CASE pindexMostWork[t] = tip
      BY <1>3, <1>5, <2>1, Zenon DEF Lock, Leave
    <2>2. CASE pindexMostWork[t] # tip
      BY <1>4, <1>5, <2>2, Zenon DEF Lock
    <2> QED BY <2>1, <2>2, Zenon
  <1>6. ASSUME NEW t \in Threads, FindMostWorkChain(t) PROVE Locked'
    <2>1. cs_main = t
      BY <1>6, Zenon DEF FindMostWorkChain, Locked
    <2>2. Leave(t) \/ (pc' = [pc EXCEPT ![t] = "step"] /\ cs_main' = cs_main)
      BY <1>6, Zenon DEF FindMostWorkChain
    <2> QED BY <1>3, <1>4, <2>1, <2>2, Zenon DEF Leave
  <1>7. ASSUME NEW t \in Threads,
               \/ DisconnectTip(t) \/ ConnectTip(t) \/ ConnectTipInvalid(t) \/ ReadFails(t)
               \/ InvalidateMark(t)
        PROVE  Locked'
    <2>1. cs_main = t
      BY <1>7, Zenon DEF DisconnectTip, ConnectTip, ConnectTipInvalid, ReadFails, InvalidateMark,
          Locked
    <2>2. \/ Leave(t) \/ (\E mw : Again(t, mw)) \/ UNCHANGED threads
          \/ cs_main' = NoThread /\ pc' = [pc EXCEPT ![t] = "idle"]
      BY <1>7, Zenon DEF DisconnectTip, ConnectTip, ConnectTipInvalid, ReadFails, InvalidateMark
    <2> QED BY <1>1, <1>3, <2>1, <2>2, Zenon DEF Leave, Again, threads
  <1>8. ASSUME NEW t \in Threads, DropCandidate(t) \/ InvalidateDisconnect(t) PROVE Locked'
    BY <1>1, <1>8, Zenon DEF DropCandidate, InvalidateDisconnect, threads
  <1>9. ASSUME NEW t \in Threads, Restart(t) PROVE Locked'
    BY <1>2, <1>9, Zenon DEF Restart, Idle
  <1>10. ASSUME NEW t \in Threads, NEW b \in Blocks, Peer(t, b) PROVE Locked'
    BY <1>1, <1>2, <1>10, Zenon DEF Peer, AcceptBlockHeader, RejectHeader, AcceptBlock,
        AcceptBlockUnwanted, AcceptBlockInvalid, threads
  <1>11. ASSUME NEW t \in Threads, NEW b \in Blocks, InvalidateBlock(t, b) PROVE Locked'
    BY <1>4, <1>11, Zenon DEF InvalidateBlock, Idle
  <1>12. ASSUME NEW t \in Threads, NEW b \in Blocks, ReconsiderBlock(t, b) \/ PreciousBlock(t, b)
         PROVE  Locked'
    BY <1>2, <1>12, Zenon DEF ReconsiderBlock, PreciousBlock
  <1>13. CASE (\E b \in Blocks : PruneOneBlockFile(b)) \/ UNCHANGED <<vars, scenario>>
    BY <1>1, <1>13, Zenon DEF PruneOneBlockFile, vars, threads
  <1> QED
    BY <1>5, <1>6, <1>7, <1>8, <1>9, <1>10, <1>11, <1>12, <1>13, Zenon DEF Next, Activate, Operator

LEMMA ChosenStep ==
    ASSUME TypeOK, Locked, Chosen, Indexed, Linked, [Next]_<<vars, scenario>>
    PROVE  Chosen'
  <1>0. /\ pc \in [Threads -> PCs] /\ pindexMostWork \in [Threads -> Blocks \cup {NULL}]
        /\ pindexOldTip \in [Threads -> Blocks \cup {NULL}]
        /\ linked \subseteq linked' /\ tip \in linked
    BY LinkedGrows, Zenon DEF TypeOK, Linked
  <1>1. ASSUME UNCHANGED <<pc, pindexMostWork, pindexOldTip, tip>>,
               mapBlockIndex \subseteq mapBlockIndex'
        PROVE  Chosen'
    BY <1>0, <1>1, Zenon DEF Chosen
  <1>2. ASSUME NEW t \in Threads, pc[t] = "idle", ThenActivate(t), tip' = tip,
               mapBlockIndex \subseteq mapBlockIndex'
        PROVE  Chosen'
    BY <1>0, <1>2, Zenon DEF Chosen, ThenActivate
  \* The holder of cs_main moves, whatever happens to the tip.
  <1>3. ASSUME NEW t \in Threads, \A u \in Threads \ {t} : pc[u] \in {"idle", "loop"},
               NEW q, NEW mw, NEW old,
               pc' = [pc EXCEPT ![t] = q],
               pindexMostWork' = [pindexMostWork EXCEPT ![t] = mw],
               pindexOldTip' = [pindexOldTip EXCEPT ![t] = old],
               \/ q = "idle" /\ mw = NULL
               \/ q = "find" /\ mw = NULL
               \/ q = "loop" /\ mw \in linked \cup {NULL}
               \/ q = "step" /\ mw \in linked /\ mw # tip'
               \/ q = "inval" /\ mw \in mapBlockIndex' \ {Genesis} /\ old \in linked
        PROVE  Chosen'
    <2> SUFFICES ASSUME NEW u \in Threads
                 PROVE  /\ pc'[u] \in {"idle", "find"} => pindexMostWork'[u] = NULL
                        /\ pc'[u] = "step" => pindexMostWork'[u] \in linked' /\ pindexMostWork'[u] # tip'
                        /\ pc'[u] = "loop" => pindexMostWork'[u] \in linked' \cup {NULL}
                        /\ pc'[u] = "inval" => /\ pindexMostWork'[u] \in mapBlockIndex' \ {Genesis}
                                               /\ pindexOldTip'[u] \in linked'
      BY Zenon DEF Chosen
    <2>1. CASE u = t
      <3>1. pc'[u] = q /\ pindexMostWork'[u] = mw /\ pindexOldTip'[u] = old
        BY <1>0, <1>3, <2>1, Zenon
      <3> QED BY <1>0, <1>3, <3>1, Zenon
    <2>2. CASE u # t
      <3>1. pc'[u] = pc[u] /\ pindexMostWork'[u] = pindexMostWork[u] /\ pc[u] \in {"idle", "loop"}
        BY <1>0, <1>3, <2>2, Zenon
      <3> QED BY <1>0, <3>1, Zenon DEF Chosen
    <2> QED BY <2>1, <2>2, Zenon
  <1>4. ASSUME NEW t \in Threads, cs_main = t \/ cs_main = NoThread
        PROVE  \A u \in Threads \ {t} : pc[u] \in {"idle", "loop"}
    BY <1>0, <1>4, ThreadsAssumption, Zenon DEF Locked, PCs
  <1>5. ASSUME NEW t \in Threads, cs_main = t \/ cs_main = NoThread,
               Leave(t) \/ (\E mw \in linked \cup {NULL} : Again(t, mw))
        PROVE  Chosen'
    BY <1>3, <1>4, <1>5, Zenon DEF Leave, Again
  <1>6. ASSUME NEW t \in Threads, Lock(t) PROVE Chosen'
    <2>1. CASE pindexMostWork[t] = tip
      BY <1>5, <1>6, <2>1, Zenon DEF Lock
    <2>2. CASE pindexMostWork[t] # tip
      <3>1. pindexMostWork' = [pindexMostWork EXCEPT ![t] = pindexMostWork[t]]
        BY <1>0, <1>6, <2>2, Zenon DEF Lock
      <3>2. /\ pc' = [pc EXCEPT ![t] = IF pindexMostWork[t] = NULL THEN "find" ELSE "step"]
            /\ pindexOldTip' = [pindexOldTip EXCEPT ![t] = tip] /\ tip' = tip
            /\ pc[t] = "loop" /\ cs_main = NoThread
        BY <1>6, <2>2, Zenon DEF Lock
      <3>3. pindexMostWork[t] \in linked \cup {NULL}
        BY <3>2, Zenon DEF Chosen
      <3>4. CASE pindexMostWork[t] = NULL
        BY <1>3, <1>4, <3>1, <3>2, <3>4, Zenon
      <3>5. CASE pindexMostWork[t] # NULL
        BY <1>3, <1>4, <2>2, <3>1, <3>2, <3>3, <3>5, Zenon
      <3> QED BY <3>4, <3>5, Zenon
    <2> QED BY <2>1, <2>2, Zenon
  <1>7. ASSUME NEW t \in Threads, FindMostWorkChain(t) PROVE Chosen'
    <2> DEFINE c == IF setBlockIndexCandidates = {} THEN tip
                    ELSE Best(nSequenceId, setBlockIndexCandidates)
    <2>1. c \in linked
      BY BestCandidate, Zenon DEF Linked
    <2>2. cs_main = t /\ tip' = tip
      BY <1>7, Zenon DEF FindMostWorkChain, Locked
    <2>3. \/ Leave(t)
          \/ /\ c # tip /\ pc' = [pc EXCEPT ![t] = "step"]
             /\ pindexMostWork' = [pindexMostWork EXCEPT ![t] = c]
             /\ UNCHANGED pindexOldTip
      BY <1>7, Zenon DEF FindMostWorkChain
    <2>4. CASE Leave(t)
      BY <1>5, <2>2, <2>4, Zenon
    <2> HIDE DEF c
    <2>5. CASE /\ c # tip /\ pc' = [pc EXCEPT ![t] = "step"]
               /\ pindexMostWork' = [pindexMostWork EXCEPT ![t] = c]
               /\ UNCHANGED pindexOldTip
      <3>1. pindexOldTip' = [pindexOldTip EXCEPT ![t] = pindexOldTip[t]]
        BY <1>0, <2>5, Zenon
      <3> QED BY <1>3, <1>4, <2>1, <2>2, <2>5, <3>1, Zenon
    <2> QED BY <2>3, <2>4, <2>5, Zenon
  <1>8. ASSUME NEW t \in Threads, cs_main = t, UNCHANGED threads,
               mapBlockIndex \subseteq mapBlockIndex', pindexMostWork[t] # tip'
        PROVE  Chosen'
    <2>1. \A u \in Threads \ {t} : pc[u] \in {"idle", "loop"}
      BY <1>4, <1>8, Zenon
    <2> QED BY <1>0, <1>8, <2>1, Zenon DEF Chosen, threads
  <1>9. ASSUME NEW t \in Threads, DisconnectTip(t) PROVE Chosen'
    BY <1>5, <1>8, <1>9, Zenon DEF DisconnectTip, Locked, index
  <1>10. ASSUME NEW t \in Threads, ConnectTip(t) PROVE Chosen'
    <2>1. cs_main = t /\ pindexMostWork[t] \in linked
      BY <1>10, Zenon DEF ConnectTip, Locked, Chosen
    <2>2. \/ Leave(t) \/ Again(t, pindexMostWork[t])
          \/ pindexMostWork[t] # tip' /\ UNCHANGED threads
      BY <1>10, Zenon DEF ConnectTip
    <2>3. mapBlockIndex' = mapBlockIndex
      BY <1>10, Zenon DEF ConnectTip
    <2> QED BY <1>5, <1>8, <2>1, <2>2, <2>3, Zenon
  <1>11. ASSUME NEW t \in Threads, ConnectTipInvalid(t) \/ InvalidateMark(t) PROVE Chosen'
    BY <1>5, <1>11, Zenon DEF ConnectTipInvalid, InvalidateMark, Locked
  <1>12. ASSUME NEW t \in Threads, ReadFails(t) PROVE Chosen'
    <2>1. Leave(t) \/ (/\ cs_main' = NoThread /\ pc' = [pc EXCEPT ![t] = "idle"]
                       /\ pindexMostWork' = [pindexMostWork EXCEPT ![t] = NULL]
                       /\ pindexOldTip' = [pindexOldTip EXCEPT ![t] = NULL])
      BY <1>12, Zenon DEF ReadFails
    <2>2. cs_main = t
      BY <1>12, Zenon DEF ReadFails, Locked
    <2> QED BY <1>3, <1>4, <1>5, <2>1, <2>2, Zenon
  <1>13. ASSUME NEW t \in Threads, InvalidateDisconnect(t) PROVE Chosen'
    <2>1. cs_main = t /\ pc[t] = "inval"
      BY <1>13, Zenon DEF InvalidateDisconnect, Locked
    <2>2. \A u \in Threads \ {t} : pc[u] \in {"idle", "loop"}
      BY <1>4, <2>1, Zenon
    <2>3. UNCHANGED <<threads, mapBlockIndex>>
      BY <1>13, Zenon DEF InvalidateDisconnect, index
    <2> QED BY <1>0, <2>1, <2>2, <2>3, Zenon DEF Chosen, threads
  <1>14. ASSUME NEW t \in Threads, DropCandidate(t) PROVE Chosen'
    BY <1>1, <1>14, Zenon DEF DropCandidate, threads
  <1>15. ASSUME NEW t \in Threads, Restart(t) PROVE Chosen'
    BY <1>2, <1>15, Zenon DEF Restart
  <1>16. ASSUME NEW t \in Threads, NEW b \in Blocks, Peer(t, b) PROVE Chosen'
    BY <1>1, <1>2, <1>16, Zenon DEF Peer, AcceptBlockHeader, RejectHeader, AcceptBlock,
        AcceptBlockUnwanted, AcceptBlockInvalid, AddToBlockIndex, Idle, threads
  <1>17. ASSUME NEW t \in Threads, NEW b \in Blocks \ {Genesis}, InvalidateBlock(t, b)
         PROVE  Chosen'
    BY <1>0, <1>3, <1>4, <1>17, Zenon DEF InvalidateBlock, Idle, index
  <1>18. ASSUME NEW t \in Threads, NEW b \in Blocks, ReconsiderBlock(t, b) \/ PreciousBlock(t, b)
         PROVE  Chosen'
    BY <1>2, <1>18, Zenon DEF ReconsiderBlock, PreciousBlock, Idle
  <1>19. CASE (\E b \in Blocks : PruneOneBlockFile(b)) \/ UNCHANGED <<vars, scenario>>
    BY <1>1, <1>19 DEF PruneOneBlockFile, vars, threads, index
  <1> QED
    BY <1>6, <1>7, <1>9, <1>10, <1>11, <1>12, <1>13, <1>14, <1>15, <1>16, <1>17, <1>18, <1>19, Zenon
    DEF Next, Activate, Operator

LEMMA IndexedStep ==
    ASSUME TypeOK, Chosen, Indexed, Stored, Linked, scenario \in Scenarios,
           [Next]_<<vars, scenario>>
    PROVE  Indexed'
  <1>0. /\ mapBlockIndex \in SUBSET Blocks /\ received \in SUBSET Blocks
        /\ valid \in [Blocks -> {0, TREE, TRANSACTIONS, SCRIPTS}]
        /\ linked \subseteq mapBlockIndex
        /\ \A b \in Blocks : b \in received => b \in mapBlockIndex
    <2>1. ASSUME NEW b \in Blocks, b \in received PROVE b \in mapBlockIndex
      <3>1. valid[b] \in {0, 2, 3, 5} /\ valid[b] >= 3
        BY <2>1, Zenon DEF Indexed, TREE, TRANSACTIONS, SCRIPTS, TypeOK
      <3>2. valid[b] >= 2
        BY <3>1
      <3> QED BY <2>1, <3>2, Zenon DEF Indexed, TREE
    <2> QED BY <2>1, Zenon DEF TypeOK, Linked
  \* A step that marks known blocks as failed, or clears them.
  <1>1. ASSUME UNCHANGED <<mapBlockIndex, valid, received>>,
               failedValid' \cup failedChild' \subseteq Failed \cup (mapBlockIndex \ {Genesis})
        PROVE  Indexed'
    BY <1>1, Zenon DEF Indexed, Failed
  <1>2. ASSUME UNCHANGED <<mapBlockIndex, valid, received, failedValid, failedChild>>
        PROVE  Indexed'
    BY <1>2, Zenon DEF Indexed, Failed
  \* A block whose header is known, or new on a known parent.
  <1>3. ASSUME NEW b \in Blocks, Acceptable(b) \/ NewHeader(b)
        PROVE  (b \notin Failed /\ b \in mapBlockIndex) \/ (b # Genesis /\ pprev[b] \in mapBlockIndex)
    BY <1>3, Zenon DEF Acceptable, NewHeader, Indexed
  <1>4. ASSUME NEW b \in Blocks, Acceptable(b) \/ NewHeader(b), AddToBlockIndex(b),
               NEW n \in {TREE, TRANSACTIONS},
               valid' = [valid EXCEPT ![b] = RaiseValidity(b, n)],
               received' = IF n = TREE THEN received ELSE received \cup {b},
               failedValid' \cup failedChild' \subseteq Failed \cup ({b} \ {Genesis})
        PROVE  Indexed'
    <2>1. (b \notin Failed /\ b \in mapBlockIndex) \/ (b # Genesis /\ pprev[b] \in mapBlockIndex)
      BY <1>3, <1>4, Zenon
    <2>2. mapBlockIndex' = mapBlockIndex \cup {b}
      BY <1>4, Zenon DEF AddToBlockIndex
    <2>3. /\ valid'[b] = RaiseValidity(b, n) /\ \A c \in Blocks \ {b} : valid'[c] = valid[c]
      BY <1>0, <1>4, Zenon
    <2>4. b \notin Failed
      BY <1>4, Zenon DEF Acceptable, NewHeader, Indexed
    <2>5. valid'[b] \in {valid[b], n} /\ valid'[b] >= n /\ valid'[b] >= valid[b] /\ valid[b] \in Nat
      <3>1. valid[b] \in Nat
        BY <1>0 DEF TREE, TRANSACTIONS, SCRIPTS
      <3> QED BY <1>4, <2>3, <2>4, <3>1, Raised, Zenon
    <2>6. \A c \in Blocks : valid'[c] >= TREE <=> c \in mapBlockIndex'
      <3>1. valid'[b] >= TREE
        BY <1>4, <2>5 DEF TREE, TRANSACTIONS
      <3> QED BY <2>2, <2>3, <3>1, Zenon DEF Indexed
    <2>7. \A c \in Blocks : valid'[c] >= TRANSACTIONS <=> c \in received'
      <3>1. CASE n = TREE
        <4>1. valid'[b] >= TRANSACTIONS <=> valid[b] >= TRANSACTIONS
          BY <2>5, <3>1 DEF TREE, TRANSACTIONS
        <4> QED BY <1>4, <2>3, <3>1, <4>1, Zenon DEF Indexed
      <3>2. CASE n = TRANSACTIONS
        <4>1. received' = received \cup {b} /\ valid'[b] >= TRANSACTIONS
          BY <1>4, <2>5, <3>2 DEF TREE, TRANSACTIONS
        <4> QED BY <2>3, <4>1, Zenon DEF Indexed
      <3> QED BY <1>4, <3>1, <3>2, Zenon
    <2>8. \A c \in mapBlockIndex' \ {Genesis} : pprev[c] \in mapBlockIndex'
      BY <2>1, <2>2, Zenon DEF Indexed
    <2>9. Genesis \in mapBlockIndex' /\ failedValid' \cup failedChild' \subseteq mapBlockIndex' \ {Genesis}
      BY <1>4, <2>2, Zenon DEF Indexed
    <2> QED BY <2>6, <2>7, <2>8, <2>9, Zenon DEF Indexed, Failed
  <1>5. ASSUME NEW t \in Threads, NEW b \in Blocks, AcceptBlockHeader(t, b) PROVE Indexed'
    <2>1. /\ NewHeader(b) /\ AddToBlockIndex(b)
          /\ valid' = [valid EXCEPT ![b] = RaiseValidity(b, TREE)]
          /\ UNCHANGED <<received, failedValid, failedChild>>
      BY <1>5, Zenon DEF AcceptBlockHeader
    <2> QED BY <1>4, <2>1, Zenon DEF Failed
  <1>6. ASSUME NEW t \in Threads, NEW b \in Blocks, RejectHeader(t, b) PROVE Indexed'
    <2>1. pprev[b] \in mapBlockIndex /\ Up[pprev[b]] \subseteq mapBlockIndex
      BY <1>6, IndexUp, Zenon DEF RejectHeader
    <2>2. PICK f \in FailedAncestors(b) : failedChild' = failedChild \cup (Up[pprev[b]] \ Up[f])
      BY <1>6, Zenon DEF RejectHeader
    <2>3. Genesis \in Up[f]
      BY <2>2, UpGenesis, Zenon DEF FailedAncestors, TypeOK
    <2>4. UNCHANGED <<mapBlockIndex, valid, received, failedValid>>
      BY <1>6, Zenon DEF RejectHeader
    <2> QED BY <1>1, <2>1, <2>2, <2>3, <2>4, Zenon DEF Failed
  <1>7. ASSUME NEW t \in Threads, NEW b \in Blocks, NEW r \in BOOLEAN, AcceptBlock(t, b, r)
        PROVE  Indexed'
    <2>1. /\ Acceptable(b) /\ AddToBlockIndex(b)
          /\ valid' = [valid EXCEPT ![b] = RaiseValidity(b, TRANSACTIONS)]
          /\ received' = received \cup {b} /\ UNCHANGED <<failedValid, failedChild>>
      BY <1>7, Zenon DEF AcceptBlock, ReceivedBlockTransactions
    <2>2. received' = IF TRANSACTIONS = TREE THEN received ELSE received \cup {b}
      BY <2>1 DEF TREE, TRANSACTIONS
    <2> QED BY <1>4, <2>1, <2>2, Zenon DEF Failed
  <1>8. ASSUME NEW t \in Threads, NEW b \in Blocks, NEW r \in BOOLEAN,
               AcceptBlockUnwanted(t, b, r)
        PROVE  Indexed'
    <2>1. /\ Acceptable(b) /\ AddToBlockIndex(b)
          /\ valid' = [valid EXCEPT ![b] = RaiseValidity(b, TREE)]
          /\ UNCHANGED <<received, failedValid, failedChild>>
      BY <1>8, Zenon DEF AcceptBlockUnwanted
    <2> QED BY <1>4, <2>1, Zenon DEF Failed
  <1>9. ASSUME NEW t \in Threads, NEW b \in Blocks, NEW r \in BOOLEAN, NEW x \in BOOLEAN,
               AcceptBlockInvalid(t, b, r, x)
        PROVE  Indexed'
    <2>1. /\ Acceptable(b) /\ AddToBlockIndex(b)
          /\ valid' = [valid EXCEPT ![b] = RaiseValidity(b, TREE)]
          /\ UNCHANGED <<received, failedChild>>
      BY <1>9, Zenon DEF AcceptBlockInvalid
    <2>2. failedValid' \subseteq failedValid \cup ({b} \ {Genesis})
      <3>1. /\ x \/ b \in BadCheck
            /\ failedValid' = IF x THEN failedValid ELSE failedValid \cup {b}
        BY <1>9, Zenon DEF AcceptBlockInvalid
      <3>2. Genesis \notin BadCheck
        BY <1>0, TreeAssumption, Zenon DEF BadCheck
      <3> QED BY <3>1, <3>2, Zenon
    <2> QED BY <1>4, <2>1, <2>2, Zenon DEF Failed
  <1>10. ASSUME NEW t \in Threads, DropCandidate(t) PROVE Indexed'
    <2> DEFINE c == Best(nSequenceId, setBlockIndexCandidates)
               p == Highest(Unusable(c))
    <2>1. c \in linked /\ c \in Blocks
      BY <1>10, BestCandidate, Zenon DEF DropCandidate, Linked, TypeOK
    <2>2. Up[c] \subseteq mapBlockIndex
      BY <1>0, <2>1, LinkedUp, Zenon
    <2>3. p \in Blocks
      BY <1>10, <2>1, DropCulprit, Parents, Zenon DEF DropCandidate
    <2>4. Genesis \in Up[p]
      BY <2>3, UpGenesis, Zenon
    <2>5. failedChild' \subseteq failedChild \cup (Up[c] \ Up[p])
      BY <1>10, Zenon DEF DropCandidate
    <2>6. UNCHANGED <<mapBlockIndex, valid, received, failedValid>>
      BY <1>10, Zenon DEF DropCandidate
    <2> HIDE DEF c, p
    <2> QED BY <1>1, <2>2, <2>4, <2>5, <2>6, Zenon DEF Failed
  <1>11. ASSUME NEW t \in Threads, ConnectTip(t) PROVE Indexed'
    <2> DEFINE b == pindexConnect(t)
    <2>1. b \in Blocks
      BY <1>11, ConnectFacts, Zenon DEF ConnectTip
    <2>2. /\ valid' = [valid EXCEPT ![b] = RaiseValidity(b, SCRIPTS)] /\ b \in received
          /\ UNCHANGED <<mapBlockIndex, received, failedValid, failedChild>>
      BY <1>11, Zenon DEF ConnectTip, Stored
    <2> HIDE DEF b
    <2>3. \A c \in Blocks \ {b} : valid'[c] = valid[c]
      BY <1>0, <2>1, <2>2, Zenon
    <2>4. valid'[b] >= TRANSACTIONS /\ valid'[b] >= TREE
      <3>1. valid[b] >= TRANSACTIONS /\ valid[b] \in Nat
        BY <1>0, <2>1, <2>2 DEF Indexed, TREE, TRANSACTIONS, SCRIPTS
      <3>2. valid'[b] >= valid[b] /\ valid'[b] \in {0, TREE, TRANSACTIONS, SCRIPTS}
        BY <1>0, <2>1, <2>2, Raised, Zenon
      <3> QED BY <3>1, <3>2 DEF TREE, TRANSACTIONS, SCRIPTS
    <2> QED BY <1>0, <2>2, <2>3, <2>4, Zenon DEF Indexed, Failed
  <1>12. ASSUME NEW t \in Threads, ConnectTipInvalid(t) PROVE Indexed'
    <2>1. pindexConnect(t) \in mapBlockIndex \ {Genesis}
      BY <1>0, <1>12, ConnectFacts, Zenon DEF ConnectTipInvalid
    <2> QED BY <1>1, <1>12, <2>1, Zenon DEF ConnectTipInvalid, Failed
  <1>13. ASSUME NEW t \in Threads, InvalidateMark(t) PROVE Indexed'
    <2>1. /\ pindexMostWork[t] \in mapBlockIndex \ {Genesis}
          /\ pindexOldTip[t] \in linked
      BY <1>13, Zenon DEF InvalidateMark, Chosen
    <2>2. Up[pindexOldTip[t]] \subseteq mapBlockIndex /\ Genesis \in Up[pindexMostWork[t]]
      BY <1>0, <2>1, LinkedUp, UpGenesis, Zenon
    <2>3. /\ failedChild' \subseteq failedChild \cup (Up[pindexOldTip[t]] \ Up[pindexMostWork[t]])
          /\ failedValid' = failedValid \cup {pindexMostWork[t]}
      BY <1>13, Zenon DEF InvalidateMark
    <2>4. UNCHANGED <<mapBlockIndex, valid, received>>
      BY <1>13, Zenon DEF InvalidateMark
    <2> QED BY <1>1, <2>1, <2>2, <2>3, <2>4, Zenon DEF Failed
  <1>14. ASSUME NEW t \in Threads, NEW b \in Blocks, ReconsiderBlock(t, b) PROVE Indexed'
    BY <1>1, <1>14, Zenon DEF ReconsiderBlock, Failed
  <1>15. ASSUME NEW t \in Threads, Restart(t) PROVE Indexed'
    <2>1. LoadedChild \subseteq mapBlockIndex
      BY <1>0, Zenon DEF LoadedChild
    <2>2. Genesis \notin LoadedChild
      BY Parents, Zenon DEF LoadedChild, Indexed
    <2>3. /\ failedChild' = failedChild \cup LoadedChild
          /\ UNCHANGED <<mapBlockIndex, valid, received, failedValid>>
      BY <1>15, Zenon DEF Restart
    <2> QED BY <1>1, <2>1, <2>2, <2>3, Zenon DEF Failed
  <1>16. ASSUME NEW t \in Threads,
                \/ Lock(t) \/ FindMostWorkChain(t) \/ DisconnectTip(t) \/ ReadFails(t)
                \/ InvalidateDisconnect(t)
                \/ (\E b \in Blocks : InvalidateBlock(t, b) \/ PreciousBlock(t, b))
         PROVE  Indexed'
    BY <1>2, <1>16, Zenon DEF Lock, FindMostWorkChain, DisconnectTip, ReadFails,
        InvalidateDisconnect, InvalidateBlock, PreciousBlock, index
  <1>17. CASE (\E b \in Blocks : PruneOneBlockFile(b)) \/ UNCHANGED <<vars, scenario>>
    BY <1>2, <1>17, Zenon DEF PruneOneBlockFile, vars, index
  <1> QED
    BY <1>5, <1>6, <1>7, <1>8, <1>9, <1>10, <1>11, <1>12, <1>13, <1>14, <1>15, <1>16, <1>17, Zenon
    DEF Next, Activate, Peer, Operator

LEMMA StoredStep ==
    ASSUME TypeOK, Chosen, Stored, Linked, [Next]_<<vars, scenario>>
    PROVE  Stored'
  <1>0. scenario' = scenario
    BY Zenon DEF Next
  <1>1. ASSUME UNCHANGED <<haveData, haveUndo, received>> PROVE Stored'
    BY <1>0, <1>1, Zenon DEF Stored, fHavePruned, BadCheck
  <1>2. ASSUME NEW t \in Threads, NEW b \in Blocks, NEW r \in BOOLEAN, AcceptBlock(t, b, r)
        PROVE  Stored'
    <2>1. /\ haveData' = haveData \cup {b} /\ received' = received \cup {b}
          /\ haveUndo' = haveUndo /\ b \notin BadCheck
      BY <1>2, Zenon DEF AcceptBlock, ReceivedBlockTransactions
    <2> QED BY <1>0, <2>1, Zenon DEF Stored, fHavePruned, BadCheck
  <1>3. ASSUME NEW t \in Threads, ConnectTip(t) PROVE Stored'
    <2>1. /\ haveUndo' = haveUndo \cup {pindexConnect(t)} /\ pindexConnect(t) \in haveData
          /\ UNCHANGED <<haveData, received>>
      BY <1>3, Zenon DEF ConnectTip
    <2> QED BY <1>0, <2>1, Zenon DEF Stored, fHavePruned, BadCheck
  <1>4. ASSUME NEW b \in Blocks, PruneOneBlockFile(b) PROVE Stored'
    BY <1>0, <1>4, Zenon DEF PruneOneBlockFile, Stored, fHavePruned, BadCheck
  <1>5. ASSUME NEW t \in Threads, NEW b \in Blocks, NEW r \in BOOLEAN, NEW x \in BOOLEAN,
               \/ AcceptBlockHeader(t, b) \/ RejectHeader(t, b) \/ AcceptBlockUnwanted(t, b, r)
               \/ AcceptBlockInvalid(t, b, r, x) \/ Operator(t, b)
        PROVE  Stored'
    BY <1>1, <1>5, Zenon DEF AcceptBlockHeader, RejectHeader, AcceptBlockUnwanted,
        AcceptBlockInvalid, Operator, InvalidateBlock, ReconsiderBlock, PreciousBlock, index
  <1>6. ASSUME NEW t \in Threads,
               \/ Lock(t) \/ FindMostWorkChain(t) \/ DropCandidate(t) \/ DisconnectTip(t)
               \/ ConnectTipInvalid(t) \/ ReadFails(t) \/ InvalidateDisconnect(t)
               \/ InvalidateMark(t) \/ Restart(t)
        PROVE  Stored'
    BY <1>1, <1>6, Zenon DEF Lock, FindMostWorkChain, DropCandidate, DisconnectTip,
        ConnectTipInvalid, ReadFails, InvalidateDisconnect, InvalidateMark, Restart, index
  <1>7. CASE UNCHANGED <<vars, scenario>>
    BY <1>1, <1>7, Zenon DEF vars, index
  <1> QED
    BY <1>2, <1>3, <1>4, <1>5, <1>6, <1>7, Zenon DEF Next, Activate, Peer

LEMMA LinkedStep ==
    ASSUME TypeOK, Chosen, Indexed, Stored, Linked, [Next]_<<vars, scenario>>
    PROVE  Linked'
  <1>0. /\ scenario' = scenario /\ received \subseteq Blocks /\ linked \subseteq Blocks
        /\ mapBlocksUnlinked \subseteq Blocks /\ tip \in Blocks
        /\ nSequenceId \in [Blocks -> Int]
    BY Zenon DEF Next, TypeOK
  <1>1. fHavePruned' = fHavePruned
    BY <1>0, Zenon DEF fHavePruned
  \* A step that may take candidates from linked blocks, or move the tip.
  <1>2. ASSUME UNCHANGED <<linked, received, nSequenceId, mapBlocksUnlinked>>,
               setBlockIndexCandidates' \subseteq linked, tip' \in linked
        PROVE  Linked'
    BY <1>1, <1>2, Zenon DEF Linked
  <1>3. ASSUME NEW t \in Threads, NEW b \in Blocks, NEW r \in BOOLEAN, AcceptBlock(t, b, r)
        PROVE  Linked'
    <2>1. /\ received' = received \cup {b} /\ tip' = tip /\ b \notin haveData
      BY <1>3, Zenon DEF AcceptBlock, ReceivedBlockTransactions, Unwanted
    <2>2. CASE b = Genesis \/ pprev[b] \in linked
      <3> DEFINE L == Linkable(b)
      <3>1. PICK f \in Numberings(L) :
               /\ linked' = linked \cup L
               /\ nSequenceId' = [c \in Blocks |-> IF c \in L THEN f[c] ELSE nSequenceId[c]]
               /\ setBlockIndexCandidates' = setBlockIndexCandidates
                     \cup {c \in L : ~Worse(nSequenceId', c, tip)}
               /\ mapBlocksUnlinked' = mapBlocksUnlinked \ L
        BY <1>3, <2>2, LinkBranch, Zenon DEF AcceptBlock
      <3>2. /\ b \in L /\ L \subseteq mapBlocksUnlinked \cup {b}
            /\ \A d \in L \ {b} : d # Genesis /\ pprev[d] \in L
        BY LinkableFacts, Zenon
      <3> HIDE DEF L
      <3>3. \A d \in linked' \ {Genesis} : pprev[d] \in linked'
        BY <2>2, <3>1, <3>2, Zenon DEF Linked
      <3>4. \A d \in Blocks \ linked' : nSequenceId'[d] <= 0
        BY <3>1, Zenon DEF Linked
      <3>5. linked' \subseteq received' /\ mapBlocksUnlinked' \subseteq received'
        BY <2>1, <3>1, <3>2, Zenon DEF Linked
      <3>6. ~fHavePruned => mapBlocksUnlinked' \cap linked' = {}
        BY <3>1, Zenon DEF Linked
      <3>7. Genesis \in linked' /\ setBlockIndexCandidates' \subseteq linked' /\ tip' \in linked'
        BY <2>1, <3>1, Zenon DEF Linked
      <3> QED BY <1>1, <3>3, <3>4, <3>5, <3>6, <3>7, Zenon DEF Linked
    <2>3. CASE ~(b = Genesis \/ pprev[b] \in linked)
      <3>1. /\ linked' = linked \ {b} /\ mapBlocksUnlinked' \subseteq mapBlocksUnlinked \cup {b}
            /\ UNCHANGED <<nSequenceId, setBlockIndexCandidates>>
        BY <1>3, <2>3, WaitBranch, Zenon DEF AcceptBlock
      <3>2. b \notin linked
        BY <2>3, Zenon DEF Linked
      <3>3. linked' = linked
        BY <3>1, <3>2, Zenon
      <3> QED BY <1>1, <2>1, <3>1, <3>2, <3>3, Zenon DEF Linked
    <2> QED BY <2>2, <2>3, Zenon
  <1>4. ASSUME NEW t \in Threads, DropCandidate(t) PROVE Linked'
    <2> DEFINE c == Best(nSequenceId, setBlockIndexCandidates)
               p == Highest(Unusable(c))
    <2>1. c \in linked /\ c \in Blocks
      BY <1>4, BestCandidate, Zenon DEF DropCandidate, Linked, TypeOK
    <2>2. Up[c] \subseteq linked
      BY <2>1, LinkedUp, Zenon
    <2>3. p \in Unusable(c) /\ p \in Up[c]
      BY <1>4, <2>1, DropCulprit, Zenon DEF DropCandidate
    <2>4. ~fHavePruned => p \in Failed
      BY <2>2, <2>3, Zenon DEF Unusable, Linked, Stored
    <2>5. /\ mapBlocksUnlinked' \subseteq mapBlocksUnlinked \cup Up[c]
          /\ p \in Failed => mapBlocksUnlinked' = mapBlocksUnlinked
      BY <1>4, Zenon DEF DropCandidate, Unlink
    <2>6. /\ setBlockIndexCandidates' \subseteq setBlockIndexCandidates
          /\ UNCHANGED <<linked, received, nSequenceId, tip>>
      BY <1>4, Zenon DEF DropCandidate
    <2> HIDE DEF c, p
    <2> QED BY <1>1, <2>2, <2>4, <2>5, <2>6, Zenon DEF Linked
  <1>5. ASSUME NEW t \in Threads, DisconnectTip(t) PROVE Linked'
    <2>1. Genesis \in Up[pindexMostWork[t]]
      BY <1>5, UpGenesis, Zenon DEF DisconnectTip, Chosen, TypeOK
    <2>2. tip' \in linked
      BY <1>5, <2>1, Zenon DEF DisconnectTip, Linked
    <2> QED BY <1>2, <1>5, <2>2, Zenon DEF DisconnectTip, index, sets, Linked
  <1>6. ASSUME NEW t \in Threads, ConnectTip(t) PROVE Linked'
    <2>1. tip' \in linked
      BY <1>6, ConnectFacts, Zenon DEF ConnectTip
    <2>2. setBlockIndexCandidates' \subseteq linked
      BY <1>6, Zenon DEF ConnectTip, PruneBlockIndexCandidates, Linked
    <2> QED BY <1>2, <1>6, <2>1, <2>2, Zenon DEF ConnectTip
  <1>7. ASSUME NEW t \in Threads, InvalidateDisconnect(t) PROVE Linked'
    <2>1. tip # Genesis
      BY <1>7, Parents, Zenon DEF InvalidateDisconnect, Active, Chosen
    <2>2. tip' \in linked
      BY <1>7, <2>1, Zenon DEF InvalidateDisconnect, Linked
    <2> QED BY <1>2, <1>7, <2>2, Zenon DEF InvalidateDisconnect, index, sets, Linked
  <1>8. ASSUME NEW t \in Threads, ConnectTipInvalid(t) \/ InvalidateMark(t) PROVE Linked'
    <2>1. setBlockIndexCandidates' \subseteq linked
      BY <1>8, Zenon DEF ConnectTipInvalid, InvalidateMark, AsGoodAsTip, Linked
    <2>2. UNCHANGED <<linked, received, nSequenceId, mapBlocksUnlinked, tip>>
      BY <1>8, Zenon DEF ConnectTipInvalid, InvalidateMark
    <2> QED BY <1>2, <2>1, <2>2, Zenon DEF Linked
  <1>9. ASSUME NEW t \in Threads, NEW b \in Blocks, ReconsiderBlock(t, b) PROVE Linked'
    <2>1. setBlockIndexCandidates' \subseteq linked
      BY <1>9, Zenon DEF ReconsiderBlock, Linked
    <2> QED BY <1>2, <1>9, <2>1, Zenon DEF ReconsiderBlock, Linked
  <1>10. ASSUME NEW t \in Threads, NEW b \in Blocks, PreciousBlock(t, b) PROVE Linked'
    <2>1. PICK id \in Int :
             /\ id < 0 /\ nSequenceId' = [nSequenceId EXCEPT ![b] = id]
             /\ setBlockIndexCandidates' =
                   IF IsValid(b, TRANSACTIONS) /\ b \in linked
                   THEN PruneBlockIndexCandidates(nSequenceId',
                           (setBlockIndexCandidates \ {b}) \cup {b}, tip)
                   ELSE setBlockIndexCandidates \ {b}
      BY <1>10, PreciousFacts, Zenon
    <2>2. setBlockIndexCandidates' \subseteq linked
      BY <2>1, Zenon DEF PruneBlockIndexCandidates, Linked
    <2>3. \A d \in Blocks \ linked : nSequenceId'[d] <= 0
      BY <1>0, <2>1 DEF Linked
    <2>4. UNCHANGED <<linked, received, mapBlocksUnlinked, tip>>
      BY <1>10, Zenon DEF PreciousBlock
    <2> QED BY <1>1, <2>2, <2>3, <2>4, Zenon DEF Linked
  <1>11. ASSUME NEW b \in Blocks, PruneOneBlockFile(b) PROVE Linked'
    BY <1>1, <1>11, Zenon DEF PruneOneBlockFile, Linked
  <1>12. ASSUME NEW t \in Threads, Restart(t) PROVE Linked'
    <2> DEFINE link == {b \in received : Up[b] \subseteq received}
    <2>1. /\ linked' = link /\ nSequenceId' = [b \in Blocks |-> 0]
          /\ mapBlocksUnlinked' = {b \in received \ {Genesis} : pprev[b] \notin link}
          /\ UNCHANGED <<received, tip>>
      BY <1>12, Zenon DEF Restart
    <2>2. setBlockIndexCandidates' \subseteq link
      BY <1>12, Zenon DEF Restart, PruneBlockIndexCandidates
    <2>3. linked \subseteq link
      BY LinkedUp, Zenon DEF Linked
    <2>4. \A b \in link \ {Genesis} : pprev[b] \in link
      BY <1>0, Parents, UpTransitive, Zenon
    <2>5. mapBlocksUnlinked' \cap linked' = {}
      BY <2>1, <2>4, Zenon
    <2> HIDE DEF link
    <2>6. \A d \in Blocks \ linked' : nSequenceId'[d] <= 0
      BY <2>1
    <2>7. link \subseteq received
      BY Zenon DEF link
    <2> QED BY <1>1, <2>1, <2>2, <2>3, <2>4, <2>5, <2>6, <2>7, Zenon DEF Linked
  <1>13. ASSUME NEW t \in Threads, NEW b \in Blocks, NEW r \in BOOLEAN, NEW x \in BOOLEAN,
               \/ AcceptBlockHeader(t, b) \/ RejectHeader(t, b) \/ AcceptBlockUnwanted(t, b, r)
               \/ AcceptBlockInvalid(t, b, r, x) \/ InvalidateBlock(t, b)
        PROVE  Linked'
    BY <1>2, <1>13, Zenon DEF AcceptBlockHeader, RejectHeader, AcceptBlockUnwanted,
        AcceptBlockInvalid, InvalidateBlock, index, sets, Linked
  <1>14. ASSUME NEW t \in Threads, Lock(t) \/ FindMostWorkChain(t) \/ ReadFails(t)
         PROVE  Linked'
    BY <1>2, <1>14, Zenon DEF Lock, FindMostWorkChain, ReadFails, index, sets, Linked
  <1>15. CASE UNCHANGED <<vars, scenario>>
    BY <1>2, <1>15, Zenon DEF vars, index, sets, Linked
  <1> QED
    BY <1>3, <1>4, <1>5, <1>6, <1>7, <1>8, <1>9, <1>10, <1>11, <1>12, <1>13, <1>14, <1>15, Zenon
    DEF Next, Activate, Peer, Operator

LEMMA BaseInit == Init => Base
  <1> SUFFICES ASSUME Init PROVE Base
    BY Zenon
  <1>1. TypeOK
    <2>1. Genesis \in Blocks
      BY TreeAssumption, Zenon
    <2>2. ThreadsTyped
      <3>1. /\ cs_main = NoThread /\ pc = [t \in Threads |-> "idle"]
            /\ pindexMostWork = [t \in Threads |-> NULL]
            /\ pindexOldTip = [t \in Threads |-> NULL] /\ failedCalls = {}
        BY Zenon DEF Init
      <3> QED BY <3>1, Zenon DEF ThreadsTyped, PCs
    <2>3. IndexTyped
      <3>1. /\ mapBlockIndex = {Genesis} /\ haveData = {Genesis} /\ haveUndo = {}
            /\ valid = [b \in Blocks |-> IF b = Genesis THEN TRANSACTIONS ELSE 0]
            /\ failedValid = {} /\ failedChild = {}
            /\ received = {Genesis} /\ linked = {Genesis}
            /\ nSequenceId = [b \in Blocks |-> IF b = Genesis THEN 1 ELSE 0]
            /\ setBlockIndexCandidates = {Genesis}
            /\ mapBlocksUnlinked = {} /\ gFailedBlocks = {}
        BY Zenon DEF Init
      <3> QED BY <2>1, <3>1 DEF IndexTyped
    <2>4. RestTyped
      <3>1. /\ tip = Genesis /\ pindexBestHeader = Genesis /\ pindexBestInvalid = NULL
            /\ nBlockSequenceId = 2 /\ nBlockReverseSequenceId = -1
            /\ nLastPreciousChainwork = 0
        BY Zenon DEF Init
      <3> QED BY <2>1, <3>1 DEF RestTyped
    <2> QED BY <2>2, <2>3, <2>4, TypeParts, Zenon
  <1>2. Locked /\ Chosen
    <2>1. /\ cs_main = NoThread /\ pc = [t \in Threads |-> "idle"]
          /\ pindexMostWork = [t \in Threads |-> NULL]
      BY Zenon DEF Init
    <2> QED BY <2>1, ThreadsAssumption, Zenon DEF Locked, Chosen
  <1>3. /\ mapBlockIndex = {Genesis} /\ haveData = {Genesis} /\ haveUndo = {}
        /\ received = {Genesis} /\ linked = {Genesis} /\ scenario \in Scenarios
        /\ failedValid = {} /\ failedChild = {} /\ setBlockIndexCandidates = {Genesis}
        /\ mapBlocksUnlinked = {} /\ tip = Genesis
        /\ valid = [b \in Blocks |-> IF b = Genesis THEN TRANSACTIONS ELSE 0]
        /\ nSequenceId = [b \in Blocks |-> IF b = Genesis THEN 1 ELSE 0]
    BY Zenon DEF Init
  <1>4. Genesis \in Blocks /\ \A s \in Scenarios : Genesis \notin s.BadCheck
    BY TreeAssumption, Zenon
  <1>5. Stored /\ scenario \in Scenarios
    BY <1>3, <1>4, Zenon DEF Stored, BadCheck
  <1>6. Indexed
    BY <1>3, <1>4 DEF Indexed, Failed, TREE, TRANSACTIONS
  <1>7. Linked
    BY <1>3, <1>4 DEF Linked
  <1> QED BY <1>1, <1>2, <1>5, <1>6, <1>7, Zenon DEF Base

LEMMA BaseStep == Base /\ [Next]_<<vars, scenario>> => Base'
  <1> SUFFICES ASSUME Base, [Next]_<<vars, scenario>> PROVE Base'
    BY Zenon
  <1>1. TypeOK /\ Locked /\ Chosen /\ Indexed /\ Stored /\ Linked /\ scenario \in Scenarios
    BY Zenon DEF Base
  <1>2. ThreadsTyped' /\ IndexTyped' /\ RestTyped'
    BY <1>1, ThreadsTypedStep, IndexTypedStep, RestTypedStep, Zenon
  <1>3. TypeOK'
    BY <1>2, Zenon DEF TypeOK, ThreadsTyped, IndexTyped, RestTyped
  <1>4. Locked' /\ Chosen' /\ Indexed' /\ Stored' /\ Linked'
    BY <1>1, LockedStep, ChosenStep, IndexedStep, StoredStep, LinkedStep, Zenon
  <1>5. scenario' \in Scenarios
    BY <1>1, Zenon DEF Next
  <1> QED BY <1>3, <1>4, <1>5, Zenon DEF Base

\* The node's own bookkeeping, in every scenario: types, the exclusion by
\* cs_main, the index, the stored blocks and the linked ones.
THEOREM BaseInvariance == Spec => []Base
  BY BaseInit, BaseStep, PTL DEF Spec

-----------------------------------------------------------------------------
(***************************************************************************)
(* What CheckBlockIndex and FindMostWorkChain rely on, proved on top of    *)
(* the invariant above.  Each theorem names the scenarios it               *)
(* is about; it holds for every block tree and every set of threads.       *)
(***************************************************************************)

(* The active chain is valid.                                               *)

\* InvalidateBlock is called only where one thread does all validation: a
\* thread that is between two critical sections of ActivateBestChain would go
\* on with a pindexMostWork that another thread has just invalidated.
OneThreadInvalidates ==
    \A s \in Scenarios : "invalidate" \in s.commands => \A t, u \in Threads : t = u

\* ConnectBlock rejects b or an ancestor of b.
Tainted(b) == Up[b] \cap BadConnect # {}

\* Only the operator's command starts InvalidateBlock.
Commanded == \A t \in Threads : pc[t] = "inval" => "invalidate" \in scenario.commands

\* Nothing in the active chain has failed or will; and what has failed on the
\* way to the block a thread has chosen, ConnectBlock will not let pass.
Sound ==
    /\ Up[tip] \cap (Failed \cup BadConnect) = {}
    /\ \A b \in Up[tip] \ {Genesis} : valid[b] >= SCRIPTS
    /\ \A t \in Threads :
          pc[t] \in {"loop", "step"} /\ pindexMostWork[t] # NULL =>
             \A x \in Up[pindexMostWork[t]] \cap Failed : Tainted(x)

\* A thread in ActivateBestChain has the pindexMostWork it had.
Keeps ==
    \A u \in Threads : pc'[u] \in {"loop", "step"} /\ pindexMostWork'[u] # NULL =>
        pc[u] \in {"loop", "step"} /\ pindexMostWork'[u] = pindexMostWork[u]

\* Only FindMostWorkChain chooses another.
LEMMA KeepsStep ==
    ASSUME TypeOK, Chosen, [Next]_<<vars, scenario>>, ~\E t \in Threads : FindMostWorkChain(t)
    PROVE  Keeps
  <1>0. pc \in [Threads -> PCs] /\ pindexMostWork \in [Threads -> Blocks \cup {NULL}]
    BY Zenon DEF TypeOK
  <1>1. CASE UNCHANGED threads
    BY <1>1 DEF Keeps, threads
  <1>2. ASSUME NEW t \in Threads, pc[t] = "idle", ThenActivate(t) PROVE Keeps
    BY <1>0, <1>2, Zenon DEF Keeps, ThenActivate, Chosen
  <1>3. ASSUME NEW t \in Threads, NEW q, pc' = [pc EXCEPT ![t] = q],
               NEW mw, pindexMostWork' = [pindexMostWork EXCEPT ![t] = mw],
               mw = NULL \/ q = "inval" \/ (mw = pindexMostWork[t] /\ pc[t] \in {"loop", "step"})
        PROVE  Keeps
    BY <1>0, <1>3 DEF Keeps
  <1>4. ASSUME NEW t \in Threads, Lock(t) PROVE Keeps
    <2>1. CASE pindexMostWork[t] = tip
      BY <1>3, <1>4, <2>1, Zenon DEF Lock, Leave
    <2>2. CASE pindexMostWork[t] # tip
      <3>1. pindexMostWork' = [pindexMostWork EXCEPT ![t] = pindexMostWork[t]]
        BY <1>0, <1>4, <2>2, Zenon DEF Lock
      <3> QED BY <1>3, <1>4, <2>2, <3>1, Zenon DEF Lock
    <2> QED BY <2>1, <2>2, Zenon
  <1>5. ASSUME NEW t \in Threads, DropCandidate(t) \/ InvalidateDisconnect(t) PROVE Keeps
    BY <1>1, <1>5, Zenon DEF DropCandidate, InvalidateDisconnect
  <1>6. ASSUME NEW t \in Threads,
               \/ DisconnectTip(t) \/ ConnectTip(t) \/ ConnectTipInvalid(t) \/ ReadFails(t)
               \/ InvalidateMark(t)
        PROVE  Keeps
    <2>1. \/ Leave(t) \/ Again(t, NULL) \/ UNCHANGED threads
          \/ Again(t, pindexMostWork[t]) /\ pc[t] = "step"
          \/ /\ pc' = [pc EXCEPT ![t] = "idle"]
             /\ pindexMostWork' = [pindexMostWork EXCEPT ![t] = NULL]
      BY <1>6, Zenon DEF DisconnectTip, ConnectTip, ConnectTipInvalid, ReadFails, InvalidateMark
    <2> QED BY <1>1, <1>3, <2>1, Zenon DEF Leave, Again
  <1>7. ASSUME NEW t \in Threads, Restart(t) PROVE Keeps
    BY <1>2, <1>7, Zenon DEF Restart
  <1>8. ASSUME NEW t \in Threads, NEW b \in Blocks, Peer(t, b) PROVE Keeps
    BY <1>1, <1>2, <1>8, Zenon DEF Peer, AcceptBlockHeader, RejectHeader, AcceptBlock,
        AcceptBlockUnwanted, AcceptBlockInvalid, Idle
  <1>9. ASSUME NEW t \in Threads, NEW b \in Blocks, InvalidateBlock(t, b) PROVE Keeps
    BY <1>3, <1>9, Zenon DEF InvalidateBlock
  <1>10. ASSUME NEW t \in Threads, NEW b \in Blocks, ReconsiderBlock(t, b) \/ PreciousBlock(t, b)
         PROVE  Keeps
    BY <1>2, <1>10, Zenon DEF ReconsiderBlock, PreciousBlock, Idle
  <1>11. CASE (\E b \in Blocks : PruneOneBlockFile(b)) \/ UNCHANGED <<vars, scenario>>
    BY <1>1, <1>11, Zenon DEF PruneOneBlockFile, vars
  <1> QED
    BY <1>4, <1>5, <1>6, <1>7, <1>8, <1>9, <1>10, <1>11, Zenon DEF Next, Activate, Operator

LEMMA CommandedStep ==
    ASSUME TypeOK, Commanded, [Next]_<<vars, scenario>>
    PROVE  Commanded'
  <1>0. pc \in [Threads -> PCs] /\ scenario' = scenario
    BY Zenon DEF TypeOK, Next
  <1>1. CASE UNCHANGED pc
    BY <1>0, <1>1, Zenon DEF Commanded
  <1>2. ASSUME NEW t \in Threads, NEW q, pc' = [pc EXCEPT ![t] = q],
               q = "inval" => "invalidate" \in scenario.commands
        PROVE  Commanded'
    BY <1>0, <1>2 DEF Commanded
  <1>3. ASSUME NEW t \in Threads, Leave(t) \/ (\E mw : Again(t, mw)) \/ ThenActivate(t)
        PROVE  Commanded'
    BY <1>2, <1>3, Zenon DEF Leave, Again, ThenActivate
  <1>4. ASSUME NEW t \in Threads, Lock(t) PROVE Commanded'
    BY <1>2, <1>3, <1>4, Zenon DEF Lock
  <1>5. ASSUME NEW t \in Threads, FindMostWorkChain(t) PROVE Commanded'
    <2>1. Leave(t) \/ pc' = [pc EXCEPT ![t] = "step"]
      BY <1>5, Zenon DEF FindMostWorkChain
    <2> QED BY <1>2, <1>3, <2>1, Zenon
  <1>6. ASSUME NEW t \in Threads, DropCandidate(t) \/ InvalidateDisconnect(t) PROVE Commanded'
    BY <1>1, <1>6, Zenon DEF DropCandidate, InvalidateDisconnect, threads
  <1>7. ASSUME NEW t \in Threads,
               \/ DisconnectTip(t) \/ ConnectTip(t) \/ ConnectTipInvalid(t) \/ ReadFails(t)
               \/ InvalidateMark(t)
        PROVE  Commanded'
    <2>1. \/ Leave(t) \/ (\E mw : Again(t, mw)) \/ UNCHANGED threads
          \/ pc' = [pc EXCEPT ![t] = "idle"]
      BY <1>7, Zenon DEF DisconnectTip, ConnectTip, ConnectTipInvalid, ReadFails, InvalidateMark
    <2> QED BY <1>1, <1>2, <1>3, <2>1, Zenon DEF threads
  <1>8. ASSUME NEW t \in Threads, Restart(t) PROVE Commanded'
    BY <1>3, <1>8 DEF Restart
  <1>9. ASSUME NEW t \in Threads, NEW b \in Blocks, Peer(t, b) PROVE Commanded'
    BY <1>1, <1>3, <1>9, Zenon DEF Peer, AcceptBlockHeader, RejectHeader, AcceptBlock,
        AcceptBlockUnwanted, AcceptBlockInvalid, threads
  <1>10. ASSUME NEW t \in Threads, NEW b \in Blocks, Operator(t, b) PROVE Commanded'
    BY <1>2, <1>3, <1>10, Zenon DEF Operator, InvalidateBlock, ReconsiderBlock, PreciousBlock
  <1>11. CASE (\E b \in Blocks : PruneOneBlockFile(b)) \/ UNCHANGED <<vars, scenario>>
    BY <1>1, <1>11, Zenon DEF PruneOneBlockFile, vars, threads
  <1> QED
    BY <1>4, <1>5, <1>6, <1>7, <1>8, <1>9, <1>10, <1>11, Zenon DEF Next, Activate

LEMMA SoundStep ==
    ASSUME OneThreadInvalidates, Base, Commanded, Sound, [Next]_<<vars, scenario>>
    PROVE  Sound'
  <1>0. /\ TypeOK /\ Locked /\ Chosen /\ Indexed /\ Stored /\ Linked /\ scenario \in Scenarios
        /\ scenario' = scenario /\ valid \in [Blocks -> {0, TREE, TRANSACTIONS, SCRIPTS}]
        /\ tip \in Blocks /\ Up[tip] \subseteq linked
    BY LinkedUp, Zenon DEF Base, TypeOK, Next, Linked
  <1>1. BadConnect' = BadConnect
    BY <1>0, Zenon DEF BadConnect
  \* Threads keep what they have, and what is newly marked descends from a
  \* failed block, is not linked, or is itself rejected.
  <1>2. ASSUME Keeps, Up[tip'] \subseteq Up[tip],
               \A b \in Blocks : valid[b] >= SCRIPTS => valid'[b] >= SCRIPTS,
               \A x \in (failedValid' \cup failedChild') \ Failed :
                   (\E f \in Up[x] : f \in Failed) \/ x \notin linked \/ x \in BadConnect,
               failedValid' \cup failedChild' \subseteq Blocks
        PROVE  Sound'
    <2>1. ASSUME NEW x \in failedValid' \cup failedChild', x \in Up[tip] PROVE FALSE
      <3>1. x \notin Failed /\ x \in linked /\ x \notin BadConnect
        BY <1>0, <2>1 DEF Sound
      <3>2. PICK f \in Up[x] : f \in Failed
        BY <1>2, <2>1, <3>1, Zenon
      <3>3. f \in Up[tip]
        BY <1>0, <2>1, <3>2, UpTransitive, Zenon
      <3> QED BY <3>2, <3>3, Zenon DEF Sound
    <2>2. ASSUME NEW u \in Threads, pc'[u] \in {"loop", "step"}, pindexMostWork'[u] # NULL,
                 NEW x \in Up[pindexMostWork'[u]], x \in failedValid' \cup failedChild'
          PROVE  Tainted(x)
      <3> DEFINE mw == pindexMostWork[u]
      <3>1. pc[u] \in {"loop", "step"} /\ pindexMostWork'[u] = mw /\ mw # NULL
        BY <1>2, <2>2, Zenon DEF Keeps
      <3>2. mw \in linked /\ mw \in Blocks
        BY <1>0, <3>1, Zenon DEF Chosen, TypeOK
      <3>3. x \in Up[mw] /\ x \in linked /\ x \in Blocks
        BY <1>0, <2>2, <3>1, <3>2, LinkedUp, Zenon DEF TypeOK
      <3>4. \A y \in Up[mw] \cap Failed : Tainted(y)
        BY <3>1, Zenon DEF Sound
      <3> HIDE DEF mw
      <3>5. CASE x \in Failed
        BY <3>3, <3>4, <3>5, Zenon
      <3>6. CASE x \in BadConnect
        BY <3>3, <3>6, Parents, Zenon DEF Tainted
      <3>7. ASSUME NEW f \in Up[x], f \in Failed PROVE Tainted(x)
        <4>1. f \in Up[mw] /\ Up[f] \subseteq Up[x]
          BY <3>2, <3>3, <3>7, UpTransitive, Zenon
        <4>2. Tainted(f)
          BY <3>4, <3>7, <4>1, Zenon
        <4> QED BY <4>1, <4>2, Zenon DEF Tainted
      <3> QED BY <1>2, <2>2, <3>3, <3>5, <3>6, <3>7, Zenon
    <2>3. \A x : Tainted(x)' <=> Tainted(x)
      BY <1>1, Zenon DEF Tainted
    <2>4. Up[tip'] \cap ((failedValid' \cup failedChild') \cup BadConnect') = {}
      BY <1>1, <1>2, <2>1, Zenon DEF Sound
    <2>5. \A b \in Up[tip'] \ {Genesis} : valid'[b] >= SCRIPTS
      BY <1>0, <1>2, Parents, Zenon DEF Sound
    <2> QED BY <2>2, <2>3, <2>4, <2>5, Zenon DEF Sound, Failed
  <1>3. ASSUME NEW b \in Blocks, NEW n \in {TREE, TRANSACTIONS, SCRIPTS},
               valid' = [valid EXCEPT ![b] = RaiseValidity(b, n)]
        PROVE  \A c \in Blocks : valid[c] >= SCRIPTS => valid'[c] >= SCRIPTS
    <2>1. valid'[b] = RaiseValidity(b, n) /\ \A c \in Blocks \ {b} : valid'[c] = valid[c]
      BY <1>0, <1>3, Zenon
    <2>2. valid[b] \in Nat /\ RaiseValidity(b, n) \in Nat /\ RaiseValidity(b, n) >= valid[b]
      BY <1>0, Raised DEF TREE, TRANSACTIONS, SCRIPTS
    <2>3. valid[b] >= SCRIPTS => valid'[b] >= SCRIPTS
      BY <2>1, <2>2 DEF SCRIPTS
    <2> QED BY <2>1, <2>3, Zenon
  <1>4. CASE \E t \in Threads : FindMostWorkChain(t)
    <2>1. PICK t \in Threads : FindMostWorkChain(t)
      BY <1>4, Zenon
    <2> DEFINE c == IF setBlockIndexCandidates = {} THEN tip
                    ELSE Best(nSequenceId, setBlockIndexCandidates)
    <2>2. c \in linked /\ c \in Blocks
      BY <1>0, BestCandidate, Zenon DEF Linked, TypeOK
    <2>3. UNCHANGED <<index, tip>> /\ Unusable(c) = {}
      BY <2>1, Zenon DEF FindMostWorkChain
    <2>4. \/ Leave(t)
          \/ /\ pc' = [pc EXCEPT ![t] = "step"]
             /\ pindexMostWork' = [pindexMostWork EXCEPT ![t] = c]
      BY <2>1, Zenon DEF FindMostWorkChain
    <2>5. Up[c] \cap Failed = {}
      BY <2>3, Zenon DEF Unusable, Sound
    <2> HIDE DEF c
    <2>6. Failed' = Failed /\ valid' = valid /\ tip' = tip
      BY <2>3, Zenon DEF index, Failed
    <2>7. ASSUME NEW u \in Threads, pc'[u] \in {"loop", "step"}, pindexMostWork'[u] # NULL
          PROVE  \A x \in Up[pindexMostWork'[u]] \cap Failed : Tainted(x)
      <3>1. pc \in [Threads -> PCs] /\ pindexMostWork \in [Threads -> Blocks \cup {NULL}]
        BY <1>0, Zenon DEF TypeOK
      <3>2. CASE u = t
        <4>1. pindexMostWork'[u] = c
          BY <2>4, <2>7, <3>1, <3>2, Zenon DEF Leave
        <4> QED BY <2>5, <4>1, Zenon
      <3>3. CASE u # t
        <4>1. pc'[u] = pc[u] /\ pindexMostWork'[u] = pindexMostWork[u]
          BY <2>4, <3>1, <3>3, Zenon DEF Leave
        <4> QED BY <2>7, <4>1, Zenon DEF Sound
      <3> QED BY <3>2, <3>3, Zenon
    <2>8. \A x : Tainted(x)' <=> Tainted(x)
      BY <1>1, Zenon DEF Tainted
    <2> QED BY <1>1, <2>6, <2>7, <2>8, Zenon DEF Sound
  <1>5. SUFFICES ASSUME ~\E t \in Threads : FindMostWorkChain(t) PROVE Sound'
    BY <1>4
  <1>6. Keeps /\ failedValid' \cup failedChild' \subseteq Blocks
    BY <1>0, <1>5, KeepsStep, IndexTypedStep, Zenon DEF IndexTyped
  <1>7. ASSUME NEW t \in Threads, NEW b \in Blocks, AcceptBlockHeader(t, b) PROVE Sound'
    <2>1. /\ UNCHANGED <<tip, failedValid, failedChild>>
          /\ valid' = [valid EXCEPT ![b] = RaiseValidity(b, TREE)]
      BY <1>7, Zenon DEF AcceptBlockHeader
    <2> QED BY <1>2, <1>3, <1>6, <2>1, Zenon DEF Failed
  <1>8. ASSUME NEW t \in Threads, NEW b \in Blocks, RejectHeader(t, b) PROVE Sound'
    <2>1. pprev[b] \in Blocks
      BY <1>0, <1>8, Zenon DEF RejectHeader, TypeOK
    <2>2. PICK f \in FailedAncestors(b) \cap failedValid :
             failedChild' = failedChild \cup (Up[pprev[b]] \ Up[f])
      BY <1>8, Zenon DEF RejectHeader
    <2>3. f \in Up[pprev[b]] /\ f \in Failed
      BY <2>2, Zenon DEF FailedAncestors, Failed
    <2>4. \A x \in Up[pprev[b]] \ Up[f] : f \in Up[x]
      BY <2>1, <2>3, UpAbove, Zenon
    <2>5. UNCHANGED <<tip, valid, failedValid>>
      BY <1>8, Zenon DEF RejectHeader
    <2> QED BY <1>2, <1>6, <2>2, <2>3, <2>4, <2>5, Zenon DEF Failed
  <1>9. ASSUME NEW t \in Threads, NEW b \in Blocks, NEW r \in BOOLEAN, AcceptBlock(t, b, r)
        PROVE  Sound'
    <2>1. /\ UNCHANGED <<tip, failedValid, failedChild>>
          /\ valid' = [valid EXCEPT ![b] = RaiseValidity(b, TRANSACTIONS)]
      BY <1>9, Zenon DEF AcceptBlock
    <2> QED BY <1>2, <1>3, <1>6, <2>1, Zenon DEF Failed
  <1>10. ASSUME NEW t \in Threads, NEW b \in Blocks, NEW r \in BOOLEAN,
                AcceptBlockUnwanted(t, b, r)
         PROVE  Sound'
    <2>1. /\ UNCHANGED <<tip, failedValid, failedChild>>
          /\ valid' = [valid EXCEPT ![b] = RaiseValidity(b, TREE)]
      BY <1>10, Zenon DEF AcceptBlockUnwanted
    <2> QED BY <1>2, <1>3, <1>6, <2>1, Zenon DEF Failed
  <1>11. ASSUME NEW t \in Threads, NEW b \in Blocks, NEW r \in BOOLEAN, NEW x \in BOOLEAN,
                AcceptBlockInvalid(t, b, r, x)
         PROVE  Sound'
    <2>1. /\ UNCHANGED <<tip, failedChild>>
          /\ valid' = [valid EXCEPT ![b] = RaiseValidity(b, TREE)]
          /\ failedValid' \subseteq failedValid \cup ({b} \cap BadCheck)
      BY <1>11, Zenon DEF AcceptBlockInvalid
    <2>2. \A y \in BadCheck : y \notin linked
      BY <1>0, Zenon DEF Stored, Linked
    <2> QED BY <1>2, <1>3, <1>6, <2>1, <2>2, Zenon DEF Failed
  <1>12. ASSUME NEW t \in Threads, DropCandidate(t) PROVE Sound'
    <2> DEFINE c == Best(nSequenceId, setBlockIndexCandidates)
               p == Highest(Unusable(c))
    <2>1. c \in Blocks
      BY <1>0, <1>12, BestCandidate, Zenon DEF DropCandidate, TypeOK
    <2>2. \A x \in Up[c] \ Up[p] : p \in Up[x]
      BY <1>0, <1>12, <2>1, DropFacts, Zenon DEF DropCandidate
    <2>3. /\ UNCHANGED <<tip, valid, failedValid>>
          /\ failedChild' = failedChild \/ (p \in Failed /\ failedChild' = failedChild \cup (Up[c] \ Up[p]))
      BY <1>12, Zenon DEF DropCandidate
    <2> HIDE DEF c, p
    <2> QED BY <1>2, <1>6, <2>2, <2>3, Zenon DEF Failed
  <1>13. ASSUME NEW t \in Threads, DisconnectTip(t) PROVE Sound'
    <2>1. tip # Genesis
      BY <1>0, <1>13, UpGenesis, Zenon DEF DisconnectTip, Chosen, TypeOK
    <2>2. Up[tip'] \subseteq Up[tip]
      <3>1. tip' = pprev[tip]
        BY <1>13, Zenon DEF DisconnectTip
      <3> QED BY <1>0, <2>1, <3>1, Parents, Zenon
    <2>3. UNCHANGED <<valid, failedValid, failedChild>>
      BY <1>13, Zenon DEF DisconnectTip, index
    <2> QED BY <1>2, <1>6, <2>2, <2>3, Zenon DEF Failed
  <1>14. ASSUME NEW t \in Threads, InvalidateDisconnect(t) PROVE Sound'
    <2>1. tip # Genesis
      BY <1>0, <1>14, Parents, Zenon DEF InvalidateDisconnect, Active, Chosen
    <2>2. Up[tip'] \subseteq Up[tip]
      <3>1. tip' = pprev[tip]
        BY <1>14, Zenon DEF InvalidateDisconnect
      <3> QED BY <1>0, <2>1, <3>1, Parents
    <2>3. UNCHANGED <<valid, failedValid, failedChild>>
      BY <1>14 DEF InvalidateDisconnect, index
    <2> QED BY <1>2, <1>6, <2>2, <2>3, Zenon DEF Failed
  <1>15. ASSUME NEW t \in Threads, ConnectTip(t) PROVE Sound'
    <2> DEFINE b == pindexConnect(t)
               mw == pindexMostWork[t]
    <2>1. b \in Up[mw] /\ b \in Blocks /\ Up[b] = Up[tip] \cup {b}
      BY <1>0, <1>15, ConnectFacts, Zenon DEF ConnectTip
    <2>2. /\ tip' = b /\ b \notin BadConnect /\ UNCHANGED <<failedValid, failedChild>>
          /\ valid' = [valid EXCEPT ![b] = RaiseValidity(b, SCRIPTS)]
          /\ pc[t] = "step" /\ mw # NULL
      <3>1. mw \in Blocks
        BY <1>0, <1>15, Zenon DEF ConnectTip, Chosen, TypeOK
      <3> QED BY <1>15, <3>1, TreeAssumption, Zenon DEF ConnectTip
    <2> HIDE DEF b
    <2>3. b \notin Failed
      <3>1. b \in Failed => Tainted(b)
        BY <2>1, <2>2 DEF Sound
      <3> QED BY <2>1, <2>2, <3>1, Zenon DEF Tainted, Sound
    <2>4. \A c \in Blocks : valid[c] >= SCRIPTS => valid'[c] >= SCRIPTS
      BY <1>3, <2>1, <2>2, Zenon
    <2>5. valid'[b] >= SCRIPTS
      BY <1>0, <2>1, <2>2, <2>3, Raised, Zenon
    <2>6. \A c \in Up[tip'] \ {Genesis} : valid'[c] >= SCRIPTS
      BY <1>0, <2>1, <2>2, <2>4, <2>5, Parents, Zenon DEF Sound
    <2>7. Failed' = Failed
      BY <2>2 DEF Failed
    <2>8. Up[tip'] \cap (Failed' \cup BadConnect') = {}
      BY <1>1, <2>1, <2>2, <2>3, <2>7, Zenon DEF Sound
    <2>9. \A x : Tainted(x)' <=> Tainted(x)
      BY <1>1, Zenon DEF Tainted
    <2> QED BY <1>6, <2>6, <2>7, <2>8, <2>9, Zenon DEF Sound, Keeps
  <1>16. ASSUME NEW t \in Threads, ConnectTipInvalid(t) PROVE Sound'
    <2>1. /\ failedValid' = failedValid \cup {pindexConnect(t)} /\ pindexConnect(t) \in BadConnect
          /\ UNCHANGED <<tip, valid, failedChild>>
      BY <1>16, Zenon DEF ConnectTipInvalid
    <2> QED BY <1>2, <1>6, <2>1, Zenon DEF Failed
  <1>17. ASSUME NEW t \in Threads, InvalidateMark(t) PROVE Sound'
    <2> DEFINE pindex == pindexMostWork[t]
    <2>1. /\ pc[t] = "inval" /\ pindex \notin Up[tip] /\ UNCHANGED <<tip, valid>>
          /\ Again(t, NULL)
      BY <1>17, Zenon DEF InvalidateMark, Active
    <2>2. \A x \in (failedValid' \cup failedChild') \ Failed : pindex \in Up[x]
      <3>1. pindexOldTip[t] \in Blocks /\ pindex \in Blocks
        BY <1>0, <2>1, Zenon DEF Chosen, TypeOK
      <3>2. /\ failedValid' = failedValid \cup {pindex}
            /\ \A x \in failedChild' \ failedChild :
                  pindex \in Up[pindexOldTip[t]] /\ x \in Up[pindexOldTip[t]] \ Up[pindex]
        BY <1>17, Zenon DEF InvalidateMark
      <3> HIDE DEF pindex
      <3> QED BY <3>1, <3>2, UpAbove, Parents, Zenon DEF Failed
    <2>3. ASSUME NEW x \in Blocks, pindex \in Up[x] PROVE x \notin Up[tip]
      BY <1>0, <2>1, <2>3, UpTransitive, Zenon
    <2>4. Up[tip'] \cap ((failedValid' \cup failedChild') \cup BadConnect') = {}
      BY <1>0, <1>1, <1>6, <2>1, <2>2, <2>3, Zenon DEF Sound
    <2>5. \A u \in Threads : u = t
      <3>1. "invalidate" \in scenario.commands
        BY <2>1 DEF Commanded
      <3> QED BY <1>0, <3>1, Zenon DEF OneThreadInvalidates
    <2>6. \A u \in Threads : pindexMostWork'[u] = NULL
      BY <1>0, <2>1, <2>5, Zenon DEF Again, TypeOK
    <2> QED BY <2>1, <2>4, <2>6, Zenon DEF Sound, Failed
  <1>18. ASSUME NEW t \in Threads, NEW b \in Blocks, ReconsiderBlock(t, b) PROVE Sound'
    <2>1. /\ UNCHANGED <<tip, valid>>
          /\ failedValid' \subseteq failedValid /\ failedChild' \subseteq failedChild
      BY <1>18, Zenon DEF ReconsiderBlock
    <2> QED BY <1>2, <1>6, <2>1, Zenon DEF Failed
  <1>19. ASSUME NEW t \in Threads, Restart(t) PROVE Sound'
    <2>1. UNCHANGED <<tip, valid, failedValid>> /\ failedChild' = failedChild \cup LoadedChild
      BY <1>19, Zenon DEF Restart
    <2>2. \A x \in LoadedChild : \E f \in Up[x] : f \in Failed
      BY Zenon DEF LoadedChild
    <2> QED BY <1>2, <1>6, <2>1, <2>2, Zenon DEF Failed
  <1>20. CASE UNCHANGED <<tip, valid, failedValid, failedChild>>
    BY <1>2, <1>6, <1>20, Zenon DEF Failed
  <1>21. ASSUME NEW t \in Threads, Lock(t) \/ ReadFails(t) PROVE Sound'
    BY <1>20, <1>21, Zenon DEF Lock, ReadFails, index
  <1>22. ASSUME NEW t \in Threads, NEW b \in Blocks, InvalidateBlock(t, b) \/ PreciousBlock(t, b)
         PROVE  Sound'
    BY <1>20, <1>22, Zenon DEF InvalidateBlock, PreciousBlock, index
  <1>23. CASE (\E b \in Blocks : PruneOneBlockFile(b)) \/ UNCHANGED <<vars, scenario>>
    BY <1>20, <1>23, Zenon DEF PruneOneBlockFile, vars, index
  <1> QED
    BY <1>5, <1>7, <1>8, <1>9, <1>10, <1>11, <1>12, <1>13, <1>14, <1>15, <1>16, <1>17, <1>18,
       <1>19, <1>21, <1>22, <1>23, Zenon
    DEF Next, Activate, Peer, Operator

LEMMA SoundInit == Init => Commanded /\ Sound
  <1> SUFFICES ASSUME Init PROVE Commanded /\ Sound
    BY Zenon
  <1>1. /\ pc = [t \in Threads |-> "idle"] /\ tip = Genesis /\ scenario \in Scenarios
        /\ failedValid = {} /\ failedChild = {}
    BY Zenon DEF Init
  <1>2. Up[Genesis] = {Genesis} /\ \A s \in Scenarios : Genesis \notin s.BadConnect
    BY TreeAssumption, Zenon
  <1>3. Commanded
    BY <1>1, Zenon DEF Commanded
  <1>4. Sound
    BY <1>1, <1>2 DEF Sound, Failed, BadConnect
  <1> QED BY <1>3, <1>4, Zenon

\* ActiveChainValid, "we know all blocks in it are valid already": for every
\* tree, any number of threads and any scenario in which InvalidateBlock does not
\* meet a second thread, no block of the active chain is ever marked failed.
THEOREM ActiveChain ==
    ASSUME OneThreadInvalidates
    PROVE  Spec => []ActiveChainValid
  <1>1. Base /\ Commanded /\ Sound /\ [Next]_<<vars, scenario>> => Commanded' /\ Sound'
    BY CommandedStep, SoundStep, Zenon DEF Base
  <1>2. Sound => ActiveChainValid
    BY Zenon DEF Sound, ActiveChainValid
  <1> QED BY <1>1, <1>2, SoundInit, BaseInvariance, PTL DEF Spec

-----------------------------------------------------------------------------
(* The candidates, where nothing is pruned.                                 *)

\* A node that keeps its block files: without -prune a block that is linked is
\* stored, and is not received again.
NeverPrunes == \A s \in Scenarios : "prune" \notin s.commands

\* No candidate is worse than the tip, inside critical sections too.
NotWorse == \A c \in setBlockIndexCandidates : ~Worse(nSequenceId, c, tip)

\* A block that arrives renumbers no linked block.
LEMMA LinkedKeepNumbers ==
    ASSUME NeverPrunes, Base, NEW t \in Threads, NEW b \in Blocks, NEW r \in BOOLEAN,
           AcceptBlock(t, b, r)
    PROVE  \A c \in linked : nSequenceId'[c] = nSequenceId[c]
  <1>1. TypeOK /\ Stored /\ Linked /\ ~fHavePruned
    BY Zenon DEF Base, NeverPrunes, fHavePruned
  <1>2. b \notin linked
    BY <1>1, Zenon DEF AcceptBlock, Unwanted, Stored, Linked
  <1>3. ReceivedBlockTransactions(b)
    BY Zenon DEF AcceptBlock
  <1>4. CASE b = Genesis \/ pprev[b] \in linked
    <2>1. PICK f \in Numberings(Linkable(b)) :
              nSequenceId' = [c \in Blocks |-> IF c \in Linkable(b) THEN f[c]
                                               ELSE nSequenceId[c]]
      BY <1>3, <1>4, LinkBranch, Zenon
    <2>2. Linkable(b) \cap linked = {}
      <3>1. Linkable(b) \subseteq mapBlocksUnlinked \cup {b} /\ mapBlocksUnlinked \cap linked = {}
        BY <1>1, LinkableFacts, Zenon DEF Linked
      <3> QED BY <1>2, <3>1, Zenon
    <2>3. linked \subseteq Blocks
      BY <1>1, Zenon DEF TypeOK
    <2> QED BY <2>1, <2>2, <2>3, Zenon
  <1>5. CASE ~(b = Genesis \/ pprev[b] \in linked)
    BY <1>3, <1>5, WaitBranch, Zenon
  <1> QED BY <1>4, <1>5, Zenon

LEMMA NotWorseStep ==
    ASSUME NeverPrunes, Base, Sound, NotWorse, [Next]_<<vars, scenario>>
    PROVE  NotWorse'
  <1>0. /\ TypeOK /\ Chosen /\ Indexed /\ Linked /\ tip \in Blocks /\ tip \in linked
        /\ nSequenceId \in [Blocks -> Int]
        /\ setBlockIndexCandidates \subseteq linked /\ linked \subseteq Blocks
    BY Zenon DEF Base, TypeOK, Linked
  <1>1. ASSUME UNCHANGED <<nSequenceId, tip>>,
               \A c \in setBlockIndexCandidates' \ setBlockIndexCandidates :
                  ~Worse(nSequenceId, c, tip)
        PROVE  NotWorse'
    BY <1>1, Zenon DEF NotWorse, Worse
  <1>2. CASE UNCHANGED <<nSequenceId, tip, setBlockIndexCandidates>>
    BY <1>1, <1>2, Zenon
  <1>3. ASSUME NEW t \in Threads, NEW b \in Blocks, NEW r \in BOOLEAN, AcceptBlock(t, b, r)
        PROVE  NotWorse'
    <2>1. ReceivedBlockTransactions(b) /\ tip' = tip
      BY <1>3, Zenon DEF AcceptBlock
    <2>2. \A c \in linked : nSequenceId'[c] = nSequenceId[c]
      BY <1>3, LinkedKeepNumbers, Zenon
    <2>3. \A c \in setBlockIndexCandidates' \ setBlockIndexCandidates :
             ~Worse(nSequenceId', c, tip)
      BY <2>1, LinkBranch, WaitBranch, Zenon
    <2>4. ASSUME NEW c \in setBlockIndexCandidates PROVE ~Worse(nSequenceId', c, tip)
      <3>1. nSequenceId'[c] = nSequenceId[c] /\ nSequenceId'[tip] = nSequenceId[tip]
        BY <1>0, <2>2, <2>4, Zenon
      <3>2. ~Worse(nSequenceId, c, tip)
        BY <2>4, Zenon DEF NotWorse
      <3> QED BY <3>1, <3>2, Zenon DEF Worse
    <2> QED BY <2>1, <2>3, <2>4, Zenon DEF NotWorse
  <1>4. ASSUME tip # Genesis, tip' = pprev[tip],
               UNCHANGED <<nSequenceId, setBlockIndexCandidates>>
        PROVE  NotWorse'
    <2>1. nChainWork[tip'] < nChainWork[tip] /\ nChainWork[tip'] \in Nat /\ nChainWork[tip] \in Nat
      BY <1>0, <1>4, Parents, Zenon
    <2>2. ASSUME NEW c \in setBlockIndexCandidates PROVE ~Worse(nSequenceId', c, tip')
      <3>1. ~(nChainWork[c] < nChainWork[tip]) /\ nChainWork[c] \in Nat
        BY <1>0, <2>2, Parents, Zenon DEF NotWorse, Worse
      <3>2. nChainWork[tip'] < nChainWork[c]
        BY <2>1, <3>1
      <3> QED BY <2>1, <3>1, <3>2 DEF Worse
    <2> QED BY <1>4, <2>2, Zenon DEF NotWorse
  <1>5. ASSUME NEW t \in Threads, DisconnectTip(t) PROVE NotWorse'
    <2>1. tip # Genesis
      BY <1>0, <1>5, UpGenesis, Zenon DEF DisconnectTip, Chosen, TypeOK
    <2> QED BY <1>4, <1>5, <2>1, Zenon DEF DisconnectTip, index, sets
  <1>6. ASSUME NEW t \in Threads, InvalidateDisconnect(t) PROVE NotWorse'
    <2>1. tip # Genesis
      BY <1>0, <1>6, Parents, Zenon DEF InvalidateDisconnect, Active, Chosen
    <2> QED BY <1>4, <1>6, <2>1, Zenon DEF InvalidateDisconnect, index, sets
  <1>7. ASSUME NEW t \in Threads, ConnectTip(t) PROVE NotWorse'
    <2>1. /\ nSequenceId' = nSequenceId
          /\ setBlockIndexCandidates' =
                PruneBlockIndexCandidates(nSequenceId, setBlockIndexCandidates, tip')
      BY <1>7, Zenon DEF ConnectTip
    <2> QED BY <2>1, Zenon DEF NotWorse, PruneBlockIndexCandidates
  <1>8. ASSUME NEW t \in Threads, DropCandidate(t) \/ ConnectTipInvalid(t) PROVE NotWorse'
    <2>1. UNCHANGED <<nSequenceId, tip>> /\ setBlockIndexCandidates' \subseteq setBlockIndexCandidates
      BY <1>8, Zenon DEF DropCandidate, ConnectTipInvalid
    <2> QED BY <1>1, <2>1, Zenon
  <1>9. ASSUME NEW t \in Threads, InvalidateMark(t) PROVE NotWorse'
    <2>1. UNCHANGED <<nSequenceId, tip>>
      BY <1>9, Zenon DEF InvalidateMark
    <2>2. \A c \in setBlockIndexCandidates' \ setBlockIndexCandidates :
             \E marked : c \in AsGoodAsTip(marked)
      BY <1>9, Zenon DEF InvalidateMark
    <2> QED BY <1>1, <2>1, <2>2, Zenon DEF AsGoodAsTip
  <1>10. ASSUME NEW t \in Threads, NEW b \in Blocks, ReconsiderBlock(t, b) PROVE NotWorse'
    <2>1. UNCHANGED <<nSequenceId, tip>>
      BY <1>10, Zenon DEF ReconsiderBlock
    <2>2. \A c \in setBlockIndexCandidates' \ setBlockIndexCandidates :
             c \in linked /\ Worse(nSequenceId, tip, c)
      BY <1>10, Zenon DEF ReconsiderBlock
    <2>3. ASSUME NEW c \in Blocks, Worse(nSequenceId, tip, c) PROVE ~Worse(nSequenceId, c, tip)
      <3>1. /\ nChainWork[c] \in Nat /\ nChainWork[tip] \in Nat
            /\ nSequenceId[c] \in Int /\ nSequenceId[tip] \in Int
            /\ address[c] \in Nat /\ address[tip] \in Nat
        BY <1>0, TreeAssumption, Zenon
      <3> QED BY <2>3, <3>1 DEF Worse
    <2> QED BY <1>0, <1>1, <2>1, <2>2, <2>3, Zenon
  <1>11. ASSUME NEW t \in Threads, NEW b \in Blocks, PreciousBlock(t, b) PROVE NotWorse'
    <2>1. tip' = tip
      BY <1>11, Zenon DEF PreciousBlock
    <2>2. PICK id \in Int :
             /\ nSequenceId' = [nSequenceId EXCEPT ![b] = id]
             /\ setBlockIndexCandidates' =
                   IF IsValid(b, TRANSACTIONS) /\ b \in linked
                   THEN PruneBlockIndexCandidates(nSequenceId',
                           (setBlockIndexCandidates \ {b}) \cup {b}, tip)
                   ELSE setBlockIndexCandidates \ {b}
      BY <1>0, <1>11, PreciousFacts, Zenon
    <2>3. CASE IsValid(b, TRANSACTIONS) /\ b \in linked
      BY <2>1, <2>2, <2>3, Zenon DEF NotWorse, PruneBlockIndexCandidates
    <2>4. CASE ~(IsValid(b, TRANSACTIONS) /\ b \in linked)
      <3>1. b # tip
        <4>1. IsValid(tip, TRANSACTIONS)
          BY <1>0, Parents, Zenon DEF IsValid, Sound, Indexed, Linked
        <4> QED BY <1>0, <2>4, <4>1, Zenon
      <3>2. ASSUME NEW c \in setBlockIndexCandidates \ {b} PROVE ~Worse(nSequenceId', c, tip)
        <4>1. nSequenceId'[c] = nSequenceId[c] /\ nSequenceId'[tip] = nSequenceId[tip]
          BY <1>0, <2>2, <3>1, <3>2, Zenon
        <4>2. ~Worse(nSequenceId, c, tip)
          BY <3>2, Zenon DEF NotWorse
        <4> QED BY <4>1, <4>2, Zenon DEF Worse
      <3> QED BY <2>1, <2>2, <2>4, <3>2, Zenon DEF NotWorse
    <2> QED BY <2>3, <2>4, Zenon
  <1>12. ASSUME NEW t \in Threads, Restart(t) PROVE NotWorse'
    <2>1. /\ tip' = tip /\ nSequenceId' = [b \in Blocks |-> 0]
          /\ \E S : setBlockIndexCandidates' =
                PruneBlockIndexCandidates([b \in Blocks |-> 0], S, tip)
      BY <1>12, Zenon DEF Restart
    <2>2. \E S : setBlockIndexCandidates' = PruneBlockIndexCandidates(nSequenceId', S, tip')
      BY <2>1, Zenon
    <2> QED BY <2>2, Zenon DEF NotWorse, PruneBlockIndexCandidates
  <1>13. ASSUME NEW t \in Threads, Lock(t) \/ FindMostWorkChain(t) \/ ReadFails(t)
         PROVE  NotWorse'
    BY <1>2, <1>13, Zenon DEF Lock, FindMostWorkChain, ReadFails, index, sets
  <1>14. ASSUME NEW t \in Threads, NEW b \in Blocks, NEW r \in BOOLEAN, NEW x \in BOOLEAN,
                \/ AcceptBlockHeader(t, b) \/ RejectHeader(t, b) \/ AcceptBlockUnwanted(t, b, r)
                \/ AcceptBlockInvalid(t, b, r, x) \/ InvalidateBlock(t, b)
         PROVE  NotWorse'
    BY <1>2, <1>14, Zenon DEF AcceptBlockHeader, RejectHeader, AcceptBlockUnwanted,
        AcceptBlockInvalid, InvalidateBlock, index, sets
  <1>15. CASE (\E b \in Blocks : PruneOneBlockFile(b)) \/ UNCHANGED <<vars, scenario>>
    BY <1>2, <1>15, Zenon DEF PruneOneBlockFile, vars, index, sets
  <1> QED
    BY <1>3, <1>5, <1>6, <1>7, <1>8, <1>9, <1>10, <1>11, <1>12, <1>13, <1>14, <1>15, Zenon
    DEF Next, Activate, Peer, Operator

\* CandidatesSound, CheckBlockIndex on setBlockIndexCandidates: no candidate is
\* incomplete or worse than the tip, so FindMostWorkChain never moves to a worse
\* chain; on a node that keeps its block files, for every tree and any number of
\* threads, under every sequence of the operator's commands.
THEOREM CandidatesAreSound ==
    ASSUME OneThreadInvalidates, NeverPrunes
    PROVE  Spec => []CandidatesSound
  <1>1. Init => Commanded /\ Sound /\ NotWorse
    <2>1. Init => Commanded /\ Sound
      BY SoundInit, Zenon
    <2>2. ASSUME Init PROVE NotWorse
      <3>1. setBlockIndexCandidates = {Genesis} /\ tip = Genesis /\ nSequenceId[Genesis] = 1
        BY <2>2, TreeAssumption, Zenon DEF Init
      <3>2. nChainWork[Genesis] \in Nat /\ address[Genesis] \in Nat
        BY TreeAssumption, Zenon
      <3> QED BY <3>1, <3>2 DEF NotWorse, Worse
    <2> QED BY <2>1, <2>2, Zenon
  <1>2. Base /\ Commanded /\ Sound /\ NotWorse /\ [Next]_<<vars, scenario>>
           => Commanded' /\ Sound' /\ NotWorse'
    BY CommandedStep, SoundStep, NotWorseStep, Zenon DEF Base
  <1>3. Base /\ NotWorse => CandidatesSound
    BY Zenon DEF Base, NotWorse, CandidatesSound, Linked, Indexed, TypeOK
  <1> QED BY <1>1, <1>2, <1>3, BaseInvariance, PTL DEF Spec

\* CandidateKeyStable: setBlockIndexCandidates is a std::set ordered by a key
\* that lies in the blocks; on a node that keeps its block files no step changes
\* the key of an element, except PreciousBlock and a restart, which take it out.
THEOREM CandidateKeys ==
    ASSUME NeverPrunes
    PROVE  Spec => CandidateKeyStable
  <1>1. ASSUME Base, [Next]_<<vars, scenario>>,
               NEW b \in setBlockIndexCandidates, nSequenceId'[b] # nSequenceId[b]
        PROVE  nSequenceId'[b] <= 0
    <2>0. TypeOK /\ b \in linked /\ b \in Blocks /\ nSequenceId \in [Blocks -> Int]
      BY <1>1, Zenon DEF Base, Linked, TypeOK
    <2>1. CASE nSequenceId' = nSequenceId
      BY <1>1, <2>1, Zenon
    <2>2. ASSUME NEW t \in Threads, NEW c \in Blocks, NEW r \in BOOLEAN, AcceptBlock(t, c, r)
          PROVE  FALSE
      BY <1>1, <2>0, <2>2, LinkedKeepNumbers, Zenon
    <2>3. ASSUME NEW t \in Threads, NEW c \in Blocks, PreciousBlock(t, c)
          PROVE  nSequenceId'[b] <= 0
      <3>1. PICK id \in Int : id < 0 /\ nSequenceId' = [nSequenceId EXCEPT ![c] = id]
        BY <2>0, <2>3, PreciousFacts, Zenon
      <3> QED BY <1>1, <2>0, <3>1
    <2>4. ASSUME NEW t \in Threads, Restart(t) PROVE nSequenceId'[b] <= 0
      <3>1. nSequenceId' = [d \in Blocks |-> 0]
        BY <2>4, Zenon DEF Restart
      <3> QED BY <2>0, <3>1
    <2>5. ASSUME NEW t \in Threads, Activate(t) PROVE nSequenceId' = nSequenceId
      BY <2>5, Zenon DEF Activate, Lock, FindMostWorkChain, DropCandidate, DisconnectTip, ConnectTip,
          ConnectTipInvalid, ReadFails, InvalidateDisconnect, InvalidateMark, index
    <2>6. ASSUME NEW t \in Threads, NEW c \in Blocks, NEW r \in BOOLEAN, NEW x \in BOOLEAN,
                 \/ AcceptBlockHeader(t, c) \/ RejectHeader(t, c) \/ AcceptBlockUnwanted(t, c, r)
                 \/ AcceptBlockInvalid(t, c, r, x) \/ InvalidateBlock(t, c) \/ ReconsiderBlock(t, c)
          PROVE  nSequenceId' = nSequenceId
      BY <2>6, Zenon DEF AcceptBlockHeader, RejectHeader, AcceptBlockUnwanted, AcceptBlockInvalid,
          InvalidateBlock, ReconsiderBlock, index
    <2>7. CASE (\E c \in Blocks : PruneOneBlockFile(c)) \/ UNCHANGED <<vars, scenario>>
      BY <2>1, <2>7, Zenon DEF PruneOneBlockFile, vars, index
    <2> QED
      BY <1>1, <2>1, <2>2, <2>3, <2>4, <2>5, <2>6, <2>7, Zenon DEF Next, Peer, Operator
  <1>2. Base /\ [Next]_<<vars, scenario>> =>
           [\A b \in setBlockIndexCandidates :
               nSequenceId'[b] # nSequenceId[b] => nSequenceId'[b] <= 0]_vars
    BY <1>1, Zenon
  <1> QED BY <1>2, BaseInvariance, PTL DEF Spec, CandidateKeyStable

-----------------------------------------------------------------------------
(* The status of a block, where the operator overrides no verdict.          *)

NeverOverrides == \A s \in Scenarios : s.commands \cap {"invalidate", "reconsider"} = {}

\* A node with -prune is not restarted here: LoadBlockIndexDB cannot tell the
\* blocks that were linked from those that only have nTx.
PrunesOrRestarts == \A s \in Scenarios : ~({"prune", "restart"} \subseteq s.commands)

\* Script validation is recorded from the root up.
ScriptsUp ==
    \A b \in Blocks : valid[b] >= SCRIPTS => \A a \in Up[b] \ {Genesis} : valid[a] >= SCRIPTS

\* A block that has failed descends from one that failed by itself.
Explained == \A b \in Failed : FirstInvalid(b)

\* A failed block of which nothing was ever linked or is stored; such a block
\* between b and the linked ones keeps b out for ever.
Rejected(a) == a \in Failed /\ a \notin haveData /\ a \notin linked
Gone(b) == \E a \in Up[b] : Rejected(a)

\* A stored block is linked as soon as its parent is; until then it waits, or a
\* rejected ancestor keeps it out.
Complete ==
    /\ gFailedBlocks \subseteq linked /\ mapBlocksUnlinked \subseteq haveData
    /\ \A b \in haveData \ {Genesis} : pprev[b] \in linked => b \in linked
    /\ \A b \in haveData \ linked : b \in mapBlocksUnlinked \/ Gone(b)
    /\ \A b \in Failed \ linked : Gone(b)

\* Only ConnectTip raises a block to SCRIPTS, on top of the active chain.
LEMMA ScriptsUpStep ==
    ASSUME Base, Sound, ScriptsUp, [Next]_<<vars, scenario>>
    PROVE  ScriptsUp'
  <1>0. /\ TypeOK /\ Chosen /\ Linked /\ valid \in [Blocks -> {0, TREE, TRANSACTIONS, SCRIPTS}]
        /\ tip \in Blocks
    BY Zenon DEF Base, TypeOK
  <1>1. CASE valid' = valid
    BY <1>1, Zenon DEF ScriptsUp
  <1>2. ASSUME NEW b \in Blocks, NEW n \in {TREE, TRANSACTIONS},
               valid' = [valid EXCEPT ![b] = RaiseValidity(b, n)]
        PROVE  ScriptsUp'
    <2>1. /\ RaiseValidity(b, n) \in {0, TREE, TRANSACTIONS, SCRIPTS}
          /\ RaiseValidity(b, n) >= valid[b]
          /\ RaiseValidity(b, n) = valid[b] \/ RaiseValidity(b, n) = n
      BY <1>0, Raised, Zenon
    <2>2. valid[b] \in {0, TREE, TRANSACTIONS, SCRIPTS} /\ valid'[b] = RaiseValidity(b, n)
      BY <1>0, <1>2, Zenon
    <2>3. valid'[b] >= SCRIPTS <=> valid[b] >= SCRIPTS
      BY <2>1, <2>2 DEF TREE, TRANSACTIONS, SCRIPTS
    <2>4. \A c \in Blocks \ {b} : valid'[c] = valid[c]
      BY <1>0, <1>2, Zenon
    <2>5. \A c \in Blocks : valid'[c] >= SCRIPTS <=> valid[c] >= SCRIPTS
      BY <2>3, <2>4, Zenon
    <2> QED BY <2>5, Parents, Zenon DEF ScriptsUp
  <1>3. ASSUME NEW t \in Threads, ConnectTip(t) PROVE ScriptsUp'
    <2> DEFINE b == pindexConnect(t)
    <2>1. b \in Blocks \ {Genesis} /\ Up[b] = Up[tip] \cup {b}
      BY <1>0, <1>3, ConnectFacts, Zenon DEF ConnectTip
    <2>2. valid' = [valid EXCEPT ![b] = RaiseValidity(b, SCRIPTS)]
      BY <1>3, Zenon DEF ConnectTip
    <2> HIDE DEF b
    <2>3. valid[b] \in Nat /\ RaiseValidity(b, SCRIPTS) \in Nat
          /\ RaiseValidity(b, SCRIPTS) >= valid[b]
      BY <1>0, <2>1, Raised DEF TREE, TRANSACTIONS, SCRIPTS
    <2>4. valid'[b] = RaiseValidity(b, SCRIPTS) /\ \A c \in Blocks \ {b} : valid'[c] = valid[c]
      BY <1>0, <2>1, <2>2, Zenon
    <2>5. \A c \in Blocks : valid[c] >= SCRIPTS => valid'[c] >= SCRIPTS
      BY <2>3, <2>4 DEF SCRIPTS
    <2>6. ASSUME NEW c \in Blocks, valid'[c] >= SCRIPTS, NEW a \in Up[c] \ {Genesis}
          PROVE  valid'[a] >= SCRIPTS
      <3>1. a \in Blocks
        BY <2>6, Parents, Zenon
      <3>2. CASE c # b
        BY <2>4, <2>5, <2>6, <3>1, <3>2, Zenon DEF ScriptsUp
      <3>3. CASE c = b
        BY <2>1, <2>5, <2>6, <3>1, <3>3, Zenon DEF Sound
      <3> QED BY <3>2, <3>3, Zenon
    <2> QED BY <2>6, Zenon DEF ScriptsUp
  <1>4. ASSUME NEW t \in Threads, Activate(t), ~ConnectTip(t) PROVE ScriptsUp'
    BY <1>1, <1>4, Zenon DEF Activate, Lock, FindMostWorkChain, DropCandidate, DisconnectTip,
        ConnectTipInvalid, ReadFails, InvalidateDisconnect, InvalidateMark, index
  <1>5. ASSUME NEW t \in Threads, NEW b \in Blocks, Peer(t, b) PROVE ScriptsUp'
    BY <1>1, <1>2, <1>5, Zenon DEF Peer, AcceptBlockHeader, RejectHeader, AcceptBlock,
        AcceptBlockUnwanted, AcceptBlockInvalid
  <1>6. ASSUME NEW t \in Threads, NEW b \in Blocks, Operator(t, b) PROVE ScriptsUp'
    BY <1>1, <1>6, Zenon DEF Operator, InvalidateBlock, ReconsiderBlock, PreciousBlock, index
  <1>7. ASSUME NEW t \in Threads, Restart(t) PROVE ScriptsUp'
    BY <1>1, <1>7, Zenon DEF Restart
  <1>8. CASE (\E b \in Blocks : PruneOneBlockFile(b)) \/ UNCHANGED <<vars, scenario>>
    BY <1>1, <1>8, Zenon DEF PruneOneBlockFile, vars, index
  <1> QED BY <1>3, <1>4, <1>5, <1>6, <1>7, <1>8, Zenon DEF Next

\* What is marked as a child lies above a block that has failed.
LEMMA ExplainedStep ==
    ASSUME NeverOverrides, Base, Commanded, Explained, [Next]_<<vars, scenario>>
    PROVE  Explained' /\ Failed \subseteq Failed'
  <1> DEFINE Goal == Explained' /\ Failed \subseteq Failed'
  <1>0. TypeOK /\ scenario \in Scenarios /\ Failed \subseteq Blocks
    BY Zenon DEF Base, TypeOK, Failed
  <1>1. ASSUME failedValid \subseteq failedValid', failedChild \subseteq failedChild',
               failedChild' \subseteq Blocks,
               \A x \in failedChild' \ failedChild : \E f \in Up[x] : f \in Failed
        PROVE  Goal
    <2>1. \A f \in Failed : Up[f] \cap failedValid # {}
      BY Zenon DEF Explained, FirstInvalid
    <2>2. ASSUME NEW x \in failedChild' \cup failedValid' PROVE Up[x] \cap failedValid' # {}
      <3>1. CASE x \in failedValid'
        <4>1. x \in Blocks
          BY <1>0, IndexTypedStep, <3>1, Zenon DEF IndexTyped, Base
        <4> QED BY <3>1, <4>1, Parents, Zenon
      <3>2. CASE x \in failedChild
        BY <1>1, <2>1, <3>2, Zenon DEF Failed
      <3>3. CASE x \in failedChild' \ failedChild
        <4>1. PICK f \in Up[x] : f \in Failed
          BY <1>1, <3>3, Zenon
        <4>2. Up[f] \subseteq Up[x]
          BY <1>1, <3>3, <4>1, UpTransitive, Zenon
        <4> QED BY <1>1, <2>1, <4>1, <4>2, Zenon
      <3> QED BY <2>2, <3>1, <3>2, <3>3, Zenon
    <2> QED BY <1>1, <2>2, Zenon DEF Explained, FirstInvalid, Failed
  <1>2. ASSUME UNCHANGED <<failedValid, failedChild>> PROVE Goal
    BY <1>0, <1>1, <1>2, Zenon DEF Failed
  <1>3. ASSUME NEW t \in Threads, NEW b \in Blocks, RejectHeader(t, b)
        PROVE  Goal
    <2>1. pprev[b] \in Blocks
      BY <1>0, <1>3, Zenon DEF RejectHeader, TypeOK
    <2>2. PICK f \in FailedAncestors(b) \cap failedValid :
             failedChild' = failedChild \cup (Up[pprev[b]] \ Up[f])
      BY <1>3, Zenon DEF RejectHeader
    <2>3. f \in Up[pprev[b]] /\ f \in Failed
      BY <2>2, Zenon DEF FailedAncestors, Failed
    <2>4. \A x \in Up[pprev[b]] \ Up[f] : f \in Up[x]
      BY <2>1, <2>3, UpAbove, Zenon
    <2>5. failedValid' = failedValid /\ failedChild' \subseteq Blocks
      BY <1>0, <1>3, <2>1, <2>2, Parents, Zenon DEF RejectHeader, Failed
    <2> QED BY <1>1, <2>2, <2>3, <2>4, <2>5, Zenon
  <1>4. ASSUME NEW t \in Threads, NEW b \in Blocks, NEW r \in BOOLEAN, NEW x \in BOOLEAN,
               AcceptBlockInvalid(t, b, r, x)
        PROVE  Goal
    <2>1. failedChild' = failedChild /\ failedValid \subseteq failedValid'
      BY <1>4, Zenon DEF AcceptBlockInvalid
    <2> QED BY <1>0, <1>1, <2>1, Zenon DEF Failed
  <1>5. ASSUME NEW t \in Threads, DropCandidate(t) PROVE Goal
    <2> DEFINE c == Best(nSequenceId, setBlockIndexCandidates)
               p == Highest(Unusable(c))
    <2>1. c \in Blocks
      BY <1>0, <1>5, BestCandidate, Zenon DEF DropCandidate, TypeOK
    <2>2. \A x \in Up[c] \ Up[p] : p \in Up[x]
      BY <1>0, <1>5, <2>1, DropFacts, Zenon DEF DropCandidate
    <2>3. /\ failedValid' = failedValid
          /\ failedChild' = failedChild \/ (p \in Failed /\ failedChild' = failedChild \cup (Up[c] \ Up[p]))
      BY <1>5, Zenon DEF DropCandidate
    <2>4. Up[c] \subseteq Blocks
      BY <2>1, Parents, Zenon
    <2> HIDE DEF c, p
    <2> QED BY <1>0, <1>1, <2>2, <2>3, <2>4, Zenon DEF Failed
  <1>6. ASSUME NEW t \in Threads, ConnectTipInvalid(t) PROVE Goal
    <2>1. failedChild' = failedChild /\ failedValid \subseteq failedValid'
      BY <1>6, Zenon DEF ConnectTipInvalid
    <2> QED BY <1>0, <1>1, <2>1, Zenon DEF Failed
  <1>7. ASSUME NEW t \in Threads, Restart(t) PROVE Goal
    <2>1. failedValid' = failedValid /\ failedChild' = failedChild \cup LoadedChild
      BY <1>7, Zenon DEF Restart
    <2>2. \A x \in LoadedChild : x \in Blocks /\ \E f \in Up[x] : f \in Failed
      BY <1>0, Zenon DEF LoadedChild, TypeOK
    <2> QED BY <1>0, <1>1, <2>1, <2>2, Zenon DEF Failed
  <1>8. ASSUME NEW t \in Threads, NEW b \in Blocks,
               InvalidateMark(t) \/ InvalidateDisconnect(t) \/ ReconsiderBlock(t, b)
        PROVE  FALSE
    BY <1>0, <1>8, Zenon DEF InvalidateMark, InvalidateDisconnect, ReconsiderBlock, Commanded,
        NeverOverrides
  <1>9. ASSUME NEW t \in Threads,
               \/ Lock(t) \/ FindMostWorkChain(t) \/ DisconnectTip(t) \/ ConnectTip(t)
               \/ ReadFails(t)
        PROVE  Goal
    BY <1>2, <1>9, Zenon DEF Lock, FindMostWorkChain, DisconnectTip, ConnectTip, ReadFails, index
  <1>10. ASSUME NEW t \in Threads, NEW b \in Blocks, NEW r \in BOOLEAN,
                \/ AcceptBlockHeader(t, b) \/ AcceptBlock(t, b, r) \/ AcceptBlockUnwanted(t, b, r)
                \/ InvalidateBlock(t, b) \/ PreciousBlock(t, b)
         PROVE  Goal
    BY <1>2, <1>10, Zenon DEF AcceptBlockHeader, AcceptBlock, AcceptBlockUnwanted, InvalidateBlock,
        PreciousBlock, index
  <1>11. ASSUME (\E b \in Blocks : PruneOneBlockFile(b)) \/ UNCHANGED <<vars, scenario>>
         PROVE  Goal
    BY <1>2, <1>11, Zenon DEF PruneOneBlockFile, vars, index
  <1> HIDE DEF Goal
  <1>12. ASSUME NEW t \in Threads, Activate(t) PROVE Goal
    BY <1>5, <1>6, <1>8, <1>9, <1>12, Parents, Zenon DEF Activate
  <1>13. ASSUME NEW t \in Threads, NEW b \in Blocks, Peer(t, b) PROVE Goal
    BY <1>3, <1>4, <1>10, <1>13, Zenon DEF Peer
  <1>14. ASSUME NEW t \in Threads, NEW b \in Blocks, Operator(t, b) PROVE Goal
    BY <1>8, <1>10, <1>14, Zenon DEF Operator
  <1>15. Goal
    BY <1>7, <1>11, <1>12, <1>13, <1>14, Zenon DEF Next
  <1> QED BY <1>15, Zenon DEF Goal

\* A chain whose blocks are all stored is linked.
LEMMA LinkedOrMissing ==
    ASSUME TypeOK, Linked, Complete, NEW b \in Blocks, Up[b] \subseteq haveData
    PROVE  b \in linked
  <1> DEFINE S == {y \in Up[b] : y \notin linked}
  <1>1. SUFFICES ASSUME b \notin linked PROVE FALSE
    BY Zenon
  <1>2. S \in SUBSET Blocks /\ Genesis \notin S /\ S # {}
    BY <1>1, Parents, Zenon DEF Linked
  <1>3. PICK y \in S : y \in Blocks \ {Genesis} /\ pprev[y] \notin S
    <2> HIDE DEF S
    <2> QED BY <1>2, FirstOf, Zenon
  <1>4. pprev[y] \in Up[b]
    BY <1>3, UpTransitive, Parents
  <1> QED BY <1>3, <1>4, Zenon DEF Complete

\* Above a linked block f, a block that is not linked has an ancestor that is
\* neither linked nor stored.
LEMMA FirstHole ==
    ASSUME TypeOK, Linked, Complete, NEW x \in Blocks, x \notin linked, NEW f \in linked
    PROVE  \E y \in Up[x] \ Up[f] : y \notin linked /\ y \notin haveData
  <1> DEFINE S == {y \in Up[x] : y \notin linked}
  <1>1. S \in SUBSET Blocks /\ Genesis \notin S /\ S # {}
    BY Parents, Zenon DEF Linked
  <1>2. PICK y \in S : y \in Blocks \ {Genesis} /\ pprev[y] \notin S
    <2> HIDE DEF S
    <2> QED BY <1>1, FirstOf, Zenon
  <1>3. pprev[y] \in Up[x]
    BY <1>2, UpTransitive, Parents
  <1>4. y \notin haveData
    BY <1>2, <1>3, Zenon DEF Complete
  <1>5. Up[f] \subseteq linked
    BY LinkedUp, Zenon
  <1> QED BY <1>2, <1>4, <1>5, Zenon

\* Blocks fail, and nothing is stored or linked.
LEMMA CompleteFails ==
    ASSUME Complete, Failed \subseteq Failed', UNCHANGED <<haveData, linked>>,
           mapBlocksUnlinked \subseteq mapBlocksUnlinked', mapBlocksUnlinked' \subseteq haveData,
           gFailedBlocks' \subseteq linked,
           \A x \in Failed' \ Failed : x \in linked \/ Gone(x)'
    PROVE  Complete'
  <1>1. \A x : Gone(x) => Gone(x)'
    BY Zenon DEF Gone, Rejected
  <1>2. \A b \in haveData' \ linked' : b \in mapBlocksUnlinked' \/ Gone(b)'
    BY <1>1, Zenon DEF Complete
  <1>3. \A b \in Failed' \ linked' : Gone(b)'
    BY <1>1, Zenon DEF Complete
  <1>4. \A b \in haveData' \ {Genesis} : pprev[b] \in linked' => b \in linked'
    BY Zenon DEF Complete
  <1> QED BY <1>2, <1>3, <1>4, Zenon DEF Complete

\* A block arrives: what hung on it is linked with it.
LEMMA CompleteAccept ==
    ASSUME Base, Complete, NEW t \in Threads, NEW b \in Blocks, NEW r \in BOOLEAN,
           AcceptBlock(t, b, r)
    PROVE  Complete'
  <1>0. /\ TypeOK /\ Indexed /\ Linked /\ linked \subseteq Blocks /\ haveData \subseteq Blocks
        /\ Failed \subseteq mapBlockIndex \ {Genesis}
    BY Zenon DEF Base, Indexed, TypeOK
  <1>1. /\ ReceivedBlockTransactions(b) /\ haveData' = haveData \cup {b} /\ b \notin haveData
        /\ Acceptable(b) /\ UNCHANGED <<gFailedBlocks, failedValid, failedChild>>
    BY Zenon DEF AcceptBlock, ReceivedBlockTransactions, Unwanted
  <1>2. b \notin Failed /\ Failed' = Failed
    BY <1>0, <1>1, Zenon DEF Acceptable, NewHeader, Failed
  <1>3. gFailedBlocks \subseteq linked /\ mapBlocksUnlinked \subseteq haveData
    BY Zenon DEF Complete
  <1>4. CASE b = Genesis \/ pprev[b] \in linked
    <2> DEFINE L == Linkable(b)
    <2>1. linked' = linked \cup L /\ mapBlocksUnlinked' = mapBlocksUnlinked \ L
      BY <1>1, <1>4, LinkBranch, Zenon
    <2>2. /\ b \in L /\ L \subseteq mapBlocksUnlinked \cup {b}
          /\ \A d \in L : Up[d] \subseteq Up[b] \cup mapBlocksUnlinked
      BY <1>0, LinkableFacts, Zenon
    <2>3. ASSUME NEW a, Rejected(a) PROVE Rejected(a)'
      <3>1. a \in Failed /\ a \notin haveData /\ a \notin linked /\ a # b
        BY <1>2, <2>3, Zenon DEF Rejected
      <3>2. a \notin L
        BY <1>3, <2>2, <3>1, Zenon
      <3> QED BY <1>1, <1>2, <2>1, <3>1, <3>2, Zenon DEF Rejected
    <2>4. \A x : Gone(x) => Gone(x)'
      BY <2>3 DEF Gone
    <2>5. ASSUME NEW e \in haveData' \ {Genesis}, pprev[e] \in linked' PROVE e \in linked'
      <3>1. CASE e = b
        BY <2>1, <2>2, <3>1, Zenon
      <3>2. CASE e # b /\ pprev[e] \in linked
        BY <1>1, <2>1, <2>5, <3>2, Zenon DEF Complete
      <3>3. CASE e # b /\ pprev[e] \in L /\ e \notin linked
        <4>0. e \in haveData \ {Genesis} /\ e \in Blocks /\ Up[e] = Up[pprev[e]] \cup {e}
          BY <1>0, <1>1, <2>5, <3>3, Parents, Zenon
        <4>1. Up[pprev[e]] \subseteq Up[b] \cup mapBlocksUnlinked
          BY <2>2, <3>3, Zenon
        <4>2. ~Gone(e)
          <5>1. SUFFICES ASSUME NEW a \in Up[e], Rejected(a) PROVE FALSE
            BY Zenon DEF Gone
          <5>2. a \in Failed /\ a \notin haveData /\ a \notin linked
            BY <5>1, Zenon DEF Rejected
          <5>3. a \in Up[b] /\ a # b
            BY <1>2, <1>3, <4>0, <4>1, <5>1, <5>2, Zenon
          <5>4. CASE b = Genesis
            BY <5>3, <5>4, Parents, Zenon
          <5>5. CASE b # Genesis
            <6>1. a \in Up[pprev[b]]
              BY <5>3, <5>5, Parents
            <6> QED BY <1>0, <1>4, <5>2, <5>5, <6>1, LinkedUp, Zenon
          <5> QED BY <5>4, <5>5, Zenon
        <4>3. e \in mapBlocksUnlinked
          BY <3>3, <4>0, <4>2, Zenon DEF Complete
        <4>4. b \in Up[pprev[e]] /\ Up[pprev[e]] \ Up[b] \subseteq mapBlocksUnlinked
          BY <3>3, Zenon DEF Linkable
        <4>5. e \in L
          BY <4>0, <4>3, <4>4, Zenon DEF Linkable
        <4> QED BY <2>1, <4>5, Zenon
      <3> HIDE DEF L
      <3> QED BY <2>1, <2>5, <3>1, <3>2, <3>3, Zenon
    <2> HIDE DEF L
    <2>6. \A e \in haveData' \ linked' : e \in mapBlocksUnlinked' \/ Gone(e)'
      <3>1. ASSUME NEW e \in haveData' \ linked' PROVE e \in haveData \ linked /\ e \notin L
        BY <1>1, <2>1, <2>2, <3>1, Zenon
      <3> QED BY <2>1, <2>4, <3>1, Zenon DEF Complete
    <2>7. \A e \in Failed' \ linked' : Gone(e)'
      BY <1>2, <2>1, <2>4, Zenon DEF Complete
    <2>8. gFailedBlocks' \subseteq linked' /\ mapBlocksUnlinked' \subseteq haveData'
      BY <1>1, <1>3, <2>1, Zenon
    <2> QED BY <2>5, <2>6, <2>7, <2>8, Zenon DEF Complete
  <1>5. CASE ~(b = Genesis \/ pprev[b] \in linked)
    <2>1. /\ linked' = linked \ {b}
          /\ mapBlocksUnlinked' =
                mapBlocksUnlinked \cup (IF IsValid(pprev[b], TREE) THEN {b} ELSE {})
      BY <1>1, <1>5, WaitBranch, Zenon
    <2>2. linked' = linked
      BY <1>0, <1>5, <2>1, Zenon DEF Linked
    <2>3. ASSUME NEW x, Gone(x) PROVE Gone(x)'
      BY <1>1, <1>2, <2>2, <2>3, Zenon DEF Gone, Rejected
    <2>4. b \in mapBlocksUnlinked' \/ Gone(b)'
      <3>1. CASE IsValid(pprev[b], TREE)
        BY <2>1, <3>1, Zenon
      <3>2. CASE ~IsValid(pprev[b], TREE)
        <4>1. pprev[b] \in mapBlockIndex /\ pprev[b] \in Blocks
          BY <1>0, <1>1, <1>5, Parents, Zenon DEF Acceptable, NewHeader, Indexed
        <4>2. pprev[b] \in Failed
          BY <1>0, <3>2, <4>1, Zenon DEF IsValid, Indexed
        <4>3. Gone(pprev[b])
          BY <1>5, <4>2, Zenon DEF Complete
        <4>4. Gone(b)
          BY <1>5, <4>3, Parents, Zenon DEF Gone
        <4> QED BY <2>3, <4>4, Zenon
      <3> QED BY <3>1, <3>2, Zenon
    <2>5. \A e \in haveData' \ linked' : e \in mapBlocksUnlinked' \/ Gone(e)'
      <3>1. ASSUME NEW e \in haveData \ linked PROVE e \in mapBlocksUnlinked' \/ Gone(e)'
        <4>1. e \in mapBlocksUnlinked \/ Gone(e)
          BY <3>1, Zenon DEF Complete
        <4> QED BY <2>1, <2>3, <4>1, Zenon
      <3> QED BY <1>1, <2>2, <2>4, <3>1, Zenon
    <2>6. \A e \in Failed' \ linked' : Gone(e)'
      BY <1>2, <2>2, <2>3, Zenon DEF Complete
    <2>7. \A e \in haveData' \ {Genesis} : pprev[e] \in linked' => e \in linked'
      BY <1>1, <1>5, <2>2, Zenon DEF Complete
    <2>8. gFailedBlocks' \subseteq linked' /\ mapBlocksUnlinked' \subseteq haveData'
      BY <1>1, <1>3, <2>1, <2>2, Zenon
    <2> QED BY <2>5, <2>6, <2>7, <2>8, Zenon DEF Complete
  <1> QED BY <1>4, <1>5, Zenon

\* LoadBlockIndexDB links just the blocks that were linked.
LEMMA CompleteRestart ==
    ASSUME PrunesOrRestarts, Base, Complete, Failed \subseteq Failed', NEW t \in Threads, Restart(t)
    PROVE  Complete'
  <1>0. TypeOK /\ Stored /\ Linked /\ scenario \in Scenarios /\ linked \subseteq Blocks
        /\ received \subseteq Blocks
    BY Zenon DEF Base, TypeOK
  <1>1. received = haveData
    <2>1. ~fHavePruned
      BY <1>0, Zenon DEF PrunesOrRestarts, fHavePruned, Restart
    <2> QED BY <1>0, <2>1, Zenon DEF Stored
  <1>2. {b \in received : Up[b] \subseteq received} = linked
    <2>1. \A b \in linked : b \in received /\ Up[b] \subseteq received
      BY <1>0, LinkedUp, Zenon DEF Linked
    <2>2. \A b \in received : Up[b] \subseteq received => b \in linked
      BY <1>0, <1>1, LinkedOrMissing, Zenon
    <2> QED BY <2>1, <2>2, Zenon
  <1>3. /\ linked' = linked /\ haveData' = haveData /\ gFailedBlocks' = {}
        /\ mapBlocksUnlinked' = {b \in received \ {Genesis} : pprev[b] \notin linked}
    BY <1>2, Zenon DEF Restart
  <1>4. Failed' = Failed \cup LoadedChild
    BY Zenon DEF Restart, Failed
  <1>5. \A x : Gone(x) => Gone(x)'
    BY <1>3, Zenon DEF Gone, Rejected
  <1>6. ASSUME NEW x \in LoadedChild, x \notin linked PROVE Gone(x)'
    <2>1. PICK f \in Failed \cap Up[x] : Up[x] \ Up[f] \subseteq received
      BY <1>6, Zenon DEF LoadedChild
    <2>2. x \in received /\ x \in Blocks
      BY <1>0, <1>6, Zenon DEF LoadedChild
    <2>3. f \notin linked
      <3>1. SUFFICES ASSUME f \in linked PROVE FALSE
        BY Zenon
      <3>2. Up[f] \subseteq received
        BY <1>0, <3>1, LinkedUp, Zenon DEF Linked
      <3>3. Up[x] \subseteq received
        BY <2>1, <3>2, Zenon
      <3> QED BY <1>2, <1>6, <2>2, <3>3, Zenon
    <2>4. Gone(f)
      BY <2>1, <2>3, Zenon DEF Complete
    <2>5. Up[f] \subseteq Up[x]
      BY <2>1, <2>2, UpTransitive, Zenon
    <2>6. Gone(x)
      BY <2>4, <2>5, Zenon DEF Gone
    <2> QED BY <1>5, <2>6, Zenon
  <1>7. \A b \in haveData' \ {Genesis} : pprev[b] \in linked' => b \in linked'
    BY <1>3, Zenon DEF Complete
  <1>8. \A b \in haveData' \ linked' : b \in mapBlocksUnlinked'
    BY <1>0, <1>1, <1>3, Zenon DEF Complete, Linked
  <1>9. \A b \in Failed' \ linked' : Gone(b)'
    BY <1>3, <1>4, <1>5, <1>6, Zenon DEF Complete
  <1>10. gFailedBlocks' \subseteq linked' /\ mapBlocksUnlinked' \subseteq haveData'
    BY <1>1, <1>3, Zenon
  <1> QED BY <1>7, <1>8, <1>9, <1>10, Zenon DEF Complete

LEMMA CompleteStep ==
    ASSUME NeverOverrides, PrunesOrRestarts, Base, Commanded, Explained, Complete,
           [Next]_<<vars, scenario>>
    PROVE  Complete'
  <1>0. /\ TypeOK /\ Chosen /\ Indexed /\ Stored /\ Linked /\ scenario \in Scenarios
        /\ gFailedBlocks \subseteq linked /\ mapBlocksUnlinked \subseteq haveData
        /\ Failed \subseteq Failed'
    BY ExplainedStep, Zenon DEF Base, Complete
  <1>1. CASE UNCHANGED <<failedValid, failedChild, haveData, linked, mapBlocksUnlinked,
                         gFailedBlocks>>
    BY <1>0, <1>1, CompleteFails, Zenon DEF Failed
  <1>2. ASSUME NEW t \in Threads, NEW b \in Blocks, RejectHeader(t, b) PROVE Complete'
    <2>1. pprev[b] \in Blocks
      BY <1>0, <1>2, Zenon DEF RejectHeader, TypeOK
    <2>2. PICK f \in FailedAncestors(b) \cap failedValid :
             failedChild' = failedChild \cup (Up[pprev[b]] \ Up[f])
      BY <1>2, Zenon DEF RejectHeader
    <2>3. f \in gFailedBlocks /\ f \in linked
      BY <1>0, <2>2, Zenon DEF FailedAncestors
    <2>4. UNCHANGED <<failedValid, haveData, linked, mapBlocksUnlinked, gFailedBlocks>>
      BY <1>2, Zenon DEF RejectHeader, sets
    <2>5. ASSUME NEW x \in Up[pprev[b]] \ Up[f], x \notin linked PROVE Gone(x)'
      <3>1. x \in Blocks /\ Up[x] \subseteq Up[pprev[b]]
        BY <2>1, <2>5, UpTransitive, Parents, Zenon
      <3>2. PICK y \in Up[x] \ Up[f] : y \notin linked /\ y \notin haveData
        BY <1>0, <2>3, <2>5, <3>1, FirstHole, Zenon
      <3>3. y \in failedChild'
        BY <2>2, <3>1, <3>2, Zenon
      <3> QED BY <2>4, <3>2, <3>3, Zenon DEF Gone, Rejected, Failed
    <2>6. \A x \in Failed' \ Failed : x \in linked \/ Gone(x)'
      BY <2>2, <2>4, <2>5, Zenon DEF Failed
    <2> QED BY <1>0, <2>4, <2>6, CompleteFails, Zenon
  <1>3. ASSUME NEW t \in Threads, NEW b \in Blocks, NEW r \in BOOLEAN, NEW x \in BOOLEAN,
               AcceptBlockInvalid(t, b, r, x)
        PROVE  Complete'
    <2>1. /\ UNCHANGED <<failedChild, haveData, linked, mapBlocksUnlinked, gFailedBlocks>>
          /\ failedValid' \subseteq failedValid \cup ({b} \cap BadCheck) /\ b \notin haveData
      BY <1>3, Zenon DEF AcceptBlockInvalid, Unwanted, sets
    <2>2. b \in BadCheck => b \notin linked
      BY <1>0, Zenon DEF Stored, Linked
    <2>3. ASSUME NEW y \in Failed' \ Failed PROVE y \in linked \/ Gone(y)'
      <3>1. y = b /\ b \in BadCheck
        BY <2>1, <2>3, Zenon DEF Failed
      <3>2. Rejected(b)' /\ b \in Up[b]
        BY <2>1, <2>2, <2>3, <3>1, Parents, Zenon DEF Rejected
      <3> QED BY <3>1, <3>2, Zenon DEF Gone
    <2> QED BY <1>0, <2>1, <2>3, CompleteFails, Zenon
  <1>4. ASSUME NEW t \in Threads, DropCandidate(t) PROVE Complete'
    <2> DEFINE c == Best(nSequenceId, setBlockIndexCandidates)
               p == Highest(Unusable(c))
    <2>1. c \in linked /\ c \in Blocks
      BY <1>0, <1>4, BestCandidate, Zenon DEF DropCandidate, TypeOK, Linked
    <2>2. \A x \in Up[c] \ Up[p] : x \in haveData
      BY <1>0, <1>4, <2>1, DropFacts, Zenon DEF DropCandidate
    <2>3. /\ UNCHANGED <<failedValid, haveData, linked, gFailedBlocks>>
          /\ failedChild' \subseteq failedChild \cup (Up[c] \ Up[p])
          /\ \/ mapBlocksUnlinked' = mapBlocksUnlinked
             \/ mapBlocksUnlinked' = mapBlocksUnlinked \cup (Up[c] \ Up[p])
      BY <1>4, Zenon DEF DropCandidate, Unlink
    <2>4. Up[c] \subseteq linked
      BY <1>0, <2>1, LinkedUp, Zenon
    <2> HIDE DEF c, p
    <2>5. \A x \in Failed' \ Failed : x \in linked
      BY <2>3, <2>4, Zenon DEF Failed
    <2> QED BY <1>0, <2>2, <2>3, <2>5, CompleteFails, Zenon
  <1>5. ASSUME NEW t \in Threads, ConnectTipInvalid(t) PROVE Complete'
    <2>1. pindexConnect(t) \in linked
      BY <1>0, <1>5, ConnectFacts, Zenon DEF ConnectTipInvalid
    <2>2. /\ UNCHANGED <<failedChild, haveData, linked, mapBlocksUnlinked>>
          /\ failedValid' = failedValid \cup {pindexConnect(t)}
          /\ gFailedBlocks' = gFailedBlocks \cup {pindexConnect(t)}
      BY <1>5, Zenon DEF ConnectTipInvalid
    <2>3. \A x \in Failed' \ Failed : x \in linked
      BY <2>1, <2>2, Zenon DEF Failed
    <2> QED BY <1>0, <2>1, <2>2, <2>3, CompleteFails, Zenon
  <1>6. ASSUME NEW b \in Blocks, PruneOneBlockFile(b) PROVE Complete'
    <2>1. /\ haveData' = haveData \ {b} /\ mapBlocksUnlinked' = mapBlocksUnlinked \ {b}
          /\ UNCHANGED <<failedValid, failedChild, linked, gFailedBlocks>>
      BY <1>6, Zenon DEF PruneOneBlockFile
    <2>2. \A x : Gone(x) => Gone(x)'
      BY <2>1, Zenon DEF Gone, Rejected, Failed
    <2>3. \A e \in haveData' \ linked' : e \in mapBlocksUnlinked' \/ Gone(e)'
      BY <2>1, <2>2, Zenon DEF Complete
    <2>4. \A e \in Failed' \ linked' : Gone(e)'
      BY <2>1, <2>2, Zenon DEF Complete, Failed
    <2> QED BY <2>1, <2>3, <2>4, Zenon DEF Complete
  <1>7. ASSUME NEW t \in Threads, NEW b \in Blocks,
               InvalidateMark(t) \/ InvalidateDisconnect(t) \/ ReconsiderBlock(t, b)
        PROVE  FALSE
    BY <1>0, <1>7, Zenon DEF InvalidateMark, InvalidateDisconnect, ReconsiderBlock, Commanded,
        NeverOverrides
  <1>8. ASSUME NEW t \in Threads,
               \/ Lock(t) \/ FindMostWorkChain(t) \/ DisconnectTip(t) \/ ConnectTip(t)
               \/ ReadFails(t)
        PROVE  Complete'
    BY <1>1, <1>8, Zenon DEF Lock, FindMostWorkChain, DisconnectTip, ConnectTip, ReadFails, index, sets
  <1>9. ASSUME NEW t \in Threads, NEW b \in Blocks, NEW r \in BOOLEAN,
               \/ AcceptBlockHeader(t, b) \/ AcceptBlockUnwanted(t, b, r)
               \/ InvalidateBlock(t, b) \/ PreciousBlock(t, b)
        PROVE  Complete'
    BY <1>1, <1>9, Zenon DEF AcceptBlockHeader, AcceptBlockUnwanted, InvalidateBlock, PreciousBlock,
        index, sets
  <1>10. CASE UNCHANGED <<vars, scenario>>
    BY <1>1, <1>10, Zenon DEF vars, index, sets
  <1>11. ASSUME NEW t \in Threads, NEW b \in Blocks, NEW r \in BOOLEAN, AcceptBlock(t, b, r)
         PROVE  Complete'
    BY <1>11, CompleteAccept, Zenon
  <1>12. ASSUME NEW t \in Threads, Restart(t) PROVE Complete'
    BY <1>0, <1>12, CompleteRestart, Zenon
  <1> QED
    BY <1>2, <1>3, <1>4, <1>5, <1>6, <1>7, <1>8, <1>9, <1>10, <1>11, <1>12, Parents, Zenon
    DEF Next, Activate, Peer, Operator

\* StatusConsistent, CheckBlockIndex on nStatus and nChainTx: whatever the order
\* headers and blocks come in, the flags of a block agree with each other and
\* with its ancestors', and a chain whose blocks are all there is linked.
THEOREM Status ==
    ASSUME NeverOverrides, PrunesOrRestarts
    PROVE  Spec => []StatusConsistent
  <1>1. OneThreadInvalidates
    BY Zenon DEF OneThreadInvalidates, NeverOverrides
  <1> DEFINE Inv == Commanded /\ Sound /\ ScriptsUp /\ Explained /\ Complete
  <1>2. Init => Inv
    <2> SUFFICES ASSUME Init PROVE Inv
      BY Zenon
    <2>1. ScriptsUp
      BY TreeAssumption, Zenon DEF Init, ScriptsUp, SCRIPTS, TRANSACTIONS
    <2>2. Explained /\ Complete
      BY Zenon DEF Init, Explained, Complete, Failed
    <2> QED BY <2>1, <2>2, SoundInit, Zenon
  <1>3. Base /\ Inv /\ [Next]_<<vars, scenario>> => Inv'
    BY <1>1, CommandedStep, SoundStep, ScriptsUpStep, ExplainedStep, CompleteStep, Zenon DEF Base
  <1>4. ASSUME Base, Inv PROVE StatusConsistent
    <2>1. TypeOK /\ Indexed /\ Stored /\ Linked
      BY <1>4, Zenon DEF Base
    <2>2. ASSUME NEW b \in mapBlockIndex
          PROVE  /\ b \notin linked => nSequenceId[b] <= 0
                 /\ b \in haveData => b \in received
                 /\ ~fHavePruned => (b \in received => b \in haveData)
                 /\ b \in haveUndo => b \in haveData
                 /\ valid[b] >= TRANSACTIONS <=> b \in received
                 /\ b \in linked => ~NeverProcessed(b)
                 /\ b \in linked \/ FirstMissing(b)
                 /\ valid[b] >= SCRIPTS => \A a \in Up[b] \ {Genesis} : valid[a] >= SCRIPTS
                 /\ b \in Failed => FirstInvalid(b)
      <3>1. b \in Blocks
        BY <2>1, <2>2, Zenon DEF TypeOK
      <3>2. b \in linked => ~NeverProcessed(b)
        BY <2>1, LinkedUp, Zenon DEF NeverProcessed, Linked
      <3>3. b \in linked \/ FirstMissing(b)
        BY <1>4, <2>1, <3>1, LinkedOrMissing, Zenon DEF FirstMissing
      <3>4. valid[b] >= SCRIPTS => \A a \in Up[b] \ {Genesis} : valid[a] >= SCRIPTS
        BY <1>4, <3>1, Zenon DEF ScriptsUp
      <3>5. b \in Failed => FirstInvalid(b)
        BY <1>4, Zenon DEF Explained
      <3>6. b \notin linked => nSequenceId[b] <= 0
        BY <2>1, <3>1, Zenon DEF Linked
      <3>7. /\ b \in haveData => b \in received
            /\ ~fHavePruned => (b \in received => b \in haveData)
            /\ b \in haveUndo => b \in haveData
        BY <2>1, Zenon DEF Stored
      <3>8. valid[b] >= TRANSACTIONS <=> b \in received
        BY <2>1, <3>1, Zenon DEF Indexed
      <3> QED BY <3>2, <3>3, <3>4, <3>5, <3>6, <3>7, <3>8, Zenon
    <2> QED BY <2>1, <2>2, Zenon DEF StatusConsistent
  <1> HIDE DEF Inv
  <1> QED BY <1>2, <1>3, <1>4, BaseInvariance, PTL DEF Spec

=============================================================================
