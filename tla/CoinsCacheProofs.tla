-------------------------- MODULE CoinsCacheProofs --------------------------
(***************************************************************************)
(* Proofs about CoinsCache, for any number of caches, keys and values: the *)
(* flags keep their meaning, and the stack implements CoinsLayers.         *)
(***************************************************************************)
EXTENDS CoinsCache, WellFoundedInduction, TLAPS

\* Every non-empty set of naturals has a least element.
LEMMA LeastExists ==
    ASSUME NEW T \in SUBSET Nat, T # {}
    PROVE  \E x \in T : \A y \in T : x <= y
  <1> DEFINE R == OpToRel(<, Nat)
  <1>1. IsWellFoundedOn(R, Nat)
    BY NatLessThanWellFounded, Zenon
  <1>2. PICK x \in T : \A y \in T : ~(<<y, x>> \in R)
    <2> HIDE DEF R
    <2> QED BY <1>1, WFMin, Zenon
  <1>3. \A y \in T : ~(y < x)
    BY <1>2, Zenon DEF OpToRel
  <1> QED BY <1>3

\* Top picks the greatest element of a non-empty set of levels.
LEMMA TopIsMax ==
    ASSUME NEW n \in Nat, NEW S \in SUBSET (1..n), S # {}
    PROVE  Top(S) \in S /\ \A m \in S : m <= Top(S)
  <1> DEFINE T == {x \in Nat : \A s \in S : s <= x}
  <1>1. n \in T
    OBVIOUS
  <1>2. PICK x \in T : \A y \in T : x <= y
    <2>1. T \in SUBSET Nat /\ T # {}
      BY <1>1, Zenon
    <2> HIDE DEF T
    <2> QED BY <2>1, LeastExists, Zenon
  <1>3. x \in S
    <2> SUFFICES ASSUME x \notin S PROVE FALSE
      BY Zenon
    <2>1. PICK s \in S : TRUE
      BY Zenon
    <2>2. x >= 1 /\ \A t \in S : t <= x - 1
      BY <2>1, <1>2
    <2>3. x - 1 \in T
      BY <2>2, <1>2
    <2> QED BY <2>3, <1>2
  <1>4. \E l \in S : \A m \in S : m <= l
    BY <1>2, <1>3, Zenon
  <1> QED BY <1>4, Zenon DEF Top

-----------------------------------------------------------------------------
(* Facts about Lookup.                                                      *)

\* Level 0 is the database.
LEMMA LookupZero ==
    ASSUME NEW f, NEW z, NEW b
    PROVE  Lookup(f, z, b, 0) = b
  BY DEF Lookup

\* A level either answers itself or asks the one below.
LEMMA LookupStep ==
    ASSUME NEW f, NEW z, NEW b, NEW n \in Nat, n # 0
    PROVE  Lookup(f, z, b, n) = IF f[n] # z THEN f[n] ELSE Lookup(f, z, b, n - 1)
  <1> DEFINE S == {l \in 1..n : f[l] # z}
             R == {l \in 1..(n - 1) : f[l] # z}
  <1>1. CASE f[n] # z
    <2>1. n \in S /\ S \in SUBSET (1..n)
      BY <1>1
    <2>2. Top(S) = n
      <3> HIDE DEF S
      <3>1. Top(S) \in S /\ \A m \in S : m <= Top(S)
        BY <2>1, TopIsMax, Zenon
      <3>2. Top(S) \in 1..n /\ n <= Top(S)
        BY <3>1, <2>1, Zenon
      <3> QED BY <3>2
    <2> QED BY <1>1, <2>1, <2>2, Zenon DEF Lookup
  <1>2. CASE f[n] = z
    <2>1. S = R
      BY <1>2
    <2> QED BY <1>2, <2>1, Zenon DEF Lookup
  <1> QED BY <1>1, <1>2, Zenon

\* Two stacks that agree on the levels above a agree above a, unless the
\* answer comes from a or below in both.
SameOrBelow(f, g, z, b, c, a, m) ==
    \/ Lookup(f, z, b, m) = Lookup(g, z, c, m)
    \/ /\ Lookup(f, z, b, m) = Lookup(f, z, b, a)
       /\ Lookup(g, z, c, m) = Lookup(g, z, c, a)

\* Two stacks that agree above a level show the same or what is below it.
LEMMA LookupAbove ==
    ASSUME NEW f, NEW g, NEW z, NEW b, NEW c, NEW a \in Nat, NEW m \in Nat, a <= m,
           \A l \in (a + 1)..m : f[l] = g[l]
    PROVE  SameOrBelow(f, g, z, b, c, a, m)
  <1> DEFINE F(n) == {l \in 1..n : f[l] # z}
             G(n) == {l \in 1..n : g[l] # z}
  <1>1. CASE \A l \in (a + 1)..m : f[l] = z
    <2>1. F(m) = F(a) /\ G(m) = G(a)
      BY <1>1
    <2> QED BY <2>1, Zenon DEF Lookup, SameOrBelow
  <1>2. CASE \E l \in (a + 1)..m : f[l] # z
    <2>1. PICK l \in (a + 1)..m : f[l] # z
      BY <1>2, Zenon
    <2>2. l \in F(m) /\ l \in G(m)
      BY <2>1
    <2>3. Top(F(m)) \in F(m) /\ \A i \in F(m) : i <= Top(F(m))
      BY <2>2, TopIsMax, Zenon
    <2>4. Top(G(m)) \in G(m) /\ \A i \in G(m) : i <= Top(G(m))
      BY <2>2, TopIsMax, Zenon
    <2>5. Top(F(m)) \in (a + 1)..m /\ Top(G(m)) \in (a + 1)..m
      BY <2>1, <2>2, <2>3, <2>4
    <2>6. Top(F(m)) \in G(m) /\ Top(G(m)) \in F(m)
      BY <2>3, <2>4, <2>5, Zenon
    <2>7. Top(F(m)) = Top(G(m))
      <3> HIDE DEF F, G
      <3> QED BY <2>3, <2>4, <2>5, <2>6
    <2>8. f[Top(F(m))] = g[Top(G(m))]
      BY <2>5, <2>7, Zenon
    <2> QED BY <2>2, <2>8, Zenon DEF Lookup, SameOrBelow
  <1> QED BY <1>1, <1>2, Zenon

\* Copying the answer of level n into the levels that asked for it changes
\* no answer.
IsFilled(g, f, z, b, n, K) ==
    \A l \in 1..K : g[l] = IF l <= n /\ \A i \in l..n : f[i] = z
                          THEN Lookup(f, z, b, n) ELSE f[l]

\* Filling levels with what is found below does not change what is found.
LEMMA LookupFilled ==
    ASSUME NEW f, NEW z, NEW b, NEW n \in Nat, NEW g, NEW m \in Nat, NEW K \in Nat,
           n <= K, m <= K, IsFilled(g, f, z, b, n, K)
    PROVE  Lookup(g, z, b, m) = Lookup(f, z, b, m)
  <1> DEFINE x == Lookup(f, z, b, n)
             F(i) == {l \in 1..i : f[l] # z}
             G(i) == {l \in 1..i : g[l] # z}
             Filled(l) == l <= n /\ \A i \in l..n : f[i] = z
  <1> USE DEF IsFilled
  <1>1. \A l \in 1..K : f[l] # z => g[l] = f[l]
    OBVIOUS
  <1>2. CASE G(m) = {}
    <2>1. F(m) = {}
      BY <1>1, <1>2
    <2> QED BY <1>2, <2>1, Zenon DEF Lookup
  <1>3. CASE G(m) # {}
    <2> DEFINE t == Top(G(m))
    <2>1. t \in G(m) /\ \A i \in G(m) : i <= t
      BY <1>3, TopIsMax, Zenon
    <2>2. F(m) \subseteq G(m)
      BY <1>1
    <2>3. Lookup(g, z, b, m) = g[t]
      BY <1>3, Zenon DEF Lookup
    <2>4. CASE f[t] # z
      <3>1. t \in F(m)
        BY <2>1, <2>4, Zenon
      <3>2. Top(F(m)) = t
        <4>1. Top(F(m)) \in F(m) /\ \A i \in F(m) : i <= Top(F(m))
          BY <3>1, TopIsMax, Zenon
        <4> HIDE DEF F, G, t
        <4>2. t \in Nat /\ Top(F(m)) \in Nat
          BY <2>1, <4>1 DEF F, G
        <4> QED BY <2>1, <2>2, <3>1, <4>1, <4>2
      <3>3. Lookup(f, z, b, m) = f[t]
        BY <3>1, <3>2, Zenon DEF Lookup
      <3> QED BY <1>1, <2>1, <2>3, <2>4, <3>3
    <2>5. CASE f[t] = z
      <3>1. Filled(t) /\ g[t] = x
        BY <2>1, <2>5
      <3>2. \A i \in t..m : f[i] = z
        BY <1>1, <2>1, <2>5, <2>2
      <3>3. F(m) = F(n)
        BY <2>1, <3>1, <3>2
      <3>4. Lookup(f, z, b, m) = x
        BY <3>3, Zenon DEF Lookup
      <3> QED BY <2>3, <3>1, <3>4, Zenon
    <2> QED BY <2>4, <2>5, Zenon
  <1> QED BY <1>2, <1>3, Zenon
-----------------------------------------------------------------------------
(* Views of an arbitrary stack c over a database d.                         *)

Col(c, k) == [l \in Levels |-> c[l][k].coins]
Get(c, d, n, k) == Lookup(Col(c, k), Absent, d[k], n)
V(c, d, n, k) == IF Get(c, d, n, k) = Absent THEN Pruned ELSE Get(c, d, n, k)

Stacks == [Levels -> [Keys -> Entries]]
Databases == [Keys -> Values \cup {Absent}]

\* What the flags of an entry promise about the level below.
EntryOK(e, below) ==
    /\ e.coins = Absent => e.flags = {}
    /\ e.coins # Absent /\ FRESH \in e.flags => below = Pruned
    /\ e.coins # Absent /\ DIRTY \notin e.flags => e.coins = below

FlagsOK(c, d) == \A n \in Levels, k \in Keys : EntryOK(c[n][k], V(c, d, n - 1, k))

\* The inductive invariant: the flags keep their promise, and caches that do
\* not exist hold nothing.
IInv ==
    /\ TypeOK
    /\ FlagsOK(cache, db)
    /\ \A n \in Levels : n > depth => cache[n] = Empty /\ hashBlock[n] = Null

\* The view of the database.
LEMMA VZero ==
    ASSUME NEW c, NEW d, NEW k
    PROVE  V(c, d, 0, k) = IF d[k] = Absent THEN Pruned ELSE d[k]
  BY LookupZero, Zenon DEF V, Get

\* The view of a cache.
LEMMA VStep ==
    ASSUME NEW c, NEW d, NEW k, NEW n \in Levels
    PROVE  V(c, d, n, k) = IF c[n][k].coins # Absent THEN c[n][k].coins
                           ELSE V(c, d, n - 1, k)
  <1>1. n \in Nat /\ n # 0
    BY NAssumption DEF Levels
  <1>2. Get(c, d, n, k) = IF c[n][k].coins # Absent THEN c[n][k].coins
                          ELSE Get(c, d, n - 1, k)
    BY <1>1, LookupStep DEF Get, Col
  <1> QED BY <1>2, Zenon DEF V

\* Views above level a depend on a's view and on the entries between only.
Agree(c, e, k, a, m) ==
    \A l \in Levels : l > a /\ l <= m => c[l][k].coins = e[l][k].coins

\* The view depends on the levels above a, and on the view of a.
LEMMA VAbove ==
    ASSUME NEW c, NEW d, NEW e, NEW f, NEW k, NEW a \in 0..N, NEW m \in 0..N, a <= m,
           Agree(c, e, k, a, m), V(c, d, a, k) = V(e, f, a, k)
    PROVE  V(c, d, m, k) = V(e, f, m, k)
  <1>1. a \in Nat /\ m \in Nat /\ N \in Nat
    BY NAssumption
  <1>2. \A l \in (a + 1)..m : Col(c, k)[l] = Col(e, k)[l]
    BY <1>1 DEF Col, Levels, Agree
  <1>3. \/ Get(c, d, m, k) = Get(e, f, m, k)
        \/ /\ Get(c, d, m, k) = Get(c, d, a, k)
           /\ Get(e, f, m, k) = Get(e, f, a, k)
    <2>1. SameOrBelow(Col(c, k), Col(e, k), Absent, d[k], f[k], a, m)
      BY <1>1, <1>2, LookupAbove, Zenon
    <2> QED BY <2>1, Zenon DEF Get, SameOrBelow
  <1> QED BY <1>3, Zenon DEF V

\* Empty levels show the view below them.
LEMMA VSkip ==
    ASSUME NEW c, NEW d, NEW k, NEW a \in 0..N, NEW m \in 0..N, a <= m,
           \A l \in Levels : l > a /\ l <= m => c[l][k].coins = Absent
    PROVE  V(c, d, m, k) = V(c, d, a, k)
  <1>1. a \in Nat /\ m \in Nat /\ N \in Nat
    BY NAssumption
  <1>2. {l \in 1..m : Col(c, k)[l] # Absent} = {l \in 1..a : Col(c, k)[l] # Absent}
    BY <1>1 DEF Col, Levels
  <1> QED BY <1>2 DEF V, Get, Lookup

\* The view of the state is V of its caches and its database.
LEMMA ViewIsV ==
    ASSUME NEW n, NEW k
    PROVE  /\ GetCoins(n, k) = Get(cache, db, n, k)
           /\ View(n, k) = V(cache, db, n, k)
           /\ View(n, k)' = V(cache', db', n, k)
  BY Zenon DEF View, V, GetCoins, Get, Column, Col

\* A view is a coin or Pruned.
LEMMA VType ==
    ASSUME NEW c \in Stacks, NEW d \in Databases, NEW n \in 0..N, NEW k \in Keys
    PROVE  V(c, d, n, k) \in CoinsOrPruned
  <1> DEFINE S == {l \in 1..n : Col(c, k)[l] # Absent}
  <1>1. N \in Nat /\ n \in Nat
    BY NAssumption
  <1>2. CASE S = {}
    <2>1. Get(c, d, n, k) = d[k]
      BY <1>2, Zenon DEF Get, Lookup
    <2> QED BY <2>1, Zenon DEF V, Databases, CoinsOrPruned
  <1>3. CASE S # {}
    <2>1. Top(S) \in S
      BY <1>1, <1>3, TopIsMax, Zenon
    <2>2. Get(c, d, n, k) = Col(c, k)[Top(S)]
      BY <1>3, Zenon DEF Get, Lookup
    <2>3. Top(S) \in Levels
      BY <1>1, <2>1 DEF Levels
    <2>4. Get(c, d, n, k) = c[Top(S)][k].coins
      <3> HIDE DEF S
      <3> QED BY <2>2, <2>3, Zenon DEF Col
    <2>5. c[Top(S)][k].coins \in CoinsOrPruned \cup {Absent}
      <3> HIDE DEF S
      <3> QED BY <2>3, Zenon DEF Stacks, Entries
    <2> QED BY <2>4, <2>5, Zenon DEF V, CoinsOrPruned
  <1> QED BY <1>2, <1>3, Zenon
-----------------------------------------------------------------------------
(* One lemma per way a stack changes.                                       *)

\* Caching the answer of a lookup changes no view and keeps the flags' promise.
IsFetched(e, c, d, n, k) ==
    \A l \in Levels, q \in Keys :
        e[l][q] = IF q = k /\ l <= n /\ (\A i \in l..n : c[i][k].coins = Absent)
                     /\ Get(c, d, n, k) # Absent
                  THEN Fetched(Get(c, d, n, k)) ELSE c[l][q]

\* FetchCoins keeps the flags right and the view of every level.
LEMMA FetchKeeps ==
    ASSUME NEW c \in Stacks, NEW d \in Databases, FlagsOK(c, d),
           NEW n \in 0..N, NEW k \in Keys, NEW e \in Stacks, IsFetched(e, c, d, n, k)
    PROVE  /\ FlagsOK(e, d)
           /\ \A m \in 0..N, q \in Keys : V(e, d, m, q) = V(c, d, m, q)
  <1> DEFINE x == Get(c, d, n, k)
             Asked(l) == l <= n /\ \A i \in l..n : c[i][k].coins = Absent
  <1> USE DEF IsFetched
  <1>0. N \in Nat /\ Levels = 1..N
    BY NAssumption, Zenon DEF Levels
  <1>1. ASSUME NEW m \in 0..N, NEW q \in Keys
        PROVE  Get(e, d, m, q) = Get(c, d, m, q)
    <2>1. CASE q # k \/ x = Absent
      <3>1. Col(e, q) = Col(c, q)
        BY <2>1, Zenon DEF Col
      <3> QED BY <3>1, Zenon DEF Get
    <2>2. CASE q = k /\ x # Absent
      <3>1. \A l \in 1..N : Col(e, k)[l] = IF l <= n /\ \A i \in l..n : Col(c, k)[i] = Absent
                                           THEN x ELSE Col(c, k)[l]
        <4> SUFFICES ASSUME NEW l \in 1..N
                     PROVE  Col(e, k)[l] = IF l <= n /\ \A i \in l..n : Col(c, k)[i] = Absent
                                           THEN x ELSE Col(c, k)[l]
          BY Zenon
        <4>1. \A i \in l..n : Col(c, k)[i] = c[i][k].coins
          BY <1>0 DEF Col
        <4>2. Col(e, k)[l] = e[l][k].coins /\ Col(c, k)[l] = c[l][k].coins
          BY <1>0, Zenon DEF Col
        <4>3. Fetched(x).coins = x
          BY Zenon DEF Fetched
        <4> HIDE DEF x
        <4> QED BY <1>0, <2>2, <4>1, <4>2, <4>3 DEF x
      <3>2. n \in Nat /\ m \in Nat /\ n <= N /\ m <= N
        BY <1>0
      <3>3. Lookup(Col(e, k), Absent, d[k], m) = Lookup(Col(c, k), Absent, d[k], m)
        <4>1. IsFilled(Col(e, k), Col(c, k), Absent, d[k], n, N)
          BY <3>1, Zenon DEF IsFilled, Get
        <4> QED BY <1>0, <3>2, <4>1, LookupFilled
      <3> QED BY <2>2, <3>3, Zenon DEF Get
    <2> QED BY <2>1, <2>2, Zenon
  <1>2. \A m \in 0..N, q \in Keys : V(e, d, m, q) = V(c, d, m, q)
    BY <1>1, Zenon DEF V
  <1>3. ASSUME NEW l \in Levels, NEW q \in Keys
        PROVE  EntryOK(e[l][q], V(e, d, l - 1, q))
    <2>1. l - 1 \in 0..N
      BY <1>0
    <2>2. V(e, d, l - 1, q) = V(c, d, l - 1, q)
      BY <1>2, <2>1, Zenon
    <2>3. CASE e[l][q] = c[l][q]
      BY <2>2, <2>3, Zenon DEF FlagsOK
    <2>4. CASE q = k /\ Asked(l) /\ x # Absent /\ e[l][q] = Fetched(x)
      <3>1. V(c, d, n, k) = x
        BY <2>4, Zenon DEF V
      <3>2. V(c, d, n, k) = V(c, d, l - 1, k)
        <4>1. CASE \A i \in Levels : i > l - 1 /\ i <= n => c[i][k].coins = Absent
          BY <1>0, <2>1, <2>4, <4>1, VSkip
        <4> QED BY <1>0, <2>4, <4>1
      <3> QED BY <2>2, <2>4, <3>1, <3>2 DEF EntryOK, Fetched
    <2> QED BY <2>3, <2>4, Zenon
  <1> QED BY <1>2, <1>3, Zenon DEF FlagsOK
\* Replacing the entry of the top level p changes the views from p upwards, for
\* that key, to what the entry says.
EmptyAbove(c, p) == \A l \in Levels : l > p => c[l] = Empty
IsSet(e, c, p, k, x) ==
    \A l \in Levels, q \in Keys : e[l][q] = IF l = p /\ q = k THEN x ELSE c[l][q]

Shows(e, c, d, p, k, x) ==
    \A m \in 0..N, q \in Keys :
        V(e, d, m, q) = IF q = k /\ m >= p
                        THEN IF x.coins = Absent THEN V(c, d, p - 1, k) ELSE x.coins
                        ELSE V(c, d, m, q)

\* An entry set in the top cache with the right flags is what the view shows.
LEMMA SetEntry ==
    ASSUME NEW c \in Stacks, NEW d \in Databases, FlagsOK(c, d),
           NEW p \in Levels, NEW k \in Keys, NEW x \in Entries, NEW e \in Stacks,
           EmptyAbove(c, p), IsSet(e, c, p, k, x), EntryOK(x, V(c, d, p - 1, k))
    PROVE  FlagsOK(e, d) /\ Shows(e, c, d, p, k, x)
  <1> DEFINE w == IF x.coins = Absent THEN V(c, d, p - 1, k) ELSE x.coins
  <1> USE DEF EmptyAbove, IsSet, Shows
  <1>0. N \in Nat /\ Levels = 1..N /\ p \in 1..N /\ p - 1 \in 0..N /\ p \in 0..N
    BY NAssumption DEF Levels
  <1>1. \A l \in Levels, q \in Keys : e[l][q] = IF l = p /\ q = k THEN x ELSE c[l][q]
    BY Zenon
  <1>2. ASSUME NEW m \in 0..N, NEW q \in Keys, q # k \/ m < p
        PROVE  V(e, d, m, q) = V(c, d, m, q)
    <2>1. V(e, d, 0, q) = V(c, d, 0, q)
      BY VZero
    <2>2. Agree(e, c, q, 0, m)
      BY <1>0, <1>1, <1>2 DEF Agree
    <2>3. 0 \in 0..N /\ 0 <= m
      BY <1>0
    <2> QED BY <2>1, <2>2, <2>3, VAbove
  <1>3. ASSUME NEW m \in 0..N, m >= p
        PROVE  V(e, d, m, k) = w
    <2>1. V(e, d, p, k) = w
      <3>1. e[p][k] = x
        BY <1>1, Zenon
      <3>2. V(e, d, p - 1, k) = V(c, d, p - 1, k)
        BY <1>0, <1>2
      <3> QED BY <3>1, <3>2, VStep
    <2>2. \A l \in Levels : l > p /\ l <= m => e[l][k].coins = Absent
      BY <1>0, <1>1 DEF Empty, NoEntry
    <2>3. V(e, d, m, k) = V(e, d, p, k)
      BY <1>0, <1>3, <2>2, VSkip, Zenon
    <2> QED BY <2>1, <2>3, Zenon
  <1>4. ASSUME NEW l \in Levels, NEW q \in Keys
        PROVE  EntryOK(e[l][q], V(e, d, l - 1, q))
    <2>1. CASE l > p
      <3>1. e[l][q] = NoEntry
        BY <1>0, <1>1, <2>1 DEF Empty
      <3> QED BY <3>1 DEF EntryOK, NoEntry
    <2>2. CASE l <= p
      <3>1. l - 1 \in 0..N /\ l - 1 < p
        BY <1>0, <2>2
      <3>2. V(e, d, l - 1, q) = V(c, d, l - 1, q)
        BY <1>2, <3>1, Zenon
      <3>3. e[l][q] = IF l = p /\ q = k THEN x ELSE c[l][q]
        BY <1>1, Zenon
      <3> QED BY <3>2, <3>3, Zenon DEF FlagsOK
    <2> QED BY <1>0, <2>1, <2>2
  <1>5. FlagsOK(e, d)
    BY <1>4, Zenon DEF FlagsOK
  <1>6. ASSUME NEW m \in 0..N, NEW q \in Keys
        PROVE  V(e, d, m, q) = IF q = k /\ m >= p THEN w ELSE V(c, d, m, q)
    <2> HIDE DEF w
    <2>1. CASE q = k /\ m >= p
      BY <1>3, <2>1, Zenon
    <2>2. CASE ~(q = k /\ m >= p)
      <3>1. q # k \/ m < p
        BY <1>0, <2>2
      <3> QED BY <1>2, <2>2, <3>1, Zenon
    <2> QED BY <2>1, <2>2, Zenon
  <1> QED BY <1>5, <1>6, Zenon

\* A merged entry shows what the child entry showed, and its flags are right
\* for the level below the parent.
LEMMA MergeOK ==
    ASSUME NEW ch \in Entries, NEW pa \in Entries, NEW vb, NEW vm,
           vm = IF pa.coins # Absent THEN pa.coins ELSE vb,
           EntryOK(ch, vm), EntryOK(pa, vb)
    PROVE  /\ (IF Merge(ch, pa).coins # Absent THEN Merge(ch, pa).coins ELSE vb)
                 = (IF ch.coins # Absent THEN ch.coins ELSE vm)
           /\ EntryOK(Merge(ch, pa), vb)
  <1> USE DistinctAssumption
  <1>1. CASE DIRTY \notin ch.flags
    BY <1>1, Zenon DEF Merge, EntryOK
  <1>2. CASE DIRTY \in ch.flags /\ pa.coins = Absent
    <2>1. CASE FRESH \in ch.flags /\ ch.coins = Pruned
      BY <1>2, <2>1, Zenon DEF Merge, EntryOK
    <2>2. CASE ~(FRESH \in ch.flags /\ ch.coins = Pruned)
      <3> DEFINE r == [coins |-> ch.coins, flags |-> {DIRTY} \cup (ch.flags \cap {FRESH})]
      <3>1. Merge(ch, pa) = r
        BY <1>2, <2>2, Zenon DEF Merge
      <3>2. ch.coins # Absent
        BY <1>2, Zenon DEF EntryOK
      <3>3. r.coins = ch.coins /\ DIRTY \in r.flags /\ (FRESH \in r.flags <=> FRESH \in ch.flags)
        BY Zenon DEF DIRTY, FRESH
      <3> QED BY <1>2, <3>1, <3>2, <3>3, Zenon DEF EntryOK
    <2> QED BY <2>1, <2>2, Zenon
  <1>3. CASE DIRTY \in ch.flags /\ pa.coins # Absent
    <2>0. ch.coins # Absent
      BY <1>3, Zenon DEF EntryOK
    <2>1. CASE FRESH \in pa.flags /\ ch.coins = Pruned
      BY <1>3, <2>0, <2>1, Zenon DEF Merge, EntryOK, NoEntry
    <2>2. CASE ~(FRESH \in pa.flags /\ ch.coins = Pruned)
      <3> DEFINE r == [coins |-> ch.coins, flags |-> pa.flags \cup {DIRTY}]
      <3>1. Merge(ch, pa) = r
        BY <1>3, <2>2, Zenon DEF Merge
      <3>2. r.coins = ch.coins /\ DIRTY \in r.flags /\ (FRESH \in r.flags <=> FRESH \in pa.flags)
        BY Zenon DEF DIRTY, FRESH
      <3> QED BY <1>3, <2>0, <3>1, <3>2, Zenon DEF EntryOK
    <2> QED BY <2>1, <2>2, Zenon
  <1> QED BY <1>1, <1>2, <1>3, Zenon

\* Writing level n into the cache below makes the views of both equal and
\* changes no other view.
IsFlushed(e, c, n) ==
    \A l \in Levels, k \in Keys :
        e[l][k] = IF l = n THEN NoEntry
                  ELSE IF l = n - 1 THEN Merge(c[n][k], c[n - 1][k]) ELSE c[l][k]

\* Flush of a cache into its parent hands its view down, and no other changes.
LEMMA FlushUp ==
    ASSUME NEW c \in Stacks, NEW d \in Databases, FlagsOK(c, d),
           NEW n \in Levels, n > 1, NEW e \in Stacks, IsFlushed(e, c, n)
    PROVE  /\ FlagsOK(e, d)
           /\ \A m \in 0..N, k \in Keys :
                 V(e, d, m, k) = IF m = n - 1 THEN V(c, d, n, k) ELSE V(c, d, m, k)
  <1> USE DEF IsFlushed
  <1>0. /\ N \in Nat /\ Levels = 1..N /\ n \in 2..N
        /\ n \in 0..N /\ n - 1 \in 0..N /\ n - 2 \in 0..N /\ n - 1 \in Levels
    BY NAssumption DEF Levels
  <1>1. ASSUME NEW m \in 0..N, NEW k \in Keys, m < n - 1
        PROVE  V(e, d, m, k) = V(c, d, m, k)
    <2>1. V(e, d, 0, k) = V(c, d, 0, k)
      BY VZero
    <2>2. Agree(e, c, k, 0, m)
      BY <1>0, <1>1 DEF Agree
    <2>3. 0 \in 0..N /\ 0 <= m
      BY <1>0
    <2> QED BY <2>1, <2>2, <2>3, VAbove
  <1>2. ASSUME NEW k \in Keys
        PROVE  /\ V(e, d, n - 1, k) = V(c, d, n, k)
               /\ EntryOK(e[n - 1][k], V(c, d, n - 2, k))
    <2> DEFINE ch == c[n][k]
               pa == c[n - 1][k]
               r == Merge(ch, pa)
    <2>1. /\ V(c, d, n, k) = IF ch.coins # Absent THEN ch.coins ELSE V(c, d, n - 1, k)
          /\ V(c, d, n - 1, k) = IF pa.coins # Absent THEN pa.coins ELSE V(c, d, n - 2, k)
          /\ V(e, d, n - 1, k) = IF r.coins # Absent THEN r.coins ELSE V(c, d, n - 2, k)
      <3>1. V(e, d, n - 2, k) = V(c, d, n - 2, k)
        BY <1>0, <1>1
      <3>2. e[n - 1][k] = r /\ n - 1 # n
        BY <1>0
      <3>3. (n - 1) - 1 = n - 2
        BY <1>0
      <3> QED BY <1>0, <3>1, <3>2, <3>3, VStep
    <2>2. EntryOK(ch, V(c, d, n - 1, k)) /\ EntryOK(pa, V(c, d, n - 2, k))
      <3>1. (n - 1) - 1 = n - 2
        BY <1>0
      <3> QED BY <1>0, <3>1, Zenon DEF FlagsOK
    <2>3. ch \in Entries /\ pa \in Entries
      BY <1>0 DEF Stacks
    <2>4. e[n - 1][k] = r
      BY <1>0
    <2> DEFINE vb == V(c, d, n - 2, k)
               vm == V(c, d, n - 1, k)
    <2>5. /\ (IF r.coins # Absent THEN r.coins ELSE vb)
              = (IF ch.coins # Absent THEN ch.coins ELSE vm)
          /\ EntryOK(r, vb)
      <3> HIDE DEF vb, vm, ch, pa
      <3>1. vm = IF pa.coins # Absent THEN pa.coins ELSE vb
        BY <2>1, Zenon DEF vm, vb, pa
      <3>2. EntryOK(ch, vm) /\ EntryOK(pa, vb)
        BY <2>2, Zenon DEF vm, vb, pa, ch
      <3>3. ch \in Entries /\ pa \in Entries
        BY <2>3, Zenon DEF pa, ch
      <3> QED BY <3>1, <3>2, <3>3, MergeOK
    <2> QED BY <2>1, <2>4, <2>5, Zenon
  <1>3. ASSUME NEW k \in Keys
        PROVE  V(e, d, n, k) = V(c, d, n, k)
    <2>1. e[n][k].coins = Absent
      BY DEF NoEntry
    <2> QED BY <1>2, <2>1, VStep
  <1>4. ASSUME NEW m \in 0..N, NEW k \in Keys, m >= n
        PROVE  V(e, d, m, k) = V(c, d, m, k)
    <2>1. Agree(e, c, k, n, m)
      BY <1>0 DEF Agree
    <2> QED BY <1>0, <1>3, <1>4, <2>1, VAbove
  <1>5. ASSUME NEW l \in Levels, NEW k \in Keys
        PROVE  EntryOK(e[l][k], V(e, d, l - 1, k))
    <2>1. CASE l = n
      BY <2>1 DEF EntryOK, NoEntry
    <2>2. CASE l = n - 1
      <3>1. V(e, d, l - 1, k) = V(c, d, n - 2, k)
        <4>1. l - 1 = n - 2 /\ n - 2 < n - 1
          BY <1>0, <2>2
        <4> QED BY <1>0, <1>1, <4>1, Zenon
      <3> QED BY <1>2, <2>2, <3>1, Zenon
    <2>3. CASE l < n - 1 \/ l > n
      <3>1. l - 1 \in 0..N /\ (l - 1 < n - 1 \/ l - 1 >= n)
        BY <1>0, <2>3
      <3>2. V(e, d, l - 1, k) = V(c, d, l - 1, k)
        BY <1>1, <1>4, <3>1, Zenon
      <3>3. e[l][k] = c[l][k]
        BY <1>0, <2>3
      <3> QED BY <3>2, <3>3, Zenon DEF FlagsOK
    <2> QED BY <1>0, <2>1, <2>2, <2>3
  <1>6. FlagsOK(e, d)
    BY <1>5, Zenon DEF FlagsOK
  <1>7. ASSUME NEW m \in 0..N, NEW k \in Keys
        PROVE  V(e, d, m, k) = IF m = n - 1 THEN V(c, d, n, k) ELSE V(c, d, m, k)
    <2>1. m < n - 1 \/ m = n - 1 \/ m >= n
      BY <1>0
    <2> QED BY <1>0, <1>1, <1>2, <1>4, <2>1, Zenon
  <1> QED BY <1>6, <1>7, Zenon
\* Writing level 1 into the database makes the views of both equal and
\* changes no other view.
IsStored(e, g, c, d) ==
    /\ \A l \in Levels, k \in Keys : e[l][k] = IF l = 1 THEN NoEntry ELSE c[l][k]
    /\ \A k \in Keys : g[k] = Store(c[1][k], d[k])

\* Flush of the lowest cache hands its view to the database.
LEMMA FlushBottom ==
    ASSUME NEW c \in Stacks, NEW d \in Databases, FlagsOK(c, d),
           NEW e \in Stacks, NEW g \in Databases, IsStored(e, g, c, d)
    PROVE  /\ FlagsOK(e, g)
           /\ \A m \in 0..N, k \in Keys :
                 V(e, g, m, k) = IF m = 0 THEN V(c, d, 1, k) ELSE V(c, d, m, k)
  <1> USE DEF IsStored
  <1>0. /\ N \in Nat /\ Levels = 1..N /\ 1 \in Levels /\ 1 - 1 = 0
        /\ 0 \in 0..N /\ 1 \in 0..N
    BY NAssumption DEF Levels
  <1>1. ASSUME NEW k \in Keys
        PROVE  V(e, g, 0, k) = V(c, d, 1, k) /\ V(e, g, 1, k) = V(c, d, 1, k)
    <2>1. V(c, d, 1, k) = IF c[1][k].coins # Absent THEN c[1][k].coins ELSE V(c, d, 0, k)
      BY <1>0, VStep
    <2>2. /\ V(c, d, 0, k) = IF d[k] = Absent THEN Pruned ELSE d[k]
          /\ V(e, g, 0, k) = IF g[k] = Absent THEN Pruned ELSE g[k]
      BY VZero
    <2>3. EntryOK(c[1][k], V(c, d, 0, k))
      BY <1>0, Zenon DEF FlagsOK
    <2>4. g[k] = Store(c[1][k], d[k])
      BY Zenon
    <2>5. V(e, g, 0, k) = V(c, d, 1, k)
      BY <2>1, <2>2, <2>3, <2>4, Zenon DEF Store, EntryOK
    <2>6. e[1][k].coins = Absent
      BY <1>0 DEF NoEntry
    <2>7. V(e, g, 1, k) = V(e, g, 0, k)
      BY <1>0, <2>6, VStep
    <2> QED BY <2>5, <2>7, Zenon
  <1>2. ASSUME NEW m \in 0..N, NEW k \in Keys, m >= 1
        PROVE  V(e, g, m, k) = V(c, d, m, k)
    <2>1. Agree(e, c, k, 1, m)
      BY <1>0 DEF Agree
    <2> QED BY <1>0, <1>1, <1>2, <2>1, VAbove
  <1>3. ASSUME NEW l \in Levels, NEW k \in Keys
        PROVE  EntryOK(e[l][k], V(e, g, l - 1, k))
    <2>1. CASE l = 1
      BY <2>1 DEF EntryOK, NoEntry
    <2>2. CASE l # 1
      <3>1. l - 1 \in 0..N /\ l - 1 >= 1
        BY <1>0, <2>2
      <3>2. V(e, g, l - 1, k) = V(c, d, l - 1, k)
        BY <1>2, <3>1, Zenon
      <3> QED BY <2>2, <3>2, Zenon DEF FlagsOK
    <2> QED BY <2>1, <2>2, Zenon
  <1>4. FlagsOK(e, g)
    BY <1>3, Zenon DEF FlagsOK
  <1>5. ASSUME NEW m \in 0..N, NEW k \in Keys
        PROVE  V(e, g, m, k) = IF m = 0 THEN V(c, d, 1, k) ELSE V(c, d, m, k)
    <2>1. m = 0 \/ m >= 1
      BY <1>0
    <2> QED BY <1>1, <1>2, <2>1, Zenon
  <1> QED BY <1>4, <1>5, Zenon

\* What ~CCoinsModifier leaves of a dirty entry shows the value written.
LEMMA ReleasedOK ==
    ASSUME NEW v \in CoinsOrPruned, NEW flags \in SUBSET {DIRTY, FRESH}, NEW below,
           DIRTY \in flags, FRESH \in flags => below = Pruned
    PROVE  LET x == Released([coins |-> v, flags |-> flags])
           IN  /\ x \in Entries
               /\ EntryOK(x, below)
               /\ (IF x.coins = Absent THEN below ELSE x.coins) = v
  <1> DEFINE e == [coins |-> v, flags |-> flags]
  <1>1. v # Absent /\ e \in Entries /\ NoEntry \in Entries
    BY DistinctAssumption, Zenon DEF CoinsOrPruned, Entries, NoEntry
  <1>2. CASE FRESH \in flags /\ v = Pruned
    BY <1>1, <1>2, Zenon DEF Released, EntryOK, NoEntry
  <1>3. CASE ~(FRESH \in flags /\ v = Pruned)
    <2>1. Released(e) = e
      BY <1>3, Zenon DEF Released
    <2> QED BY <1>1, <2>1 DEF EntryOK
  <1> QED BY <1>2, <1>3, Zenon
-----------------------------------------------------------------------------
(* The best block, looked up the same way.                                  *)

B(h, b, n) == Lookup(h, Null, b, n)

\* The best block of the database, of a cache, above unchanged levels, above
\* empty levels, and after it was copied upwards.
LEMMA BestFacts ==
    /\ \A h, b : B(h, b, 0) = b
    /\ \A h, b : \A n \in Levels :
          B(h, b, n) = IF h[n] # Null THEN h[n] ELSE B(h, b, n - 1)
  <1>1. \A n \in Levels : n \in Nat /\ n # 0
    BY NAssumption DEF Levels
  <1> QED BY <1>1, LookupZero, LookupStep DEF B

\* GetBestBlock of a cache is its own block or that of the one below.
LEMMA BestStep ==
    ASSUME NEW h, NEW b, NEW n \in Levels
    PROVE  B(h, b, n) = IF h[n] # Null THEN h[n] ELSE B(h, b, n - 1)
  BY BestFacts, Zenon

SameBest(h, g, a, m) == \A l \in Levels : l > a /\ l <= m => h[l] = g[l]

\* The best block depends on the levels above a, and on that of a.
LEMMA BestAbove ==
    ASSUME NEW h, NEW b, NEW g, NEW c, NEW a \in 0..N, NEW m \in 0..N, a <= m,
           SameBest(h, g, a, m), B(h, b, a) = B(g, c, a)
    PROVE  B(h, b, m) = B(g, c, m)
  <1> USE DEF SameBest
  <1>1. a \in Nat /\ m \in Nat /\ N \in Nat
    BY NAssumption
  <1>2. \A l \in (a + 1)..m : h[l] = g[l]
    BY <1>1 DEF Levels
  <1>3. SameOrBelow(h, g, Null, b, c, a, m)
    BY <1>1, <1>2, LookupAbove, Zenon
  <1> QED BY <1>3, Zenon DEF SameOrBelow, B

\* Caches without a best block show that of the one below.
LEMMA BestSkip ==
    ASSUME NEW h, NEW b, NEW a \in 0..N, NEW m \in 0..N, a <= m,
           \A l \in Levels : l > a /\ l <= m => h[l] = Null
    PROVE  B(h, b, m) = B(h, b, a)
  <1>1. a \in Nat /\ m \in Nat /\ N \in Nat
    BY NAssumption
  <1>2. {l \in 1..m : h[l] # Null} = {l \in 1..a : h[l] # Null}
    BY <1>1 DEF Levels
  <1> QED BY <1>2, Zenon DEF B, Lookup

\* BatchWrite hands the best block down: to the cache below ...
HandedDown(g, h, n) ==
    h[n] # Null /\ \A l \in Levels : g[l] = IF l = n - 1 THEN h[n] ELSE h[l]
BestMoved(g, h, b, n, m) ==
    B(g, b, m) = IF m = n - 1 THEN B(h, b, n) ELSE B(h, b, m)

\* Flush hands the best block down.
LEMMA BestFlush ==
    ASSUME NEW h, NEW b, NEW n \in Levels, n > 1, NEW g, HandedDown(g, h, n),
           NEW m \in 0..N
    PROVE  BestMoved(g, h, b, n, m)
  <1> USE DEF BestMoved
  <1>0. /\ N \in Nat /\ Levels = 1..N /\ n \in 2..N /\ n - 1 \in Levels
        /\ n \in 0..N /\ 0 \in 0..N /\ 0 <= m
    BY NAssumption DEF Levels
  <1>1. h[n] # Null /\ \A l \in Levels : g[l] = IF l = n - 1 THEN h[n] ELSE h[l]
    BY Zenon DEF HandedDown
  <1>2. B(h, b, n) = h[n] /\ B(g, b, n) = h[n] /\ B(g, b, n - 1) = h[n]
    <2>1. h[n] # Null /\ g[n] = h[n] /\ g[n - 1] = h[n]
      BY <1>0, <1>1, Zenon
    <2>2. B(h, b, n) = IF h[n] # Null THEN h[n] ELSE B(h, b, n - 1)
      BY BestStep, Zenon
    <2>3. B(g, b, n) = IF g[n] # Null THEN g[n] ELSE B(g, b, n - 1)
      BY BestStep, Zenon
    <2>4. B(g, b, n - 1) = IF g[n - 1] # Null THEN g[n - 1] ELSE B(g, b, n - 1 - 1)
      BY <1>0, BestStep, Zenon
    <2> QED BY <2>1, <2>2, <2>3, <2>4, Zenon
  <1>3. CASE m < n - 1
    <2>1. SameBest(g, h, 0, m)
      BY <1>0, <1>1, <1>3 DEF SameBest
    <2>2. B(g, b, 0) = B(h, b, 0)
      BY BestFacts, Zenon
    <2>3. B(g, b, m) = B(h, b, m)
      BY <1>0, <2>1, <2>2, BestAbove
    <2> QED BY <1>0, <1>3, <2>3
  <1>4. CASE m >= n
    <2>1. SameBest(g, h, n, m)
      BY <1>0, <1>1 DEF SameBest
    <2>2. B(g, b, m) = B(h, b, m)
      BY <1>0, <1>2, <1>4, <2>1, BestAbove
    <2> QED BY <1>0, <1>4, <2>2
  <1> QED BY <1>0, <1>2, <1>3, <1>4

\* ... or to the database.
LEMMA BestStore ==
    ASSUME NEW h, NEW b, NEW c, c = (IF h[1] = Null THEN b ELSE h[1]), NEW m \in 0..N
    PROVE  B(h, c, m) = IF m = 0 THEN B(h, b, 1) ELSE B(h, b, m)
  <1>0. N \in Nat /\ Levels = 1..N /\ 1 \in Levels /\ 1 \in 0..N /\ 1 - 1 = 0
    BY NAssumption DEF Levels
  <1>1. B(h, c, 0) = c /\ B(h, b, 0) = b
    BY BestFacts, Zenon
  <1>2. /\ B(h, b, 1) = IF h[1] # Null THEN h[1] ELSE B(h, b, 0)
        /\ B(h, c, 1) = IF h[1] # Null THEN h[1] ELSE B(h, c, 0)
    BY <1>0, BestFacts
  <1>3. CASE m >= 1
    <2>1. SameBest(h, h, 1, m)
      BY Zenon DEF SameBest
    <2>2. B(h, c, 1) = B(h, b, 1)
      BY <1>1, <1>2, Zenon
    <2>3. B(h, c, m) = B(h, b, m)
      BY <1>0, <1>3, <2>1, <2>2, BestAbove
    <2> QED BY <1>3, <2>3
  <1> QED BY <1>0, <1>1, <1>2, <1>3

-----------------------------------------------------------------------------
(* Each action keeps the invariant and has its abstract effect.             *)

M(c, d) == [l \in 0..N |-> [k \in Keys |-> V(c, d, l, k)]]
BB(h, b) == [l \in 0..N |-> B(h, b, l)]

\* The refinement mapping, in terms of V and B.
LEMMA Mapping ==
    /\ [l \in 0..N |-> [k \in Keys |-> View(l, k)]] = M(cache, db)
    /\ [l \in 0..N |-> GetBestBlock(l)] = BB(hashBlock, dbBest)
    /\ [l \in 0..N |-> [k \in Keys |-> View(l, k)]]' = M(cache', db')
    /\ [l \in 0..N |-> GetBestBlock(l)]' = BB(hashBlock', dbBest')
  BY Zenon DEF M, BB, View, GetCoins, Column, GetBestBlock, V, Get, Col, B

\* The facts of IInv the lemmas above need.
LEMMA Facts ==
    ASSUME IInv
    PROVE  /\ N \in Nat /\ Levels = 1..N /\ depth \in 1..N /\ depth \in 0..N
           /\ depth - 1 \in 0..N
           /\ cache \in Stacks /\ db \in Databases /\ FlagsOK(cache, db)
           /\ hashBlock \in [Levels -> Blocks \cup {Null}] /\ dbBest \in Blocks \cup {Null}
           /\ \A l \in Levels : l > depth => cache[l] = Empty /\ hashBlock[l] = Null
  <1>1. N \in Nat /\ Levels = 1..N
    BY NAssumption, Zenon DEF Levels
  <1>2. TypeOK /\ FlagsOK(cache, db)
    BY Zenon DEF IInv
  <1>3. cache \in Stacks /\ db \in Databases
    BY <1>2, Zenon DEF TypeOK, Stacks, Databases
  <1> QED BY <1>1, <1>2, <1>3 DEF IInv, TypeOK

\* A change of coins only: what has to be shown.
LEMMA CoinsStep ==
    ASSUME IInv, cache' \in Stacks, FlagsOK(cache', db),
           UNCHANGED <<db, dbBest, depth, hashBlock>>,
           \A l \in Levels : l > depth => cache'[l] = Empty
    PROVE  IInv'
  BY Zenon DEF IInv, TypeOK, Stacks

\* FetchCoins as the lemma FetchKeeps describes it.
LEMMA FetchOK ==
    ASSUME IInv, NEW n \in 0..N, NEW k \in Keys, n <= depth
    PROVE  LET e == FetchCoins(n, k)
           IN  /\ e \in Stacks
               /\ FlagsOK(e, db)
               /\ \A m \in 0..N, q \in Keys : V(e, db, m, q) = V(cache, db, m, q)
               /\ \A l \in Levels : l > n => e[l] = cache[l]
  <1> DEFINE e == FetchCoins(n, k)
             x == Get(cache, db, n, k)
  <1>0. /\ N \in Nat /\ Levels = 1..N
        /\ cache \in Stacks /\ db \in Databases /\ FlagsOK(cache, db)
    BY Facts, Zenon
  <1>1. x # Absent => Fetched(x) \in Entries
    <2>1. V(cache, db, n, k) \in CoinsOrPruned
      BY <1>0, VType, Zenon
    <2>2. x # Absent => x \in CoinsOrPruned
      BY <2>1, Zenon DEF V
    <2> HIDE DEF x
    <2> QED BY <2>2, Zenon DEF Fetched, Entries
  <1>2. GetCoins(n, k) = x
    BY ViewIsV, Zenon
  <1>3. e = [l \in Levels |->
               IF l <= n /\ (\A i \in l..n : cache[i][k].coins = Absent) /\ x # Absent
               THEN [cache[l] EXCEPT ![k] = Fetched(x)] ELSE cache[l]]
    BY <1>2, Zenon DEF FetchCoins, Cached
  <1> HIDE DEF e, x
  <1>4. e \in Stacks
    BY <1>0, <1>1, <1>3, Zenon DEF Stacks
  <1>5. \A l \in Levels, q \in Keys :
           e[l][q] = IF q = k /\ l <= n /\ (\A i \in l..n : cache[i][k].coins = Absent)
                        /\ x # Absent
                     THEN Fetched(x) ELSE cache[l][q]
    BY <1>0, <1>3, Zenon DEF Stacks
  <1>6. /\ FlagsOK(e, db)
        /\ \A m \in 0..N, q \in Keys : V(e, db, m, q) = V(cache, db, m, q)
    <2>1. IsFetched(e, cache, db, n, k)
      BY <1>5, Zenon DEF IsFetched, x
    <2> QED BY <1>0, <1>4, <2>1, FetchKeeps
  <1>7. \A l \in Levels : l > n => e[l] = cache[l]
    BY <1>0, <1>3
  <1> QED BY <1>4, <1>6, <1>7, Zenon DEF e

\* Reads change no view.
LEMMA AccessStep ==
    ASSUME IInv, NEW n \in 1..depth, NEW k \in Keys, AccessCoins(n, k)
    PROVE  IInv' /\ UNCHANGED Layers!lvars
  <1>0. N \in Nat /\ Levels = 1..N /\ depth \in 1..N /\ n \in 0..N /\ n <= depth
        /\ \A l \in Levels : l > depth => cache[l] = Empty
    BY Facts
  <1>1. /\ cache' \in Stacks
        /\ FlagsOK(cache', db)
        /\ \A m \in 0..N, q \in Keys : V(cache', db, m, q) = V(cache, db, m, q)
        /\ \A l \in Levels : l > n => cache'[l] = cache[l]
    BY <1>0, FetchOK DEF AccessCoins
  <1>2. UNCHANGED <<db, dbBest, depth, hashBlock>>
    BY Zenon DEF AccessCoins
  <1>3. \A l \in Levels : l > depth => cache'[l] = Empty
    BY <1>0, <1>1
  <1>4. IInv'
    BY <1>1, <1>2, <1>3, CoinsStep, Zenon
  <1>5. M(cache', db') = M(cache, db) /\ BB(hashBlock', dbBest') = BB(hashBlock, dbBest)
    BY <1>1, <1>2, Zenon DEF M
  <1> QED BY <1>2, <1>4, <1>5, Mapping, Zenon DEF Layers!lvars
\* The shape of a write at the top level.
LEMMA WriteStep ==
    ASSUME IInv, NEW k \in Keys, NEW v \in CoinsOrPruned,
           NEW c \in Stacks, FlagsOK(c, db), EmptyAbove(c, depth),
           \A m \in 0..N, q \in Keys : V(c, db, m, q) = V(cache, db, m, q),
           NEW flags \in SUBSET {DIRTY, FRESH}, DIRTY \in flags,
           FRESH \in flags => V(cache, db, depth - 1, k) = Pruned,
           cache' = [c EXCEPT ![depth][k] = Released([coins |-> v, flags |-> flags])],
           UNCHANGED <<db, dbBest, depth, hashBlock>>
    PROVE  IInv' /\ Layers!LSet(k, v)
  <1> DEFINE x == Released([coins |-> v, flags |-> flags])
             below == V(cache, db, depth - 1, k)
  <1>0. /\ N \in Nat /\ Levels = 1..N /\ depth \in 1..N /\ depth - 1 \in 0..N
        /\ db \in Databases
    BY Facts, Zenon
  <1>1. /\ x \in Entries /\ EntryOK(x, below)
        /\ (IF x.coins = Absent THEN below ELSE x.coins) = v
    <2> HIDE DEF below
    <2>1. FRESH \in flags => below = Pruned
      BY Zenon DEF below
    <2> QED BY <2>1, ReleasedOK, Zenon
  <1> HIDE DEF x
  <1>2. cache' \in Stacks /\ IsSet(cache', c, depth, k, x)
    BY <1>0, <1>1, Zenon DEF Stacks, IsSet, x
  <1>3. V(c, db, depth - 1, k) = below
    BY <1>0, Zenon
  <1>4. /\ FlagsOK(cache', db)
        /\ \A m \in 0..N, q \in Keys :
              V(cache', db, m, q) = IF q = k /\ m >= depth THEN v ELSE V(c, db, m, q)
    <2> HIDE DEF below
    <2>1. EntryOK(x, V(c, db, depth - 1, k)) /\ depth \in Levels
      BY <1>0, <1>1, <1>3, Zenon
    <2>2. FlagsOK(cache', db) /\ Shows(cache', c, db, depth, k, x)
      BY <1>0, <1>1, <1>2, <2>1, SetEntry, Zenon
    <2> QED BY <1>1, <1>3, <2>2, Zenon DEF Shows
  <1>5. \A l \in Levels : l > depth => cache'[l] = Empty
    BY <1>0 DEF EmptyAbove, Stacks
  <1>6. IInv'
    BY <1>2, <1>4, <1>5, CoinsStep, Zenon
  <1>7. M(cache', db') = [l \in 0..N |-> IF l >= depth THEN [M(cache, db)[l] EXCEPT ![k] = v]
                                        ELSE M(cache, db)[l]]
    BY <1>4, Zenon DEF M
  <1>8. BB(hashBlock', dbBest') = BB(hashBlock, dbBest)
    BY Zenon
  <1> QED BY <1>6, <1>7, <1>8, Mapping, Zenon DEF Layers!LSet

\* ModifyCoins implements a write in the top view.
LEMMA ModifyStep ==
    ASSUME IInv, NEW k \in Keys, NEW v \in CoinsOrPruned, ModifyCoins(k, v)
    PROVE  IInv' /\ Layers!LSet(k, v)
  <1> DEFINE c == IF Cached(depth, k) THEN cache ELSE FetchCoins(depth - 1, k)
             flags == ModifiedEntry(k).flags \cup {DIRTY}
  <1>0. /\ N \in Nat /\ Levels = 1..N /\ depth \in 1..N /\ depth - 1 \in 0..N
        /\ cache \in Stacks /\ db \in Databases /\ FlagsOK(cache, db)
        /\ \A l \in Levels : l > depth => cache[l] = Empty
    BY Facts, Zenon
  <1>1. /\ c \in Stacks /\ FlagsOK(c, db) /\ EmptyAbove(c, depth)
        /\ \A m \in 0..N, q \in Keys : V(c, db, m, q) = V(cache, db, m, q)
    <2>1. CASE Cached(depth, k)
      BY <1>0, <2>1, Zenon DEF EmptyAbove
    <2>2. CASE ~Cached(depth, k)
      <3>1. depth - 1 <= depth
        BY <1>0
      <3>2. LET e == FetchCoins(depth - 1, k)
            IN  /\ e \in Stacks
                /\ FlagsOK(e, db)
                /\ \A m \in 0..N, q \in Keys : V(e, db, m, q) = V(cache, db, m, q)
                /\ \A l \in Levels : l > depth - 1 => e[l] = cache[l]
        BY <1>0, <3>1, FetchOK, Zenon
      <3>3. EmptyAbove(FetchCoins(depth - 1, k), depth)
        BY <1>0, <3>2 DEF EmptyAbove
      <3> QED BY <2>2, <3>2, <3>3, Zenon
    <2> QED BY <2>1, <2>2, Zenon
  <1>2. /\ flags \in SUBSET {DIRTY, FRESH} /\ DIRTY \in flags
        /\ FRESH \in flags => V(cache, db, depth - 1, k) = Pruned
    <2>1. CASE Cached(depth, k)
      <3>1. ModifiedEntry(k) = cache[depth][k] /\ cache[depth][k] \in Entries
        BY <1>0, <2>1, Zenon DEF ModifiedEntry, Stacks
      <3>2. EntryOK(cache[depth][k], V(cache, db, depth - 1, k))
        BY <1>0, Zenon DEF FlagsOK
      <3>3. ModifiedEntry(k).flags \in SUBSET {DIRTY, FRESH}
        BY <3>1, Zenon DEF Entries
      <3>4. DIRTY # FRESH
        BY Zenon DEF DIRTY, FRESH
      <3>5. FRESH \in flags => FRESH \in ModifiedEntry(k).flags
        BY <3>4, Zenon
      <3> QED BY <2>1, <3>1, <3>2, <3>3, <3>5, Zenon DEF Cached, EntryOK
    <2>2. CASE ~Cached(depth, k)
      <3>1. GetCoins(depth - 1, k) = Get(cache, db, depth - 1, k)
        BY ViewIsV, Zenon
      <3>2. CASE GetCoins(depth - 1, k) \in {Absent, Pruned}
        <4>1. V(cache, db, depth - 1, k) = Pruned
          BY <3>1, <3>2, Zenon DEF V
        <4>2. ModifiedEntry(k).flags = {FRESH}
          BY <2>2, <3>2, Zenon DEF ModifiedEntry
        <4> QED BY <4>1, <4>2, Zenon
      <3>3. CASE GetCoins(depth - 1, k) \notin {Absent, Pruned}
        <4>1. ModifiedEntry(k).flags = {}
          BY <2>2, <3>3, Zenon DEF ModifiedEntry
        <4> QED BY <4>1, Zenon DEF DIRTY, FRESH
      <3> QED BY <3>2, <3>3, Zenon
    <2> QED BY <2>1, <2>2, Zenon
  <1>3. /\ cache' = [c EXCEPT ![depth][k] = Released([coins |-> v, flags |-> flags])]
        /\ UNCHANGED <<db, dbBest, depth, hashBlock>>
    BY Zenon DEF ModifyCoins
  <1> HIDE DEF c, flags
  <1> QED BY <1>1, <1>2, <1>3, WriteStep, Zenon

\* ModifyNewCoins implements a write in the top view.
LEMMA ModifyNewStep ==
    ASSUME IInv, NEW k \in Keys, NEW v \in CoinsOrPruned, NEW coinbase \in BOOLEAN,
           ModifyNewCoins(k, coinbase, v)
    PROVE  IInv' /\ Layers!LSet(k, v)
  <1> DEFINE e == NewEntry(k)
             fresh == IF ~coinbase /\ DIRTY \notin e.flags THEN {FRESH} ELSE {}
             flags == e.flags \cup fresh \cup {DIRTY}
  <1>0. /\ N \in Nat /\ Levels = 1..N /\ depth \in 1..N /\ depth - 1 \in 0..N
        /\ cache \in Stacks /\ db \in Databases /\ FlagsOK(cache, db)
        /\ \A l \in Levels : l > depth => cache[l] = Empty
    BY Facts, Zenon
  <1>1. EmptyAbove(cache, depth)
    BY <1>0, Zenon DEF EmptyAbove
  <1>2. DIRTY # FRESH
    BY Zenon DEF DIRTY, FRESH
  <1>3. V(cache, db, depth, k) = IF cache[depth][k].coins # Absent THEN cache[depth][k].coins
                                 ELSE V(cache, db, depth - 1, k)
    BY <1>0, VStep
  <1>4. EntryOK(cache[depth][k], V(cache, db, depth - 1, k)) /\ cache[depth][k] \in Entries
    BY <1>0, Zenon DEF FlagsOK, Stacks
  <1>5. coinbase \/ V(cache, db, depth, k) = Pruned
    BY ViewIsV, Zenon DEF ModifyNewCoins
  <1>6. e.flags \in SUBSET {DIRTY, FRESH}
    <2>1. CASE Cached(depth, k)
      BY <1>4, <2>1, Zenon DEF NewEntry, Entries
    <2>2. CASE ~Cached(depth, k)
      BY <2>2, Zenon DEF NewEntry
    <2> QED BY <2>1, <2>2, Zenon
  <1>7. ASSUME FRESH \in e.flags
        PROVE  V(cache, db, depth - 1, k) = Pruned
    <2>1. CASE Cached(depth, k)
      BY <1>4, <1>7, <2>1, Zenon DEF NewEntry, EntryOK, Cached
    <2>2. CASE ~Cached(depth, k)
      BY <1>7, <2>2, Zenon DEF NewEntry
    <2> QED BY <2>1, <2>2, Zenon
  <1>8. ASSUME ~coinbase, DIRTY \notin e.flags
        PROVE  V(cache, db, depth - 1, k) = Pruned
    <2>1. CASE Cached(depth, k)
      BY <1>3, <1>4, <1>5, <1>8, <2>1, Zenon DEF NewEntry, EntryOK, Cached
    <2>2. CASE ~Cached(depth, k)
      BY <1>3, <1>5, <1>8, <2>2, Zenon DEF Cached
    <2> QED BY <2>1, <2>2, Zenon
  <1>9. /\ flags \in SUBSET {DIRTY, FRESH} /\ DIRTY \in flags
        /\ FRESH \in flags => V(cache, db, depth - 1, k) = Pruned
    <2>1. fresh \in SUBSET {FRESH}
      BY Zenon
    <2>2. FRESH \in fresh => ~coinbase /\ DIRTY \notin e.flags
      BY Zenon
    <2> HIDE DEF fresh, e
    <2> QED BY <1>2, <1>6, <1>7, <1>8, <2>1, <2>2, Zenon
  <1>10. /\ cache' = [cache EXCEPT ![depth][k] = Released([coins |-> v, flags |-> flags])]
         /\ UNCHANGED <<db, dbBest, depth, hashBlock>>
    BY Zenon DEF ModifyNewCoins
  <1> HIDE DEF flags
  <1> QED BY <1>0, <1>1, <1>9, <1>10, WriteStep, Zenon
\* Dropping an entry without flags changes no view: it repeats the level below.
LEMMA UncacheStep ==
    ASSUME IInv, NEW n \in 1..depth, NEW k \in Keys, Uncache(n, k)
    PROVE  IInv' /\ UNCHANGED Layers!lvars
  <1>0. /\ N \in Nat /\ Levels = 1..N /\ depth \in 1..N /\ n \in Levels
        /\ n \in 0..N /\ n - 1 \in 0..N
        /\ cache \in Stacks /\ db \in Databases /\ FlagsOK(cache, db)
        /\ \A l \in Levels : l > depth => cache[l] = Empty
    BY Facts
  <1>1. /\ cache' = [cache EXCEPT ![n][k] = NoEntry]
        /\ UNCHANGED <<db, dbBest, depth, hashBlock>>
        /\ cache[n][k].coins # Absent /\ cache[n][k].flags = {}
    BY Zenon DEF Uncache, Cached
  <1>2. cache' \in Stacks
    BY <1>0, <1>1, Zenon DEF Stacks, Entries, NoEntry
  <1>3. \A l \in Levels, q \in Keys :
           cache'[l][q] = IF l = n /\ q = k THEN NoEntry ELSE cache[l][q]
    BY <1>0, <1>1, Zenon DEF Stacks
  <1>4. cache[n][k].coins = V(cache, db, n - 1, k)
    BY <1>0, <1>1, Zenon DEF FlagsOK, EntryOK
  <1> HIDE <1>1
  <1>5. ASSUME NEW m \in 0..N, NEW q \in Keys, q # k \/ m < n
        PROVE  V(cache', db, m, q) = V(cache, db, m, q)
    <2>1. Agree(cache', cache, q, 0, m)
      BY <1>0, <1>3, <1>5 DEF Agree
    <2>2. 0 \in 0..N /\ 0 <= m
      BY <1>0
    <2> QED BY <2>1, <2>2, VZero, VAbove
  <1>6. V(cache', db, n, k) = V(cache, db, n, k)
    <2>1. V(cache', db, n - 1, k) = V(cache, db, n - 1, k)
      BY <1>0, <1>5
    <2>2. cache'[n][k].coins = Absent
      BY <1>0, <1>3 DEF NoEntry
    <2>3. V(cache', db, n, k) = V(cache', db, n - 1, k)
      BY <1>0, <2>2, VStep
    <2>4. V(cache, db, n, k) = V(cache, db, n - 1, k)
      BY <1>0, <1>4, VStep
    <2> QED BY <2>1, <2>3, <2>4, Zenon
  <1>7. ASSUME NEW m \in 0..N, NEW q \in Keys
        PROVE  V(cache', db, m, q) = V(cache, db, m, q)
    <2>1. CASE q # k \/ m < n
      BY <1>5, <2>1, Zenon
    <2>2. CASE q = k /\ m >= n
      <3>1. Agree(cache', cache, k, n, m)
        BY <1>0, <1>3 DEF Agree
      <3> QED BY <1>0, <1>6, <2>2, <3>1, VAbove
    <2> QED BY <1>0, <2>1, <2>2
  <1>8. FlagsOK(cache', db)
    <2> SUFFICES ASSUME NEW l \in Levels, NEW q \in Keys
                 PROVE  EntryOK(cache'[l][q], V(cache', db, l - 1, q))
      BY Zenon DEF FlagsOK
    <2>1. V(cache', db, l - 1, q) = V(cache, db, l - 1, q)
      BY <1>0, <1>7
    <2>2. EntryOK(cache[l][q], V(cache, db, l - 1, q))
      BY <1>0, Zenon DEF FlagsOK
    <2>3. EntryOK(NoEntry, V(cache, db, l - 1, q))
      BY Zenon DEF EntryOK, NoEntry
    <2> QED BY <1>3, <2>1, <2>2, <2>3, Zenon
  <1>9. \A l \in Levels : l > depth => cache'[l] = Empty
    BY <1>0, <1>1
  <1>10. IInv'
    BY <1>1, <1>2, <1>8, <1>9, CoinsStep, Zenon
  <1>11. M(cache', db') = M(cache, db) /\ BB(hashBlock', dbBest') = BB(hashBlock, dbBest)
    BY <1>1, <1>7, Zenon DEF M
  <1> QED BY <1>1, <1>10, <1>11, Mapping, Zenon DEF Layers!lvars

\* Merged entries are entries.
LEMMA MergeType ==
    ASSUME NEW ch \in Entries, NEW pa \in Entries
    PROVE  Merge(ch, pa) \in Entries
  BY Zenon DEF Merge, Entries, NoEntry

\* A flush makes the level below equal.
LEMMA FlushStep ==
    ASSUME IInv, NEW n \in 1..depth, Flush(n)
    PROVE  IInv' /\ Layers!LFlush(n)
  <1>0. /\ N \in Nat /\ Levels = 1..N /\ depth \in 1..N /\ n \in Levels
        /\ n \in 0..N /\ n - 1 \in 0..N
        /\ cache \in Stacks /\ db \in Databases /\ FlagsOK(cache, db)
        /\ hashBlock \in [Levels -> Blocks \cup {Null}] /\ dbBest \in Blocks \cup {Null}
        /\ \A l \in Levels : l > depth => cache[l] = Empty /\ hashBlock[l] = Null
    BY Facts
  <1>1. SUFFICES
           /\ cache' \in Stacks /\ db' \in Databases /\ FlagsOK(cache', db')
           /\ \A l \in Levels : l > depth => cache'[l] = Empty /\ hashBlock'[l] = Null
           /\ hashBlock' \in [Levels -> Blocks \cup {Null}] /\ dbBest' \in Blocks \cup {Null}
           /\ \A m \in 0..N, k \in Keys :
                 V(cache', db', m, k) =
                    IF m = n - 1 THEN V(cache, db, n, k) ELSE V(cache, db, m, k)
           /\ \A m \in 0..N :
                 B(hashBlock', dbBest', m) =
                    IF m = n - 1 THEN B(hashBlock, dbBest, n) ELSE B(hashBlock, dbBest, m)
    <2>1. depth' = depth
      BY Zenon DEF Flush
    <2>2. IInv'
      BY <1>1, <2>1, Zenon DEF IInv, TypeOK, Stacks, Databases
    <2>3. M(cache', db') = [M(cache, db) EXCEPT ![n - 1] = M(cache, db)[n]]
      BY <1>0, <1>1, Zenon DEF M
    <2>4. BB(hashBlock', dbBest') = [BB(hashBlock, dbBest) EXCEPT ![n - 1] = BB(hashBlock, dbBest)[n]]
      BY <1>0, <1>1, Zenon DEF BB
    <2> QED BY <2>1, <2>2, <2>3, <2>4, Mapping, Zenon DEF Layers!LFlush
  <1>2. CASE n > 1
    <2>1. /\ cache' = [cache EXCEPT
                ![n - 1] = [k \in Keys |-> Merge(cache[n][k], cache[n - 1][k])],
                ![n] = Empty]
          /\ hashBlock' = [hashBlock EXCEPT ![n - 1] = hashBlock[n]]
          /\ UNCHANGED <<db, dbBest>> /\ hashBlock[n] # Null
      BY <1>0, <1>2 DEF Flush
    <2>2. \A k \in Keys : Merge(cache[n][k], cache[n - 1][k]) \in Entries
      BY <1>0, <1>2, MergeType DEF Stacks
    <2>3. cache' \in Stacks
      BY <1>0, <2>1, <2>2, Zenon DEF Stacks, Empty, Entries, NoEntry
    <2>4. IsFlushed(cache', cache, n)
      BY <1>0, <1>2, <2>1, Zenon DEF Stacks, Empty, IsFlushed
    <2>5. /\ FlagsOK(cache', db)
          /\ \A m \in 0..N, k \in Keys :
                V(cache', db, m, k) =
                    IF m = n - 1 THEN V(cache, db, n, k) ELSE V(cache, db, m, k)
      BY <1>0, <1>2, <2>3, <2>4, FlushUp
    <2>6. \A l \in Levels : l > depth => cache'[l] = Empty /\ hashBlock'[l] = Null
      BY <1>0, <2>1 DEF Stacks
    <2>7. hashBlock' \in [Levels -> Blocks \cup {Null}] /\ dbBest' \in Blocks \cup {Null}
      BY <1>0, <2>1, Zenon
    <2>8. ASSUME NEW m \in 0..N
          PROVE  B(hashBlock', dbBest', m) =
                    IF m = n - 1 THEN B(hashBlock, dbBest, n) ELSE B(hashBlock, dbBest, m)
      <3>1. HandedDown(hashBlock', hashBlock, n)
        BY <1>0, <2>1, Zenon DEF HandedDown
      <3>2. BestMoved(hashBlock', hashBlock, dbBest, n, m)
        BY <1>0, <1>2, <3>1, BestFlush, Zenon
      <3> QED BY <2>1, <3>2, Zenon DEF BestMoved
    <2>9. UNCHANGED db
      BY <2>1, Zenon
    <2> QED BY <1>0, <2>3, <2>5, <2>6, <2>7, <2>8, <2>9, Zenon
  <1>3. CASE n = 1
    <2>1. /\ db' = [k \in Keys |-> Store(cache[1][k], db[k])]
          /\ dbBest' = IF hashBlock[1] = Null THEN dbBest ELSE hashBlock[1]
          /\ cache' = [cache EXCEPT ![1] = Empty]
          /\ UNCHANGED hashBlock
      BY <1>0, <1>3 DEF Flush
    <2>2. db' \in Databases
      <3>1. \A k \in Keys : Store(cache[1][k], db[k]) \in Values \cup {Absent}
        BY <1>0, <1>3 DEF Stacks, Databases, Entries, CoinsOrPruned, Store
      <3> QED BY <2>1, <3>1, Zenon DEF Databases
    <2>3. cache' \in Stacks
      BY <1>0, <2>1, Zenon DEF Stacks, Empty, Entries, NoEntry
    <2>4. IsStored(cache', db', cache, db)
      BY <1>0, <1>3, <2>1, Zenon DEF Stacks, Empty, IsStored
    <2>5. /\ FlagsOK(cache', db')
          /\ \A m \in 0..N, k \in Keys :
                V(cache', db', m, k) = IF m = 0 THEN V(cache, db, 1, k) ELSE V(cache, db, m, k)
      BY <1>0, <2>2, <2>3, <2>4, FlushBottom
    <2>6. \A l \in Levels : l > depth => cache'[l] = Empty /\ hashBlock'[l] = Null
      BY <1>0, <1>3, <2>1, Zenon DEF Stacks
    <2>7. hashBlock' \in [Levels -> Blocks \cup {Null}] /\ dbBest' \in Blocks \cup {Null}
      BY <1>0, <1>3, <2>1, Zenon
    <2>8. ASSUME NEW m \in 0..N
          PROVE  B(hashBlock', dbBest', m) =
                    IF m = 0 THEN B(hashBlock, dbBest, 1) ELSE B(hashBlock, dbBest, m)
      BY <1>0, <1>3, <2>1, BestStore
    <2>9. n - 1 = 0
      BY <1>3
    <2> QED BY <1>3, <2>2, <2>3, <2>5, <2>6, <2>7, <2>8, <2>9, Zenon
  <1> QED BY <1>0, <1>2, <1>3
\* SetBestBlock changes the top level's best block only.
LEMMA SetBestStep ==
    ASSUME IInv, NEW b \in Blocks, SetBestBlock(b)
    PROVE  IInv' /\ Layers!LSetBest(b)
  <1>0. /\ N \in Nat /\ Levels = 1..N /\ depth \in 1..N /\ depth \in 0..N
        /\ hashBlock \in [Levels -> Blocks \cup {Null}]
        /\ \A l \in Levels : l > depth => cache[l] = Empty /\ hashBlock[l] = Null
        /\ b # Null
    BY Facts, DistinctAssumption, Zenon
  <1>1. /\ hashBlock' = [hashBlock EXCEPT ![depth] = b]
        /\ UNCHANGED <<db, dbBest, depth, cache>>
    BY Zenon DEF SetBestBlock
  <1>2. \A l \in Levels : hashBlock'[l] = IF l = depth THEN b ELSE hashBlock[l]
    BY <1>0, <1>1, Zenon
  <1>3. IInv'
    <2>1. hashBlock' \in [Levels -> Blocks \cup {Null}]
      BY <1>0, <1>1, Zenon
    <2>2. \A l \in Levels : l > depth => hashBlock'[l] = Null
      BY <1>0, <1>2
    <2> QED BY <1>1, <2>1, <2>2, Zenon DEF IInv, TypeOK
  <1>4. B(hashBlock', dbBest, depth) = b
    <2>1. B(hashBlock', dbBest, depth) =
             IF hashBlock'[depth] # Null THEN hashBlock'[depth]
             ELSE B(hashBlock', dbBest, depth - 1)
      BY <1>0, BestStep, Zenon
    <2> QED BY <1>0, <1>2, <2>1, Zenon
  <1>5. ASSUME NEW m \in 0..N
        PROVE  B(hashBlock', dbBest, m) = IF m >= depth THEN b ELSE B(hashBlock, dbBest, m)
    <2>1. CASE m >= depth
      <3>1. \A l \in Levels : l > depth /\ l <= m => hashBlock'[l] = Null
        BY <1>0, <1>2
      <3>2. B(hashBlock', dbBest, m) = B(hashBlock', dbBest, depth)
        BY <1>0, <2>1, <3>1, BestSkip, Zenon
      <3> QED BY <1>4, <2>1, <3>2, Zenon
    <2>2. CASE m < depth
      <3>1. SameBest(hashBlock', hashBlock, 0, m)
        BY <1>0, <1>2, <2>2 DEF SameBest
      <3>2. B(hashBlock', dbBest, 0) = B(hashBlock, dbBest, 0)
        BY BestFacts, Zenon
      <3>3. 0 \in 0..N /\ 0 <= m
        BY <1>0
      <3>4. B(hashBlock', dbBest, m) = B(hashBlock, dbBest, m)
        BY <3>1, <3>2, <3>3, BestAbove
      <3> QED BY <1>0, <2>2, <3>4
    <2> QED BY <1>0, <2>1, <2>2
  <1>6. M(cache', db') = M(cache, db)
    BY <1>1, Zenon
  <1>7. BB(hashBlock', dbBest') =
           [l \in 0..N |-> IF l >= depth THEN b ELSE BB(hashBlock, dbBest)[l]]
    BY <1>1, <1>5, Zenon DEF BB
  <1> QED BY <1>1, <1>3, <1>6, <1>7, Mapping, Zenon DEF Layers!LSetBest

\* GetBestBlock's caching changes no best block.
LEMMA FillBestStep ==
    ASSUME IInv, NEW n \in 1..depth, FillBestBlock(n)
    PROVE  IInv' /\ UNCHANGED Layers!lvars
  <1>0. /\ N \in Nat /\ Levels = 1..N /\ depth \in 1..N /\ n \in Nat /\ n \in 0..N
        /\ n <= N
        /\ hashBlock \in [Levels -> Blocks \cup {Null}] /\ dbBest \in Blocks \cup {Null}
        /\ \A l \in Levels : l > depth => cache[l] = Empty /\ hashBlock[l] = Null
    BY Facts
  <1>1. /\ hashBlock' = [l \in Levels |->
                            IF l <= n /\ \A m \in l..n : hashBlock[m] = Null
                            THEN GetBestBlock(n) ELSE hashBlock[l]]
        /\ UNCHANGED <<db, dbBest, depth, cache>>
    BY Zenon DEF FillBestBlock
  <1>2. IsFilled(hashBlock', hashBlock, Null, dbBest, n, N)
    BY <1>0, <1>1, Zenon DEF IsFilled, GetBestBlock
  <1>3. ASSUME NEW m \in 0..N
        PROVE  B(hashBlock', dbBest, m) = B(hashBlock, dbBest, m)
    <2>1. m \in Nat /\ m <= N
      BY <1>0
    <2> QED BY <1>0, <1>2, <2>1, LookupFilled DEF B
  <1>4. GetBestBlock(n) \in Blocks \cup {Null}
    <2>1. CASE {l \in 1..n : hashBlock[l] # Null} = {}
      BY <1>0, <2>1, Zenon DEF GetBestBlock, Lookup
    <2>2. CASE {l \in 1..n : hashBlock[l] # Null} # {}
      <3>1. Top({l \in 1..n : hashBlock[l] # Null}) \in 1..n
        BY <1>0, <2>2, TopIsMax, Zenon
      <3>2. GetBestBlock(n) = hashBlock[Top({l \in 1..n : hashBlock[l] # Null})]
        BY <2>2, Zenon DEF GetBestBlock, Lookup
      <3> QED BY <1>0, <3>1, <3>2
    <2> QED BY <2>1, <2>2, Zenon
  <1>5. IInv'
    <2>1. hashBlock' \in [Levels -> Blocks \cup {Null}]
      BY <1>0, <1>1, <1>4, Zenon
    <2>2. \A l \in Levels : l > depth => hashBlock'[l] = Null
      BY <1>0, <1>1
    <2> QED BY <1>1, <2>1, <2>2, Zenon DEF IInv, TypeOK
  <1>6. BB(hashBlock', dbBest') = BB(hashBlock, dbBest)
    BY <1>1, <1>3, Zenon DEF BB
  <1>7. M(cache', db') = M(cache, db)
    BY <1>1, Zenon
  <1> QED BY <1>1, <1>5, <1>6, <1>7, Mapping, Zenon DEF Layers!lvars
\* A new level shows what the level below it shows.
LEMMA PushStep ==
    ASSUME IInv, Push
    PROVE  IInv' /\ Layers!LPush
  <1>0. /\ N \in Nat /\ Levels = 1..N /\ depth \in 1..N /\ depth \in 0..N
        /\ \A l \in Levels : l > depth => cache[l] = Empty /\ hashBlock[l] = Null
    BY Facts, Zenon
  <1>1. depth < N /\ depth' = depth + 1 /\ UNCHANGED <<db, dbBest, cache, hashBlock>>
    BY Zenon DEF Push
  <1>2. IInv'
    <2>1. depth' \in Levels /\ \A l \in Levels : l > depth' => l > depth
      BY <1>0, <1>1
    <2> QED BY <1>1, <2>1, Zenon DEF IInv, TypeOK
  <1>3. ASSUME NEW m \in 0..N, NEW k \in Keys, m > depth
        PROVE  V(cache, db, m, k) = V(cache, db, depth, k)
    <2>1. \A l \in Levels : l > depth /\ l <= m => cache[l][k].coins = Absent
      BY <1>0 DEF Empty, NoEntry
    <2> QED BY <1>0, <1>3, <2>1, VSkip
  <1>4. ASSUME NEW m \in 0..N, m > depth
        PROVE  B(hashBlock, dbBest, m) = B(hashBlock, dbBest, depth)
    BY <1>0, <1>4, BestSkip
  <1>5. M(cache', db') = [l \in 0..N |-> IF l > depth THEN M(cache, db)[depth] ELSE M(cache, db)[l]]
    BY <1>0, <1>1, <1>3, Zenon DEF M
  <1>6. BB(hashBlock', dbBest') =
           [l \in 0..N |-> IF l > depth THEN BB(hashBlock, dbBest)[depth]
                                        ELSE BB(hashBlock, dbBest)[l]]
    BY <1>0, <1>1, <1>4, Zenon DEF BB
  <1> QED BY <1>1, <1>2, <1>5, <1>6, Mapping DEF Layers!LPush

\* A discarded level leaves what the level below it shows.
LEMMA DiscardStep ==
    ASSUME IInv, Discard
    PROVE  IInv' /\ Layers!LDiscard
  <1>0. /\ N \in Nat /\ Levels = 1..N /\ depth \in 1..N /\ depth \in 0..N
        /\ depth - 1 \in 0..N /\ 0 \in 0..N
        /\ cache \in Stacks /\ db \in Databases /\ FlagsOK(cache, db)
        /\ hashBlock \in [Levels -> Blocks \cup {Null}]
        /\ \A l \in Levels : l > depth => cache[l] = Empty /\ hashBlock[l] = Null
    BY Facts
  <1>1. /\ depth > 1 /\ depth' = depth - 1
        /\ cache' = [cache EXCEPT ![depth] = Empty]
        /\ hashBlock' = [hashBlock EXCEPT ![depth] = Null]
        /\ UNCHANGED <<db, dbBest>>
    BY Zenon DEF Discard
  <1>2. /\ \A l \in Levels : l < depth => cache'[l] = cache[l] /\ hashBlock'[l] = hashBlock[l]
        /\ \A l \in Levels : l >= depth => cache'[l] = Empty /\ hashBlock'[l] = Null
    BY <1>0, <1>1 DEF Stacks
  <1>3. ASSUME NEW m \in 0..N, NEW k \in Keys
        PROVE  V(cache', db, m, k) =
                  IF m >= depth THEN V(cache, db, depth - 1, k) ELSE V(cache, db, m, k)
    <2>1. ASSUME NEW j \in 0..N, j < depth
          PROVE  V(cache', db, j, k) = V(cache, db, j, k)
      <3>1. Agree(cache', cache, k, 0, j)
        BY <1>0, <1>2, <2>1 DEF Agree
      <3>2. 0 <= j /\ V(cache', db, 0, k) = V(cache, db, 0, k)
        BY <1>0, VZero
      <3> QED BY <1>0, <3>1, <3>2, VAbove
    <2>2. CASE m >= depth
      <3>1. \A l \in Levels : l > depth - 1 /\ l <= m => cache'[l][k].coins = Absent
        BY <1>0, <1>2 DEF Empty, NoEntry
      <3>2. V(cache', db, m, k) = V(cache', db, depth - 1, k)
        BY <1>0, <2>2, <3>1, VSkip
      <3>3. V(cache', db, depth - 1, k) = V(cache, db, depth - 1, k)
        BY <1>0, <2>1
      <3> QED BY <2>2, <3>2, <3>3, Zenon
    <2> QED BY <1>0, <2>1, <2>2
  <1>4. ASSUME NEW m \in 0..N
        PROVE  B(hashBlock', dbBest, m) =
                  IF m >= depth THEN B(hashBlock, dbBest, depth - 1) ELSE B(hashBlock, dbBest, m)
    <2>1. ASSUME NEW j \in 0..N, j < depth
          PROVE  B(hashBlock', dbBest, j) = B(hashBlock, dbBest, j)
      <3>1. SameBest(hashBlock', hashBlock, 0, j)
        BY <1>0, <1>2, <2>1 DEF SameBest
      <3>2. 0 <= j /\ B(hashBlock', dbBest, 0) = B(hashBlock, dbBest, 0)
        BY <1>0, BestFacts
      <3> QED BY <1>0, <3>1, <3>2, BestAbove
    <2>2. CASE m >= depth
      <3>1. \A l \in Levels : l > depth - 1 /\ l <= m => hashBlock'[l] = Null
        BY <1>0, <1>2
      <3>2. B(hashBlock', dbBest, m) = B(hashBlock', dbBest, depth - 1)
        BY <1>0, <2>2, <3>1, BestSkip
      <3>3. B(hashBlock', dbBest, depth - 1) = B(hashBlock, dbBest, depth - 1)
        BY <1>0, <2>1
      <3> QED BY <2>2, <3>2, <3>3, Zenon
    <2> QED BY <1>0, <2>1, <2>2
  <1>5. IInv'
    <2>1. cache' \in Stacks
      BY <1>0, <1>1, Zenon DEF Stacks, Empty, Entries, NoEntry
    <2>2. FlagsOK(cache', db)
      <3> SUFFICES ASSUME NEW l \in Levels, NEW k \in Keys
                   PROVE  EntryOK(cache'[l][k], V(cache', db, l - 1, k))
        BY Zenon DEF FlagsOK
      <3>1. CASE l < depth
        <4>1. l - 1 \in 0..N /\ ~(l - 1 >= depth)
          BY <1>0, <3>1
        <4>2. V(cache', db, l - 1, k) = V(cache, db, l - 1, k)
          BY <1>3, <4>1, Zenon
        <4>3. cache'[l] = cache[l] /\ EntryOK(cache[l][k], V(cache, db, l - 1, k))
          BY <1>0, <1>2, <3>1, Zenon DEF FlagsOK
        <4> QED BY <4>2, <4>3, Zenon
      <3>2. CASE l >= depth
        <4>1. cache'[l][k] = NoEntry
          BY <1>2, <3>2, Zenon DEF Empty
        <4> QED BY <4>1 DEF EntryOK, NoEntry
      <3> QED BY <1>0, <3>1, <3>2
    <2>3. /\ depth' \in Levels /\ hashBlock' \in [Levels -> Blocks \cup {Null}]
          /\ \A l \in Levels : l > depth' => l >= depth
      BY <1>0, <1>1
    <2> QED BY <1>1, <1>2, <2>1, <2>2, <2>3, Zenon DEF IInv, TypeOK, Stacks
  <1>6. M(cache', db') =
           [l \in 0..N |-> IF l >= depth THEN M(cache, db)[depth - 1] ELSE M(cache, db)[l]]
    BY <1>0, <1>1, <1>3, Zenon DEF M
  <1>7. BB(hashBlock', dbBest') =
           [l \in 0..N |-> IF l >= depth THEN BB(hashBlock, dbBest)[depth - 1]
                                         ELSE BB(hashBlock, dbBest)[l]]
    BY <1>0, <1>1, <1>4, Zenon DEF BB
  <1> QED BY <1>1, <1>5, <1>6, <1>7, Mapping, Zenon DEF Layers!LDiscard

\* Every level of a new stack shows the database.
LEMMA InitStep ==
    ASSUME Init
    PROVE  IInv /\ Layers!LInit
  <1>0. N \in Nat /\ Levels = 1..N /\ 1 \in Levels /\ 0 \in 0..N
    BY NAssumption DEF Levels
  <1>1. /\ db \in Databases /\ dbBest \in Blocks \cup {Null} /\ depth = 1
        /\ cache = [n \in Levels |-> Empty] /\ hashBlock = [n \in Levels |-> Null]
    BY Zenon DEF Init, Databases
  <1>2. cache \in Stacks
    BY <1>1, Zenon DEF Stacks, Empty, Entries, NoEntry
  <1>3. ASSUME NEW m \in 0..N, NEW k \in Keys
        PROVE  V(cache, db, m, k) = V(cache, db, 0, k)
    <2>1. 0 <= m /\ \A l \in Levels : l > 0 /\ l <= m => cache[l][k].coins = Absent
      BY <1>0, <1>1 DEF Empty, NoEntry
    <2> QED BY <1>0, <2>1, VSkip, Zenon
  <1>4. ASSUME NEW m \in 0..N
        PROVE  B(hashBlock, dbBest, m) = dbBest
    <2>1. 0 <= m /\ \A l \in Levels : l > 0 /\ l <= m => hashBlock[l] = Null
      BY <1>0, <1>1
    <2>2. B(hashBlock, dbBest, m) = B(hashBlock, dbBest, 0)
      BY <1>0, <2>1, BestSkip, Zenon
    <2> QED BY <2>2, BestFacts, Zenon
  <1>5. FlagsOK(cache, db)
    BY <1>1, Zenon DEF FlagsOK, EntryOK, Empty, NoEntry
  <1>6. IInv
    BY <1>0, <1>1, <1>2, <1>5, Zenon DEF IInv, TypeOK, Stacks, Databases
  <1>7. Layers!LInit
    <2> DEFINE m == [k \in Keys |-> V(cache, db, 0, k)]
    <2>1. m \in [Keys -> Values \cup {Pruned}]
      <3>1. \A k \in Keys : V(cache, db, 0, k) \in Values \cup {Pruned}
        BY <1>0, <1>1, <1>2, VType, Zenon DEF CoinsOrPruned
      <3> QED BY <3>1, Zenon
    <2>2. M(cache, db) = [l \in 0..N |-> m]
      BY <1>3, Zenon DEF M
    <2>3. BB(hashBlock, dbBest) = [l \in 0..N |-> dbBest]
      BY <1>4, Zenon DEF BB
    <2> HIDE DEF m
    <2> QED BY <1>1, <2>1, <2>2, <2>3, Mapping, Zenon DEF Layers!LInit
  <1> QED BY <1>6, <1>7, Zenon
-----------------------------------------------------------------------------
(* The theorems.                                                            *)

\* Every step of the caches keeps the invariant and is, seen through the
\* views, the step of CoinsLayers that CallsExact names, or changes no view.
LEMMA NextStep ==
    ASSUME IInv, [Next]_vars
    PROVE  IInv' /\ [Layers!LNext]_Layers!lvars
  <1>1. CASE Push
    BY <1>1, PushStep, Zenon DEF Layers!LNext
  <1>2. CASE Discard
    BY <1>2, DiscardStep, Zenon DEF Layers!LNext
  <1>3. ASSUME NEW n \in 1..depth, NEW k \in Keys, AccessCoins(n, k)
        PROVE  IInv' /\ UNCHANGED Layers!lvars
    BY <1>3, AccessStep, Zenon
  <1>4. ASSUME NEW n \in 1..depth, NEW k \in Keys, Uncache(n, k)
        PROVE  IInv' /\ UNCHANGED Layers!lvars
    BY <1>4, UncacheStep, Zenon
  <1>5. ASSUME NEW k \in Keys, NEW v \in CoinsOrPruned, ModifyCoins(k, v)
        PROVE  IInv' /\ Layers!LNext
    BY <1>5, ModifyStep, Zenon DEF Layers!LNext, CoinsOrPruned
  <1>6. ASSUME NEW k \in Keys, NEW v \in CoinsOrPruned, NEW coinbase \in BOOLEAN,
               ModifyNewCoins(k, coinbase, v)
        PROVE  IInv' /\ Layers!LNext
    BY <1>6, ModifyNewStep, Zenon DEF Layers!LNext, CoinsOrPruned
  <1>7. ASSUME NEW n \in 1..depth, Flush(n)
        PROVE  IInv' /\ Layers!LNext
    BY <1>7, FlushStep, Zenon DEF Layers!LNext
  <1>8. ASSUME NEW n \in 1..depth, FillBestBlock(n)
        PROVE  IInv' /\ UNCHANGED Layers!lvars
    BY <1>8, FillBestStep, Zenon
  <1>9. ASSUME NEW b \in Blocks, SetBestBlock(b)
        PROVE  IInv' /\ Layers!LNext
    BY <1>9, SetBestStep, Zenon DEF Layers!LNext
  <1>10. CASE UNCHANGED vars
    <2>1. UNCHANGED <<db, dbBest, depth, cache, hashBlock>>
      BY <1>10, Zenon DEF vars
    <2>2. IInv'
      BY <2>1, Zenon DEF IInv, TypeOK
    <2>3. M(cache', db') = M(cache, db) /\ BB(hashBlock', dbBest') = BB(hashBlock, dbBest)
      BY <2>1, Zenon
    <2> QED BY <2>1, <2>2, <2>3, Mapping, Zenon DEF Layers!lvars
  <1> QED BY <1>1, <1>2, <1>3, <1>4, <1>5, <1>6, <1>7, <1>8, <1>9, <1>10, Zenon DEF Next

\* The inductive invariant: entries are typed, unused levels are empty, and each
\* entry's flags are truthful about the level below it.
THEOREM Invariance == Spec => []IInv
  <1>1. Init => IInv
    BY InitStep, Zenon
  <1>2. IInv /\ [Next]_vars => IInv'
    BY NextStep, Zenon
  <1> QED BY <1>1, <1>2, PTL DEF Spec

\* The types of cacheCoins, its flags, hashBlock and the database hold always;
\* in particular the database never stores a pruned CCoins.
THEOREM TypeCorrect == Spec => []TypeOK
  <1>1. IInv => TypeOK
    BY Zenon DEF IInv
  <1> QED BY <1>1, Invariance, PTL

\* For any number of caches, keys and values: a FRESH entry's coins are unknown
\* or pruned one level down, so the entry may vanish when it is spent.
THEOREM FreshSound == Spec => []FreshMeansUnknownBelow
  <1>1. IInv => FreshMeansUnknownBelow
    <2> SUFFICES ASSUME IInv, NEW n \in Levels, NEW k \in Keys, Cached(n, k),
                        FRESH \in cache[n][k].flags
                 PROVE  View(n - 1, k) = Pruned
      BY Zenon DEF FreshMeansUnknownBelow
    <2>1. EntryOK(cache[n][k], V(cache, db, n - 1, k))
      BY Zenon DEF IInv, FlagsOK
    <2> QED BY <2>1, ViewIsV, Zenon DEF EntryOK, Cached
  <1> QED BY <1>1, Invariance, PTL

\* An entry without DIRTY equals what the level below answers: Uncache may drop
\* it and BatchWrite may skip it.
THEOREM CleanSound == Spec => []CleanMeansSameAsBelow
  <1>1. IInv => CleanMeansSameAsBelow
    <2> SUFFICES ASSUME IInv, NEW n \in Levels, NEW k \in Keys, Cached(n, k),
                        DIRTY \notin cache[n][k].flags
                 PROVE  cache[n][k].coins = View(n - 1, k)
      BY Zenon DEF CleanMeansSameAsBelow
    <2>1. EntryOK(cache[n][k], V(cache, db, n - 1, k))
      BY Zenon DEF IInv, FlagsOK
    <2> QED BY <2>1, ViewIsV, Zenon DEF EntryOK, Cached
  <1> QED BY <1>1, Invariance, PTL

\* BatchWrite never throws "FRESH flag misapplied to cache entry for base".
THEOREM FreshApplied == Spec => []FreshNeverMisapplied
  <1>1. IInv => FreshNeverMisapplied
    <2> SUFFICES ASSUME IInv, NEW n \in Levels, NEW k \in Keys, n > 1,
                        {DIRTY, FRESH} \subseteq cache[n][k].flags, Cached(n - 1, k)
                 PROVE  cache[n - 1][k].coins = Pruned
      BY Zenon DEF FreshNeverMisapplied
    <2>1. n - 1 \in Levels
      BY NAssumption DEF Levels
    <2>2. EntryOK(cache[n][k], V(cache, db, n - 1, k))
      BY Zenon DEF IInv, FlagsOK
    <2>3. V(cache, db, n - 1, k) = cache[n - 1][k].coins
      BY <2>1, VStep DEF Cached
    <2> QED BY <2>2, <2>3, Zenon DEF EntryOK
  <1> QED BY <1>1, Invariance, PTL

\* The stack of flagged caches implements a stack of plain maps, whatever the
\* number of levels and in whatever order they are read, dropped and flushed.
THEOREM Refinement == Spec => ImplementsLayers
  <1>1. Init => Layers!LInit
    BY InitStep, Zenon
  <1>2. IInv /\ [Next]_vars => [Layers!LNext]_Layers!lvars
    BY NextStep, Zenon
  <1> QED BY <1>1, <1>2, Invariance, PTL DEF Spec, ImplementsLayers, Layers!LSpec

\* ... and each call of the coins API has exactly its abstract effect.
THEOREM Exactness == Spec => CallsExact
  <1> DEFINE Exact ==
       /\ \A k \in Keys, v \in CoinsOrPruned :
             /\ ModifyCoins(k, v) => Layers!LSet(k, v)
             /\ \A coinbase \in BOOLEAN :
                   ModifyNewCoins(k, coinbase, v) => Layers!LSet(k, v)
       /\ \A n \in 1..depth : Flush(n) => Layers!LFlush(n)
       /\ \A n \in 1..depth, k \in Keys :
             AccessCoins(n, k) \/ Uncache(n, k) => UNCHANGED Layers!lvars
       /\ \A n \in 1..depth : FillBestBlock(n) => UNCHANGED Layers!lvars
       /\ \A b \in Blocks : SetBestBlock(b) => Layers!LSetBest(b)
  <1>1. IInv => Exact
    BY AccessStep, UncacheStep, ModifyStep, ModifyNewStep, FlushStep, FillBestStep,
       SetBestStep, Zenon
  <1>2. IInv /\ [Next]_vars => [Exact]_vars
    BY <1>1, Zenon
  <1> HIDE DEF Exact
  <1>3. Spec => [][Exact]_vars
    BY <1>2, Invariance, PTL DEF Spec
  <1> QED BY <1>3, Zenon DEF CallsExact, Exact
=============================================================================
