--------------------------- MODULE TxRequestProofs ---------------------------
(***************************************************************************)
(* For any number of peers, transactions and times: TxRequest keeps        *)
(* SanityCheck and implements TxRequestRules.                              *)
(*                                                                         *)
(* SanityCheck is almost inductive.  The refinement also needs that erased *)
(* and completed announcements keep nothing of what they were, and that in *)
(* the second loop of SetTimePoint nothing waits for a time that is past.  *)
(*                                                                         *)
(* First come the lemmas about the operators of TxRequest, one transaction *)
(* at a time: the tracker moves the selection by looking at one neighbour  *)
(* in the index ByTxHash, and what it leaves is what a choice among all    *)
(* announcements would have made.                                          *)
(***************************************************************************)
EXTENDS TxRequest, WellFoundedInduction, TLAPS

Candidates == {"CANDIDATE_DELAYED", "CANDIDATE_READY", "CANDIDATE_BEST"}
Of(t) == {x \in Announcements : x[2] = t}

\* Announcements have their type; nothing is left of those that are over.
Typed(I) ==
    /\ I \in [Announcements -> Announcement]
    /\ \A x \in Announcements :
          /\ I[x].m_state = "NONE" => I[x] = Absent
          /\ I[x].m_state = "COMPLETED" => I[x] = Completed

\* SanityCheck for one transaction, in three parts.
Live(I, t) ==
    \A x \in Of(t) : Tracked(I, x) =>
        \E y \in Of(t) : I[y].m_state \notin {"NONE", "COMPLETED"}
OneSelected(I, t) ==
    \A x, y \in Of(t) : IsSelected(I[x]) /\ IsSelected(I[y]) => x = y
BestSelected(I, t) ==
    \A x \in Of(t) : I[x].m_state = "CANDIDATE_READY" =>
        \E y \in Of(t) :
            /\ IsSelected(I[y])
            /\ I[y].m_state = "CANDIDATE_BEST" => Priority(I, x) < Priority(I, y)
Sane(I, t) == Live(I, t) /\ OneSelected(I, t) /\ BestSelected(I, t)

\* SanityCheck, taken one transaction at a time.
LEMMA SaneIsSanityCheck == (\A t \in Txs : Sane(m_index, t)) <=> SanityCheck
  <1>1. \A x \in Announcements : x[2] \in Txs
    BY Zenon DEF Announcements
  <1>2. \A t, x : x \in Of(t) <=> x \in Announcements /\ x[2] = t
    BY Zenon DEF Of
  <1> QED BY <1>1, <1>2 DEF SanityCheck, Sane, Live, OneSelected, BestSelected

-----------------------------------------------------------------------------
(* Priorities and keys.                                                     *)

\* Every non-empty set of naturals has a least element.
LEMMA LeastExists ==
    ASSUME NEW T \in SUBSET Nat, T # {}
    PROVE  \E x \in T : \A y \in T : x <= y
  <1> DEFINE R == OpToRel(<, Nat)
  <1>1. IsWellFoundedOn(R, Nat)
    BY NatLessThanWellFounded, Zenon
  <1>2. PICK x \in T : \A y \in T : ~(<<y, x>> \in R)
    <2> HIDE DEF R
    <2> QED BY <1>1, WFMin, Zenon
  <1>3. \A y \in T : ~(y < x)
    BY <1>2, Zenon DEF OpToRel
  <1> QED BY <1>3

\* A priority fits below twice the bit for preferred peers.
LEMMA PriorityRange ==
    ASSUME NEW I, Typed(I), NEW x \in Announcements
    PROVE  /\ HighBit \in Nat \ {0}
           /\ Priority(I, x) \in 0 .. 2 * HighBit - 1
  <1>1. HighBit \in Nat /\ Salted[x] \in 0 .. HighBit - 1
    BY PriorityAssumption, Zenon
  <1>2. I[x].m_preferred \in BOOLEAN
    BY Zenon DEF Typed, Announcement
  <1>3. CASE I[x].m_preferred
    BY <1>1, <1>3 DEF Priority
  <1>4. CASE ~I[x].m_preferred
    BY <1>1, <1>4 DEF Priority
  <1> QED BY <1>1, <1>2, <1>3, <1>4, Zenon

\* The salted hashes of peers differ, so priorities do.
LEMMA PriorityDiffers ==
    ASSUME NEW I, Typed(I), NEW t, NEW x \in Of(t), NEW y \in Of(t),
           Priority(I, x) = Priority(I, y)
    PROVE  x = y
  <1>1. HighBit \in Nat /\ Salted[x] \in 0 .. HighBit - 1 /\ Salted[y] \in 0 .. HighBit - 1
    BY PriorityAssumption, Zenon DEF Of
  <1>2. I[x].m_preferred \in BOOLEAN /\ I[y].m_preferred \in BOOLEAN
    BY Zenon DEF Typed, Announcement, Of
  <1>3. Salted[x] = Salted[y]
    <2>1. CASE I[x].m_preferred /\ I[y].m_preferred
      BY <1>1, <2>1 DEF Priority
    <2>2. CASE ~I[x].m_preferred /\ ~I[y].m_preferred
      BY <1>1, <2>2 DEF Priority
    <2>3. CASE I[x].m_preferred /\ ~I[y].m_preferred
      BY <1>1, <2>3 DEF Priority
    <2>4. CASE ~I[x].m_preferred /\ I[y].m_preferred
      BY <1>1, <2>4 DEF Priority
    <2> QED BY <1>2, <2>1, <2>2, <2>3, <2>4, Zenon
  <1>4. PICK p \in Peers, q \in Peers : x = <<p, t>> /\ y = <<q, t>>
    BY DEF Of, Announcements
  <1>5. t \in Txs /\ Salted[p, t] = Salted[q, t]
    BY <1>3, <1>4, Zenon DEF Of, Announcements
  <1> QED BY <1>4, <1>5, PriorityAssumption, Zenon

\* Where each state stands in the index ByTxHash.
LEMMA KeyByState ==
    ASSUME NEW I, Typed(I), NEW x \in Announcements
    PROVE  /\ Key(I, x) \in Nat /\ Key(I, x) <= 8 * HighBit
           /\ I[x].m_state = "CANDIDATE_DELAYED" => Key(I, x) = 0
           /\ I[x].m_state = "CANDIDATE_READY" => Key(I, x) = 2 * HighBit + Priority(I, x)
           /\ I[x].m_state = "CANDIDATE_BEST" => Key(I, x) = 4 * HighBit
           /\ I[x].m_state = "REQUESTED" => Key(I, x) = 6 * HighBit
           /\ I[x].m_state = "COMPLETED" => Key(I, x) = 8 * HighBit
  <1>1. HighBit \in Nat \ {0} /\ Priority(I, x) \in 0 .. 2 * HighBit - 1
    BY PriorityRange, Zenon
  <1>2. I[x].m_state \in States \cup {"NONE"}
    BY Zenon DEF Typed, Announcement
  <1> DEFINE h == HighBit
             pr == Priority(I, x)
             k == Key(I, x)
  <1>3. /\ I[x].m_state = "CANDIDATE_DELAYED" => k = 0 * 2 * h + 0
        /\ I[x].m_state = "CANDIDATE_READY" => k = 1 * 2 * h + pr
        /\ I[x].m_state = "CANDIDATE_BEST" => k = 2 * 2 * h + 0
        /\ I[x].m_state = "REQUESTED" => k = 3 * 2 * h + 0
        /\ I[x].m_state \in {"COMPLETED", "NONE"} => k = 4 * 2 * h + 0
    <2> HIDE DEF h, pr
    <2> QED BY Zenon DEF Key, Rank, h, pr
  <1>4. h \in Nat \ {0} /\ pr \in 0 .. 2 * h - 1
    BY <1>1, Zenon
  <1> HIDE DEF h, pr, k
  <1>5. /\ k \in Nat /\ k <= 8 * h
        /\ I[x].m_state = "CANDIDATE_DELAYED" => k = 0
        /\ I[x].m_state = "CANDIDATE_READY" => k = 2 * h + pr
        /\ I[x].m_state = "CANDIDATE_BEST" => k = 4 * h
        /\ I[x].m_state = "REQUESTED" => k = 6 * h
        /\ I[x].m_state = "COMPLETED" => k = 8 * h
    BY <1>2, <1>3, <1>4 DEF States
  <1> QED BY <1>5, Zenon DEF h, pr, k

\* Succ is the next announcement after x.
LEMMA SuccIsNext ==
    ASSUME NEW I, Typed(I), NEW x \in Announcements, After(I, x) # {}
    PROVE  /\ Succ(I, x) \in After(I, x)
           /\ \A z \in After(I, x) : Key(I, Succ(I, x)) <= Key(I, z)
  <1> DEFINE T == {Key(I, y) : y \in After(I, x)}
  <1>1. \A y \in After(I, x) : Key(I, y) \in Nat
    BY KeyByState, Zenon DEF After
  <1>2. T \in SUBSET Nat /\ T # {}
    BY <1>1, Zenon
  <1>3. \E k \in T : \A l \in T : k <= l
    <2> HIDE DEF T
    <2> QED BY <1>2, LeastExists, Zenon
  <1>4. \E y \in After(I, x) : \A z \in After(I, x) : Key(I, y) <= Key(I, z)
    BY <1>3, Zenon
  <1> QED BY <1>4, Zenon DEF Succ

\* Prev is the last announcement before x.
LEMMA PrevIsLast ==
    ASSUME NEW I, Typed(I), NEW x \in Announcements, Before(I, x) # {}
    PROVE  /\ Prev(I, x) \in Before(I, x)
           /\ \A z \in Before(I, x) : Key(I, z) <= Key(I, Prev(I, x))
  <1> DEFINE T == {Key(I, x) - Key(I, y) : y \in Before(I, x)}
  <1>1. Key(I, x) \in Nat
    BY KeyByState, Zenon
  <1>2. \A y \in Before(I, x) : Key(I, y) \in Nat /\ Key(I, y) < Key(I, x)
    BY KeyByState, Zenon DEF Before
  <1>3. T \in SUBSET Nat /\ T # {}
    BY <1>1, <1>2
  <1>4. \E k \in T : \A l \in T : k <= l
    <2> HIDE DEF T
    <2> QED BY <1>3, LeastExists, Zenon
  <1>5. PICK y \in Before(I, x) : \A z \in Before(I, x) :
               Key(I, x) - Key(I, y) <= Key(I, x) - Key(I, z)
    BY <1>4, Zenon
  <1>6. \A z \in Before(I, x) : Key(I, z) <= Key(I, y)
    BY <1>1, <1>2, <1>5
  <1> QED BY <1>6, Zenon DEF Prev

\* What comes after an announcement that is ready: those with a higher
\* priority, the selected one, then the completed ones.
LEMMA AfterReady ==
    ASSUME NEW R, Typed(R), NEW t, NEW x \in Of(t), R[x].m_state = "CANDIDATE_READY"
    PROVE  /\ \A y \in Of(t) :
                 \/ IsSelected(R[y]) \/ R[y].m_state = "COMPLETED"
                 \/ R[y].m_state = "CANDIDATE_READY" /\ Priority(R, x) < Priority(R, y)
                 <=> y \in After(R, x)
           /\ After(R, x) # {} /\ R[Succ(R, x)].m_state = "COMPLETED" =>
                 \A y \in After(R, x) : R[y].m_state = "COMPLETED"
           /\ After(R, x) # {} => Succ(R, x) \in After(R, x) /\ Succ(R, x) \in Of(t)
  <1> DEFINE h == HighBit
  <1>1. x \in Announcements /\ x[2] = t
    BY Zenon DEF Of
  <1>2. h \in Nat \ {0} /\ Priority(R, x) \in 0 .. 2 * h - 1 /\ Key(R, x) = 2 * h + Priority(R, x)
    BY <1>1, PriorityRange, KeyByState, Zenon
  <1>3. ASSUME NEW y \in Of(t)
        PROVE  /\ y \in After(R, x) <=> Tracked(R, y) /\ Key(R, y) > Key(R, x)
               /\ y \in Announcements /\ R[y].m_state \in States \cup {"NONE"}
               /\ Priority(R, y) \in 0 .. 2 * h - 1
    BY <1>1, PriorityRange, Zenon DEF Of, After, Typed, Announcement
  <1>4. ASSUME NEW y \in Of(t)
        PROVE  /\ R[y].m_state = "CANDIDATE_DELAYED" => Key(R, y) = 0
               /\ R[y].m_state = "CANDIDATE_READY" => Key(R, y) = 2 * h + Priority(R, y)
               /\ R[y].m_state = "CANDIDATE_BEST" => Key(R, y) = 4 * h
               /\ R[y].m_state = "REQUESTED" => Key(R, y) = 6 * h
               /\ R[y].m_state = "COMPLETED" => Key(R, y) = 8 * h
    BY KeyByState, Zenon DEF Of
  <1> HIDE DEF h
  <1>5. ASSUME NEW y \in Of(t)
        PROVE  \/ IsSelected(R[y]) \/ R[y].m_state = "COMPLETED"
               \/ R[y].m_state = "CANDIDATE_READY" /\ Priority(R, x) < Priority(R, y)
               <=> y \in After(R, x)
    BY <1>2, <1>3, <1>4 DEF States, Tracked, IsSelected
  <1>6. After(R, x) \subseteq Of(t)
    BY <1>1, Zenon DEF After, Of
  <1>7. ASSUME After(R, x) # {}
        PROVE  Succ(R, x) \in After(R, x) /\ \A z \in After(R, x) : Key(R, Succ(R, x)) <= Key(R, z)
    BY <1>1, <1>7, SuccIsNext, Zenon
  <1>8. ASSUME After(R, x) # {}, R[Succ(R, x)].m_state = "COMPLETED", NEW y \in After(R, x)
        PROVE  R[y].m_state = "COMPLETED"
    <2>1. Key(R, Succ(R, x)) = 8 * h /\ Key(R, Succ(R, x)) <= Key(R, y) /\ y \in Of(t)
      BY <1>4, <1>6, <1>7, <1>8, Zenon
    <2> QED BY <2>1, <1>2, <1>3, <1>4 DEF States, After, Tracked
  <1> QED BY <1>5, <1>6, <1>7, <1>8, Zenon

\* What comes before the selected announcement: the ready ones last, by
\* priority, and the delayed ones.
LEMMA BeforeSelected ==
    ASSUME NEW I, Typed(I), NEW t, NEW x \in Of(t), IsSelected(I[x]), OneSelected(I, t)
    PROVE  /\ \A z \in Of(t) : I[z].m_state = "CANDIDATE_READY" => z \in Before(I, x)
           /\ Before(I, x) # {} =>
                 /\ Prev(I, x) \in Of(t) /\ Prev(I, x) # x
                 /\ I[Prev(I, x)].m_state \in {"CANDIDATE_DELAYED", "CANDIDATE_READY"}
                 /\ \A z \in Of(t) : I[z].m_state = "CANDIDATE_READY" =>
                       /\ I[Prev(I, x)].m_state = "CANDIDATE_READY"
                       /\ Priority(I, z) <= Priority(I, Prev(I, x))
  <1> DEFINE h == HighBit
             n == Prev(I, x)
  <1>1. x \in Announcements /\ x[2] = t
    BY Zenon DEF Of
  <1>2. h \in Nat \ {0}
    BY <1>1, PriorityRange, Zenon
  <1>3. ASSUME NEW y \in Of(t)
        PROVE  /\ y \in Before(I, x) <=> Tracked(I, y) /\ Key(I, y) < Key(I, x)
               /\ I[y].m_state \in States \cup {"NONE"}
               /\ Priority(I, y) \in 0 .. 2 * h - 1
               /\ Key(I, y) \in Nat
               /\ I[y].m_state = "CANDIDATE_DELAYED" => Key(I, y) = 0
               /\ I[y].m_state = "CANDIDATE_READY" => Key(I, y) = 2 * h + Priority(I, y)
               /\ I[y].m_state = "CANDIDATE_BEST" => Key(I, y) = 4 * h
               /\ I[y].m_state = "REQUESTED" => Key(I, y) = 6 * h
               /\ I[y].m_state = "COMPLETED" => Key(I, y) = 8 * h
    BY <1>1, PriorityRange, KeyByState, Zenon DEF Of, Before, Typed, Announcement
  <1> HIDE DEF h
  <1>4. Key(I, x) \in {4 * h, 6 * h}
    BY <1>3, Zenon DEF IsSelected
  <1>5. \A z \in Of(t) : I[z].m_state = "CANDIDATE_READY" => z \in Before(I, x)
    BY <1>2, <1>3, <1>4 DEF Tracked
  <1>6. ASSUME Before(I, x) # {}
        PROVE  /\ n \in Before(I, x) /\ n \in Of(t) /\ n # x
               /\ \A z \in Before(I, x) : Key(I, z) <= Key(I, n)
    <2>1. n \in Before(I, x) /\ \A z \in Before(I, x) : Key(I, z) <= Key(I, n)
      BY <1>1, <1>6, PrevIsLast, Zenon
    <2>2. n \in Of(t)
      BY <1>1, <2>1, Zenon DEF Before, Of
    <2>3. n # x
      BY <1>1, <1>3, <2>1, <2>2
    <2> QED BY <2>1, <2>2, <2>3, Zenon
  <1> HIDE DEF n
  <1>7. ASSUME Before(I, x) # {}
        PROVE  I[n].m_state \in {"CANDIDATE_DELAYED", "CANDIDATE_READY"}
    <2>1. ~IsSelected(I[n])
      BY <1>6, <1>7, Zenon DEF OneSelected
    <2>2. Tracked(I, n) /\ Key(I, n) < Key(I, x)
      BY <1>3, <1>6, <1>7, Zenon
    <2>3. I[n].m_state # "COMPLETED"
      BY <1>2, <1>3, <1>4, <1>6, <1>7, <2>2
    <2> QED BY <1>3, <1>6, <1>7, <2>1, <2>2, <2>3, Zenon DEF States, Tracked, IsSelected
  <1>8. ASSUME Before(I, x) # {}, NEW z \in Of(t), I[z].m_state = "CANDIDATE_READY"
        PROVE  /\ I[n].m_state = "CANDIDATE_READY"
               /\ Priority(I, z) <= Priority(I, n)
    <2>1. Key(I, z) <= Key(I, n) /\ n \in Of(t)
      BY <1>5, <1>6, <1>8, Zenon
    <2> QED BY <1>2, <1>3, <1>7, <1>8, <2>1
  <1> QED BY <1>5, <1>6, <1>7, <1>8, Zenon DEF n

-----------------------------------------------------------------------------
(* The operators that move the selection.                                   *)

\* An announcement in another state.
With(a, s) == [a EXCEPT !.m_state = s]

\* Another state changes nothing else of an announcement.
LEMMA WithIs ==
    ASSUME NEW a \in Announcement, NEW s \in States
    PROVE  /\ With(a, s) \in Announcement /\ With(a, s).m_state = s
           /\ With(a, s).m_time = a.m_time /\ With(a, s).m_preferred = a.m_preferred
  BY Zenon DEF With, Announcement

\* Between two steps a candidate may change its state among the three of a
\* candidate; otherwise an announcement is as it was.
Alike(a, b) ==
    \/ b = a
    \/ /\ a.m_state \in Candidates /\ b.m_state \in Candidates
       /\ b = With(a, b.m_state)

\* SetState on a candidate changes that candidate, and only its state.
LEMMA SetStateTyped ==
    ASSUME NEW I, Typed(I), NEW x, NEW s \in Candidates,
           x \in Announcements => I[x].m_state \in Candidates
    PROVE  /\ Typed(SetState(I, x, s))
           /\ \A y \in Announcements :
                 /\ Alike(I[y], SetState(I, x, s)[y])
                 /\ SetState(I, x, s)[y] = IF y = x THEN With(I[y], s) ELSE I[y]
                 /\ Priority(SetState(I, x, s), y) = Priority(I, y)
  <1> DEFINE J == SetState(I, x, s)
  <1>1. I \in [Announcements -> Announcement] /\ s \in States
    BY Zenon DEF Typed, Candidates, States
  <1>2. J = [y \in Announcements |-> IF y = x THEN With(I[y], s) ELSE I[y]]
    BY <1>1, Zenon DEF SetState, With
  <1> HIDE DEF J
  <1>3. ASSUME NEW y \in Announcements
        PROVE  /\ I[y] \in Announcement
               /\ With(I[y], s) \in Announcement /\ With(I[y], s).m_state = s
               /\ With(I[y], s).m_preferred = I[y].m_preferred
               /\ J[y] = IF y = x THEN With(I[y], s) ELSE I[y]
    BY <1>1, <1>2, WithIs, Zenon
  <1>4. J \in [Announcements -> Announcement]
    BY <1>2, <1>3, Zenon
  <1>5. ASSUME NEW y \in Announcements
        PROVE  Alike(I[y], J[y])
    BY <1>3, Zenon DEF Alike
  <1>6. ASSUME NEW y \in Announcements
        PROVE  Priority(J, y) = Priority(I, y)
    <2>1. J[y].m_preferred = I[y].m_preferred
      BY <1>3, Zenon
    <2> QED BY <2>1, Zenon DEF Priority
  <1>7. Typed(J)
    BY <1>3, <1>4 DEF Typed, Candidates
  <1> QED BY <1>3, <1>5, <1>6, <1>7, Zenon DEF J

\* Reselect selects the best of the others, as if x was not there.
SelectedWithout(R, t, x) ==
    /\ \A y, z \in Of(t) \ {x} : IsSelected(R[y]) /\ IsSelected(R[z]) => y = z
    /\ \A z \in Of(t) \ {x} : R[z].m_state = "CANDIDATE_READY" =>
          \E y \in Of(t) \ {x} :
              /\ IsSelected(R[y])
              /\ R[y].m_state = "CANDIDATE_BEST" => Priority(R, z) < Priority(R, y)

\* Reselect leaves x alone and selects the best of the others.
LEMMA ReselectWorks ==
    ASSUME NEW I, Typed(I), NEW t, NEW x \in Of(t), OneSelected(I, t), BestSelected(I, t)
    PROVE  /\ Typed(Reselect(I, x))
           /\ Reselect(I, x)[x] = I[x]
           /\ \A y \in Announcements :
                 /\ Alike(I[y], Reselect(I, x)[y])
                 /\ y \notin Of(t) => Reselect(I, x)[y] = I[y]
                 /\ Reselect(I, x)[y] = I[y] \/ Reselect(I, x)[y].m_state = "CANDIDATE_BEST"
           /\ SelectedWithout(Reselect(I, x), t, x)
  <1> DEFINE R == Reselect(I, x)
             n == Prev(I, x)
             moved == IsSelected(I[x]) /\ Before(I, x) # {} /\ I[n].m_state = "CANDIDATE_READY"
  <1>1. CASE moved
    <2>1. R = SetState(I, n, "CANDIDATE_BEST")
      BY <1>1, Zenon DEF Reselect
    <2>2. /\ n \in Of(t) /\ n # x /\ n \in Announcements
          /\ \A z \in Of(t) : I[z].m_state = "CANDIDATE_READY" => Priority(I, z) <= Priority(I, n)
      BY <1>1, BeforeSelected, Zenon DEF Of
    <2> HIDE DEF n
    <2>3. /\ Typed(R)
          /\ \A y \in Announcements :
                /\ Alike(I[y], R[y])
                /\ R[y] = IF y = n THEN With(I[y], "CANDIDATE_BEST") ELSE I[y]
                /\ Priority(R, y) = Priority(I, y)
      BY <1>1, <2>1, <2>2, SetStateTyped DEF Candidates
    <2>4. R[n].m_state = "CANDIDATE_BEST"
      BY <2>2, <2>3, WithIs DEF Typed, States
    <2> HIDE DEF R
    <2>5. ASSUME NEW y \in Of(t) \ {x}, IsSelected(R[y])
          PROVE  y = n
      BY <1>1, <2>3, <2>5, Zenon DEF OneSelected, Of
    <2>6. ASSUME NEW z \in Of(t) \ {x}, R[z].m_state = "CANDIDATE_READY"
          PROVE  Priority(R, z) < Priority(R, n)
      <3>1. z # n /\ z \in Announcements
        BY <2>4, <2>6, Zenon DEF Of
      <3>2. I[z].m_state = "CANDIDATE_READY" /\ Priority(I, z) <= Priority(I, n)
        BY <2>2, <2>3, <2>6, <3>1, Zenon
      <3>3. Priority(I, z) # Priority(I, n)
        BY <2>2, <3>1, PriorityDiffers, Zenon
      <3>4. Priority(I, z) \in Int /\ Priority(I, n) \in Int
        BY <2>2, <3>1, PriorityRange
      <3>5. Priority(I, z) < Priority(I, n)
        BY <3>2, <3>3, <3>4
      <3> QED BY <2>2, <2>3, <3>1, <3>5, Zenon
    <2>7. SelectedWithout(R, t, x)
      BY <2>2, <2>4, <2>5, <2>6, Zenon DEF SelectedWithout, IsSelected
    <2> QED BY <2>2, <2>3, <2>4, <2>7, Zenon DEF R, Of
  <1>2. CASE ~moved
    <2>1. R = I
      BY <1>2, Zenon DEF Reselect
    <2>2. SelectedWithout(I, t, x)
      <3>1. CASE ~IsSelected(I[x])
        BY <3>1, Zenon DEF SelectedWithout, OneSelected, BestSelected
      <3>2. CASE IsSelected(I[x])
        <4>1. \A z \in Of(t) : I[z].m_state # "CANDIDATE_READY"
          <5> HIDE DEF n
          <5>1. Before(I, x) = {} \/ I[n].m_state # "CANDIDATE_READY"
            BY <1>2, <3>2, Zenon
          <5> QED BY <3>2, <5>1, BeforeSelected, Zenon DEF n
        <4> QED BY <3>2, <4>1, Zenon DEF SelectedWithout, OneSelected
      <3> QED BY <3>1, <3>2, Zenon
    <2>3. \A y \in Announcements : Alike(I[y], I[y])
      BY Zenon DEF Alike
    <2> QED BY <2>1, <2>2, <2>3, Zenon
  <1> QED BY <1>1, <1>2, Zenon

\* Whatever x becomes, short of a candidate that is ready or selected, the
\* selection is right.
LEMMA SaneWithout ==
    ASSUME NEW R, NEW J, NEW t, NEW x \in Of(t), SelectedWithout(R, t, x),
           \A y \in Of(t) \ {x} : J[y] = R[y],
           J[x].m_state \notin {"CANDIDATE_READY", "CANDIDATE_BEST", "REQUESTED"}
    PROVE  OneSelected(J, t) /\ BestSelected(J, t)
  <1>1. ASSUME NEW y \in Of(t) \ {x} PROVE Priority(J, y) = Priority(R, y)
    BY Zenon DEF Priority
  <1>2. ~IsSelected(J[x])
    BY Zenon DEF IsSelected
  <1>3. OneSelected(J, t)
    BY <1>2, Zenon DEF OneSelected, SelectedWithout
  <1>4. ASSUME NEW z \in Of(t), J[z].m_state = "CANDIDATE_READY"
        PROVE  \E y \in Of(t) :
                  /\ IsSelected(J[y])
                  /\ J[y].m_state = "CANDIDATE_BEST" => Priority(J, z) < Priority(J, y)
    <2>1. z \in Of(t) \ {x} /\ R[z].m_state = "CANDIDATE_READY"
      BY <1>4, Zenon
    <2>2. PICK y \in Of(t) \ {x} :
             /\ IsSelected(R[y])
             /\ R[y].m_state = "CANDIDATE_BEST" => Priority(R, z) < Priority(R, y)
      BY <2>1, Zenon DEF SelectedWithout
    <2> QED BY <1>1, <2>1, <2>2, Zenon
  <1> QED BY <1>3, <1>4, Zenon DEF BestSelected

\* What two announcements that are alike have in common.
LEMMA AlikeTracked ==
    ASSUME NEW a, NEW b, Alike(a, b)
    PROVE  /\ a.m_state \in {"NONE", "COMPLETED"} <=> b.m_state \in {"NONE", "COMPLETED"}
           /\ a.m_state = "NONE" <=> b.m_state = "NONE"
           /\ a.m_state \in Candidates <=> b.m_state \in Candidates
           /\ a.m_state = "REQUESTED" => b = a
  BY Zenon DEF Alike, Candidates

\* Being alike is transitive.
LEMMA AlikeTransitive ==
    ASSUME NEW a \in Announcement, NEW b, NEW c, Alike(a, b), Alike(b, c)
    PROVE  Alike(a, c)
  <1>1. CASE b = a \/ c = b
    BY <1>1, Zenon DEF Alike
  <1>2. CASE b # a /\ c # b
    <2>1. b.m_state \in States /\ c.m_state \in States
      BY <1>2, Zenon DEF Alike, Candidates, States
    <2>2. With(With(a, b.m_state), c.m_state) = With(a, c.m_state)
      BY <2>1, Zenon DEF With, Announcement
    <2> QED BY <1>2, <2>2, Zenon DEF Alike
  <1> QED BY <1>1, <1>2, Zenon

\* Demoted keeps SanityCheck, and only x has to wait again.
LEMMA DemotedWorks ==
    ASSUME NEW I, Typed(I), NEW t, NEW x \in Of(t), Sane(I, t), IsSelectable(I[x])
    PROVE  /\ Typed(Demoted(I, x)) /\ Sane(Demoted(I, x), t)
           /\ Demoted(I, x)[x] = With(I[x], "CANDIDATE_DELAYED")
           /\ \A y \in Announcements : Alike(I[y], Demoted(I, x)[y])
           /\ \A y \in Announcements \ Of(t) : Demoted(I, x)[y] = I[y]
           /\ \A y \in Announcements \ {x} :
                 Demoted(I, x)[y] = I[y] \/ Demoted(I, x)[y].m_state = "CANDIDATE_BEST"
  <1> DEFINE R == Reselect(I, x)
             J == Demoted(I, x)
  <1>1. x \in Announcements /\ I[x] \in Announcement /\ I[x].m_state \in Candidates
    BY Zenon DEF Of, Typed, IsSelectable, Candidates
  <1>2. /\ Typed(R) /\ R[x] = I[x] /\ SelectedWithout(R, t, x)
        /\ \A y \in Announcements :
              /\ Alike(I[y], R[y]) /\ (y \notin Of(t) => R[y] = I[y])
              /\ R[y] = I[y] \/ R[y].m_state = "CANDIDATE_BEST"
    BY ReselectWorks DEF Sane
  <1>3. J = SetState(R, x, "CANDIDATE_DELAYED")
    BY Zenon DEF Demoted
  <1> HIDE DEF R, J
  <1>4. /\ Typed(J)
        /\ \A y \in Announcements : J[y] = IF y = x THEN With(R[y], "CANDIDATE_DELAYED") ELSE R[y]
    <2>1. "CANDIDATE_DELAYED" \in Candidates /\ R[x].m_state \in Candidates
      BY <1>1, <1>2, Zenon DEF Candidates
    <2> QED BY <1>2, <1>3, <2>1, SetStateTyped
  <1>5. J[x] = With(I[x], "CANDIDATE_DELAYED") /\ J[x].m_state = "CANDIDATE_DELAYED"
    BY <1>1, <1>2, <1>4, WithIs DEF States
  <1>6. Live(J, t)
    BY <1>5, Zenon DEF Live
  <1>7. OneSelected(J, t) /\ BestSelected(J, t)
    BY <1>2, <1>4, <1>5, SaneWithout, Zenon DEF Of
  <1>8. \A y \in Announcements : Alike(I[y], J[y])
    BY <1>1, <1>2, <1>4, <1>5, Zenon DEF Alike, Candidates
  <1>9. \A y \in Announcements \ Of(t) : J[y] = I[y]
    BY <1>2, <1>4, Zenon
  <1>10. \A y \in Announcements \ {x} : J[y] = I[y] \/ J[y].m_state = "CANDIDATE_BEST"
    BY <1>2, <1>4, Zenon
  <1> QED BY <1>4, <1>5, <1>6, <1>7, <1>8, <1>9, <1>10, Zenon DEF J, Sane

\* J is I with announcement x completed; the last one takes the others along.
Finished(I, J, t, x) ==
    IF \A y \in Of(t) \ {x} : I[y].m_state \in {"NONE", "COMPLETED"}
    THEN \A y \in Of(t) : J[y] = Absent
    ELSE J[x] = Completed /\ \A y \in Of(t) \ {x} : Alike(I[y], J[y])

\* The two announcements of which only the state is read have their type.
LEMMA OverTyped == Absent \in Announcement /\ Completed \in Announcement
  BY Zenon DEF Absent, Completed, Announcement, States

\* MakeCompleted keeps SanityCheck and finishes x, or the transaction.
LEMMA MakeCompletedWorks ==
    ASSUME NEW I, Typed(I), NEW t, NEW x \in Of(t), Sane(I, t), Tracked(I, x)
    PROVE  /\ Typed(MakeCompleted(I, x)) /\ Sane(MakeCompleted(I, x), t)
           /\ Finished(I, MakeCompleted(I, x), t, x)
           /\ \A y \in Announcements \ Of(t) : MakeCompleted(I, x)[y] = I[y]
  <1> DEFINE J == MakeCompleted(I, x)
             only == \A y \in Of(t) \ {x} : I[y].m_state \in {"NONE", "COMPLETED"}
  <1>1. x \in Announcements /\ x[2] = t /\ I \in [Announcements -> Announcement]
    BY Zenon DEF Of, Typed
  <1>2. IsOnlyNonCompleted(I, x) <=> only
    BY <1>1, Zenon DEF IsOnlyNonCompleted, Of
  <1>3. CASE I[x].m_state = "COMPLETED"
    <2>1. J = I
      BY <1>3, Zenon DEF MakeCompleted
    <2>2. ~only /\ I[x] = Completed
      BY <1>1, <1>3, Zenon DEF Sane, Live, Typed
    <2>3. \A y \in Of(t) \ {x} : Alike(I[y], I[y])
      BY Zenon DEF Alike
    <2> QED BY <2>1, <2>2, <2>3, Zenon DEF Finished
  <1>4. CASE I[x].m_state # "COMPLETED" /\ only
    <2>1. J = [y \in Announcements |-> IF y[2] = t THEN Absent ELSE I[y]]
      BY <1>1, <1>2, <1>4, Zenon DEF MakeCompleted
    <2> HIDE DEF J
    <2>2. \A y \in Of(t) : J[y] = Absent /\ J[y].m_state = "NONE"
      BY <2>1, Zenon DEF Of, Absent
    <2>3. \A y \in Announcements \ Of(t) : J[y] = I[y]
      BY <2>1, Zenon DEF Of
    <2>4. J \in [Announcements -> Announcement]
      BY <1>1, <2>1, OverTyped, Zenon
    <2>5. Typed(J)
      BY <2>2, <2>3, <2>4, Zenon DEF Typed
    <2>6. Sane(J, t)
      BY <2>2, Zenon DEF Sane, Live, OneSelected, BestSelected, Tracked, IsSelected
    <2> QED BY <1>4, <2>2, <2>3, <2>5, <2>6, Zenon DEF Finished, J
  <1>5. CASE I[x].m_state # "COMPLETED" /\ ~only
    <2> DEFINE R == Reselect(I, x)
    <2>1. J = [R EXCEPT ![x] = Completed]
      BY <1>2, <1>5, Zenon DEF MakeCompleted
    <2>2. /\ Typed(R) /\ SelectedWithout(R, t, x)
          /\ \A y \in Announcements : Alike(I[y], R[y]) /\ (y \notin Of(t) => R[y] = I[y])
      BY ReselectWorks, Zenon DEF Sane
    <2> HIDE DEF R, J
    <2>3. J = [y \in Announcements |-> IF y = x THEN Completed ELSE R[y]]
      BY <1>1, <2>1, <2>2, Zenon DEF Typed
    <2>4. J[x] = Completed /\ J[x].m_state = "COMPLETED" /\ \A y \in Announcements : y # x => J[y] = R[y]
      BY <1>1, <2>3, Zenon DEF Completed
    <2>5. Typed(J)
      BY <2>2, <2>3, <2>4, OverTyped, Zenon DEF Typed
    <2>6. OneSelected(J, t) /\ BestSelected(J, t)
      BY <2>2, <2>4, SaneWithout, Zenon DEF Of
    <2>7. \A y \in Of(t) \ {x} : Alike(I[y], J[y])
      BY <2>2, <2>4, Zenon DEF Of
    <2>8. Live(J, t)
      <3>1. PICK y \in Of(t) \ {x} : I[y].m_state \notin {"NONE", "COMPLETED"}
        BY <1>5, Zenon
      <3>2. J[y].m_state \notin {"NONE", "COMPLETED"}
        BY <2>7, <3>1, AlikeTracked, Zenon
      <3> QED BY <3>2, Zenon DEF Live
    <2>9. \A y \in Announcements \ Of(t) : J[y] = I[y]
      BY <2>2, <2>4, Zenon
    <2>10. Finished(I, J, t, x)
      BY <1>5, <2>4, <2>7, Zenon DEF Finished
    <2> QED BY <2>5, <2>6, <2>8, <2>9, <2>10, Zenon DEF J, Sane
  <1> QED BY <1>3, <1>4, <1>5, Zenon

\* PromoteCandidateReady keeps SanityCheck, and candidates stay candidates.
LEMMA PromoteWorks ==
    ASSUME NEW I, Typed(I), NEW t, NEW x \in Of(t), Sane(I, t),
           I[x].m_state = "CANDIDATE_DELAYED"
    PROVE  /\ Typed(PromoteCandidateReady(I, x)) /\ Sane(PromoteCandidateReady(I, x), t)
           /\ \A y \in Announcements : Alike(I[y], PromoteCandidateReady(I, x)[y])
           /\ \A y \in Announcements \ Of(t) : PromoteCandidateReady(I, x)[y] = I[y]
  <1> DEFINE R == SetState(I, x, "CANDIDATE_READY")
             n == Succ(R, x)
             J == PromoteCandidateReady(I, x)
             alone == After(R, x) = {} \/ R[n].m_state = "COMPLETED"
             better == R[n].m_state = "CANDIDATE_BEST" /\ Priority(R, x) > Priority(R, n)
  <1>1. x \in Announcements /\ x[2] = t /\ I \in [Announcements -> Announcement]
    BY Zenon DEF Of, Typed
  <1>2. /\ "CANDIDATE_READY" \in Candidates /\ "CANDIDATE_BEST" \in Candidates
        /\ "CANDIDATE_DELAYED" \in Candidates
        /\ "CANDIDATE_READY" \in States /\ "CANDIDATE_BEST" \in States
    BY Zenon DEF Candidates, States
  <1>3. /\ Typed(R)
        /\ \A y \in Announcements :
              /\ Alike(I[y], R[y])
              /\ R[y] = IF y = x THEN With(I[y], "CANDIDATE_READY") ELSE I[y]
              /\ Priority(R, y) = Priority(I, y)
    BY <1>2, SetStateTyped
  <1>4. R[x].m_state = "CANDIDATE_READY"
    BY <1>1, <1>2, <1>3, WithIs
  <1>5. J = IF alone THEN SetState(R, x, "CANDIDATE_BEST")
            ELSE IF better
            THEN SetState(SetState(R, n, "CANDIDATE_READY"), x, "CANDIDATE_BEST")
            ELSE R
    BY Zenon DEF PromoteCandidateReady
  <1> HIDE DEF R, J
  <1>6. /\ \A y \in Of(t) :
              \/ IsSelected(R[y]) \/ R[y].m_state = "COMPLETED"
              \/ R[y].m_state = "CANDIDATE_READY" /\ Priority(R, x) < Priority(R, y)
              <=> y \in After(R, x)
        /\ After(R, x) # {} /\ R[n].m_state = "COMPLETED" =>
              \A y \in After(R, x) : R[y].m_state = "COMPLETED"
        /\ After(R, x) # {} => n \in After(R, x) /\ n \in Of(t)
    BY <1>3, <1>4, AfterReady, Zenon
  <1> HIDE DEF n
  <1>7. ~IsSelected(R[x]) /\ ~IsSelected(I[x])
    BY <1>4, Zenon DEF IsSelected
  <1>8. \A y \in Of(t) : y # x => R[y] = I[y]
    BY <1>3, Zenon DEF Of
  <1>9. OneSelected(R, t)
    BY <1>7, <1>8, Zenon DEF Sane, OneSelected
  <1>10. ASSUME NEW z \in Of(t), z # x, R[z].m_state = "CANDIDATE_READY"
         PROVE  \E y \in Of(t) :
                   /\ IsSelected(R[y])
                   /\ R[y].m_state = "CANDIDATE_BEST" => Priority(R, z) < Priority(R, y)
    <2>1. PICK y \in Of(t) :
             /\ IsSelected(I[y])
             /\ I[y].m_state = "CANDIDATE_BEST" => Priority(I, z) < Priority(I, y)
      BY <1>8, <1>10, Zenon DEF Sane, BestSelected
    <2>2. y # x /\ y \in Announcements /\ z \in Announcements
      BY <1>7, <2>1, Zenon DEF Of
    <2> QED BY <1>3, <1>8, <2>1, <2>2, Zenon
  <1>11. \A y \in Announcements : Priority(R, y) \in Int
    BY <1>3, PriorityRange
  <1>12. CASE alone
    <2>1. J = SetState(R, x, "CANDIDATE_BEST")
      BY <1>5, <1>12, Zenon
    <2>2. /\ Typed(J)
          /\ \A y \in Announcements :
                /\ Alike(R[y], J[y])
                /\ J[y] = IF y = x THEN With(R[y], "CANDIDATE_BEST") ELSE R[y]
      BY <1>2, <1>3, <1>4, <2>1, SetStateTyped
    <2>3. \A y \in Of(t) : ~IsSelected(R[y])
      BY <1>6, <1>12, Zenon DEF IsSelected
    <2>4. \A y \in Of(t) : y # x => J[y] = R[y]
      BY <2>2, Zenon DEF Of
    <2>5. J[x].m_state = "CANDIDATE_BEST"
      BY <1>1, <1>2, <1>3, <2>2, WithIs DEF Typed
    <2>6. OneSelected(J, t)
      BY <2>3, <2>4, Zenon DEF OneSelected
    <2>7. BestSelected(J, t)
      BY <1>10, <2>3, <2>4, <2>5, Zenon DEF BestSelected
    <2>8. Live(J, t)
      BY <2>5, Zenon DEF Live
    <2>9. \A y \in Announcements : Alike(I[y], J[y])
      BY <1>1, <1>3, <2>2, AlikeTransitive, Zenon
    <2>10. \A y \in Announcements \ Of(t) : J[y] = I[y]
      BY <1>3, <2>2, Zenon
    <2> QED BY <2>2, <2>6, <2>7, <2>8, <2>9, <2>10, Zenon DEF J, Sane
  <1>13. CASE ~alone /\ better
    <2> DEFINE N == SetState(R, n, "CANDIDATE_READY")
    <2>1. J = SetState(N, x, "CANDIDATE_BEST")
      BY <1>5, <1>13, Zenon
    <2>2. n \in Of(t) /\ n \in Announcements /\ n # x /\ IsSelected(R[n])
      BY <1>4, <1>6, <1>13, Zenon DEF Of, IsSelected
    <2>3. /\ Typed(N)
          /\ \A y \in Announcements :
                /\ Alike(R[y], N[y])
                /\ N[y] = IF y = n THEN With(R[y], "CANDIDATE_READY") ELSE R[y]
                /\ Priority(N, y) = Priority(R, y)
      BY <1>2, <1>3, <1>13, SetStateTyped
    <2> HIDE DEF N
    <2>4. N[x].m_state = "CANDIDATE_READY" /\ N[n].m_state = "CANDIDATE_READY"
      BY <1>1, <1>2, <1>3, <1>4, <2>2, <2>3, WithIs DEF Typed
    <2>5. /\ Typed(J)
          /\ \A y \in Announcements :
                /\ Alike(N[y], J[y])
                /\ J[y] = IF y = x THEN With(N[y], "CANDIDATE_BEST") ELSE N[y]
                /\ Priority(J, y) = Priority(N, y)
      BY <1>2, <2>1, <2>3, <2>4, SetStateTyped
    <2>6. J[x].m_state = "CANDIDATE_BEST" /\ J[n].m_state = "CANDIDATE_READY"
      BY <1>1, <1>2, <2>2, <2>3, <2>4, <2>5, WithIs DEF Typed
    <2>7. \A y \in Of(t) : y # x /\ y # n => J[y] = R[y] /\ ~IsSelected(R[y])
      BY <1>9, <2>2, <2>3, <2>5, Zenon DEF Of, OneSelected
    <2>8. OneSelected(J, t)
      BY <2>6, <2>7, Zenon DEF OneSelected, IsSelected
    <2>9. \A y \in Announcements : Priority(J, y) = Priority(R, y)
      BY <2>3, <2>5, Zenon
    <2>10. ASSUME NEW z \in Of(t), J[z].m_state = "CANDIDATE_READY"
           PROVE  Priority(J, z) < Priority(J, x)
      <3>1. z \in Announcements /\ z # x /\ Priority(R, n) < Priority(R, x)
        BY <1>1, <1>11, <1>13, <2>2, <2>6, <2>10, Zenon DEF Of
      <3>2. CASE z = n
        BY <1>1, <2>9, <3>1, <3>2, Zenon
      <3>3. CASE z # n
        <4>1. R[z].m_state = "CANDIDATE_READY"
          BY <2>7, <2>10, <3>1, <3>3, Zenon
        <4>2. PICK y \in Of(t) :
                 /\ IsSelected(R[y])
                 /\ R[y].m_state = "CANDIDATE_BEST" => Priority(R, z) < Priority(R, y)
          BY <1>10, <3>1, <4>1, Zenon
        <4>3. y = n
          BY <1>9, <2>2, <4>2, Zenon DEF OneSelected
        <4>4. Priority(R, z) < Priority(R, n)
          BY <1>13, <4>2, <4>3, Zenon
        <4>5. Priority(R, z) < Priority(R, x)
          BY <1>1, <1>11, <2>2, <3>1, <4>4
        <4> QED BY <1>1, <2>9, <3>1, <4>5, Zenon
      <3> QED BY <3>2, <3>3, Zenon
    <2>11. BestSelected(J, t)
      BY <2>6, <2>10, Zenon DEF BestSelected, IsSelected
    <2>12. Live(J, t)
      BY <2>6, Zenon DEF Live
    <2>13. \A y \in Announcements : Alike(I[y], N[y])
      BY <1>1, <1>3, <2>3, AlikeTransitive, Zenon
    <2>14. \A y \in Announcements : Alike(I[y], J[y])
      BY <1>1, <2>5, <2>13, AlikeTransitive, Zenon
    <2>15. \A y \in Announcements \ Of(t) : J[y] = I[y]
      BY <1>3, <2>2, <2>3, <2>5, Zenon
    <2> QED BY <2>5, <2>8, <2>11, <2>12, <2>14, <2>15, Zenon DEF J, Sane
  <1>14. CASE ~alone /\ ~better
    <2>1. J = R
      BY <1>5, <1>14, Zenon
    <2>2. n \in After(R, x) /\ n \in Of(t) /\ n \in Announcements /\ n # x
      BY <1>4, <1>6, <1>11, <1>14 DEF Of, IsSelected
    <2>3. \E y \in Of(t) :
             /\ IsSelected(R[y])
             /\ R[y].m_state = "CANDIDATE_BEST" => Priority(R, x) < Priority(R, y)
      <3>1. CASE IsSelected(R[n])
        <4>1. Priority(R, x) # Priority(R, n)
          BY <1>3, <2>2, PriorityDiffers, Zenon
        <4>2. R[n].m_state = "CANDIDATE_BEST" => Priority(R, x) < Priority(R, n)
          BY <1>1, <1>11, <1>14, <2>2, <4>1
        <4> QED BY <2>2, <3>1, <4>2, Zenon
      <3>2. CASE ~IsSelected(R[n])
        <4>1. R[n].m_state = "CANDIDATE_READY" /\ Priority(R, x) < Priority(R, n)
          BY <1>6, <1>14, <2>2, <3>2, Zenon
        <4>2. PICK y \in Of(t) :
                 /\ IsSelected(R[y])
                 /\ R[y].m_state = "CANDIDATE_BEST" => Priority(R, n) < Priority(R, y)
          BY <1>10, <2>2, <4>1, Zenon
        <4>3. y \in Announcements
          BY Zenon DEF Of
        <4> QED BY <1>1, <1>11, <2>2, <4>1, <4>2, <4>3
      <3> QED BY <3>1, <3>2, Zenon
    <2>4. BestSelected(R, t)
      BY <1>10, <2>3, Zenon DEF BestSelected
    <2>5. Live(R, t)
      BY <1>4, Zenon DEF Live
    <2>6. \A y \in Announcements \ Of(t) : R[y] = I[y]
      BY <1>3, Zenon
    <2> QED BY <1>3, <1>9, <2>1, <2>4, <2>5, <2>6, Zenon DEF J, Sane
  <1> QED BY <1>12, <1>13, <1>14, Zenon

-----------------------------------------------------------------------------
(* The order of the announcements of a peer.                                *)

OrderOK(I, o) ==
    /\ o \in [Peers -> SUBSET (Txs \X Txs)]
    /\ \A p \in Peers, t, u \in Txs :
          /\ <<t, u>> \in o[p] \/ <<u, t>> \in o[p]
                <=> Tracked(I, <<p, t>>) /\ Tracked(I, <<p, u>>)
          /\ <<t, u>> \in o[p] /\ <<u, t>> \in o[p] => t = u
Calls == [phase : Phases, peer : Peers, now : Times \cup {0}, result : SUBSET (Txs \X Txs)]

\* The type invariant in parts.
LEMMA TypeParts ==
    TypeOK <=> m_index \in [Announcements -> Announcement] /\ OrderOK(m_index, order) /\ call \in Calls
  BY Zenon DEF TypeOK, OrderOK, Calls

\* Nothing new is tracked in J.
Fewer(I, J) == \A x \in Announcements : Tracked(J, x) => Tracked(I, x)

\* What is left of a total order is one.
LEMMA KeptOrder ==
    ASSUME OrderOK(m_index, order), NEW J, Fewer(m_index, J)
    PROVE  OrderOK(J, Kept(J))
  <1>1. Kept(J) \in [Peers -> SUBSET (Txs \X Txs)]
    BY Zenon DEF Kept, OrderOK
  <1>2. ASSUME NEW p \in Peers, NEW t \in Txs, NEW u \in Txs
        PROVE  /\ <<t, u>> \in Kept(J)[p] <=>
                     <<t, u>> \in order[p] /\ Tracked(J, <<p, t>>) /\ Tracked(J, <<p, u>>)
               /\ Tracked(J, <<p, t>>) => Tracked(m_index, <<p, t>>)
    BY Zenon DEF Kept, Fewer, Announcements
  <1> QED BY <1>1, <1>2 DEF OrderOK

\* If nothing is erased, nothing changes.
LEMMA KeptAllOrder ==
    ASSUME OrderOK(m_index, order), NEW J,
           \A x \in Announcements : Tracked(m_index, x) => Tracked(J, x)
    PROVE  Kept(J) = order
  <1>1. ASSUME NEW p \in Peers, NEW r \in order[p]
        PROVE  Tracked(J, <<p, r[1]>>) /\ Tracked(J, <<p, r[2]>>)
    <2>1. PICK t \in Txs, u \in Txs : r = <<t, u>>
      BY DEF OrderOK
    <2>2. Tracked(m_index, <<p, t>>) /\ Tracked(m_index, <<p, u>>)
      BY <2>1, Zenon DEF OrderOK
    <2> QED BY <2>1, <2>2, Zenon DEF Announcements
  <1>2. \A p \in Peers : Kept(J)[p] = order[p]
    BY <1>1, Zenon DEF Kept
  <1> QED BY <1>2, Zenon DEF Kept, OrderOK

\* With a new announcement behind the others it stays a total order.
LEMMA AppendedOrder ==
    ASSUME OrderOK(m_index, order), NEW p \in Peers, NEW t \in Txs, NEW J,
           ~Tracked(m_index, <<p, t>>), Tracked(J, <<p, t>>),
           \A x \in Announcements : x # <<p, t>> => J[x] = m_index[x]
    PROVE  OrderOK(J, [order EXCEPT ![p] = Appended(p, t)])
  <1> DEFINE o == [order EXCEPT ![p] = Appended(p, t)]
             new == {u \in Txs : u = t \/ Tracked(m_index, <<p, u>>)}
  <1>1. Appended(p, t) = order[p] \cup {<<u, t>> : u \in new}
    BY Zenon DEF Appended
  <1>2. ASSUME NEW q \in Peers, NEW u \in Txs, <<q, u>> # <<p, t>>
        PROVE  Tracked(J, <<q, u>>) <=> Tracked(m_index, <<q, u>>)
    BY <1>2, Zenon DEF Tracked, Announcements
  <1>3. o \in [Peers -> SUBSET (Txs \X Txs)]
    <2>1. order \in [Peers -> SUBSET (Txs \X Txs)]
      BY Zenon DEF OrderOK
    <2>2. {<<u, t>> : u \in new} \in SUBSET (Txs \X Txs)
      <3>1. new \in SUBSET Txs
        BY Zenon
      <3> HIDE DEF new
      <3>2. \A u \in new : <<u, t>> \in Txs \X Txs
        BY <3>1, Zenon
      <3> QED BY <3>2, Zenon
    <2>3. Appended(p, t) \in SUBSET (Txs \X Txs)
      BY <1>1, <2>1, <2>2, Zenon
    <2> QED BY <2>1, <2>3, Zenon
  <1>4. o[p] = order[p] \cup {<<u, t>> : u \in new} /\ \A q \in Peers : q # p => o[q] = order[q]
    BY <1>1, Zenon DEF OrderOK
  <1> HIDE DEF o
  <1>5. ASSUME NEW u \in Txs, NEW v \in Txs
        PROVE  <<u, v>> \in o[p] <=> <<u, v>> \in order[p] \/ (v = t /\ u \in new)
    BY <1>4, Zenon
  <1>6. ASSUME NEW u \in Txs, NEW v \in Txs
        PROVE  /\ <<u, v>> \in o[p] \/ <<v, u>> \in o[p]
                     <=> Tracked(J, <<p, u>>) /\ Tracked(J, <<p, v>>)
               /\ <<u, v>> \in o[p] /\ <<v, u>> \in o[p] => u = v
    <2>1. CASE u = t /\ v = t
      BY <1>5, <2>1, Zenon
    <2>2. CASE u = t /\ v # t
      BY <1>2, <1>5, <2>2, Zenon DEF OrderOK
    <2>3. CASE u # t /\ v = t
      BY <1>2, <1>5, <2>3, Zenon DEF OrderOK
    <2>4. CASE u # t /\ v # t
      BY <1>2, <1>5, <2>4, Zenon DEF OrderOK
    <2> QED BY <2>1, <2>2, <2>3, <2>4, Zenon
  <1>7. ASSUME NEW q \in Peers, q # p, NEW u \in Txs, NEW v \in Txs
        PROVE  /\ <<u, v>> \in o[q] \/ <<v, u>> \in o[q]
                     <=> Tracked(J, <<q, u>>) /\ Tracked(J, <<q, v>>)
               /\ <<u, v>> \in o[q] /\ <<v, u>> \in o[q] => u = v
    BY <1>2, <1>4, <1>7, Zenon DEF OrderOK
  <1>8. OrderOK(J, o)
    BY <1>3, <1>6, <1>7 DEF OrderOK
  <1> QED BY <1>8, Zenon DEF o

-----------------------------------------------------------------------------
(* What the calls make of the index.                                        *)

\* SanityCheck of a transaction depends on its announcements only.
LEMMA SameSane ==
    ASSUME NEW I, NEW J, NEW u, \A y \in Of(u) : J[y] = I[y], Sane(I, u)
    PROVE  Sane(J, u)
  <1>1. \A y \in Of(u) : Priority(J, y) = Priority(I, y)
    BY Zenon DEF Priority
  <1> QED BY <1>1 DEF Sane, Live, OneSelected, BestSelected, Tracked

\* A call that keeps SanityCheck for its transaction keeps it for all.
LEMMA OneTx ==
    ASSUME NEW I, \A u \in Txs : Sane(I, u), NEW J, NEW t \in Txs, Sane(J, t),
           \A y \in Announcements \ Of(t) : J[y] = I[y]
    PROVE  \A u \in Txs : Sane(J, u)
  <1>1. ASSUME NEW u \in Txs, u # t PROVE \A y \in Of(u) : J[y] = I[y]
    BY <1>1, Zenon DEF Of
  <1> QED BY <1>1, SameSane, Zenon

Disconnected(I, p) ==
    [x \in Announcements |->
        IF x[1] = p THEN Absent
        ELSE IF Tracked(I, <<p, x[2]>>) THEN MakeCompleted(I, <<p, x[2]>>)[x] ELSE I[x]]

\* What is left of the announcements of t when p is gone.
Gone(I, J, t, p) ==
    IF \A y \in Of(t) : y[1] # p => I[y].m_state \in {"NONE", "COMPLETED"}
    THEN \A y \in Of(t) : J[y] = Absent
    ELSE \A y \in Of(t) : IF y[1] = p THEN J[y] = Absent ELSE Alike(I[y], J[y])

\* DisconnectedPeer keeps SanityCheck and leaves nothing of the peer.
LEMMA DisconnectedWorks ==
    ASSUME NEW I, Typed(I), \A t \in Txs : Sane(I, t), NEW p \in Peers
    PROVE  /\ Typed(Disconnected(I, p))
           /\ \A t \in Txs : Sane(Disconnected(I, p), t) /\ Gone(I, Disconnected(I, p), t, p)
  <1> DEFINE J == Disconnected(I, p)
  <1>1. ASSUME NEW t \in Txs
        PROVE  /\ Sane(J, t) /\ Gone(I, J, t, p)
               /\ \A y \in Of(t) : /\ J[y] \in Announcement
                                   /\ J[y].m_state = "NONE" => J[y] = Absent
                                   /\ J[y].m_state = "COMPLETED" => J[y] = Completed
    <2> DEFINE x == <<p, t>>
               M == MakeCompleted(I, x)
    <2>1. x \in Of(t) /\ Sane(I, t) /\ \A y \in Of(t) : y \in Announcements /\ (y[1] = p <=> y = x)
      BY DEF Of, Announcements
    <2>2. \A y \in Of(t) : J[y] = IF y[1] = p THEN Absent ELSE IF Tracked(I, x) THEN M[y] ELSE I[y]
      BY Zenon DEF Disconnected, Of
    <2> HIDE DEF x, J, M
    <2>3. Absent.m_state = "NONE" /\ Absent \in Announcement
      BY OverTyped, Zenon DEF Absent
    <2>4. CASE ~Tracked(I, x)
      <3>1. I[x] = Absent
        BY <2>1, <2>4, Zenon DEF Typed, Tracked, Of
      <3>2. \A y \in Of(t) : J[y] = I[y]
        BY <2>1, <2>2, <2>4, <3>1, Zenon
      <3>3. Sane(J, t)
        BY <2>1, <3>2, SameSane, Zenon
      <3>4. Gone(I, J, t, p)
        <4>1. CASE \A y \in Of(t) : y[1] # p => I[y].m_state \in {"NONE", "COMPLETED"}
          <5>1. \A y \in Of(t) : ~Tracked(I, y)
            BY <2>1, <2>3, <3>1, <4>1, Zenon DEF Sane, Live
          <5>2. \A y \in Of(t) : I[y] = Absent
            BY <2>1, <5>1, Zenon DEF Typed, Tracked
          <5> QED BY <3>2, <4>1, <5>2, Zenon DEF Gone
        <4>2. CASE ~(\A y \in Of(t) : y[1] # p => I[y].m_state \in {"NONE", "COMPLETED"})
          <5>1. \A y \in Of(t) : Alike(I[y], J[y])
            BY <3>2, Zenon DEF Alike
          <5> QED BY <2>1, <3>1, <3>2, <4>2, <5>1, Zenon DEF Gone
        <4> QED BY <4>1, <4>2, Zenon
      <3> QED BY <2>1, <3>2, <3>3, <3>4, Zenon DEF Typed
    <2>5. CASE Tracked(I, x)
      <3>1. Typed(M) /\ Sane(M, t) /\ Finished(I, M, t, x)
        BY <2>1, <2>5, MakeCompletedWorks, Zenon DEF M
      <3>2. \A y \in Of(t) : J[y] = IF y = x THEN Absent ELSE M[y]
        BY <2>1, <2>2, <2>5, Zenon
      <3>3. Gone(I, J, t, p)
        <4>1. (\A y \in Of(t) : y[1] # p => I[y].m_state \in {"NONE", "COMPLETED"})
                <=> \A y \in Of(t) \ {x} : I[y].m_state \in {"NONE", "COMPLETED"}
          BY <2>1, Zenon
        <4>2. CASE \A y \in Of(t) \ {x} : I[y].m_state \in {"NONE", "COMPLETED"}
          BY <3>1, <3>2, <4>1, <4>2, Zenon DEF Finished, Gone
        <4>3. CASE ~(\A y \in Of(t) \ {x} : I[y].m_state \in {"NONE", "COMPLETED"})
          BY <2>1, <3>1, <3>2, <4>1, <4>3, Zenon DEF Finished, Gone
        <4> QED BY <4>2, <4>3, Zenon
      <3>4. M[x].m_state \in {"NONE", "COMPLETED"}
        BY <2>1, <2>3, <3>1 DEF Finished, Completed
      <3>5. \A y \in Of(t) \ {x} : J[y] = M[y]
        BY <3>2, Zenon
      <3>6. J[x] = Absent
        BY <2>1, <3>2, Zenon
      <3>7. Live(J, t)
        <4>1. ASSUME NEW y \in Of(t), Tracked(J, y)
              PROVE  \E z \in Of(t) : J[z].m_state \notin {"NONE", "COMPLETED"}
          <5>1. Tracked(M, y)
            BY <2>3, <3>5, <3>6, <4>1, Zenon DEF Tracked
          <5>2. PICK z \in Of(t) : M[z].m_state \notin {"NONE", "COMPLETED"}
            BY <3>1, <5>1, Zenon DEF Sane, Live
          <5> QED BY <3>4, <3>5, <5>2, Zenon
        <4> QED BY <4>1, Zenon DEF Live
      <3>8. SelectedWithout(M, t, x)
        BY <3>1, <3>4, Zenon DEF SelectedWithout, Sane, OneSelected, BestSelected, IsSelected
      <3>9. OneSelected(J, t) /\ BestSelected(J, t)
        BY <2>1, <2>3, <3>5, <3>6, <3>8, SaneWithout, Zenon
      <3>10. Sane(J, t)
        BY <3>7, <3>9, Zenon DEF Sane
      <3> QED BY <2>1, <2>3, <3>1, <3>2, <3>3, <3>10, Zenon DEF Typed
    <2> QED BY <2>4, <2>5, Zenon
  <1>2. ASSUME NEW y \in Announcements PROVE y[2] \in Txs /\ y \in Of(y[2])
    BY Zenon DEF Of, Announcements
  <1>3. J = [y \in Announcements |-> J[y]]
    BY Zenon DEF Disconnected
  <1> HIDE DEF J
  <1>4. Typed(J)
    BY <1>1, <1>2, <1>3, Zenon DEF Typed
  <1> QED BY <1>1, <1>4, Zenon DEF J

\* The index after RequestedTx of x, for a candidate x.
Ask(a, expiry) == [a EXCEPT !.m_state = "REQUESTED", !.m_time = expiry]
Asked(I, x, expiry) ==
    [y \in Announcements |->
        IF y = x THEN Ask(I[y], expiry)
        ELSE IF y[2] = x[2] THEN Unselect(I[y]) ELSE I[y]]

\* RequestedTx keeps SanityCheck; x is requested and no other announcement is.
LEMMA AskedWorks ==
    ASSUME NEW I, Typed(I), NEW t \in Txs, NEW x \in Of(t), I[x].m_state \in Candidates,
           NEW expiry \in Times
    PROVE  /\ Typed(Asked(I, x, expiry)) /\ Sane(Asked(I, x, expiry), t)
           /\ Asked(I, x, expiry)[x] = Ask(I[x], expiry)
           /\ \A y \in Of(t) \ {x} :
                 IF I[y].m_state = "REQUESTED" THEN Asked(I, x, expiry)[y] = Completed
                 ELSE Alike(I[y], Asked(I, x, expiry)[y])
           /\ \A y \in Announcements \ Of(t) : Asked(I, x, expiry)[y] = I[y]
  <1> DEFINE J == Asked(I, x, expiry)
             new == Ask(I[x], expiry)
  <1>1. I \in [Announcements -> Announcement] /\ x \in Announcements /\ x[2] = t
    BY Zenon DEF Typed, Of
  <1>2. new \in Announcement /\ new.m_state = "REQUESTED"
    BY <1>1, Zenon DEF Announcement, States, Ask
  <1> HIDE DEF new
  <1>3. /\ J[x] = new
        /\ \A y \in Of(t) \ {x} : J[y] = Unselect(I[y])
        /\ \A y \in Announcements \ Of(t) : J[y] = I[y]
        /\ J = [y \in Announcements |-> J[y]]
    BY <1>1, Zenon DEF Asked, Of, new
  <1> HIDE DEF J
  <1>4. ASSUME NEW y \in Of(t) \ {x}
        PROVE  /\ J[y] \in Announcement
               /\ J[y].m_state \notin {"CANDIDATE_BEST", "REQUESTED"}
               /\ IF I[y].m_state = "REQUESTED" THEN J[y] = Completed ELSE Alike(I[y], J[y])
               /\ J[y].m_state = "NONE" => J[y] = Absent
               /\ J[y].m_state = "COMPLETED" => J[y] = Completed
    <2>1. y \in Announcements /\ I[y] \in Announcement
      BY <1>1, Zenon DEF Of
    <2>2. CASE I[y].m_state = "CANDIDATE_BEST"
      <3>1. J[y] = With(I[y], "CANDIDATE_READY")
        BY <1>3, <2>2, Zenon DEF Unselect, With
      <3>2. "CANDIDATE_READY" \in States
        BY Zenon DEF States
      <3>3. J[y] \in Announcement /\ J[y].m_state = "CANDIDATE_READY"
        BY <2>1, <3>1, <3>2, WithIs
      <3>4. Alike(I[y], J[y])
        BY <2>2, <3>1, <3>3, Zenon DEF Alike, Candidates
      <3> QED BY <2>2, <3>3, <3>4, Zenon
    <2>3. CASE I[y].m_state = "REQUESTED"
      <3>1. J[y] = Completed /\ Completed.m_state = "COMPLETED" /\ Completed \in Announcement
        BY <1>3, <2>3, OverTyped, Zenon DEF Unselect, Completed
      <3> QED BY <2>3, <3>1, Zenon
    <2>4. CASE I[y].m_state \notin {"CANDIDATE_BEST", "REQUESTED"}
      <3>1. J[y] = I[y]
        BY <1>3, <2>4, Zenon DEF Unselect
      <3> QED BY <2>1, <2>4, <3>1, Zenon DEF Alike, Typed
    <2> QED BY <2>2, <2>3, <2>4, Zenon
  <1>5. \A y \in Announcements : y = x \/ y \in Of(t) \ {x} \/ y \in Announcements \ Of(t)
    BY Zenon
  <1>6. \A y \in Announcements : /\ J[y] \in Announcement
                                 /\ J[y].m_state = "NONE" => J[y] = Absent
                                 /\ J[y].m_state = "COMPLETED" => J[y] = Completed
    BY <1>1, <1>2, <1>3, <1>4, <1>5, Zenon DEF Typed
  <1>7. Typed(J)
    BY <1>3, <1>6, Zenon DEF Typed
  <1>8. Sane(J, t)
    <2>1. J[x].m_state = "REQUESTED"
      BY <1>2, <1>3, Zenon
    <2>2. \A y \in Of(t) \ {x} : ~IsSelected(J[y])
      BY <1>4, Zenon DEF IsSelected
    <2>3. Live(J, t)
      BY <2>1, Zenon DEF Live
    <2>4. OneSelected(J, t)
      BY <2>2, Zenon DEF OneSelected
    <2>5. BestSelected(J, t)
      BY <2>1, Zenon DEF BestSelected, IsSelected
    <2> QED BY <2>3, <2>4, <2>5, Zenon DEF Sane
  <1> QED BY <1>3, <1>4, <1>7, <1>8, Zenon DEF J, new

\* The index after ForgetTxHash.
Forgotten(I, t) == [x \in Announcements |-> IF x[2] = t THEN Absent ELSE I[x]]

\* ForgetTxHash keeps SanityCheck and leaves nothing of the transaction.
LEMMA ForgottenWorks ==
    ASSUME NEW I, Typed(I), NEW t \in Txs
    PROVE  /\ Typed(Forgotten(I, t)) /\ Sane(Forgotten(I, t), t)
           /\ \A y \in Of(t) : Forgotten(I, t)[y] = Absent
           /\ \A y \in Announcements \ Of(t) : Forgotten(I, t)[y] = I[y]
  <1> DEFINE J == Forgotten(I, t)
  <1>1. J = [x \in Announcements |-> IF x[2] = t THEN Absent ELSE I[x]]
    BY Zenon DEF Forgotten
  <1> HIDE DEF J
  <1>2. (\A y \in Of(t) : J[y] = Absent) /\ \A y \in Announcements \ Of(t) : J[y] = I[y]
    BY <1>1, Zenon DEF Of
  <1>3. Absent.m_state = "NONE"
    BY Zenon DEF Absent
  <1>4. Typed(J)
    BY <1>1, <1>2, <1>3, OverTyped, Zenon DEF Typed
  <1>5. Sane(J, t)
    BY <1>2, <1>3, Zenon DEF Sane, Live, OneSelected, BestSelected, Tracked, IsSelected
  <1> QED BY <1>2, <1>4, <1>5, Zenon DEF J

\* The index after ReceivedInv of something new.
Announced(I, x, new) == [I EXCEPT ![x] = new]

\* A new candidate that waits keeps SanityCheck.
LEMMA AnnouncedWorks ==
    ASSUME NEW I, Typed(I), NEW t \in Txs, NEW x \in Of(t), Sane(I, t), ~Tracked(I, x),
           NEW new \in Announcement, new.m_state = "CANDIDATE_DELAYED"
    PROVE  /\ Typed(Announced(I, x, new)) /\ Sane(Announced(I, x, new), t)
           /\ Announced(I, x, new)[x] = new
           /\ \A y \in Announcements \ {x} : Announced(I, x, new)[y] = I[y]
  <1> DEFINE J == Announced(I, x, new)
  <1>1. I \in [Announcements -> Announcement] /\ x \in Announcements
    BY Zenon DEF Typed, Of
  <1>2. new \in Announcement /\ new.m_state = "CANDIDATE_DELAYED"
    BY Zenon
  <1>3. J = [y \in Announcements |-> IF y = x THEN new ELSE I[y]]
    BY <1>1, Zenon DEF Announced
  <1> HIDE DEF J
  <1>4. J[x] = new /\ \A y \in Announcements \ {x} : J[y] = I[y]
    BY <1>1, <1>3, Zenon
  <1>5. Typed(J)
    BY <1>1, <1>2, <1>3, <1>4, Zenon DEF Typed
  <1>6. SelectedWithout(I, t, x)
    BY Zenon DEF SelectedWithout, Sane, OneSelected, BestSelected, Tracked, IsSelected
  <1>7. OneSelected(J, t) /\ BestSelected(J, t)
    BY <1>2, <1>4, <1>6, SaneWithout, Zenon DEF Of
  <1>8. Live(J, t)
    BY <1>2, <1>4, Zenon DEF Live
  <1> QED BY <1>4, <1>5, <1>7, <1>8, Zenon DEF J, Sane

-----------------------------------------------------------------------------
(* The tracker as a whole.                                                  *)

\* In the second loop of SetTimePoint the first one has done its work.
NothingDue ==
    call.phase = "backward" => \A x \in Waiting : m_index[x].m_time > call.now

IInv == TypeOK /\ Typed(m_index) /\ (\A t \in Txs : Sane(m_index, t)) /\ NothingDue

-----------------------------------------------------------------------------
(* What TxRequestRules sees of an announcement.                             *)

Lift(a) ==
    [state |-> IF a.m_state \in Candidates THEN "CANDIDATE" ELSE a.m_state,
     time |-> a.m_time, preferred |-> a.m_preferred]

\* The refinement mapping, announcement by announcement.
LEMMA AnnouncedIs ==
    /\ announced = [x \in Announcements |-> Lift(m_index[x])]
    /\ announced' = [x \in Announcements |-> Lift(m_index'[x])]
  BY Zenon DEF announced, Lift, Candidates

\* Absent and Completed are those of the rules.
LEMMA LiftOver == Lift(Absent) = Rules!Absent /\ Lift(Completed) = Rules!Completed
  BY Zenon DEF Lift, Absent, Completed, Candidates, Rules!Absent, Rules!Completed

\* What the rules see of an announcement.
LEMMA LiftState ==
    ASSUME NEW a \in Announcement
    PROVE  /\ Lift(a).state = "NONE" <=> a.m_state = "NONE"
           /\ Lift(a).state = "COMPLETED" <=> a.m_state = "COMPLETED"
           /\ Lift(a).state = "REQUESTED" <=> a.m_state = "REQUESTED"
           /\ Lift(a).state = "CANDIDATE" <=> a.m_state \in Candidates
           /\ Lift(a).time = a.m_time /\ Lift(a).preferred = a.m_preferred
  BY Zenon DEF Lift, Announcement, States, Candidates

\* The rules do not see which of its three states a candidate is in.
LEMMA LiftAlike ==
    ASSUME NEW a \in Announcement, NEW b, Alike(a, b)
    PROVE  Lift(b) = Lift(a)
  <1>1. CASE b = a
    BY <1>1, Zenon
  <1>2. CASE b # a
    <2>1. /\ b.m_state \in States /\ b = With(a, b.m_state)
          /\ b.m_state \in Candidates /\ a.m_state \in Candidates
      BY <1>2, Zenon DEF Alike, States, Candidates
    <2>2. b.m_time = a.m_time /\ b.m_preferred = a.m_preferred
      BY <2>1, WithIs
    <2> QED BY <2>1, <2>2, Zenon DEF Lift
  <1> QED BY <1>1, <1>2, Zenon

\* J is what Tidy makes of A, for one transaction.
AllOver(A, t) == \A y \in Of(t) : A[y].state \in {"NONE", "COMPLETED"}
TidyTx(A, J, t) ==
    \A x \in Of(t) : Lift(J[x]) = IF AllOver(A, t) THEN Rules!Absent ELSE A[x]

\* A step that the rules do not see leaves nothing to tidy.
LEMMA TidyAlike ==
    ASSUME NEW I, Typed(I), NEW J, NEW t, Sane(I, t), NEW A,
           \A y \in Of(t) : Alike(I[y], J[y]), \A y \in Of(t) : A[y] = Lift(I[y])
    PROVE  TidyTx(A, J, t)
  <1>1. \A y \in Of(t) : I[y] \in Announcement
    BY Zenon DEF Typed, Of
  <1>2. \A y \in Of(t) : Lift(J[y]) = A[y]
    BY <1>1, LiftAlike, Zenon
  <1>3. ASSUME AllOver(A, t) PROVE \A y \in Of(t) : A[y] = Rules!Absent
    <2>1. \A y \in Of(t) : I[y].m_state \in {"NONE", "COMPLETED"}
      BY <1>1, <1>3, LiftState, Zenon DEF AllOver
    <2>2. \A y \in Of(t) : I[y] = Absent
      BY <2>1, Zenon DEF Sane, Live, Tracked, Typed, Of
    <2> QED BY <2>2, LiftOver, Zenon
  <1> QED BY <1>2, <1>3, Zenon DEF TidyTx

\* MakeCompleted tidies like the rules.
LEMMA TidyFinished ==
    ASSUME NEW I, Typed(I), NEW J, NEW t, NEW x \in Of(t), NEW A, Finished(I, J, t, x),
           A[x] = Rules!Completed, \A y \in Of(t) \ {x} : A[y] = Lift(I[y])
    PROVE  TidyTx(A, J, t)
  <1>1. \A y \in Of(t) : I[y] \in Announcement
    BY Zenon DEF Typed, Of
  <1>2. Rules!Completed.state = "COMPLETED"
    BY Zenon DEF Rules!Completed
  <1>3. AllOver(A, t) <=> \A y \in Of(t) \ {x} : I[y].m_state \in {"NONE", "COMPLETED"}
    BY <1>1, <1>2, LiftState DEF AllOver
  <1>4. CASE AllOver(A, t)
    BY <1>3, <1>4, LiftOver, Zenon DEF Finished, TidyTx
  <1>5. CASE ~AllOver(A, t)
    <2>1. J[x] = Completed /\ \A y \in Of(t) \ {x} : Alike(I[y], J[y])
      BY <1>3, <1>5, Zenon DEF Finished
    <2>2. \A y \in Of(t) : Lift(J[y]) = A[y]
      BY <1>1, <2>1, LiftAlike, LiftOver, Zenon
    <2> QED BY <1>5, <2>2, Zenon DEF TidyTx
  <1> QED BY <1>4, <1>5, Zenon

\* DisconnectedPeer tidies like the rules.
LEMMA TidyGone ==
    ASSUME NEW I, Typed(I), NEW J, NEW t, NEW p, NEW A, Gone(I, J, t, p),
           \A y \in Of(t) : A[y] = IF y[1] = p THEN Rules!Absent ELSE Lift(I[y])
    PROVE  TidyTx(A, J, t)
  <1>1. \A y \in Of(t) : I[y] \in Announcement
    BY Zenon DEF Typed, Of
  <1>2. Rules!Absent.state = "NONE"
    BY Zenon DEF Rules!Absent
  <1>3. AllOver(A, t) <=> \A y \in Of(t) : y[1] # p => I[y].m_state \in {"NONE", "COMPLETED"}
    BY <1>1, <1>2, LiftState DEF AllOver
  <1>4. CASE AllOver(A, t)
    BY <1>3, <1>4, LiftOver, Zenon DEF Gone, TidyTx
  <1>5. CASE ~AllOver(A, t)
    <2>1. \A y \in Of(t) : IF y[1] = p THEN J[y] = Absent ELSE Alike(I[y], J[y])
      BY <1>3, <1>5, Zenon DEF Gone
    <2>2. \A y \in Of(t) : Lift(J[y]) = A[y]
      BY <1>1, <2>1, LiftAlike, LiftOver, Zenon
    <2> QED BY <1>5, <2>2, Zenon DEF TidyTx
  <1> QED BY <1>4, <1>5, Zenon

\* The two specifications forget the same announcements.
LEMMA RulesBecomes ==
    ASSUME NEW A, \A t \in Txs : TidyTx(A, m_index', t),
           Typed(m_index'), OrderOK(m_index, order), order' = Kept(m_index')
    PROVE  Rules!Becomes(A)
  <1>1. announced' = Rules!Tidy(A)
    <2>1. ASSUME NEW x \in Announcements
          PROVE  Lift(m_index'[x]) = Rules!Tidy(A)[x]
      <3>1. x[2] \in Txs /\ x \in Of(x[2]) /\ x \in Peers \X Txs
        BY Zenon DEF Of, Announcements
      <3>2. Lift(m_index'[x]) = IF AllOver(A, x[2]) THEN Rules!Absent ELSE A[x]
        BY <3>1, Zenon DEF TidyTx
      <3>3. AllOver(A, x[2]) <=> \A p \in Peers : A[p, x[2]].state \in {"NONE", "COMPLETED"}
        <4>1. \A y \in Of(x[2]) : y[1] \in Peers /\ y = <<y[1], x[2]>>
          BY DEF Of, Announcements
        <4>2. \A p \in Peers : <<p, x[2]>> \in Of(x[2])
          BY <3>1, Zenon DEF Of, Announcements
        <4> QED BY <4>1, <4>2, Zenon DEF AllOver
      <3>4. Rules!Tidy(A)[x] =
               IF \A p \in Peers : A[p, x[2]].state \in {"NONE", "COMPLETED"}
               THEN Rules!Absent ELSE A[x]
        BY <3>1, Zenon DEF Rules!Tidy
      <3>5. CASE AllOver(A, x[2])
        BY <3>2, <3>3, <3>4, <3>5, Zenon
      <3>6. CASE ~AllOver(A, x[2])
        BY <3>2, <3>3, <3>4, <3>6, Zenon
      <3> QED BY <3>5, <3>6, Zenon
    <2>2. Rules!Tidy(A) = [x \in Announcements |-> Rules!Tidy(A)[x]]
      BY Zenon DEF Rules!Tidy, Announcements
    <2> QED BY <2>1, <2>2, AnnouncedIs, Zenon
  <1>2. order' = Rules!Kept(announced')
    <2>1. ASSUME NEW p \in Peers, NEW t \in Txs
          PROVE  announced'[p, t].state # "NONE" <=> Tracked(m_index', <<p, t>>)
      <3>1. <<p, t>> \in Announcements /\ m_index'[<<p, t>>] \in Announcement
        BY Zenon DEF Announcements, Typed
      <3> QED BY <3>1, AnnouncedIs, LiftState, Zenon DEF Tracked
    <2>2. ASSUME NEW p \in Peers
          PROVE  Kept(m_index')[p] = Rules!Kept(announced')[p]
      <3>1. \A r \in order[p] : r[1] \in Txs /\ r[2] \in Txs
        BY DEF OrderOK
      <3>2. Kept(m_index')[p] =
               {r \in order[p] : Tracked(m_index', <<p, r[1]>>) /\ Tracked(m_index', <<p, r[2]>>)}
        BY Zenon DEF Kept
      <3>3. Rules!Kept(announced')[p] =
               {r \in order[p] : announced'[p, r[1]].state # "NONE" /\ announced'[p, r[2]].state # "NONE"}
        BY Zenon DEF Rules!Kept
      <3> QED BY <2>1, <3>1, <3>2, <3>3, Zenon
    <2>3. Kept(m_index') = [p \in Peers |-> Kept(m_index')[p]]
      BY Zenon DEF Kept
    <2>4. Rules!Kept(announced') = [p \in Peers |-> Rules!Kept(announced')[p]]
      BY Zenon DEF Rules!Kept
    <2> QED BY <2>2, <2>3, <2>4, Zenon
  <1> QED BY <1>1, <1>2, Zenon DEF Rules!Becomes

-----------------------------------------------------------------------------
(* What every step does.                                                    *)

StaysOver(a, b) ==
    /\ a.m_state = "REQUESTED" => b = a \/ b.m_state \in {"COMPLETED", "NONE"}
    /\ a.m_state = "COMPLETED" => b.m_state \in {"COMPLETED", "NONE"}
RulesStep == Rules!Next \/ UNCHANGED Rules!vars
Good ==
    IInv' /\ (\A x \in Announcements : StaysOver(m_index[x], m_index'[x])) /\ RulesStep

\* Nothing that is requested or completed becomes a candidate by these changes.
LEMMA StaysOverIf ==
    ASSUME NEW a, NEW b, Alike(a, b) \/ b = Completed \/ b = Absent
    PROVE  StaysOver(a, b)
  BY AlikeTracked DEF StaysOver, Completed, Absent

\* Every announcement is one of its transaction.
LEMMA OfAll == \A x \in Announcements : x[2] \in Txs /\ x \in Of(x[2])
  BY Zenon DEF Announcements, Of

\* The idle call has its type and is that of the rules.
LEMMA NoCallIs == NoCall \in Calls /\ NoCall.phase = "idle" /\ NoCall = Rules!NoCall
  <1>1. (CHOOSE p \in Peers : TRUE) \in Peers
    BY PriorityAssumption, Zenon
  <1> QED BY <1>1, Zenon DEF NoCall, Calls, Phases, Rules!NoCall

\* An announcement is like itself.
LEMMA AlikeSame == \A a : Alike(a, a)
  BY Zenon DEF Alike

\* The invariant of the next state, from that of its parts.
LEMMA IInvNext ==
    ASSUME Typed(m_index'), \A u \in Txs : Sane(m_index', u), OrderOK(m_index', order'),
           call' \in Calls, call'.phase # "backward"
    PROVE  IInv'
  BY Zenon DEF IInv, TypeOK, Typed, OrderOK, Calls, NothingDue

\* A call other than GetRequestable, from what it makes of the index.
LEMMA UpdateWorks ==
    ASSUME IInv, NEW J, Typed(J), \A u \in Txs : Sane(J, u), Fewer(m_index, J), Update(J),
           NEW A, \A t \in Txs : TidyTx(A, J, t)
    PROVE  IInv' /\ Rules!Update(A)
  <1>1. OrderOK(m_index, order) /\ call \in Calls
    BY TypeParts, Zenon DEF IInv
  <1>2. m_index' = J /\ order' = Kept(J) /\ call' = NoCall /\ call.phase \in {"idle", "returned"}
    BY Zenon DEF Update
  <1>3. IInv'
    BY <1>1, <1>2, KeptOrder, NoCallIs, IInvNext, Zenon
  <1>4. Rules!Becomes(A)
    BY <1>1, <1>2, RulesBecomes, Zenon
  <1> QED BY <1>2, <1>3, <1>4, NoCallIs, Zenon DEF Rules!Update

\* ReceivedInv: a new announcement is behind the others of its peer.
LEMMA ReceivedInvStep ==
    ASSUME IInv, NEW p \in Peers, NEW t \in Txs, NEW time \in Times,
           NEW preferred \in Preferences[<<p, t>>], ReceivedInv(p, t, preferred, time)
    PROVE  Good
  <1> DEFINE x == <<p, t>>
  <1>1. /\ Typed(m_index) /\ (\A u \in Txs : Sane(m_index, u))
        /\ OrderOK(m_index, order) /\ call \in Calls
    BY TypeParts, Zenon DEF IInv
  <1>2. x \in Of(t) /\ x \in Announcements /\ x[2] = t /\ preferred \in BOOLEAN
    BY PriorityAssumption, Zenon DEF Of, Announcements
  <1>3. call' = NoCall /\ call.phase \in {"idle", "returned"}
    BY Zenon DEF ReceivedInv
  <1>4. m_index[x] \in Announcement /\ announced[p, t] = Lift(m_index[x])
    BY <1>1, <1>2, AnnouncedIs, Zenon DEF Typed
  <1>5. announced[p, t].state # "NONE" <=> Tracked(m_index, x)
    BY <1>4, LiftState, Zenon DEF Tracked
  <1>6. CASE Tracked(m_index, x)
    <2>1. UNCHANGED <<m_index, order>>
      BY <1>6, Zenon DEF ReceivedInv
    <2>2. IInv'
      BY <1>1, <1>3, <2>1, NoCallIs, IInvNext, Zenon
    <2>3. announced' = announced
      BY <2>1, AnnouncedIs, Zenon
    <2>4. Rules!ReceivedInv(p, t, preferred, time)
      BY <1>3, <1>5, <1>6, <2>1, <2>3, NoCallIs, Zenon DEF Rules!ReceivedInv
    <2>5. Rules!Next
      BY <2>4, Zenon DEF Rules!Next
    <2> QED BY <2>1, <2>2, <2>5, Zenon DEF Good, RulesStep, StaysOver
  <1>7. CASE ~Tracked(m_index, x)
    <2> DEFINE a == [m_state |-> "CANDIDATE_DELAYED", m_time |-> time, m_preferred |-> preferred]
               b == [state |-> "CANDIDATE", time |-> time, preferred |-> preferred]
               J == Announced(m_index, x, a)
    <2>1. m_index' = J /\ order' = [order EXCEPT ![p] = Appended(p, t)]
      BY <1>7, Zenon DEF ReceivedInv, Announced
    <2>0. a \in Announcement /\ a.m_state = "CANDIDATE_DELAYED" /\ Lift(a) = b
      BY <1>2, Zenon DEF Announcement, States, Lift, Candidates
    <2> HIDE DEF a, b
    <2>2. Typed(J) /\ Sane(J, t) /\ J[x] = a /\ \A y \in Announcements \ {x} : J[y] = m_index[y]
      <3>1. Typed(m_index) /\ Sane(m_index, t) /\ x \in Of(t)
        BY <1>1, <1>2, Zenon
      <3> HIDE DEF x
      <3> QED BY <1>7, <2>0, <3>1, AnnouncedWorks
    <2> HIDE DEF J
    <2>3. \A u \in Txs : Sane(J, u)
      <3>1. \A y \in Announcements \ Of(t) : J[y] = m_index[y]
        BY <1>2, <2>2, Zenon
      <3> QED BY <1>1, <2>2, <3>1, OneTx, Zenon
    <2>4. Tracked(J, x)
      BY <2>0, <2>2, Zenon DEF Tracked
    <2>5. OrderOK(J, [order EXCEPT ![p] = Appended(p, t)])
      <3>1. \A y \in Announcements : y # <<p, t>> => J[y] = m_index[y]
        BY <2>2, Zenon
      <3> QED BY <1>1, <1>7, <2>4, <3>1, AppendedOrder, Zenon
    <2>6. IInv'
      BY <1>3, <2>1, <2>2, <2>3, <2>5, NoCallIs, IInvNext, Zenon
    <2>7. \A y \in Announcements : StaysOver(m_index[y], m_index'[y])
      BY <1>7, <2>1, <2>2, Zenon DEF StaysOver, Tracked
    <2>8. announced' = [announced EXCEPT ![<<p, t>>] = b]
      BY <2>0, <2>1, <2>2, AnnouncedIs, Zenon
    <2>9. ASSUME NEW u \in Txs
          PROVE  announced[p, u].state # "NONE" <=> Tracked(m_index, <<p, u>>)
      <3>1. <<p, u>> \in Announcements /\ m_index[<<p, u>>] \in Announcement
        BY <1>1, Zenon DEF Typed, Announcements
      <3> QED BY <3>1, AnnouncedIs, LiftState, Zenon DEF Tracked
    <2>10. Appended(p, t) =
              order[p] \cup {<<u, t>> : u \in {u \in Txs : u = t \/ announced[p, u].state # "NONE"}}
      BY <2>9, Zenon DEF Appended
    <2>11. Rules!ReceivedInv(p, t, preferred, time)
      BY <1>3, <1>5, <1>7, <2>1, <2>8, <2>10, NoCallIs, Zenon DEF Rules!ReceivedInv, b
    <2>12. Rules!Next
      BY <2>11, Zenon DEF Rules!Next
    <2> QED BY <2>6, <2>7, <2>12, Zenon DEF Good, RulesStep
  <1> QED BY <1>6, <1>7, Zenon

\* ForgetTxHash, DisconnectedPeer: nothing is left of a transaction, of a peer.
LEMMA ForgetTxHashStep ==
    ASSUME IInv, NEW t \in Txs, ForgetTxHash(t)
    PROVE  Good
  <1> DEFINE J == Forgotten(m_index, t)
             A == [x \in Peers \X Txs |-> IF x[2] = t THEN Rules!Absent ELSE announced[x]]
  <1>1. Typed(m_index) /\ \A u \in Txs : Sane(m_index, u)
    BY Zenon DEF IInv
  <1>2. Update(J)
    BY Zenon DEF ForgetTxHash, Forgotten
  <1>3. /\ Typed(J) /\ Sane(J, t) /\ \A y \in Of(t) : J[y] = Absent
        /\ \A y \in Announcements \ Of(t) : J[y] = m_index[y]
    BY <1>1, ForgottenWorks, Zenon
  <1>4. \A x \in Announcements : A[x] = IF x[2] = t THEN Rules!Absent ELSE Lift(m_index[x])
    BY AnnouncedIs, Zenon DEF Announcements
  <1>5. Rules!ForgetTxHash(t) <=> Rules!Update(A)
    BY Zenon DEF Rules!ForgetTxHash
  <1>6. m_index' = J
    BY <1>2, Zenon DEF Update
  <1> HIDE DEF J, A
  <1>7. \A u \in Txs : Sane(J, u)
    BY <1>1, <1>3, OneTx, Zenon
  <1>8. Fewer(m_index, J)
    BY <1>3 DEF Fewer, Tracked, Absent
  <1>9. ASSUME NEW u \in Txs PROVE TidyTx(A, J, u)
    <2>1. CASE u = t
      <3>1. \A y \in Of(t) : A[y] = Rules!Absent /\ Lift(J[y]) = Rules!Absent
        BY <1>3, <1>4, LiftOver, Zenon DEF Of
      <3> QED BY <2>1, <3>1, Zenon DEF TidyTx
    <2>2. CASE u # t
      <3>1. \A y \in Of(u) : J[y] = m_index[y] /\ A[y] = Lift(m_index[y])
        BY <1>3, <1>4, <2>2, Zenon DEF Of
      <3>2. Sane(m_index, u) /\ \A y \in Of(u) : Alike(m_index[y], J[y])
        BY <1>1, <3>1, AlikeSame, Zenon
      <3> QED BY <1>1, <3>1, <3>2, TidyAlike, Zenon
    <2> QED BY <2>1, <2>2, Zenon
  <1>10. IInv' /\ Rules!Update(A)
    BY <1>2, <1>3, <1>7, <1>8, <1>9, UpdateWorks, Zenon
  <1>11. \A x \in Announcements : StaysOver(m_index[x], m_index'[x])
    BY <1>3, <1>6, AlikeSame, StaysOverIf, Zenon
  <1>12. Rules!Next
    BY <1>5, <1>10, Zenon DEF Rules!Next
  <1> QED BY <1>10, <1>11, <1>12, Zenon DEF Good, RulesStep

\* DisconnectedPeer implements the rule of that name.
LEMMA DisconnectedPeerStep ==
    ASSUME IInv, NEW p \in Peers, DisconnectedPeer(p)
    PROVE  Good
  <1> DEFINE J == Disconnected(m_index, p)
             A == [x \in Peers \X Txs |-> IF x[1] = p THEN Rules!Absent ELSE announced[x]]
  <1>1. Typed(m_index) /\ \A u \in Txs : Sane(m_index, u)
    BY Zenon DEF IInv
  <1>2. Update(J)
    BY Zenon DEF DisconnectedPeer, Disconnected
  <1>3. Typed(J) /\ \A u \in Txs : Sane(J, u) /\ Gone(m_index, J, u, p)
    BY <1>1, DisconnectedWorks, Zenon
  <1>4. \A x \in Announcements : A[x] = IF x[1] = p THEN Rules!Absent ELSE Lift(m_index[x])
    BY AnnouncedIs, Zenon DEF Announcements
  <1>5. Rules!DisconnectedPeer(p) <=> Rules!Update(A)
    BY Zenon DEF Rules!DisconnectedPeer
  <1>6. m_index' = J
    BY <1>2, Zenon DEF Update
  <1> HIDE DEF J, A
  <1>7. \A x \in Announcements : J[x] = Absent \/ Alike(m_index[x], J[x])
    BY <1>3, OfAll, Zenon DEF Gone
  <1>8. Fewer(m_index, J)
    BY <1>7, AlikeTracked DEF Fewer, Tracked, Absent
  <1>9. ASSUME NEW u \in Txs PROVE TidyTx(A, J, u)
    <2>1. \A y \in Of(u) : A[y] = IF y[1] = p THEN Rules!Absent ELSE Lift(m_index[y])
      BY <1>4, Zenon DEF Of
    <2> QED BY <1>1, <1>3, <2>1, TidyGone, Zenon
  <1>10. IInv' /\ Rules!Update(A)
    BY <1>2, <1>3, <1>8, <1>9, UpdateWorks, Zenon
  <1>11. \A x \in Announcements : StaysOver(m_index[x], m_index'[x])
    BY <1>6, <1>7, StaysOverIf, Zenon
  <1>12. Rules!Next
    BY <1>5, <1>10, Zenon DEF Rules!Next
  <1> QED BY <1>10, <1>11, <1>12, Zenon DEF Good, RulesStep

\* One announcement is completed: ReceivedResponse, and a request that expires.
LEMMA CompletedWorks ==
    ASSUME IInv, NEW x \in Announcements, Tracked(m_index, x), NEW A,
           \A y \in Announcements : A[y] = IF y = x THEN Rules!Completed ELSE announced[y]
    PROVE  /\ Typed(MakeCompleted(m_index, x))
           /\ \A u \in Txs : Sane(MakeCompleted(m_index, x), u)
           /\ Fewer(m_index, MakeCompleted(m_index, x))
           /\ \A u \in Txs : TidyTx(A, MakeCompleted(m_index, x), u)
           /\ \A y \in Announcements : StaysOver(m_index[y], MakeCompleted(m_index, x)[y])
  <1> DEFINE t == x[2]
             J == MakeCompleted(m_index, x)
  <1>1. Typed(m_index) /\ \A u \in Txs : Sane(m_index, u)
    BY Zenon DEF IInv
  <1>2. t \in Txs /\ x \in Of(t)
    BY OfAll, Zenon
  <1> HIDE DEF t
  <1>3. /\ Typed(J) /\ Sane(J, t) /\ Finished(m_index, J, t, x)
        /\ \A y \in Announcements \ Of(t) : J[y] = m_index[y]
    <2>1. Typed(m_index) /\ Sane(m_index, t) /\ x \in Of(t)
      BY <1>1, <1>2, Zenon
    <2> QED BY <2>1, MakeCompletedWorks
  <1> HIDE DEF J
  <1>4. \A y \in Announcements : A[y] = IF y = x THEN Rules!Completed ELSE Lift(m_index[y])
    BY AnnouncedIs, Zenon
  <1>5. \A u \in Txs : Sane(J, u)
    BY <1>1, <1>2, <1>3, OneTx, Zenon
  <1>6. \A y \in Announcements : J[y] = Absent \/ (J[y] = Completed /\ y = x) \/ Alike(m_index[y], J[y])
    BY <1>3, AlikeSame, Zenon DEF Finished
  <1>7. Fewer(m_index, J)
    BY <1>6, AlikeTracked DEF Fewer, Tracked, Absent
  <1>8. ASSUME NEW u \in Txs PROVE TidyTx(A, J, u)
    <2>1. CASE u = t
      <3>1. A[x] = Rules!Completed /\ \A y \in Of(t) \ {x} : A[y] = Lift(m_index[y])
        BY <1>4, Zenon DEF Of
      <3> QED BY <1>1, <1>2, <1>3, <2>1, <3>1, TidyFinished, Zenon
    <2>2. CASE u # t
      <3>1. \A y \in Of(u) : J[y] = m_index[y] /\ A[y] = Lift(m_index[y])
        BY <1>2, <1>3, <1>4, <2>2, Zenon DEF Of
      <3>2. Sane(m_index, u) /\ \A y \in Of(u) : Alike(m_index[y], J[y])
        BY <1>1, <3>1, AlikeSame, Zenon
      <3> QED BY <1>1, <3>1, <3>2, TidyAlike, Zenon
    <2> QED BY <2>1, <2>2, Zenon
  <1>9. \A y \in Announcements : StaysOver(m_index[y], J[y])
    BY <1>6, StaysOverIf, Zenon
  <1> QED BY <1>3, <1>5, <1>7, <1>8, <1>9, Zenon DEF J

\* A call that finds nothing to do.
LEMMA NothingToDo ==
    ASSUME IInv, Update(m_index)
    PROVE  /\ IInv' /\ Rules!Update(announced)
           /\ \A x \in Announcements : StaysOver(m_index[x], m_index'[x])
  <1>1. Typed(m_index) /\ (\A u \in Txs : Sane(m_index, u)) /\ m_index' = m_index
    BY Zenon DEF IInv, Update
  <1>2. ASSUME NEW u \in Txs PROVE TidyTx(announced, m_index, u)
    <2>1. \A y \in Of(u) : announced[y] = Lift(m_index[y])
      BY AnnouncedIs, Zenon DEF Of
    <2> QED BY <1>1, <2>1, AlikeSame, TidyAlike, Zenon
  <1>3. Fewer(m_index, m_index)
    BY Zenon DEF Fewer
  <1> QED BY <1>1, <1>2, <1>3, UpdateWorks, Zenon DEF StaysOver

\* ReceivedResponse implements the rule of that name.
LEMMA ReceivedResponseStep ==
    ASSUME IInv, NEW p \in Peers, NEW t \in Txs, ReceivedResponse(p, t)
    PROVE  Good
  <1> DEFINE x == <<p, t>>
             A == [announced EXCEPT ![x] = Rules!Completed]
  <1>1. x \in Announcements /\ m_index[x] \in Announcement
    BY Zenon DEF IInv, Typed, Announcements
  <1>2. announced[p, t].state = "NONE" <=> ~Tracked(m_index, x)
    BY <1>1, AnnouncedIs, LiftState, Zenon DEF Tracked
  <1>3. /\ Tracked(m_index, x) => Update(MakeCompleted(m_index, x))
        /\ ~Tracked(m_index, x) => Update(m_index)
    BY Zenon DEF ReceivedResponse
  <1>4. /\ Tracked(m_index, x) /\ Rules!Update(A) => Rules!ReceivedResponse(p, t)
        /\ ~Tracked(m_index, x) /\ Rules!Update(announced) => Rules!ReceivedResponse(p, t)
    BY <1>2, Zenon DEF Rules!ReceivedResponse
  <1>5. \A y \in Announcements : A[y] = IF y = x THEN Rules!Completed ELSE announced[y]
    BY <1>1, AnnouncedIs, Zenon
  <1>6. Rules!ReceivedResponse(p, t) => Rules!Next
    BY Zenon DEF Rules!Next
  <1> HIDE DEF x, A
  <1>7. CASE Tracked(m_index, x)
    <2> DEFINE J == MakeCompleted(m_index, x)
    <2>1. /\ Typed(J) /\ Fewer(m_index, J)
          /\ \A u \in Txs : Sane(J, u)
          /\ \A u \in Txs : TidyTx(A, J, u)
          /\ \A y \in Announcements : StaysOver(m_index[y], J[y])
      BY <1>1, <1>5, <1>7, CompletedWorks, Zenon
    <2>2. Update(J) /\ m_index' = J
      BY <1>3, <1>7, Zenon DEF Update
    <2> HIDE DEF J
    <2>3. IInv' /\ Rules!Update(A)
      BY <2>1, <2>2, UpdateWorks, Zenon
    <2> QED BY <1>4, <1>6, <1>7, <2>1, <2>2, <2>3, Zenon DEF Good, RulesStep
  <1>8. CASE ~Tracked(m_index, x)
    BY <1>3, <1>4, <1>6, <1>8, NothingToDo, Zenon DEF Good, RulesStep
  <1> QED BY <1>7, <1>8, Zenon

\* An earlier request of the same transaction is given up.
LEMMA RequestedTxStep ==
    ASSUME IInv, NEW p \in Peers, NEW t \in Txs, NEW time \in Times, RequestedTx(p, t, time)
    PROVE  Good
  <1> DEFINE x == <<p, t>>
             A == [y \in Peers \X Txs |->
                      IF y = <<p, t>>
                      THEN [announced[y] EXCEPT !.state = "REQUESTED", !.time = time]
                      ELSE IF y[2] = t /\ announced[y].state = "REQUESTED" THEN Rules!Completed
                      ELSE announced[y]]
             J == Asked(m_index, x, time)
  <1>1. /\ x \in Announcements /\ x \in Of(t) /\ x[2] = t /\ m_index[x] \in Announcement
        /\ Typed(m_index) /\ \A u \in Txs : Sane(m_index, u)
    BY Zenon DEF IInv, Typed, Announcements, Of
  <1>2. announced[p, t].state # "CANDIDATE" <=> m_index[x].m_state \notin Candidates
    BY <1>1, AnnouncedIs, LiftState, Zenon
  <1>3. /\ m_index[x].m_state \in Candidates => Update(J)
        /\ m_index[x].m_state \notin Candidates => Update(m_index)
    BY <1>1, Zenon DEF RequestedTx, Asked, Ask, Candidates
  <1>4. /\ m_index[x].m_state \in Candidates /\ Rules!Update(A) => Rules!RequestedTx(p, t, time)
        /\ m_index[x].m_state \notin Candidates /\ Rules!Update(announced) =>
              Rules!RequestedTx(p, t, time)
    BY <1>2, Zenon DEF Rules!RequestedTx
  <1>5. Rules!RequestedTx(p, t, time) => Rules!Next
    BY Zenon DEF Rules!Next
  <1>6. CASE m_index[x].m_state \notin Candidates
    BY <1>3, <1>4, <1>5, <1>6, NothingToDo, Zenon DEF Good, RulesStep
  <1>7. CASE m_index[x].m_state \in Candidates
    <2> DEFINE a == Ask(m_index[x], time)
               b == [Lift(m_index[x]) EXCEPT !.state = "REQUESTED", !.time = time]
    <2>1. /\ A[x] = b
          /\ \A y \in Of(t) \ {x} :
                A[y] = IF Lift(m_index[y]).state = "REQUESTED" THEN Rules!Completed ELSE Lift(m_index[y])
          /\ \A y \in Announcements \ Of(t) : A[y] = Lift(m_index[y])
      BY <1>1, AnnouncedIs, Zenon DEF Announcements, Of
    <2>2. Lift(a) = b /\ b.state = "REQUESTED" /\ a.m_state = "REQUESTED"
      <3>1. a.m_state = "REQUESTED" /\ a.m_time = time /\ a.m_preferred = m_index[x].m_preferred
        BY <1>1, Zenon DEF Ask, Announcement
      <3>2. b = [state |-> "REQUESTED", time |-> time, preferred |-> m_index[x].m_preferred]
        <4> DEFINE s == IF m_index[x].m_state \in Candidates THEN "CANDIDATE" ELSE m_index[x].m_state
                   w == m_index[x].m_time
                   f == m_index[x].m_preferred
        <4>1. b = [[state |-> s, time |-> w, preferred |-> f] EXCEPT
                      !.state = "REQUESTED", !.time = time]
          BY Zenon DEF Lift
        <4> HIDE DEF b, s, w, f
        <4> SUFFICES b = [state |-> "REQUESTED", time |-> time, preferred |-> f]
          BY Zenon DEF f
        <4> QED BY <4>1, Zenon
      <3> HIDE DEF a, b, x
      <3>3. Lift(a) = [state |-> "REQUESTED", time |-> time, preferred |-> m_index[x].m_preferred]
        BY <3>1, Zenon DEF Lift, Candidates
      <3> QED BY <3>1, <3>2, <3>3, Zenon
    <2> HIDE DEF x
    <2>3. /\ Typed(J) /\ Sane(J, t) /\ J[x] = a
          /\ \A y \in Of(t) \ {x} :
                IF m_index[y].m_state = "REQUESTED" THEN J[y] = Completed ELSE Alike(m_index[y], J[y])
          /\ \A y \in Announcements \ Of(t) : J[y] = m_index[y]
      BY <1>1, <1>7, AskedWorks
    <2> HIDE DEF A, J, a, b
    <2>4. \A u \in Txs : Sane(J, u)
      BY <1>1, <2>3, OneTx, Zenon
    <2>5. Fewer(m_index, J)
      <3>1. Tracked(m_index, x)
        BY <1>7, Zenon DEF Tracked, Candidates
      <3>2. \A y \in Announcements \ {x} :
               J[y] = m_index[y] \/ m_index[y].m_state = "REQUESTED" \/ Alike(m_index[y], J[y])
        BY <2>3, Zenon
      <3> QED BY <3>1, <3>2, AlikeTracked, Zenon DEF Fewer, Tracked
    <2>6. ASSUME NEW u \in Txs PROVE TidyTx(A, J, u)
      <3>1. CASE u = t
        <4>1. ASSUME NEW y \in Of(t) PROVE Lift(J[y]) = A[y]
          <5>1. CASE y = x
            BY <2>1, <2>2, <2>3, <5>1, Zenon
          <5>2. CASE y # x
            <6>1. m_index[y] \in Announcement
              BY <1>1, Zenon DEF Typed, Of
            <6> QED BY <2>1, <2>3, <5>2, <6>1, LiftState, LiftOver, LiftAlike
          <5> QED BY <5>1, <5>2, Zenon
        <4>2. ~AllOver(A, t)
          BY <1>1, <2>1, <2>2, Zenon DEF AllOver
        <4> QED BY <3>1, <4>1, <4>2, Zenon DEF TidyTx
      <3>2. CASE u # t
        <4>1. \A y \in Of(u) : J[y] = m_index[y] /\ A[y] = Lift(m_index[y])
          BY <2>1, <2>3, <3>2, Zenon DEF Of
        <4>2. Sane(m_index, u) /\ \A y \in Of(u) : Alike(m_index[y], J[y])
          BY <1>1, <4>1, AlikeSame, Zenon
        <4> QED BY <1>1, <4>1, <4>2, TidyAlike, Zenon
      <3> QED BY <3>1, <3>2, Zenon
    <2>7. Update(J) /\ m_index' = J
      BY <1>3, <1>7, Zenon DEF Update
    <2>8. IInv' /\ Rules!Update(A)
      BY <2>3, <2>4, <2>5, <2>6, <2>7, UpdateWorks, Zenon
    <2>9. \A y \in Announcements : StaysOver(m_index[y], J[y])
      <3>1. StaysOver(m_index[x], J[x])
        BY <1>7, Zenon DEF StaysOver, Candidates
      <3>2. \A y \in Announcements \ {x} : J[y] = Completed \/ Alike(m_index[y], J[y])
        BY <2>3, AlikeSame, Zenon
      <3> QED BY <3>1, <3>2, StaysOverIf, Zenon
    <2> QED BY <1>4, <1>5, <1>7, <2>7, <2>8, <2>9, Zenon DEF Good, RulesStep
  <1> QED BY <1>6, <1>7, Zenon

-----------------------------------------------------------------------------
(* GetRequestable.                                                          *)

\* The times that SetTimePoint compares are integers.
LEMMA CallParts ==
    ASSUME IInv
    PROVE  /\ call.peer \in Peers /\ call.now \in Int
           /\ \A x \in Announcements : m_index[x].m_time \in Int
  <1>1. \A n \in Times \cup {0} : n \in Int
    <2>1. Times \subseteq Int
      BY PriorityAssumption, Zenon
    <2> QED BY <2>1
  <1>2. call.peer \in Peers /\ call.now \in Times \cup {0}
    BY TypeParts, Zenon DEF IInv, Calls
  <1>3. \A x \in Announcements : m_index[x].m_time \in Times \cup {0}
    BY Zenon DEF IInv, Typed, Announcement
  <1> QED BY <1>1, <1>2, <1>3, Zenon

\* The begin of GetRequestable is that of the rules.
LEMMA GetRequestableStep ==
    ASSUME IInv, NEW p \in Peers, NEW now \in Times, GetRequestable(p, now)
    PROVE  Good
  <1>1. Typed(m_index) /\ (\A u \in Txs : Sane(m_index, u)) /\ OrderOK(m_index, order)
    BY TypeParts, Zenon DEF IInv
  <1>2. UNCHANGED <<m_index, order>> /\ call'.phase = "forward" /\ call' \in Calls
    BY Zenon DEF GetRequestable, Calls, Phases
  <1>3. IInv'
    BY <1>1, <1>2, IInvNext, Zenon
  <1>4. announced' = announced
    BY <1>2, AnnouncedIs, Zenon
  <1>5. Rules!GetRequestable(p, now)
    BY <1>4, Zenon DEF GetRequestable, Rules!GetRequestable
  <1>6. Rules!Next
    BY <1>5, Zenon DEF Rules!Next
  <1> QED BY <1>2, <1>3, <1>6, Zenon DEF Good, RulesStep, StaysOver

\* A turn of the first loop: a candidate becomes ready, which nobody sees, or
\* a request expires.
LEMMA ForwardStep ==
    ASSUME IInv, SetTimePointForward
    PROVE  Good
  <1>1. /\ Typed(m_index) /\ (\A u \in Txs : Sane(m_index, u))
        /\ OrderOK(m_index, order) /\ call \in Calls
    BY TypeParts, Zenon DEF IInv
  <1>2. PICK x \in Waiting :
           /\ m_index[x].m_time <= call.now
           /\ m_index' = IF m_index[x].m_state = "CANDIDATE_DELAYED"
                         THEN PromoteCandidateReady(m_index, x) ELSE MakeCompleted(m_index, x)
    BY Zenon DEF SetTimePointForward
  <1>3. /\ call.phase = "forward" /\ call' = call /\ order' = Kept(m_index')
        /\ call'.phase # "backward" /\ call' \in Calls
    BY <1>1, Zenon DEF SetTimePointForward
  <1>4. x \in Announcements /\ m_index[x] \in Announcement /\ IsWaiting(m_index[x])
    BY <1>1, Zenon DEF Waiting, Typed
  <1>5. CASE m_index[x].m_state = "CANDIDATE_DELAYED"
    <2> DEFINE t == x[2]
               J == PromoteCandidateReady(m_index, x)
    <2>1. t \in Txs /\ x \in Of(t)
      BY <1>4, OfAll, Zenon
    <2> HIDE DEF t
    <2>2. /\ Typed(J) /\ Sane(J, t)
          /\ \A y \in Announcements : Alike(m_index[y], J[y])
          /\ \A y \in Announcements \ Of(t) : J[y] = m_index[y]
      <3>1. Typed(m_index) /\ Sane(m_index, t) /\ x \in Of(t)
        BY <1>1, <2>1, Zenon
      <3> QED BY <1>5, <3>1, PromoteWorks
    <2>3. m_index' = J
      BY <1>2, <1>5, Zenon
    <2> HIDE DEF J
    <2>4. \A u \in Txs : Sane(J, u)
      BY <1>1, <2>1, <2>2, OneTx, Zenon
    <2>5. Fewer(m_index, J) /\ \A y \in Announcements : Tracked(m_index, y) => Tracked(J, y)
      BY <2>2, AlikeTracked DEF Fewer, Tracked
    <2>6. OrderOK(J, Kept(J)) /\ Kept(J) = order
      BY <1>1, <2>5, KeptOrder, KeptAllOrder, Zenon
    <2>7. IInv'
      BY <1>3, <2>2, <2>3, <2>4, <2>6, IInvNext, Zenon
    <2>8. announced' = announced
      <3>1. \A y \in Announcements : Lift(J[y]) = Lift(m_index[y])
        BY <1>1, <2>2, LiftAlike DEF Typed
      <3> QED BY <2>3, <3>1, AnnouncedIs, Zenon
    <2>9. UNCHANGED Rules!vars
      BY <1>3, <2>3, <2>6, <2>8, Zenon DEF Rules!vars
    <2>10. \A y \in Announcements : StaysOver(m_index[y], m_index'[y])
      BY <2>2, <2>3, StaysOverIf
    <2> QED BY <2>7, <2>9, <2>10, Zenon DEF Good, RulesStep
  <1>6. CASE m_index[x].m_state # "CANDIDATE_DELAYED"
    <2> DEFINE J == MakeCompleted(m_index, x)
               A == [announced EXCEPT ![x] = Rules!Completed]
    <2>1. m_index[x].m_state = "REQUESTED" /\ Tracked(m_index, x)
      BY <1>4, <1>6, Zenon DEF IsWaiting, Tracked
    <2>2. \A y \in Announcements : A[y] = IF y = x THEN Rules!Completed ELSE announced[y]
      BY <1>4, AnnouncedIs, Zenon
    <2>3. x \in Rules!Expired
      <3>1. announced[x].state = "REQUESTED" /\ announced[x].time = m_index[x].m_time
        BY <1>4, <2>1, AnnouncedIs, LiftState, Zenon
      <3> QED BY <1>2, <1>4, <3>1 DEF Rules!Expired, Announcements
    <2>4. ASSUME Rules!Becomes(A) PROVE Rules!Expire
      BY <1>3, <2>3, <2>4, Zenon DEF Rules!Expire
    <2>5. m_index' = J
      BY <1>2, <1>6, Zenon
    <2> HIDE DEF A
    <2>6. /\ Typed(J) /\ Fewer(m_index, J)
          /\ \A u \in Txs : Sane(J, u)
          /\ \A u \in Txs : TidyTx(A, J, u)
          /\ \A y \in Announcements : StaysOver(m_index[y], J[y])
      BY <1>4, <2>1, <2>2, CompletedWorks, Zenon
    <2> HIDE DEF J
    <2>7. IInv'
      BY <1>1, <1>3, <2>5, <2>6, KeptOrder, IInvNext, Zenon
    <2>8. Rules!Becomes(A)
      BY <1>1, <1>3, <2>5, <2>6, RulesBecomes, Zenon
    <2>9. Rules!Next
      BY <2>4, <2>8, Zenon DEF Rules!Next
    <2> QED BY <2>5, <2>6, <2>7, <2>9, Zenon DEF Good, RulesStep
  <1> QED BY <1>5, <1>6, Zenon

\* When the first loop is over no request is left to expire.
LEMMA ForwardDoneStep ==
    ASSUME IInv, ForwardDone
    PROVE  Good
  <1>1. /\ UNCHANGED <<m_index, order>> /\ call.phase = "forward"
        /\ call' = [call EXCEPT !.phase = "backward"]
        /\ \A x \in Waiting : m_index[x].m_time > call.now
    BY Zenon DEF ForwardDone
  <1>2. call' \in Calls /\ call'.now = call.now
    BY <1>1, TypeParts, Zenon DEF IInv, Calls, Phases
  <1>3. IInv'
    BY <1>1, <1>2 DEF IInv, TypeOK, Typed, Calls, NothingDue, Waiting, Sane, Live, OneSelected,
                      BestSelected, Tracked, Priority
  <1>4. announced' = announced
    BY <1>1, AnnouncedIs, Zenon
  <1>5. Rules!Expired = {}
    <2>1. ASSUME NEW x \in Announcements, announced[x].state = "REQUESTED",
                 announced[x].time <= call.now
          PROVE  FALSE
      <3>1. m_index[x] \in Announcement
        BY Zenon DEF IInv, Typed
      <3>2. m_index[x].m_state = "REQUESTED" /\ m_index[x].m_time <= call.now
        BY <2>1, <3>1, AnnouncedIs, LiftState, Zenon
      <3>3. m_index[x].m_time > call.now
        BY <1>1, <3>2, Zenon DEF Waiting, IsWaiting
      <3> QED BY <3>2, <3>3, CallParts
    <2> QED BY <2>1, Zenon DEF Rules!Expired, Announcements
  <1>6. Rules!ExpireDone
    BY <1>1, <1>4, <1>5, Zenon DEF Rules!ExpireDone
  <1>7. Rules!Next
    BY <1>6, Zenon DEF Rules!Next
  <1> QED BY <1>1, <1>3, <1>7, Zenon DEF Good, RulesStep, StaysOver

\* A turn of the second loop is not seen either.
LEMMA BackwardStep ==
    ASSUME IInv, SetTimePointBackward
    PROVE  Good
  <1>1. Typed(m_index) /\ (\A u \in Txs : Sane(m_index, u)) /\ OrderOK(m_index, order) /\ call \in Calls
    BY TypeParts, Zenon DEF IInv
  <1>2. PICK x \in Selectable : m_index[x].m_time > call.now /\ m_index' = Demoted(m_index, x)
    BY Zenon DEF SetTimePointBackward
  <1>3. call.phase = "backward" /\ UNCHANGED <<order, call>>
    BY Zenon DEF SetTimePointBackward
  <1> DEFINE t == x[2]
             J == Demoted(m_index, x)
  <1>4. x \in Announcements /\ m_index[x] \in Announcement /\ IsSelectable(m_index[x])
    BY <1>1, Zenon DEF Selectable, Typed
  <1>5. t \in Txs /\ x \in Of(t)
    BY <1>4, OfAll, Zenon
  <1> HIDE DEF t
  <1>6. /\ Typed(J) /\ Sane(J, t) /\ J[x] = With(m_index[x], "CANDIDATE_DELAYED")
        /\ \A y \in Announcements : Alike(m_index[y], J[y])
        /\ \A y \in Announcements \ Of(t) : J[y] = m_index[y]
        /\ \A y \in Announcements \ {x} : J[y] = m_index[y] \/ J[y].m_state = "CANDIDATE_BEST"
    <2>1. Typed(m_index) /\ Sane(m_index, t) /\ x \in Of(t) /\ IsSelectable(m_index[x])
      BY <1>1, <1>4, <1>5, Zenon
    <2> QED BY <2>1, DemotedWorks
  <1>7. m_index' = J
    BY <1>2, Zenon
  <1> HIDE DEF J
  <1>8. \A u \in Txs : Sane(J, u)
    BY <1>1, <1>5, <1>6, OneTx, Zenon
  <1>9. Fewer(m_index, J) /\ \A y \in Announcements : Tracked(m_index, y) => Tracked(J, y)
    BY <1>6, AlikeTracked, Zenon DEF Fewer, Tracked
  <1>10. OrderOK(J, order)
    BY <1>1, <1>9, KeptOrder, KeptAllOrder, Zenon
  <1>11. \A y \in Announcements : IsWaiting(J[y]) => J[y].m_time > call.now
    <2>1. J[x].m_time = m_index[x].m_time
      <3>1. "CANDIDATE_DELAYED" \in States
        BY Zenon DEF States
      <3> QED BY <1>4, <1>6, <3>1, WithIs
    <2>2. ASSUME NEW y \in Announcements \ {x}, IsWaiting(J[y])
          PROVE  J[y].m_time > call.now
      <3>1. J[y] = m_index[y]
        BY <1>6, <2>2, Zenon DEF IsWaiting
      <3> QED BY <1>3, <2>2, <3>1, Zenon DEF IInv, NothingDue, Waiting
    <2> QED BY <1>2, <2>1, <2>2, Zenon
  <1>12. IInv'
    BY <1>1, <1>3, <1>6, <1>7, <1>8, <1>10, <1>11, Zenon
       DEF IInv, TypeOK, Typed, OrderOK, Calls, NothingDue, Waiting
  <1>13. announced' = announced
    <2>1. \A y \in Announcements : Lift(J[y]) = Lift(m_index[y])
      BY <1>1, <1>6, LiftAlike, Zenon DEF Typed
    <2> QED BY <1>7, <2>1, AnnouncedIs, Zenon
  <1>14. UNCHANGED Rules!vars
    BY <1>3, <1>13, Zenon DEF Rules!vars
  <1>15. \A y \in Announcements : StaysOver(m_index[y], m_index'[y])
    BY <1>6, <1>7, StaysOverIf, Zenon
  <1> QED BY <1>12, <1>14, <1>15, Zenon DEF Good, RulesStep

\* When the loops are over, the announcements that are ready are those whose
\* time has come, and the best of them is the one to ask for.
LEMMA BestIsRequestable ==
    ASSUME IInv, call.phase = "backward", \A x \in Selectable : m_index[x].m_time <= call.now,
           NEW p \in Peers, NEW t \in Txs
    PROVE  m_index[p, t].m_state = "CANDIDATE_BEST" <=> Rules!Requestable(p, t)
  <1> DEFINE x == <<p, t>>
  <1>1. /\ \A q \in Peers : <<q, t>> \in Of(t) /\ <<q, t>> \in Announcements
        /\ \A y \in Of(t) : y[1] \in Peers /\ y = <<y[1], t>>
    BY DEF Of, Announcements
  <1>2. \A y \in Announcements : m_index[y] \in Announcement
    BY Zenon DEF IInv, Typed
  <1>3. OneSelected(m_index, t) /\ BestSelected(m_index, t)
    BY Zenon DEF IInv, Sane
  <1>4. ASSUME NEW q \in Peers
        PROVE  /\ Rules!Ready(q, t) <=> IsSelectable(m_index[<<q, t>>])
               /\ announced[q, t].state = "REQUESTED" <=> m_index[<<q, t>>].m_state = "REQUESTED"
               /\ Rules!Priority(q, t) = Priority(m_index, <<q, t>>)
               /\ Priority(m_index, <<q, t>>) \in Int
    <2> DEFINE y == <<q, t>>
    <2>1. y \in Announcements /\ announced[q, t] = Lift(m_index[y]) /\ m_index[y] \in Announcement
      BY <1>1, <1>2, AnnouncedIs, Zenon
    <2>2. /\ Lift(m_index[y]).state = "CANDIDATE" <=> m_index[y].m_state \in Candidates
          /\ Lift(m_index[y]).state = "REQUESTED" <=> m_index[y].m_state = "REQUESTED"
          /\ Lift(m_index[y]).time = m_index[y].m_time
          /\ Lift(m_index[y]).preferred = m_index[y].m_preferred
      BY <2>1, LiftState, Zenon
    <2>3. Rules!Priority(q, t) = Priority(m_index, y)
      BY <2>1, <2>2, Zenon DEF Rules!Priority, Priority
    <2>4. Rules!Ready(q, t) <=> m_index[y].m_state \in Candidates /\ m_index[y].m_time <= call.now
      BY <2>1, <2>2, Zenon DEF Rules!Ready
    <2>5. m_index[y].m_state = "CANDIDATE_DELAYED" => m_index[y].m_time > call.now
      BY <2>1, Zenon DEF IInv, NothingDue, Waiting, IsWaiting
    <2>6. IsSelectable(m_index[y]) => m_index[y].m_time <= call.now
      BY <2>1, Zenon DEF Selectable
    <2>7. m_index[y].m_time \in Int /\ call.now \in Int
      BY <2>1, CallParts, Zenon
    <2>8. Rules!Ready(q, t) <=> IsSelectable(m_index[y])
      BY <2>4, <2>5, <2>6, <2>7 DEF IsSelectable, Candidates
    <2>9. Priority(m_index, y) \in Int
      <3>1. Typed(m_index)
        BY Zenon DEF IInv
      <3>2. HighBit \in Nat \ {0} /\ Priority(m_index, y) \in 0 .. 2 * HighBit - 1
        <4> HIDE DEF y
        <4> QED BY <2>1, <3>1, PriorityRange, Zenon
      <3> QED BY <3>2
    <2> QED BY <2>1, <2>2, <2>3, <2>8, <2>9, Zenon
  <1>5. Rules!Requestable(p, t) <=>
           /\ IsSelectable(m_index[x])
           /\ \A q \in Peers : m_index[<<q, t>>].m_state # "REQUESTED"
           /\ \A q \in Peers : IsSelectable(m_index[<<q, t>>]) =>
                                  Priority(m_index, <<q, t>>) <= Priority(m_index, x)
    BY <1>4, Zenon DEF Rules!Requestable
  <1>6. ASSUME m_index[x].m_state = "CANDIDATE_BEST"
        PROVE  Rules!Requestable(p, t)
    <2>1. IsSelected(m_index[x]) /\ IsSelectable(m_index[x])
      BY <1>6, Zenon DEF IsSelected, IsSelectable
    <2>2. \A y \in Of(t) : IsSelected(m_index[y]) => y = x
      BY <1>1, <1>3, <2>1, Zenon DEF OneSelected
    <2>3. \A q \in Peers : m_index[<<q, t>>].m_state # "REQUESTED"
      BY <1>1, <1>6, <2>2, Zenon DEF IsSelected
    <2>4. ASSUME NEW q \in Peers, IsSelectable(m_index[<<q, t>>])
          PROVE  Priority(m_index, <<q, t>>) <= Priority(m_index, x)
      <3>0. Priority(m_index, <<q, t>>) \in Int /\ Priority(m_index, x) \in Int
        BY <1>4, Zenon
      <3>1. CASE m_index[<<q, t>>].m_state = "CANDIDATE_BEST"
        <4>1. <<q, t>> = x
          BY <1>1, <2>2, <3>1, Zenon DEF IsSelected
        <4> QED BY <3>0, <4>1
      <3>2. CASE m_index[<<q, t>>].m_state = "CANDIDATE_READY"
        <4>1. Priority(m_index, <<q, t>>) < Priority(m_index, x)
          BY <1>1, <1>3, <1>6, <2>2, <3>2, Zenon DEF BestSelected
        <4> QED BY <3>0, <4>1
      <3> QED BY <2>4, <3>1, <3>2, Zenon DEF IsSelectable
    <2> QED BY <1>5, <2>1, <2>3, <2>4, Zenon
  <1>7. ASSUME Rules!Requestable(p, t)
        PROVE  m_index[x].m_state = "CANDIDATE_BEST"
    <2>1. ASSUME m_index[x].m_state = "CANDIDATE_READY"
          PROVE  FALSE
      <3>1. PICK y \in Of(t) :
               /\ IsSelected(m_index[y])
               /\ m_index[y].m_state = "CANDIDATE_BEST" => Priority(m_index, x) < Priority(m_index, y)
        BY <1>1, <1>3, <2>1, Zenon DEF BestSelected
      <3>2. m_index[y].m_state # "REQUESTED"
        BY <1>1, <1>5, <1>7, Zenon
      <3>3. m_index[y].m_state = "CANDIDATE_BEST" /\ IsSelectable(m_index[y])
        BY <3>1, <3>2, Zenon DEF IsSelected, IsSelectable
      <3>4. Priority(m_index, y) <= Priority(m_index, x)
        BY <1>1, <1>5, <1>7, <3>3, Zenon
      <3>5. Priority(m_index, y) \in Int /\ Priority(m_index, x) \in Int
        BY <1>1, <1>4, Zenon
      <3> QED BY <3>1, <3>3, <3>4, <3>5
    <2> QED BY <1>5, <1>7, <2>1, Zenon DEF IsSelectable
  <1> QED BY <1>6, <1>7, Zenon

\* GetRequestable returns what the rules say.
LEMMA ReturnStep ==
    ASSUME IInv, Return
    PROVE  Good
  <1>1. /\ UNCHANGED <<m_index, order>> /\ call.phase = "backward"
        /\ \A x \in Selectable : m_index[x].m_time <= call.now
    BY Zenon DEF Return
  <1> DEFINE p == call.peer
             result == {r \in order[p] : \A t \in {r[1], r[2]} :
                           m_index[p, t].m_state = "CANDIDATE_BEST"}
             rules == {r \in order[p] : \A t \in {r[1], r[2]} : Rules!Requestable(p, t)}
  <1>2. call' = [call EXCEPT !.phase = "returned", !.result = result]
    BY Zenon DEF Return
  <1>3. p \in Peers /\ order[p] \in SUBSET (Txs \X Txs)
    BY CallParts, TypeParts, Zenon DEF IInv, OrderOK
  <1>4. \A t \in Txs : m_index[p, t].m_state = "CANDIDATE_BEST" <=> Rules!Requestable(p, t)
    BY <1>1, <1>3, BestIsRequestable, Zenon
  <1>5. result = rules
    BY <1>3, <1>4, Zenon
  <1>6. result \in SUBSET (Txs \X Txs)
    BY <1>3, Zenon
  <1>7. announced' = announced
    BY <1>1, AnnouncedIs, Zenon
  <1>8. ASSUME call' = [call EXCEPT !.phase = "returned", !.result = rules]
        PROVE  Rules!Return
    BY <1>1, <1>7, <1>8, Zenon DEF Rules!Return
  <1> HIDE DEF result, rules
  <1>9. Rules!Next
    BY <1>2, <1>5, <1>8 DEF Rules!Next
  <1>10. call' \in Calls /\ call'.phase = "returned"
    BY <1>2, <1>6, TypeParts, Zenon DEF IInv, Calls, Phases
  <1>11. IInv'
    BY <1>1, <1>10, TypeParts, IInvNext DEF IInv
  <1> QED BY <1>1, <1>9, <1>11, Zenon DEF Good, RulesStep, StaysOver

-----------------------------------------------------------------------------
\* The invariant and the initial state of the rules hold initially.
LEMMA Initially == Init => IInv /\ Rules!Init
  <1> SUFFICES ASSUME Init PROVE IInv /\ Rules!Init
    BY Zenon
  <1>1. Absent \in Announcement /\ Absent.m_state = "NONE"
    BY OverTyped, Zenon DEF Absent
  <1>2. Typed(m_index) /\ \A x \in Announcements : m_index[x] = Absent /\ ~Tracked(m_index, x)
    BY <1>1, Zenon DEF Init, Typed, Tracked
  <1>3. \A u \in Txs : Sane(m_index, u)
    BY <1>1, <1>2, Zenon DEF Sane, Live, OneSelected, BestSelected, IsSelected, Of
  <1>4. OrderOK(m_index, order)
    BY <1>2, Zenon DEF OrderOK, Init, Announcements
  <1>5. call \in Calls /\ NothingDue
    BY NoCallIs, Zenon DEF Init, NothingDue
  <1>6. IInv
    BY <1>2, <1>3, <1>4, <1>5, TypeParts, Zenon DEF IInv, Typed
  <1>7. announced = [x \in Peers \X Txs |-> Rules!Absent]
    BY <1>2, AnnouncedIs, LiftOver, Zenon DEF Announcements
  <1> QED BY <1>6, <1>7, NoCallIs, Zenon DEF Init, Rules!Init

\* Every step keeps the invariant and is a step of the rules, or none.
LEMMA Step == IInv /\ [Next]_vars => Good
  <1> SUFFICES ASSUME IInv, [Next]_vars PROVE Good
    BY Zenon
  <1>1. ASSUME NEW p \in Peers, NEW t \in Txs, NEW time \in Times,
               NEW preferred \in Preferences[<<p, t>>], ReceivedInv(p, t, preferred, time)
        PROVE  Good
    BY <1>1, ReceivedInvStep, Zenon
  <1>2. ASSUME NEW p \in Peers, NEW t \in Txs, NEW time \in Times, RequestedTx(p, t, time)
        PROVE  Good
    BY <1>2, RequestedTxStep, Zenon
  <1>3. ASSUME NEW p \in Peers, NEW t \in Txs, ReceivedResponse(p, t)
        PROVE  Good
    BY <1>3, ReceivedResponseStep, Zenon
  <1>4. ASSUME NEW p \in Peers, DisconnectedPeer(p)
        PROVE  Good
    BY <1>4, DisconnectedPeerStep, Zenon
  <1>5. ASSUME NEW t \in Txs, ForgetTxHash(t)
        PROVE  Good
    BY <1>5, ForgetTxHashStep, Zenon
  <1>6. ASSUME NEW p \in Peers, NEW now \in Times, GetRequestable(p, now)
        PROVE  Good
    BY <1>6, GetRequestableStep, Zenon
  <1>7. CASE SetTimePoint
    BY <1>7, ForwardStep, ForwardDoneStep, BackwardStep, ReturnStep, Zenon DEF SetTimePoint
  <1>8. CASE UNCHANGED vars
    <2>1. UNCHANGED <<m_index, order, call>>
      BY <1>8, Zenon DEF vars
    <2>2. IInv'
      BY <2>1, Zenon DEF IInv, TypeOK, Typed, NothingDue, Waiting, Sane, Live, OneSelected,
                  BestSelected, Tracked, Priority
    <2>3. announced' = announced
      BY <2>1, AnnouncedIs, Zenon
    <2>4. UNCHANGED Rules!vars
      BY <2>1, <2>3, Zenon DEF Rules!vars
    <2> QED BY <2>1, <2>2, <2>4, Zenon DEF Good, RulesStep, StaysOver
  <1> QED BY <1>1, <1>2, <1>3, <1>4, <1>5, <1>6, <1>7, <1>8, Zenon DEF Next

(***************************************************************************)
(* The inductive invariant: the argument for the theorems that follow.     *)
(***************************************************************************)
THEOREM Invariance == Spec => []IInv
  <1>1. Init => IInv
    BY Initially, Zenon
  <1>2. IInv /\ [Next]_vars => IInv'
    BY Step, Zenon DEF Good
  <1> QED BY <1>1, <1>2, PTL DEF Spec

(***************************************************************************)
(* The index ByPeer always has each announcement once, in one order.       *)
(***************************************************************************)
THEOREM TypeCorrect == Spec => []TypeOK
  <1>1. IInv => TypeOK
    BY Zenon DEF IInv
  <1> QED BY <1>1, Invariance, PTL

(***************************************************************************)
(* What SanityCheck of txrequest.cpp tests holds after every call and in   *)
(* every turn of the loops of SetTimePoint.                                *)
(***************************************************************************)
THEOREM Sanity == Spec => []SanityCheck
  <1>1. IInv => SanityCheck
    BY SaneIsSanityCheck, Zenon DEF IInv
  <1> QED BY <1>1, Invariance, PTL

(***************************************************************************)
(* A transaction is not requested twice from a peer unless the tracker     *)
(* forgot the announcement in between.                                     *)
(***************************************************************************)
THEOREM RequestedOnce == Spec => NeverTwice
  <1> DEFINE Over == \A x \in Announcements :
          /\ m_index[x].m_state = "REQUESTED" =>
                m_index'[x] = m_index[x] \/ m_index'[x].m_state \in {"COMPLETED", "NONE"}
          /\ m_index[x].m_state = "COMPLETED" => m_index'[x].m_state \in {"COMPLETED", "NONE"}
  <1>1. IInv /\ [Next]_vars => [Over]_vars
    BY Step, Zenon DEF Good, StaysOver
  <1> QED BY <1>1, Invariance, PTL DEF Spec, NeverTwice

(***************************************************************************)
(* The tracker implements its rules: GetRequestable returns exactly the    *)
(* transactions for which its peer is the one to ask, chosen afresh among  *)
(* all announcements, in the order they were announced.                    *)
(***************************************************************************)
THEOREM Refinement == Spec => ImplementsRules
  <1>1. Init => Rules!Init
    BY Initially, Zenon
  <1>2. IInv /\ [Next]_vars => [Rules!Next]_(Rules!vars)
    BY Step, Zenon DEF Good, RulesStep
  <1> QED BY <1>1, <1>2, Invariance, PTL DEF Spec, ImplementsRules, Rules!Spec
=============================================================================
