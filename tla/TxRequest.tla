------------------------------ MODULE TxRequest ------------------------------
(***************************************************************************)
(* TxRequestTracker (txrequest.cpp): which transaction to ask which peer   *)
(* for, and when.  Every pair of a peer and a transaction it announced is  *)
(* an announcement in one of five states; the tracker keeps at most one    *)
(* announcement of a transaction selected, that is CANDIDATE_BEST or       *)
(* REQUESTED, and moves the selection with every call.                     *)
(*                                                                         *)
(* The calls come from net_processing.cpp in any order, under cs_main, and *)
(* the clock they pass may go backwards.  GetRequestable is several steps, *)
(* one for each turn of the loops of SetTimePoint; no other call comes     *)
(* between them.                                                           *)
(*                                                                         *)
(* Sequence numbers are only compared for announcements of one peer: the   *)
(* order of these stands for them, and for the order of a list that is     *)
(* sorted by them.  The counters of m_peerinfo are those of the            *)
(* announcements, and left out.                                            *)
(***************************************************************************)
EXTENDS Integers

CONSTANTS
    Peers, Txs,
    Times,       \* the values of the clock, of reqtime and of expiry
    Preferences, \* Preferences[p, t]: the values of preferred that p may announce t with
    HighBit,     \* 2^63, the bit of a priority that is set for preferred peers
    Salted       \* Salted[p, t]: the low bits of the priority

Announcements == Peers \X Txs

ASSUME PriorityAssumption ==
    /\ Peers # {}
    /\ HighBit \in Nat /\ Salted \in [Announcements -> 0 .. HighBit - 1]
    /\ \A t \in Txs : \A p, q \in Peers : Salted[p, t] = Salted[q, t] => p = q
    /\ Times \subseteq Int /\ Preferences \in [Announcements -> SUBSET BOOLEAN]

VARIABLES
    m_index,  \* the announcements
    order,    \* order[p]: <<t, u>> with the m_sequence of t not above that of u
    call      \* the call of GetRequestable in progress, or the last one's result

vars == <<m_index, order, call>>

States == {"CANDIDATE_DELAYED", "CANDIDATE_READY", "CANDIDATE_BEST", "REQUESTED", "COMPLETED"}
Announcement == [m_state : States \cup {"NONE"}, m_time : Times \cup {0}, m_preferred : BOOLEAN]

\* No announcement, and one of which only its state is read again.
Absent == [m_state |-> "NONE", m_time |-> 0, m_preferred |-> FALSE]
Completed == [m_state |-> "COMPLETED", m_time |-> 0, m_preferred |-> FALSE]

Tracked(I, x) == I[x].m_state # "NONE"
IsSelected(a) == a.m_state \in {"CANDIDATE_BEST", "REQUESTED"}
IsWaiting(a) == a.m_state \in {"REQUESTED", "CANDIDATE_DELAYED"}
IsSelectable(a) == a.m_state \in {"CANDIDATE_READY", "CANDIDATE_BEST"}

\* PriorityComputer.
Priority(I, x) == (IF I[x].m_preferred THEN HighBit ELSE 0) + Salted[x]

(***************************************************************************)
(* The place of an announcement in the index ByTxHash, among those of its  *)
(* transaction: by state, the ready ones by priority.                      *)
(***************************************************************************)
Rank(state) ==
    CASE state = "CANDIDATE_DELAYED" -> 0 [] state = "CANDIDATE_READY" -> 1
      [] state = "CANDIDATE_BEST" -> 2 [] state = "REQUESTED" -> 3 [] OTHER -> 4
Key(I, x) ==
    Rank(I[x].m_state) * 2 * HighBit
        + (IF I[x].m_state = "CANDIDATE_READY" THEN Priority(I, x) ELSE 0)

\* The others of its transaction before and after it, and the next ones.
Before(I, x) == {y \in Announcements : y[2] = x[2] /\ Tracked(I, y) /\ Key(I, y) < Key(I, x)}
After(I, x) == {y \in Announcements : y[2] = x[2] /\ Tracked(I, y) /\ Key(I, y) > Key(I, x)}
Prev(I, x) == CHOOSE y \in Before(I, x) : \A z \in Before(I, x) : Key(I, z) <= Key(I, y)
Succ(I, x) == CHOOSE y \in After(I, x) : \A z \in After(I, x) : Key(I, y) <= Key(I, z)

SetState(I, x, state) == [I EXCEPT ![x].m_state = state]

\* Mutant: the announcement that was the best one stays it.
PromoteCandidateReadyBoth(I, x) ==
    LET R == SetState(I, x, "CANDIDATE_READY")
        next == Succ(R, x)
    IN  IF After(R, x) = {} \/ R[next].m_state = "COMPLETED" THEN SetState(R, x, "CANDIDATE_BEST")
        ELSE IF R[next].m_state = "CANDIDATE_BEST" /\ Priority(R, x) > Priority(R, next)
        THEN SetState(R, x, "CANDIDATE_BEST")
        ELSE R

\* PromoteCandidateReady.
PromoteCandidateReady(I, x) ==
    LET R == SetState(I, x, "CANDIDATE_READY")
        next == Succ(R, x)
    IN  IF After(R, x) = {} \/ R[next].m_state = "COMPLETED" THEN SetState(R, x, "CANDIDATE_BEST")
        ELSE IF R[next].m_state = "CANDIDATE_BEST" /\ Priority(R, x) > Priority(R, next)
        THEN SetState(SetState(R, next, "CANDIDATE_READY"), x, "CANDIDATE_BEST")
        ELSE R

\* ChangeAndReselect's first part: what was next to x is the best one now.
Reselect(I, x) ==
    IF IsSelected(I[x]) /\ Before(I, x) # {} /\ I[Prev(I, x)].m_state = "CANDIDATE_READY"
    THEN SetState(I, Prev(I, x), "CANDIDATE_BEST")
    ELSE I

\* IsOnlyNonCompleted: among announcements with equal keys x may be anywhere.
IsOnlyNonCompleted(I, x) ==
    \A y \in Announcements : y[2] = x[2] /\ y # x => I[y].m_state \in {"NONE", "COMPLETED"}

\* MakeCompleted.
MakeCompleted(I, x) ==
    IF I[x].m_state = "COMPLETED" THEN I
    ELSE IF IsOnlyNonCompleted(I, x)
    THEN [y \in Announcements |-> IF y[2] = x[2] THEN Absent ELSE I[y]]
    ELSE [Reselect(I, x) EXCEPT ![x] = Completed]

-----------------------------------------------------------------------------
NoCall == [phase |-> "idle", peer |-> CHOOSE p \in Peers : TRUE, now |-> 0, result |-> {}]
Phases == {"idle", "forward", "backward", "returned"}

\* The announcements that are left, in their order.
Kept(I) ==
    [p \in Peers |-> {r \in order[p] : Tracked(I, <<p, r[1]>>) /\ Tracked(I, <<p, r[2]>>)}]

\* A new announcement is behind the others of its peer.
Appended(p, t) ==
    order[p] \cup {<<u, t>> : u \in {u \in Txs : u = t \/ Tracked(m_index, <<p, u>>)}}

\* A call other than GetRequestable.
Update(I) ==
    /\ call.phase \in {"idle", "returned"}
    /\ m_index' = I /\ order' = Kept(I) /\ call' = NoCall

Init ==
    /\ m_index = [x \in Announcements |-> Absent]
    /\ order = [p \in Peers |-> {}]
    /\ call = NoCall

\* ReceivedInv.
ReceivedInv(p, t, preferred, reqtime) ==
    /\ call.phase \in {"idle", "returned"}
    /\ call' = NoCall
    /\ IF Tracked(m_index, <<p, t>>) THEN UNCHANGED <<m_index, order>>
       ELSE /\ m_index' = [m_index EXCEPT ![<<p, t>>] =
                   [m_state |-> "CANDIDATE_DELAYED", m_time |-> reqtime, m_preferred |-> preferred]]
            /\ order' = [order EXCEPT ![p] = Appended(p, t)]

\* DisconnectedPeer: each of its announcements is completed, then erased.
DisconnectedPeer(p) ==
    Update([x \in Announcements |->
        IF x[1] = p THEN Absent
        ELSE IF Tracked(m_index, <<p, x[2]>>) THEN MakeCompleted(m_index, <<p, x[2]>>)[x]
        ELSE m_index[x]])

\* ForgetTxHash.
ForgetTxHash(t) == Update([x \in Announcements |-> IF x[2] = t THEN Absent ELSE m_index[x]])

\* What RequestedTx does to the announcement of t that is selected.
Unselect(a) ==
    IF a.m_state = "CANDIDATE_BEST" THEN [a EXCEPT !.m_state = "CANDIDATE_READY"]
    ELSE IF a.m_state = "REQUESTED" THEN Completed ELSE a

\* RequestedTx, also of a transaction that GetRequestable did not name.
RequestedTx(p, t, expiry) ==
    Update(IF m_index[p, t].m_state \notin
                  {"CANDIDATE_DELAYED", "CANDIDATE_READY", "CANDIDATE_BEST"}
           THEN m_index
           ELSE [x \in Announcements |->
                    IF x = <<p, t>>
                    THEN [m_index[x] EXCEPT !.m_state = "REQUESTED", !.m_time = expiry]
                    ELSE IF x[2] = t THEN Unselect(m_index[x]) ELSE m_index[x]])

\* ReceivedResponse.
ReceivedResponse(p, t) ==
    Update(IF Tracked(m_index, <<p, t>>) THEN MakeCompleted(m_index, <<p, t>>) ELSE m_index)

-----------------------------------------------------------------------------
(***************************************************************************)
(* GetRequestable                                                          *)
(***************************************************************************)
GetRequestable(p, now) ==
    /\ call.phase \in {"idle", "returned"}
    /\ call' = [phase |-> "forward", peer |-> p, now |-> now, result |-> {}]
    /\ UNCHANGED <<m_index, order>>

Waiting == {x \in Announcements : IsWaiting(m_index[x])}
Selectable == {x \in Announcements : IsSelectable(m_index[x])}

\* The first loop of SetTimePoint, at the first announcement of the index ByTime.
SetTimePointForward ==
    /\ call.phase = "forward"
    /\ \E x \in Waiting :
          /\ \A y \in Waiting : m_index[x].m_time <= m_index[y].m_time
          /\ m_index[x].m_time <= call.now
          /\ m_index' = IF m_index[x].m_state = "CANDIDATE_DELAYED"
                        THEN PromoteCandidateReady(m_index, x) ELSE MakeCompleted(m_index, x)
    /\ order' = Kept(m_index')
    /\ UNCHANGED call

ForwardDone ==
    /\ call.phase = "forward" /\ \A x \in Waiting : m_index[x].m_time > call.now
    /\ call' = [call EXCEPT !.phase = "backward"]
    /\ UNCHANGED <<m_index, order>>

\* Mutant: only a selected announcement is changed.
DemotedSelected(I, x) ==
    IF IsSelected(I[x]) THEN SetState(Reselect(I, x), x, "CANDIDATE_DELAYED") ELSE I

\* ChangeAndReselect to CANDIDATE_DELAYED.
Demoted(I, x) == SetState(Reselect(I, x), x, "CANDIDATE_DELAYED")

\* The second loop, at the last announcement, for a clock that went backwards.
SetTimePointBackward ==
    /\ call.phase = "backward"
    /\ \E x \in Selectable :
          /\ \A y \in Selectable : m_index[y].m_time <= m_index[x].m_time
          /\ m_index[x].m_time > call.now
          /\ m_index' = Demoted(m_index, x)
    /\ UNCHANGED <<order, call>>

\* Mutant: all that are ready are returned.
ReturnReady ==
    /\ call.phase = "backward" /\ \A x \in Selectable : m_index[x].m_time <= call.now
    /\ call' = [call EXCEPT
           !.phase = "returned",
           !.result = {r \in order[call.peer] : \A t \in {r[1], r[2]} :
                          IsSelectable(m_index[call.peer, t])}]
    /\ UNCHANGED <<m_index, order>>

\* The best candidates of the peer, in the order it announced them.
Return ==
    /\ call.phase = "backward" /\ \A x \in Selectable : m_index[x].m_time <= call.now
    /\ call' = [call EXCEPT
           !.phase = "returned",
           !.result = {r \in order[call.peer] : \A t \in {r[1], r[2]} :
                          m_index[call.peer, t].m_state = "CANDIDATE_BEST"}]
    /\ UNCHANGED <<m_index, order>>

SetTimePoint == SetTimePointForward \/ ForwardDone \/ SetTimePointBackward \/ Return

Next ==
    \/ \E p \in Peers, t \in Txs, time \in Times :
          \/ \E preferred \in Preferences[p, t] : ReceivedInv(p, t, preferred, time)
          \/ RequestedTx(p, t, time)
    \/ \E p \in Peers, t \in Txs : ReceivedResponse(p, t)
    \/ \E p \in Peers : DisconnectedPeer(p)
    \/ \E t \in Txs : ForgetTxHash(t)
    \/ \E p \in Peers, now \in Times : GetRequestable(p, now)
    \/ SetTimePoint

\* A call that was made runs to its end.
Spec == Init /\ [][Next]_vars /\ WF_vars(SetTimePoint)

-----------------------------------------------------------------------------
(***************************************************************************)
(* Announcements have their type, and the order of a peer's is a total     *)
(* order: the index ByPeer has each of them once.                          *)
(***************************************************************************)
TypeOK ==
    /\ m_index \in [Announcements -> Announcement]
    /\ order \in [Peers -> SUBSET (Txs \X Txs)]
    /\ \A p \in Peers, t, u \in Txs :
          /\ <<t, u>> \in order[p] \/ <<u, t>> \in order[p]
                <=> Tracked(m_index, <<p, t>>) /\ Tracked(m_index, <<p, u>>)
          /\ <<t, u>> \in order[p] /\ <<u, t>> \in order[p] => t = u
    /\ call \in [phase : Phases, peer : Peers, now : Times \cup {0}, result : SUBSET (Txs \X Txs)]

(***************************************************************************)
(* SanityCheck, which the code only runs in tests: a transaction with      *)
(* announcements has one that is not COMPLETED, at most one that is        *)
(* selected, and one if any is ready, and none that is ready is better     *)
(* than the CANDIDATE_BEST.  It holds inside GetRequestable too.           *)
(***************************************************************************)
SanityCheck ==
    \A x \in Announcements :
        /\ Tracked(m_index, x) => \E y \in Announcements :
              y[2] = x[2] /\ m_index[y].m_state \notin {"NONE", "COMPLETED"}
        /\ \A y \in Announcements :
              y[2] = x[2] /\ IsSelected(m_index[x]) /\ IsSelected(m_index[y]) => x = y
        /\ m_index[x].m_state = "CANDIDATE_READY" => \E y \in Announcements :
              /\ y[2] = x[2] /\ IsSelected(m_index[y])
              /\ m_index[y].m_state = "CANDIDATE_BEST" => Priority(m_index, x) < Priority(m_index, y)

(***************************************************************************)
(* The five states and the incremental choice of the best candidate        *)
(* implement the three states and the choice made afresh that the class    *)
(* promises: in particular GetRequestable returns exactly the transactions *)
(* to ask its peer for, in the order they were announced, whatever calls   *)
(* came before and wherever the clock went.                                *)
(***************************************************************************)
announced ==
    [x \in Announcements |->
        [state |-> IF m_index[x].m_state \in {"CANDIDATE_DELAYED", "CANDIDATE_READY", "CANDIDATE_BEST"}
                   THEN "CANDIDATE" ELSE m_index[x].m_state,
         time |-> m_index[x].m_time, preferred |-> m_index[x].m_preferred]]
Rules == INSTANCE TxRequestRules
ImplementsRules == Rules!Spec

(***************************************************************************)
(* The same transaction is not requested twice from the same peer unless   *)
(* its announcement was forgotten in between: a requested announcement can *)
(* only be completed, and a completed one only be forgotten.               *)
(***************************************************************************)
NeverTwice ==
    [][\A x \in Announcements :
          /\ m_index[x].m_state = "REQUESTED" =>
                m_index'[x] = m_index[x] \/ m_index'[x].m_state \in {"COMPLETED", "NONE"}
          /\ m_index[x].m_state = "COMPLETED" => m_index'[x].m_state \in {"COMPLETED", "NONE"}]_vars

\* The loops of SetTimePoint end, although each turn may move the selection.
Returns == call.phase = "forward" ~> call.phase = "returned"
=============================================================================
