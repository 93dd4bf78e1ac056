--------------------------- MODULE TxRequestRules ---------------------------
(***************************************************************************)
(* What TxRequestTracker promises its callers (the class in txrequest.h):  *)
(* announcements are candidates, requested or completed, and who is asked  *)
(* for a transaction is decided afresh when GetRequestable returns.        *)
(***************************************************************************)
EXTENDS Integers

CONSTANTS Peers, Txs, Times, Preferences, HighBit, Salted

VARIABLES
    announced,
    order,  \* order[p]: <<t, u>> with t not announced after u by p
    call    \* GetRequestable in progress; its result is ordered like the announcements
vars == <<announced, order, call>>

Absent == [state |-> "NONE", time |-> 0, preferred |-> FALSE]
Completed == [state |-> "COMPLETED", time |-> 0, preferred |-> FALSE]
NoCall == [phase |-> "idle", peer |-> CHOOSE p \in Peers : TRUE, now |-> 0, result |-> {}]

Init ==
    /\ announced = [x \in Peers \X Txs |-> Absent]
    /\ order = [p \in Peers |-> {}]
    /\ call = NoCall

\* If only completed announcements of a transaction remain, they are forgotten.
Tidy(A) ==
    [x \in Peers \X Txs |->
        IF \A p \in Peers : A[p, x[2]].state \in {"NONE", "COMPLETED"} THEN Absent ELSE A[x]]

Kept(A) ==
    [p \in Peers |-> {r \in order[p] : A[p, r[1]].state # "NONE" /\ A[p, r[2]].state # "NONE"}]

Becomes(A) == announced' = Tidy(A) /\ order' = Kept(announced')
Update(A) == call.phase \in {"idle", "returned"} /\ call' = NoCall /\ Becomes(A)

ReceivedInv(p, t, preferred, reqtime) ==
    /\ call.phase \in {"idle", "returned"} /\ call' = NoCall
    /\ IF announced[p, t].state # "NONE" THEN UNCHANGED <<announced, order>>
       ELSE /\ announced' = [announced EXCEPT ![<<p, t>>] =
                   [state |-> "CANDIDATE", time |-> reqtime, preferred |-> preferred]]
            /\ order' = [order EXCEPT ![p] =
                   @ \cup {<<u, t>> : u \in {u \in Txs : u = t \/ announced[p, u].state # "NONE"}}]

DisconnectedPeer(p) ==
    Update([x \in Peers \X Txs |-> IF x[1] = p THEN Absent ELSE announced[x]])

ForgetTxHash(t) ==
    Update([x \in Peers \X Txs |-> IF x[2] = t THEN Absent ELSE announced[x]])

\* An earlier request of the same transaction is given up.
RequestedTx(p, t, expiry) ==
    Update(IF announced[p, t].state # "CANDIDATE" THEN announced
           ELSE [x \in Peers \X Txs |->
                    IF x = <<p, t>>
                    THEN [announced[x] EXCEPT !.state = "REQUESTED", !.time = expiry]
                    ELSE IF x[2] = t /\ announced[x].state = "REQUESTED" THEN Completed
                    ELSE announced[x]])

ReceivedResponse(p, t) ==
    Update(IF announced[p, t].state = "NONE" THEN announced
           ELSE [announced EXCEPT ![<<p, t>>] = Completed])

GetRequestable(p, now) ==
    /\ call.phase \in {"idle", "returned"}
    /\ call' = [phase |-> "forward", peer |-> p, now |-> now, result |-> {}]
    /\ UNCHANGED <<announced, order>>

Expired == {x \in Peers \X Txs : announced[x].state = "REQUESTED" /\ announced[x].time <= call.now}

\* Requests whose time has passed are completed, one after the other.
Expire ==
    /\ call.phase = "forward"
    /\ \E x \in Expired : Becomes([announced EXCEPT ![x] = Completed])
    /\ UNCHANGED call

ExpireDone ==
    /\ call.phase = "forward" /\ Expired = {}
    /\ call' = [call EXCEPT !.phase = "backward"]
    /\ UNCHANGED <<announced, order>>

(***************************************************************************)
(* The peer to ask for t: nobody else is asked already, and of those that  *)
(* may be asked now it is the best, a preferred one before any other.      *)
(***************************************************************************)
Priority(p, t) == (IF announced[p, t].preferred THEN HighBit ELSE 0) + Salted[p, t]
Ready(p, t) == announced[p, t].state = "CANDIDATE" /\ announced[p, t].time <= call.now
Requestable(p, t) ==
    /\ Ready(p, t)
    /\ \A q \in Peers : announced[q, t].state # "REQUESTED"
    /\ \A q \in Peers : Ready(q, t) => Priority(q, t) <= Priority(p, t)

Return ==
    /\ call.phase = "backward"
    /\ call' = [call EXCEPT
           !.phase = "returned",
           !.result = {r \in order[call.peer] : \A t \in {r[1], r[2]} : Requestable(call.peer, t)}]
    /\ UNCHANGED <<announced, order>>

Next ==
    \/ \E p \in Peers, t \in Txs, time \in Times :
          \/ \E preferred \in Preferences[p, t] : ReceivedInv(p, t, preferred, time)
          \/ RequestedTx(p, t, time)
    \/ \E p \in Peers, t \in Txs : ReceivedResponse(p, t)
    \/ \E p \in Peers : DisconnectedPeer(p)
    \/ \E t \in Txs : ForgetTxHash(t)
    \/ \E p \in Peers, now \in Times : GetRequestable(p, now)
    \/ Expire \/ ExpireDone \/ Return

Spec == Init /\ [][Next]_vars
=============================================================================
