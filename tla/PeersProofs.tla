---------------------------- MODULE PeersProofs -----------------------------
(***************************************************************************)
(* What the code that deals with peers keeps, for any number of peers and  *)
(* transactions: a node is not used after its deletion, and an orphan      *)
(* transaction that can be judged is queued to be judged.                  *)
(***************************************************************************)
EXTENDS Connections, OrphanPool, FiniteSetTheorems, TLAPS

-----------------------------------------------------------------------------
(***************************************************************************)
(* Safety of the life of a CNode for any number of nodes, slots and        *)
(* messages.  A node is deleted by the thread that finds its reference     *)
(* count zero.  That this is safe rests on the count being exact at every  *)
(* moment, which rests on where each of the two loops holds its copy.      *)
(***************************************************************************)

\* Who may hold what: the loops hold references only between taking and
\* releasing their copy, a node that is being opened is known to the opening
\* thread alone, and after Stop no thread is left.
Held ==
    /\ netAt \in {"disconnect", "delete", "accept"} => netCopy = {}
    /\ msgAt \in {"pass", "wait", "asleep"} => msgCopy = {}
    /\ (netCopy \cup msgCopy) \cap made = {}
    /\ opener # "made" => made = {}
    /\ stopAt = "stopped" => opener = "exit" /\ netAt = "exit" /\ msgAt = "exit"

\* A node that is not connected has no message.
Fresh == \A n \in made \cup freed : vProcessMsg[n] = 0

\* While the message thread is between taking its copy and sleeping, a message
\* of a node that it has passed is seen to: the thread will not sleep, or the
\* node is one that it may leave alone.
Attended ==
    msgAt \in {"visit", "wait", "asleep"} =>
        \A n \in vNodes \ msgTodo : vProcessMsg[n] > 0 =>
            \/ fDisconnect[n] \/ fPauseSend[n] \/ n \in drained
            \/ fMsgProcWake \/ netAt = "wake"
            \/ fMoreWork /\ msgAt # "asleep"

IInv ==
    /\ ConnectionsTypeOK /\ NoUseAfterDelete /\ RefCountExact /\ NoNodeLeaks /\ Held
    /\ OutboundSlots /\ PauseExact /\ Fresh /\ Attended
-----------------------------------------------------------------------------
(* Counting grants.                                                         *)

\* The grants held by some nodes are a number.
LEMMA GrantsType ==
    ASSUME NEW N \in SUBSET Nodes
    PROVE  IsFiniteSet(N \cap Outbound) /\ Grants(N) \in Nat
  <1>1. N \cap Outbound \in SUBSET Nodes
    BY Zenon
  <1>2. IsFiniteSet(N \cap Outbound)
    BY <1>1, ConnectionsAssumption, FS_Subset
  <1> QED
    BY <1>2, FS_CardinalityType, Zenon DEF Grants

\* Taking some nodes away takes away the grants they hold.
LEMMA GrantsSplit ==
    ASSUME NEW N \in SUBSET Nodes, NEW G \in SUBSET N
    PROVE  Grants(N) = Grants(N \ G) + Grants(G)
  <1> DEFINE A == (N \ G) \cap Outbound
             B == G \cap Outbound
  <1>1. IsFiniteSet(A) /\ IsFiniteSet(B) /\ Grants(N \ G) \in Nat /\ Grants(G) \in Nat
    BY GrantsType, Zenon
  <1>2. A \cap B = {} /\ A \cup B = N \cap Outbound
    BY Zenon
  <1>3. Cardinality(A \cup B) = Cardinality(A) + Cardinality(B) - Cardinality(A \cap B)
    <2> HIDE DEF A, B
    <2> QED BY <1>1, FS_Union, Zenon
  <1>4. Cardinality(A \cap B) = 0
    BY <1>2, FS_EmptySet, Zenon
  <1>5. Grants(N) = Cardinality(A \cup B) /\ Grants(N \ G) = Cardinality(A)
        /\ Grants(G) = Cardinality(B)
    BY <1>2, Zenon DEF Grants
  <1> HIDE DEF A, B
  <1> QED
    BY <1>1, <1>3, <1>4, <1>5

\* A new outbound node holds one.
LEMMA GrantsAdd ==
    ASSUME NEW N \in SUBSET Nodes, NEW n \in Outbound \ N
    PROVE  Grants(N \cup {n}) = Grants(N) + 1
  <1>1. IsFiniteSet(N \cap Outbound)
    BY GrantsType, Zenon
  <1>2. (N \cup {n}) \cap Outbound = (N \cap Outbound) \cup {n} /\ n \notin N \cap Outbound
    OBVIOUS
  <1> QED
    BY <1>1, <1>2, FS_AddElement, Zenon DEF Grants

\* Counts of references stay integers.
LEMMA RefsType ==
    ASSUME nRefCount \in [Nodes -> Int], NEW N, AddRef(N) \/ Release(N)
    PROVE  nRefCount' \in [Nodes -> Int]
  <1>1. \A k \in Int, d \in {0, 1} : k + d \in Int /\ k - d \in Int
    OBVIOUS
  <1> QED
    BY <1>1, Zenon DEF AddRef, Release

-----------------------------------------------------------------------------
(* One step.                                                                *)

\* Every step keeps the types.
LEMMA TypeStep ==
    ASSUME ConnectionsTypeOK, [ConnectionsNext]_connVars
    PROVE  ConnectionsTypeOK'
  <1> USE ConnectionsAssumption DEF ConnectionsTypeOK, Nodes, listVars, nodeVars,
      fieldVars, netVars, msgVars, stopVars
  <1>1. CASE Acquire
    BY <1>1 DEF Acquire
  <1>2. CASE GiveUp
    BY <1>2 DEF GiveUp
  <1>3. ASSUME NEW n \in Outbound, ConnectNode(n) PROVE ConnectionsTypeOK'
    BY <1>3 DEF ConnectNode, AddRef
  <1>4. CASE Push
    BY <1>4 DEF Push
  <1>5. CASE OpenerExit
    BY <1>5 DEF OpenerExit
  <1>6. CASE NetDisconnect
    <2>1. Grants({n \in vNodes : fDisconnect[n]}) \in Nat
      BY GrantsType, Zenon
    <2> QED
      BY <1>6, <2>1 DEF NetDisconnect, DisconnectUnusedNodes, Release
  <1>7. CASE NetDelete
    BY <1>7 DEF NetDelete, DeleteDisconnectedNodes, DeleteNode
  <1>8. ASSUME NEW n \in Inbound, AcceptConnection(n) PROVE ConnectionsTypeOK'
    BY <1>8 DEF AcceptConnection, AddRef, Flag
  <1>9. CASE NetTakeCopy
    BY <1>9 DEF NetTakeCopy, AddRef
  <1>10. ASSUME NEW n \in Nodes, Service(n) PROVE ConnectionsTypeOK'
    <2>1. CASE Receive(n)
      <3>1. (vProcessMsg[n] + 1 > nReceiveFloodSize) \in BOOLEAN
        OBVIOUS
      <3>2. fPauseRecv' \in [Nodes -> BOOLEAN]
        BY <2>1, <3>1, Zenon DEF Receive
      <3> QED
        BY <1>10, <2>1, <3>2 DEF Service, Receive
    <2>2. CASE Drain(n)
      BY <1>10, <2>2 DEF Service, Drain
    <2>3. CASE Hangup(n)
      BY <1>10, <2>3 DEF Service, Hangup, Flag
    <2>4. CASE Quiet
      BY <1>10, <2>4 DEF Service, Quiet
    <2> QED
      BY <1>10, <2>1, <2>2, <2>3, <2>4, Zenon DEF Service
  <1>11. CASE WakeMessageHandler
    BY <1>11 DEF WakeMessageHandler
  <1>12. CASE NetInterrupted
    BY <1>12 DEF NetInterrupted
  <1>13. CASE NetReduce
    <2>1. Grants({n \in vNodes : fDisconnect[n]}) \in Nat
      BY GrantsType, Zenon
    <2>2. CASE netAt = "service" /\ netAt' = "reduce" /\ DisconnectUnusedNodes
      <3>1. \A i, j \in Nat : i + j \in Nat
        OBVIOUS
      <3>2. nRefCount' \in [Nodes -> Int] /\ semOutbound' \in Nat
        BY <2>1, <2>2, <3>1, RefsType, Zenon DEF DisconnectUnusedNodes
      <3> QED
        BY <1>13, <2>2, <3>2 DEF NetReduce, DisconnectUnusedNodes
    <2>3. CASE netAt = "reduce" /\ netAt' = "evict" /\ DeleteDisconnectedNodes
      BY <1>13, <2>3 DEF NetReduce, DeleteDisconnectedNodes, DeleteNode
    <2>4. CASE netAt = "evict"
      <3>1. PICK E \in Evictions : Flag(E)
        BY <1>13, <2>4, Zenon DEF NetReduce
      <3> QED
        BY <1>13, <2>4, <3>1 DEF NetReduce, Flag
    <2> QED
      BY <1>13, <2>2, <2>3, <2>4, Zenon DEF NetReduce
  <1>14. CASE NetRelease
    <2>1. nRefCount' \in [Nodes -> Int]
      BY <1>14, RefsType, Zenon DEF NetRelease
    <2> QED
      BY <1>14, <2>1 DEF NetRelease
  <1>15. CASE MsgTakeCopy
    <2>1. fMoreWork' \in BOOLEAN
      BY <1>15, Zenon DEF MsgTakeCopy
    <2>2. nRefCount' \in [Nodes -> Int]
      BY <1>15, RefsType, Zenon DEF MsgTakeCopy
    <2> QED
      BY <1>15, <2>1, <2>2, Zenon DEF MsgTakeCopy
  <1>16. ASSUME NEW n \in Nodes, MsgSkip(n) PROVE ConnectionsTypeOK'
    BY <1>16 DEF MsgSkip
  <1>17. ASSUME NEW n \in Nodes, MsgVisit(n) PROVE ConnectionsTypeOK'
    <2>1. PICK full \in BOOLEAN, filled \in BOOLEAN, ends \in BOOLEAN :
             /\ fPauseSend' = [fPauseSend EXCEPT ![n] = @ \/ full \/ filled]
             /\ Flag(IF ends THEN {n} ELSE {})
             /\ fMoreWork' = (fMoreWork \/ ((vProcessMsg[n] > 0 /\ ~fPauseSend[n])
                                              /\ vProcessMsg[n] > 1 /\ ~full))
      BY <1>17, Zenon DEF MsgVisit
    <2>2. fMoreWork' \in BOOLEAN
      BY <2>1, Zenon
    <2>3. fPauseSend' \in [Nodes -> BOOLEAN]
      <3>1. (fPauseSend[n] \/ full \/ filled) \in BOOLEAN
        BY Zenon
      <3> QED
        BY <2>1, <3>1, Zenon
    <2>4. fPauseRecv' \in [Nodes -> BOOLEAN]
      <3>1. PausedAfterTaking(n) \in BOOLEAN
        BY DEF PausedAfterTaking
      <3>2. fPauseRecv[n] \in BOOLEAN
        BY Zenon
      <3> QED
        BY <1>17, <3>1, <3>2, Zenon DEF MsgVisit
    <2> QED
      BY <1>17, <2>1, <2>2, <2>3, <2>4 DEF MsgVisit, Flag
  <1>18. CASE MsgRelease
    BY <1>18 DEF MsgRelease, Release
  <1>19. CASE MsgWait
    <2>1. fMsgProcWake' \in BOOLEAN
      BY <1>19, Zenon DEF MsgWait
    <2> QED
      BY <1>19, <2>1 DEF MsgWait
  <1>20. CASE MsgAwake
    <2>1. fMsgProcWake' \in BOOLEAN
      BY <1>20, Zenon DEF MsgAwake
    <2> QED
      BY <1>20, <2>1 DEF MsgAwake
  <1>21. CASE MsgExit
    BY <1>21 DEF MsgExit
  <1>22. ASSUME NEW n \in Nodes, DisconnectNode(n) PROVE ConnectionsTypeOK'
    BY <1>22 DEF DisconnectNode, Flag
  <1>23. CASE InterruptMsgProc
    BY <1>23 DEF InterruptMsgProc
  <1>24. CASE InterruptNet
    BY <1>24 DEF InterruptNet
  <1>25. CASE Stop
    BY <1>25, Zenon DEF Stop, DeleteNode
  <1>26. CASE UNCHANGED connVars
    BY <1>26 DEF connVars
  <1> QED
    BY <1>1, <1>2, <1>3, <1>4, <1>5, <1>6, <1>7, <1>8, <1>9, <1>10, <1>11, <1>12, <1>13,
        <1>14, <1>15, <1>16, <1>17, <1>18, <1>19, <1>20, <1>21, <1>22, <1>23, <1>24,
        <1>25, <1>26, Zenon
    DEF ConnectionsNext, OpenerStep, NetStep, MsgStep, ConnectionsStopped

\* Every step keeps the lists disjoint and without deleted nodes.
LEMMA ListsStep ==
    ASSUME ConnectionsTypeOK, NoUseAfterDelete, NoNodeLeaks, Held, RefCountExact,
        [ConnectionsNext]_connVars
    PROVE  (NoUseAfterDelete /\ NoNodeLeaks /\ Held)'
  <1> USE ConnectionsAssumption DEF ConnectionsTypeOK, NoUseAfterDelete, NoNodeLeaks,
      Held, RefCountExact, Nodes, listVars, nodeVars, fieldVars, netVars, msgVars,
      stopVars
  <1>1. CASE Acquire
    BY <1>1, Zenon DEF Acquire
  <1>2. CASE GiveUp
    BY <1>2, Zenon DEF GiveUp
  <1>3. ASSUME NEW n \in Outbound, ConnectNode(n) PROVE (NoUseAfterDelete /\ NoNodeLeaks /\ Held)'
    BY <1>3 DEF ConnectNode, AddRef
  <1>4. CASE Push
    BY <1>4 DEF Push
  <1>5. CASE OpenerExit
    BY <1>5, Zenon DEF OpenerExit
  <1>6. CASE NetDisconnect
    BY <1>6, Zenon DEF NetDisconnect, DisconnectUnusedNodes, Release
  <1>7. CASE NetDelete
    BY <1>7 DEF NetDelete, DeleteDisconnectedNodes, DeleteNode
  <1>8. ASSUME NEW n \in Inbound, AcceptConnection(n) PROVE (NoUseAfterDelete /\ NoNodeLeaks /\ Held)'
    BY <1>8 DEF AcceptConnection, AddRef, Flag
  <1>9. CASE NetTakeCopy
    BY <1>9, Zenon DEF NetTakeCopy, AddRef
  <1>10. ASSUME NEW n \in Nodes, Service(n) PROVE (NoUseAfterDelete /\ NoNodeLeaks /\ Held)'
    BY <1>10, Zenon DEF Service, Receive, Drain, Hangup, Quiet, Flag
  <1>11. CASE WakeMessageHandler
    BY <1>11, Zenon DEF WakeMessageHandler
  <1>12. CASE NetInterrupted
    BY <1>12, Zenon DEF NetInterrupted
  <1>13. CASE NetReduce
    BY <1>13 DEF NetReduce, DisconnectUnusedNodes, DeleteDisconnectedNodes, DeleteNode,
        Release, Flag
  <1>14. CASE NetRelease
    BY <1>14, Zenon DEF NetRelease, Release
  <1>15. CASE MsgTakeCopy
    BY <1>15, Zenon DEF MsgTakeCopy, AddRef
  <1>16. ASSUME NEW n \in Nodes, MsgSkip(n) PROVE (NoUseAfterDelete /\ NoNodeLeaks /\ Held)'
    BY <1>16, Zenon DEF MsgSkip
  <1>17. ASSUME NEW n \in Nodes, MsgVisit(n) PROVE (NoUseAfterDelete /\ NoNodeLeaks /\ Held)'
    BY <1>17, Zenon DEF MsgVisit, PausedAfterTaking, Flag
  <1>18. CASE MsgRelease
    BY <1>18, Zenon DEF MsgRelease, Release
  <1>19. CASE MsgWait
    BY <1>19, Zenon DEF MsgWait
  <1>20. CASE MsgAwake
    BY <1>20, Zenon DEF MsgAwake
  <1>21. CASE MsgExit
    BY <1>21, Zenon DEF MsgExit
  <1>22. ASSUME NEW n \in Nodes, DisconnectNode(n) PROVE (NoUseAfterDelete /\ NoNodeLeaks /\ Held)'
    BY <1>22, Zenon DEF DisconnectNode, Flag
  <1>23. CASE InterruptMsgProc
    BY <1>23, Zenon DEF InterruptMsgProc
  <1>24. CASE InterruptNet
    BY <1>24, Zenon DEF InterruptNet
  <1>25. CASE Stop
    BY <1>25 DEF Stop, DeleteNode
  <1>26. CASE UNCHANGED connVars
    BY <1>26, Zenon DEF connVars
  <1> QED
    BY <1>1, <1>2, <1>3, <1>4, <1>5, <1>6, <1>7, <1>8, <1>9, <1>10, <1>11, <1>12, <1>13,
        <1>14, <1>15, <1>16, <1>17, <1>18, <1>19, <1>20, <1>21, <1>22, <1>23, <1>24,
        <1>25, <1>26, Zenon
    DEF ConnectionsNext, OpenerStep, NetStep, MsgStep, ConnectionsStopped

\* Every step keeps the count of references.
LEMMA RefsStep ==
    ASSUME ConnectionsTypeOK, NoUseAfterDelete, NoNodeLeaks, Held, RefCountExact,
        [ConnectionsNext]_connVars
    PROVE  RefCountExact'
  <1> USE ConnectionsAssumption DEF ConnectionsTypeOK, NoUseAfterDelete, NoNodeLeaks,
      Held, RefCountExact, Nodes, listVars, nodeVars, fieldVars, netVars, msgVars,
      stopVars
  <1>1. CASE Acquire
    BY <1>1, Zenon DEF Acquire
  <1>2. CASE GiveUp
    BY <1>2, Zenon DEF GiveUp
  <1>3. ASSUME NEW n \in Outbound, ConnectNode(n) PROVE RefCountExact'
    BY <1>3 DEF ConnectNode, AddRef
  <1>4. CASE Push
    BY <1>4, Zenon DEF Push
  <1>5. CASE OpenerExit
    BY <1>5, Zenon DEF OpenerExit
  <1>6. CASE NetDisconnect
    BY <1>6 DEF NetDisconnect, DisconnectUnusedNodes, Release
  <1>7. CASE NetDelete
    BY <1>7, Zenon DEF NetDelete, DeleteDisconnectedNodes, DeleteNode
  <1>8. ASSUME NEW n \in Inbound, AcceptConnection(n) PROVE RefCountExact'
    BY <1>8 DEF AcceptConnection, AddRef, Flag
  <1>9. CASE NetTakeCopy
    BY <1>9 DEF NetTakeCopy, AddRef
  <1>10. ASSUME NEW n \in Nodes, Service(n) PROVE RefCountExact'
    BY <1>10, Zenon DEF Service, Receive, Drain, Hangup, Quiet, Flag
  <1>11. CASE WakeMessageHandler
    BY <1>11, Zenon DEF WakeMessageHandler
  <1>12. CASE NetInterrupted
    BY <1>12, Zenon DEF NetInterrupted
  <1>13. CASE NetReduce
    <2>1. CASE netAt = "service" /\ netAt' = "reduce" /\ DisconnectUnusedNodes
      BY <1>13, <2>1 DEF NetReduce, DisconnectUnusedNodes, Release
    <2>2. CASE netAt = "reduce" /\ netAt' = "evict" /\ DeleteDisconnectedNodes
      BY <1>13, <2>2, Zenon DEF NetReduce, DeleteDisconnectedNodes, DeleteNode
    <2>3. CASE netAt = "evict"
      BY <1>13, <2>3, Zenon DEF NetReduce, Flag
    <2> QED
      BY <1>13, <2>1, <2>2, <2>3, Zenon DEF NetReduce
  <1>14. CASE NetRelease
    BY <1>14 DEF NetRelease, Release
  <1>15. CASE MsgTakeCopy
    BY <1>15 DEF MsgTakeCopy, AddRef
  <1>16. ASSUME NEW n \in Nodes, MsgSkip(n) PROVE RefCountExact'
    BY <1>16, Zenon DEF MsgSkip
  <1>17. ASSUME NEW n \in Nodes, MsgVisit(n) PROVE RefCountExact'
    BY <1>17, Zenon DEF MsgVisit, PausedAfterTaking, Flag
  <1>18. CASE MsgRelease
    BY <1>18 DEF MsgRelease, Release
  <1>19. CASE MsgWait
    BY <1>19, Zenon DEF MsgWait
  <1>20. CASE MsgAwake
    BY <1>20, Zenon DEF MsgAwake
  <1>21. CASE MsgExit
    BY <1>21, Zenon DEF MsgExit
  <1>22. ASSUME NEW n \in Nodes, DisconnectNode(n) PROVE RefCountExact'
    BY <1>22, Zenon DEF DisconnectNode, Flag
  <1>23. CASE InterruptMsgProc
    BY <1>23, Zenon DEF InterruptMsgProc
  <1>24. CASE InterruptNet
    BY <1>24, Zenon DEF InterruptNet
  <1>25. CASE Stop
    BY <1>25, Zenon DEF Stop, DeleteNode
  <1>26. CASE UNCHANGED connVars
    BY <1>26, Zenon DEF connVars
  <1> QED
    BY <1>1, <1>2, <1>3, <1>4, <1>5, <1>6, <1>7, <1>8, <1>9, <1>10, <1>11, <1>12, <1>13,
        <1>14, <1>15, <1>16, <1>17, <1>18, <1>19, <1>20, <1>21, <1>22, <1>23, <1>24,
        <1>25, <1>26, Zenon
    DEF ConnectionsNext, OpenerStep, NetStep, MsgStep, ConnectionsStopped

\* Disconnecting returns the slots of the nodes that are dropped.
LEMMA Dropped ==
    ASSUME ConnectionsTypeOK, NoNodeLeaks, OutboundSlots, DisconnectUnusedNodes,
           UNCHANGED <<opener, stopAt>>
    PROVE  OutboundSlots'
  <1> DEFINE gone == {n \in vNodes : fDisconnect[n]}
             all == vNodes \cup made
  <1>1. all \in SUBSET Nodes /\ gone \in SUBSET all
    BY Zenon DEF ConnectionsTypeOK, Nodes
  <1>2. Grants(all) = Grants(all \ gone) + Grants(gone)
    BY <1>1, GrantsSplit, Zenon
  <1>3. vNodes' \cup made' = all \ gone
    BY Zenon DEF DisconnectUnusedNodes, NoNodeLeaks
  <1>4. Grants(all \ gone) \in Nat /\ Grants(gone) \in Nat /\ semOutbound \in Nat
    BY <1>1, GrantsType, Zenon DEF ConnectionsTypeOK
  <1>5. semOutbound' = semOutbound + Grants(gone)
    BY Zenon DEF DisconnectUnusedNodes
  <1> HIDE DEF gone, all
  <1>6. stopAt = "running" =>
           semOutbound + Grants(all) + (IF opener = "grant" THEN 1 ELSE 0) = nMaxGrants
    BY Zenon DEF OutboundSlots, all
  <1>7. Grants(vNodes \cup made)' = Grants(all \ gone)
    BY <1>3, Zenon DEF Grants
  <1> QED
    BY <1>2, <1>4, <1>5, <1>6, <1>7 DEF OutboundSlots

\* Every step keeps the count of slots.
LEMMA SlotsStep ==
    ASSUME ConnectionsTypeOK, NoUseAfterDelete, NoNodeLeaks, Held, OutboundSlots,
        [ConnectionsNext]_connVars
    PROVE  OutboundSlots'
  <1>0. Grants(vNodes \cup made) \in Nat /\ semOutbound \in Nat
    BY GrantsType, Zenon DEF ConnectionsTypeOK, Nodes
  <1>1. ASSUME UNCHANGED <<vNodes, made, semOutbound, opener, stopAt>> PROVE OutboundSlots'
    BY <1>1, Zenon DEF OutboundSlots, Grants
  <1>2. ASSUME UNCHANGED <<vNodes, made, stopAt>>,
               \/ opener # "grant" /\ opener' = "grant" /\ semOutbound' = semOutbound - 1
               \/ opener = "grant" /\ opener' # "grant" /\ semOutbound' = semOutbound + 1
               \/ opener # "grant" /\ opener' # "grant" /\ semOutbound' = semOutbound
        PROVE  OutboundSlots'
    <2>1. Grants(vNodes' \cup made') = Grants(vNodes \cup made)
      BY <1>2, Zenon
    <2> QED
      BY <1>0, <1>2, <2>1 DEF OutboundSlots
  <1>3. ASSUME NEW n \in Outbound, ConnectNode(n) PROVE OutboundSlots'
    <2>1. made = {} /\ n \notin vNodes
      BY <1>3, Zenon DEF ConnectNode, Held, NoUseAfterDelete
    <2>2. Grants(vNodes \cup {n}) = Grants(vNodes \cup made) + 1
      BY <2>1, GrantsAdd, Zenon DEF ConnectionsTypeOK, Nodes
    <2>3. /\ made' = {n} /\ vNodes' = vNodes /\ opener = "grant" /\ opener' = "made"
          /\ UNCHANGED <<semOutbound, stopAt>>
      BY <1>3, Zenon DEF ConnectNode, stopVars
    <2> QED
      BY <1>0, <2>2, <2>3, ConnectionsAssumption DEF OutboundSlots
  <1>4. CASE Push
    <2>1. vNodes' \cup made' = vNodes \cup made
      BY <1>4, Zenon DEF Push
    <2>2. Grants(vNodes' \cup made') = Grants(vNodes \cup made)
      BY <2>1, Zenon
    <2> QED
      BY <1>4, <2>2, Zenon DEF Push, OutboundSlots, stopVars
  <1>5. CASE Acquire \/ GiveUp \/ OpenerExit
    BY <1>2, <1>5, Zenon DEF Acquire, GiveUp, OpenerExit, listVars, stopVars
  <1>6. ASSUME NEW n \in Inbound, AcceptConnection(n) PROVE OutboundSlots'
    <2>1. vNodes' = vNodes \cup {n} /\ made' = made
      BY <1>6, Zenon DEF AcceptConnection
    <2>2. (vNodes' \cup made') \cap Outbound = (vNodes \cup made) \cap Outbound
      BY <2>1, ConnectionsAssumption, Zenon
    <2>3. Grants(vNodes' \cup made') = Grants(vNodes \cup made)
      BY <2>2, Zenon DEF Grants
    <2> QED
      BY <1>6, <2>3, Zenon DEF AcceptConnection, OutboundSlots, stopVars
  <1>7. CASE NetDisconnect
    BY <1>1, <1>7, Dropped DEF NetDisconnect, listVars, stopVars
  <1>8. CASE NetReduce
    BY <1>1, <1>8, Dropped, Zenon DEF NetReduce, DeleteDisconnectedNodes, listVars, stopVars
  <1>9. CASE NetDelete
    BY <1>1, <1>9, Zenon DEF NetDelete, DeleteDisconnectedNodes, stopVars
  <1>10. CASE \/ NetTakeCopy \/ (\E n \in Nodes : Service(n)) \/ WakeMessageHandler
              \/ NetInterrupted \/ NetRelease
    BY <1>1, <1>10, Zenon DEF NetTakeCopy, Service, WakeMessageHandler, NetInterrupted, NetRelease,
        listVars, stopVars
  <1>11. CASE MsgStep
    BY <1>1, <1>11, Zenon DEF MsgStep, MsgTakeCopy, MsgSkip, MsgVisit, MsgRelease, MsgWait,
        MsgAwake, MsgExit, listVars, stopVars
  <1>12. CASE InterruptNet \/ Stop
    BY <1>12, Zenon DEF InterruptNet, Stop, OutboundSlots
  <1>13. CASE (\E n \in Nodes : DisconnectNode(n)) \/ InterruptMsgProc \/ UNCHANGED connVars
    BY <1>1, <1>13 DEF DisconnectNode, InterruptMsgProc, connVars, listVars, stopVars
  <1> QED
    BY <1>3, <1>4, <1>5, <1>6, <1>7, <1>8, <1>9, <1>10, <1>11, <1>12, <1>13, Zenon
    DEF ConnectionsNext, OpenerStep, NetStep, ConnectionsStopped

\* A deleted node is not paused.
LEMMA DeletePause ==
    ASSUME ConnectionsTypeOK, PauseExact, NEW N, DeleteNode(N)
    PROVE  PauseExact'
  <1> SUFFICES ASSUME NEW n \in Nodes
               PROVE  fPauseRecv'[n] <=> vProcessMsg'[n] > nReceiveFloodSize
    BY Zenon DEF PauseExact
  <1>1. fPauseRecv'[n] <=> fPauseRecv[n] /\ n \notin N
    BY Zenon DEF DeleteNode
  <1>2. vProcessMsg'[n] = IF n \in N THEN 0 ELSE vProcessMsg[n]
    BY Zenon DEF DeleteNode
  <1>3. ~(0 > nReceiveFloodSize)
    BY ConnectionsAssumption
  <1>4. fPauseRecv[n] <=> vProcessMsg[n] > nReceiveFloodSize
    BY Zenon DEF PauseExact
  <1> QED
    BY <1>1, <1>2, <1>3, <1>4, Zenon

\* Every step keeps reading paused exactly while too much is waiting.
LEMMA PauseStep ==
    ASSUME ConnectionsTypeOK, PauseExact, [ConnectionsNext]_connVars
    PROVE  PauseExact'
  <1>0. vProcessMsg \in [Nodes -> Nat] /\ fPauseRecv \in [Nodes -> BOOLEAN]
    BY Zenon DEF ConnectionsTypeOK
  <1>1. ASSUME UNCHANGED <<vProcessMsg, fPauseRecv>> PROVE PauseExact'
    BY <1>1, Zenon DEF PauseExact
  <1>2. ASSUME NEW n \in Nodes, NEW k,
               vProcessMsg' = [vProcessMsg EXCEPT ![n] = k],
               fPauseRecv' = [fPauseRecv EXCEPT ![n] = k > nReceiveFloodSize]
        PROVE  PauseExact'
    BY <1>0, <1>2, Zenon DEF PauseExact
  <1>3. ASSUME NEW n \in Nodes, Service(n) PROVE PauseExact'
    BY <1>1, <1>2, <1>3, Zenon DEF Service, Receive, Drain, Hangup, Quiet, fieldVars
  <1>4. ASSUME NEW n \in Nodes, MsgVisit(n) PROVE PauseExact'
    <2>1. CASE vProcessMsg[n] > 0 /\ ~fPauseSend[n]
      BY <1>2, <1>4, <2>1, Zenon DEF MsgVisit, PausedAfterTaking
    <2>2. CASE ~(vProcessMsg[n] > 0 /\ ~fPauseSend[n])
      <3>1. vProcessMsg' = vProcessMsg /\ fPauseRecv' = fPauseRecv
        BY <1>0, <1>4, <2>2, Zenon DEF MsgVisit
      <3> QED
        BY <1>1, <3>1, Zenon
    <2> QED
      BY <2>1, <2>2, Zenon
  <1>5. CASE NetDelete \/ NetReduce \/ Stop
    BY <1>1, <1>5, DeletePause, Zenon DEF NetDelete, NetReduce, Stop, DisconnectUnusedNodes,
        DeleteDisconnectedNodes, fieldVars
  <1>6. CASE OpenerStep
    BY <1>1, <1>6, Zenon DEF OpenerStep, Acquire, GiveUp, ConnectNode, Push, OpenerExit, nodeVars,
        fieldVars
  <1>7. CASE \/ NetDisconnect \/ (\E n \in Inbound : AcceptConnection(n)) \/ NetTakeCopy
             \/ WakeMessageHandler \/ NetInterrupted \/ NetRelease
    BY <1>1, <1>7, Zenon DEF NetDisconnect, DisconnectUnusedNodes, AcceptConnection, NetTakeCopy,
        WakeMessageHandler, NetInterrupted, NetRelease, nodeVars, fieldVars
  <1>8. CASE \/ MsgTakeCopy \/ (\E n \in Nodes : MsgSkip(n)) \/ MsgRelease \/ MsgWait
             \/ MsgAwake \/ MsgExit
    BY <1>1, <1>8, Zenon DEF MsgTakeCopy, MsgSkip, MsgRelease, MsgWait, MsgAwake, MsgExit,
        nodeVars, fieldVars
  <1>9. CASE \/ (\E n \in Nodes : DisconnectNode(n)) \/ InterruptMsgProc \/ InterruptNet
             \/ UNCHANGED connVars
    BY <1>1, <1>9, Zenon DEF DisconnectNode, InterruptMsgProc, InterruptNet, connVars, nodeVars,
        fieldVars
  <1> QED
    BY <1>3, <1>4, <1>5, <1>6, <1>7, <1>8, <1>9
    DEF ConnectionsNext, NetStep, MsgStep, ConnectionsStopped

\* Every step keeps nodes that are not connected without messages.
LEMMA FreshStep ==
    ASSUME ConnectionsTypeOK, NoUseAfterDelete, NoNodeLeaks, Held, Fresh,
        [ConnectionsNext]_connVars
    PROVE  Fresh'
  <1>0. /\ vProcessMsg \in [Nodes -> Nat] /\ made \subseteq Nodes /\ freed \subseteq Nodes
        /\ netTodo \subseteq netCopy /\ msgTodo \subseteq msgCopy
    BY Zenon DEF ConnectionsTypeOK, Nodes
  <1>1. ASSUME made' \cup freed' \subseteq made \cup freed, UNCHANGED vProcessMsg
        PROVE  Fresh'
    BY <1>1, Zenon DEF Fresh
  <1>2. ASSUME NEW n \in netTodo \cup msgTodo, UNCHANGED <<made, freed>>,
               \A m \in Nodes : m # n => vProcessMsg'[m] = vProcessMsg[m]
        PROVE  Fresh'
    <2>1. n \notin made \cup freed
      BY <1>0, <1>2, Zenon DEF Held, NoUseAfterDelete
    <2> QED
      BY <1>0, <1>2, <2>1, Zenon DEF Fresh
  <1>3. ASSUME NEW N, DeleteNode(N), made' = made PROVE Fresh'
    <2>1. ASSUME NEW m \in made' \cup freed' PROVE vProcessMsg'[m] = 0
      <3>1. m \in Nodes => vProcessMsg'[m] = IF m \in N THEN 0 ELSE vProcessMsg[m]
        BY <1>3, Zenon DEF DeleteNode
      <3>2. m \in N \/ m \in made \cup freed
        BY <1>3, <2>1, Zenon DEF DeleteNode
      <3>3. m \in Nodes
        BY <2>1, TypeStep, Zenon DEF ConnectionsTypeOK, Nodes
      <3> QED
        BY <3>1, <3>2, <3>3, Zenon DEF Fresh
    <2> QED
      BY <2>1, Zenon DEF Fresh
  <1>4. ASSUME NEW n \in Nodes, Service(n) PROVE Fresh'
    <2>1. \A m \in Nodes : m # n => vProcessMsg'[m] = vProcessMsg[m]
      BY <1>0, <1>4, Zenon DEF Service, Receive, Drain, Hangup, Quiet, fieldVars
    <2> QED
      BY <1>2, <1>4, <2>1, Zenon DEF Service, listVars
  <1>5. ASSUME NEW n \in Nodes, MsgVisit(n) PROVE Fresh'
    <2>1. \A m \in Nodes : m # n => vProcessMsg'[m] = vProcessMsg[m]
      BY <1>0, <1>5, Zenon DEF MsgVisit
    <2> QED
      BY <1>2, <1>5, <2>1, Zenon DEF MsgVisit, listVars
  <1>6. CASE NetDelete
    BY <1>3, <1>6, Zenon DEF NetDelete, DeleteDisconnectedNodes
  <1>7. CASE NetReduce
    BY <1>1, <1>3, <1>7, Zenon DEF NetReduce, DisconnectUnusedNodes, DeleteDisconnectedNodes,
        listVars, fieldVars
  <1>8. CASE Stop
    BY <1>3, <1>8, Zenon DEF Stop
  <1>9. ASSUME NEW n \in Outbound, ConnectNode(n) PROVE Fresh'
    <2>1. made' \cup freed' \subseteq made \cup freed
      BY <1>9, Zenon DEF ConnectNode
    <2> QED
      BY <1>1, <1>9, <2>1, Zenon DEF ConnectNode, fieldVars
  <1>10. CASE Acquire \/ GiveUp \/ Push \/ OpenerExit
    BY <1>1, <1>10, Zenon DEF Acquire, GiveUp, Push, OpenerExit, listVars, nodeVars, fieldVars
  <1>11. CASE \/ NetDisconnect \/ (\E n \in Inbound : AcceptConnection(n)) \/ NetTakeCopy
              \/ WakeMessageHandler \/ NetInterrupted \/ NetRelease
    BY <1>1, <1>11, Zenon DEF NetDisconnect, DisconnectUnusedNodes, AcceptConnection, NetTakeCopy,
        WakeMessageHandler, NetInterrupted, NetRelease, listVars, nodeVars, fieldVars
  <1>12. CASE \/ MsgTakeCopy \/ (\E n \in Nodes : MsgSkip(n)) \/ MsgRelease \/ MsgWait
              \/ MsgAwake \/ MsgExit
    BY <1>1, <1>12, Zenon DEF MsgTakeCopy, MsgSkip, MsgRelease, MsgWait, MsgAwake, MsgExit,
        listVars, nodeVars, fieldVars
  <1>13. CASE \/ (\E n \in Nodes : DisconnectNode(n)) \/ InterruptMsgProc \/ InterruptNet
              \/ UNCHANGED connVars
    BY <1>1, <1>13 DEF DisconnectNode, InterruptMsgProc, InterruptNet, connVars, listVars,
        nodeVars, fieldVars
  <1> QED
    BY <1>4, <1>5, <1>6, <1>7, <1>8, <1>9, <1>10, <1>11, <1>12, <1>13, Zenon
    DEF ConnectionsNext, OpenerStep, NetStep, MsgStep, ConnectionsStopped

\* Every step keeps messages attended to.
LEMMA AttendedStep ==
    ASSUME ConnectionsTypeOK, NoUseAfterDelete, Held, Fresh, Attended,
        [ConnectionsNext]_connVars
    PROVE  Attended'
  <1>0. /\ vProcessMsg \in [Nodes -> Nat] /\ fDisconnect \in [Nodes -> BOOLEAN]
        /\ fPauseSend \in [Nodes -> BOOLEAN] /\ vNodes \subseteq Nodes
        /\ made \subseteq Nodes /\ netTodo \subseteq netCopy /\ msgTodo \subseteq msgCopy
    BY Zenon DEF ConnectionsTypeOK, Nodes
  \* A step that connects no node and takes no message.
  <1>1. ASSUME \A n \in vNodes' : vProcessMsg'[n] > 0 => n \in vNodes /\ vProcessMsg[n] > 0,
               UNCHANGED <<msgTodo, msgAt, fMoreWork>>,
               fMsgProcWake \/ netAt = "wake" => fMsgProcWake' \/ netAt' = "wake",
               \A n \in vNodes' : fDisconnect[n] \/ fPauseSend[n] \/ n \in drained
                                      => fDisconnect'[n] \/ fPauseSend'[n] \/ n \in drained'
        PROVE  Attended'
    BY <1>1, Zenon DEF Attended
  <1>2. ASSUME netAt' = "wake" PROVE Attended'
    BY <1>2, Zenon DEF Attended
  <1>3. ASSUME msgAt' \in {"pass", "exit"} PROVE Attended'
    BY <1>3, Zenon DEF Attended
  <1>4. CASE Acquire \/ GiveUp \/ OpenerExit
    BY <1>1, <1>4, Zenon DEF Acquire, GiveUp, OpenerExit, listVars, nodeVars, fieldVars, netVars,
        msgVars
  <1>5. ASSUME NEW n \in Outbound, ConnectNode(n) PROVE Attended'
    BY <1>1, <1>5, Zenon DEF ConnectNode, fieldVars, netVars, msgVars
  <1>6. CASE Push
    <2>1. \A n \in made : ~(vProcessMsg[n] > 0)
      BY DEF Fresh
    <2> QED
      BY <1>1, <1>6, <2>1, Zenon DEF Push, nodeVars, fieldVars, netVars, msgVars
  <1>7. CASE NetDisconnect
    BY <1>1, <1>7, Zenon DEF NetDisconnect, DisconnectUnusedNodes, listVars, nodeVars, fieldVars,
        msgVars
  <1>8. ASSUME NEW N, DeleteNode(N), UNCHANGED <<vNodes, msgVars, fMsgProcWake>>,
               netAt # "wake"
        PROVE  Attended'
    <2>1. ASSUME NEW n \in vNodes', vProcessMsg'[n] > 0
          PROVE  n \in vNodes /\ n \notin N /\ vProcessMsg[n] > 0
      BY <1>0, <1>8, <2>1 DEF DeleteNode
    <2>2. ASSUME NEW n \in vNodes, n \notin N
          PROVE  /\ fDisconnect'[n] = fDisconnect[n] /\ fPauseSend'[n] = fPauseSend[n]
                 /\ n \in drained => n \in drained'
      BY <1>0, <1>8, <2>2, Zenon DEF DeleteNode
    <2> QED
      BY <1>8, <2>1, <2>2, Zenon DEF Attended, msgVars
  <1>9. CASE NetDelete
    BY <1>8, <1>9, Zenon DEF NetDelete, DeleteDisconnectedNodes
  <1>10. CASE NetReduce
    <2>1. CASE netAt = "service" /\ DisconnectUnusedNodes
      BY <1>1, <1>10, <2>1 DEF NetReduce, DisconnectUnusedNodes, fieldVars, msgVars
    <2>2. CASE netAt = "reduce" /\ DeleteDisconnectedNodes
      BY <1>8, <1>10, <2>2, Zenon DEF NetReduce, DeleteDisconnectedNodes
    <2>3. CASE /\ netAt = "evict" /\ (\E E \in Evictions : Flag(E))
               /\ UNCHANGED <<listVars, fPauseSend, vProcessMsg, drained>>
      BY <1>0, <1>1, <1>10, <2>3 DEF NetReduce, Flag, listVars, msgVars
    <2> QED
      BY <1>10, <2>1, <2>2, <2>3, Zenon DEF NetReduce
  <1>11. ASSUME NEW n \in Inbound, AcceptConnection(n) PROVE Attended'
    <2>1. n \in freed
      BY <1>11, Zenon DEF AcceptConnection
    <2>2. vProcessMsg[n] = 0
      BY <2>1, Zenon DEF Fresh
    <2>3. PICK E \in Evictions : Flag(E)
      BY <1>11, Zenon DEF AcceptConnection
    <2>4. \A m \in Nodes : fDisconnect[m] => fDisconnect'[m]
      BY <1>0, <2>3, Zenon DEF Flag
    <2>5. /\ vNodes' = vNodes \cup {n} /\ netAt' = netAt
          /\ UNCHANGED <<fPauseSend, vProcessMsg, drained, msgTodo, msgAt, fMoreWork, fMsgProcWake>>
      BY <1>11, Zenon DEF AcceptConnection, netVars, msgVars
    <2>6. \A m \in vNodes' : vProcessMsg'[m] > 0 => m \in vNodes /\ vProcessMsg[m] > 0
      BY <2>2, <2>5
    <2>7. vNodes' \subseteq Nodes
      BY <1>0, <2>5, Zenon DEF Nodes
    <2>8. \A m \in vNodes' : fDisconnect[m] \/ fPauseSend[m] \/ m \in drained
                                => fDisconnect'[m] \/ fPauseSend'[m] \/ m \in drained'
      BY <2>4, <2>5, <2>7
    <2> QED
      BY <1>1, <2>5, <2>6, <2>8, Zenon
  <1>12. CASE NetTakeCopy \/ NetInterrupted \/ NetRelease
    BY <1>1, <1>12, Zenon DEF NetTakeCopy, NetInterrupted, NetRelease, listVars, nodeVars,
        fieldVars, msgVars
  <1>13. ASSUME NEW n \in Nodes, Service(n) PROVE Attended'
    <2>1. CASE Receive(n)
      BY <1>2, <2>1, Zenon DEF Receive
    <2>2. CASE Drain(n)
      BY <1>0, <1>1, <1>13, <2>2 DEF Service, Drain, listVars, msgVars
    <2>3. CASE Hangup(n) \/ Quiet
      <3>1. \A m \in Nodes : fDisconnect[m] => fDisconnect'[m]
        BY <1>0, <2>3, Zenon DEF Hangup, Quiet, Flag, fieldVars
      <3>2. /\ UNCHANGED <<vNodes, fPauseSend, vProcessMsg, drained, msgTodo, msgAt, fMoreWork,
                           fMsgProcWake>>
            /\ netAt = "service"
        BY <1>13, <2>3, Zenon DEF Service, Hangup, Quiet, listVars, msgVars, fieldVars
      <3>3. \A m \in vNodes' : fDisconnect[m] \/ fPauseSend[m] \/ m \in drained
                                  => fDisconnect'[m] \/ fPauseSend'[m] \/ m \in drained'
        BY <1>0, <3>1, <3>2, Zenon
      <3> QED
        BY <1>1, <3>2, <3>3, Zenon
    <2> QED
      BY <1>13, <2>1, <2>2, <2>3 DEF Service
  <1>14. CASE WakeMessageHandler
    BY <1>1, <1>14, Zenon DEF WakeMessageHandler, listVars, nodeVars, fieldVars, msgVars
  <1>15. CASE MsgTakeCopy
    BY <1>15, Zenon DEF MsgTakeCopy, Attended, listVars
  <1>16. ASSUME NEW n \in Nodes, MsgSkip(n) PROVE Attended'
    BY <1>16, Zenon DEF MsgSkip, Attended, listVars, nodeVars, fieldVars, netVars
  <1>17. ASSUME NEW n \in Nodes, MsgVisit(n) PROVE Attended'
    <2>1. PICK full \in BOOLEAN, filled \in BOOLEAN, ends \in BOOLEAN :
             /\ fPauseSend' = [fPauseSend EXCEPT ![n] = @ \/ full \/ filled]
             /\ Flag(IF ends THEN {n} ELSE {})
             /\ fMoreWork' = (fMoreWork \/ ((vProcessMsg[n] > 0 /\ ~fPauseSend[n])
                                              /\ vProcessMsg[n] > 1 /\ ~full))
      BY <1>17, Zenon DEF MsgVisit
    <2>2. CASE flagInterruptMsgProc
      BY <1>3, <1>17, <2>2, Zenon DEF MsgVisit
    <2>3. /\ vNodes' = vNodes /\ msgTodo' = msgTodo \ {n} /\ n \in Nodes /\ msgAt = "visit"
          /\ drained' = drained \ {n} /\ UNCHANGED <<fMsgProcWake, netAt>>
      BY <1>17, Zenon DEF MsgVisit, listVars, netVars
    <2>4. \A m \in Nodes : m # n =>
             /\ vProcessMsg'[m] = vProcessMsg[m] /\ fPauseSend'[m] = fPauseSend[m]
             /\ fDisconnect'[m] = fDisconnect[m]
      BY <1>0, <1>17, <2>1, Zenon DEF MsgVisit, Flag
    <2>5. fPauseSend'[n] = (fPauseSend[n] \/ full \/ filled)
      BY <1>0, <2>1, Zenon
    <2>6. vProcessMsg'[n] > 0 => fPauseSend'[n] \/ fMoreWork'
      <3>1. CASE vProcessMsg[n] > 0 /\ ~fPauseSend[n]
        <4>1. vProcessMsg'[n] = vProcessMsg[n] - 1
          BY <1>0, <1>17, <3>1, Zenon DEF MsgVisit
        <4>2. vProcessMsg'[n] > 0 => vProcessMsg[n] > 1
          BY <1>0, <4>1
        <4> QED
          BY <2>1, <2>5, <3>1, <4>2, Zenon
      <3>2. CASE ~(vProcessMsg[n] > 0 /\ ~fPauseSend[n])
        <4>1. vProcessMsg'[n] = vProcessMsg[n]
          BY <1>0, <1>17, <3>2, Zenon DEF MsgVisit
        <4> QED
          BY <2>5, <3>2, <4>1, Zenon
      <3> QED
        BY <3>1, <3>2
    <2>7. fMoreWork => fMoreWork'
      BY <2>1, Zenon
    <2>8. CASE ~flagInterruptMsgProc
      <3>1. msgAt' = "visit"
        BY <1>17, <2>3, <2>8, Zenon DEF MsgVisit
      <3>2. ASSUME NEW m \in vNodes' \ msgTodo', vProcessMsg'[m] > 0
            PROVE  \/ fDisconnect'[m] \/ fPauseSend'[m] \/ m \in drained'
                   \/ fMsgProcWake' \/ netAt' = "wake" \/ fMoreWork'
        <4>1. CASE m = n
          BY <2>6, <3>2, <4>1, Zenon
        <4>2. CASE m # n
          <5>1. m \in vNodes \ msgTodo /\ m \in Nodes
            BY <1>0, <2>3, <3>2, <4>2, Zenon
          <5>2. \/ fDisconnect[m] \/ fPauseSend[m] \/ m \in drained
                \/ fMsgProcWake \/ netAt = "wake" \/ fMoreWork
            BY <2>3, <2>4, <3>2, <4>2, <5>1, Zenon DEF Attended
          <5> QED
            BY <2>3, <2>4, <2>7, <4>2, <5>1, <5>2, Zenon
        <4> QED
          BY <4>1, <4>2, Zenon
      <3> QED
        BY <3>1, <3>2, Zenon DEF Attended
    <2> QED
      BY <2>2, <2>8, Zenon
  <1>18. CASE MsgRelease
    BY <1>18, Zenon DEF MsgRelease, Attended, listVars, fieldVars, netVars
  <1>19. CASE MsgWait
    BY <1>3, <1>19, Zenon DEF MsgWait, Attended, listVars, nodeVars, fieldVars, netVars
  <1>20. CASE MsgAwake \/ MsgExit \/ Stop
    <2>1. msgAt' \in {"pass", "exit"}
      BY <1>20, Zenon DEF MsgAwake, MsgExit, Stop
    <2> QED
      BY <1>3, <2>1, Zenon
  <1>21. ASSUME NEW n \in Nodes, DisconnectNode(n) PROVE Attended'
    <2>1. \A m \in Nodes : fDisconnect[m] => fDisconnect'[m]
      BY <1>0, <1>21, Zenon DEF DisconnectNode, Flag
    <2>2. UNCHANGED <<vNodes, fPauseSend, vProcessMsg, drained, netAt, msgTodo, msgAt,
                      fMoreWork, fMsgProcWake>>
      BY <1>21, Zenon DEF DisconnectNode, listVars, netVars, msgVars
    <2>3. \A m \in vNodes' : fDisconnect[m] \/ fPauseSend[m] \/ m \in drained
                                => fDisconnect'[m] \/ fPauseSend'[m] \/ m \in drained'
      BY <1>0, <2>1, <2>2, Zenon
    <2> QED
      BY <1>1, <2>2, <2>3, Zenon
  <1>22. CASE InterruptMsgProc
    BY <1>1, <1>22, Zenon DEF InterruptMsgProc, listVars, nodeVars, fieldVars, netVars, msgVars
  <1>23. CASE InterruptNet
    BY <1>1, <1>23, Zenon DEF InterruptNet, listVars, nodeVars, fieldVars, netVars, msgVars
  <1>24. CASE UNCHANGED connVars
    BY <1>1, <1>24, Zenon DEF connVars
  <1> QED
    BY <1>4, <1>5, <1>6, <1>7, <1>9, <1>10, <1>11, <1>12, <1>13, <1>14, <1>15, <1>16, <1>17,
        <1>18, <1>19, <1>20, <1>21, <1>22, <1>23, <1>24
    DEF ConnectionsNext, OpenerStep, NetStep, MsgStep, ConnectionsStopped

-----------------------------------------------------------------------------
(* The theorems.                                                            *)

\* The first state satisfies the invariant: no node exists, every slot is free.
LEMMA InitInv == ConnectionsInit => IInv
  <1> SUFFICES ASSUME ConnectionsInit PROVE IInv
    BY Zenon
  <1> USE ConnectionsAssumption DEF ConnectionsInit
  <1>1. ConnectionsTypeOK
    <2>1. /\ fMoreWork \in BOOLEAN /\ fMsgProcWake \in BOOLEAN
          /\ flagInterruptMsgProc \in BOOLEAN /\ interruptNet \in BOOLEAN
      BY Zenon
    <2> QED
      BY <2>1 DEF ConnectionsTypeOK
  <1>2. NoUseAfterDelete /\ RefCountExact /\ NoNodeLeaks /\ Held
    BY DEF NoUseAfterDelete, RefCountExact, NoNodeLeaks, Held
  <1>3. OutboundSlots
    <2>1. Grants({}) = 0
      BY FS_EmptySet, Zenon DEF Grants
    <2> QED
      BY <2>1 DEF OutboundSlots
  <1>4. PauseExact /\ Fresh /\ Attended
    BY DEF PauseExact, Fresh, Attended
  <1> QED
    BY <1>1, <1>2, <1>3, <1>4, Zenon DEF IInv

\* The inductive invariant of the connections: what the code relies on when it
\* deletes a node, returns a slot, or goes to sleep.
THEOREM Invariance == ConnectionsSpec => []IInv
  <1>1. IInv /\ [ConnectionsNext]_connVars => IInv'
    BY TypeStep, ListsStep, RefsStep, SlotsStep, PauseStep, FreshStep,
        AttendedStep, Zenon DEF IInv
  <1> QED
    BY InitInv, <1>1, PTL DEF ConnectionsSpec

\* No thread refers to a deleted CNode, reference counts are exact, and no node
\* is lost, for any number of nodes and any interleaving of the threads.
THEOREM NodesAreSafe == ConnectionsSpec => []NodesSafe
  <1>1. IInv => NodesSafe
    BY Zenon DEF IInv, NodesSafe
  <1> QED
    BY Invariance, <1>1, PTL

\* Every slot of semOutbound is free, with the opening thread, or with one
\* outbound node that is connected.
THEOREM SlotsExact == ConnectionsSpec => []OutboundSlots
  <1>1. IInv => OutboundSlots
    BY Zenon DEF IInv
  <1> QED
    BY Invariance, <1>1, PTL

\* The message thread never sleeps on a message it was told of, and a node is
\* paused exactly while too much of it is queued.
THEOREM MessagesAreMoved == ConnectionsSpec => []MessagesMove
  <1>1. IInv => MessagesMove
    <2>1. SUFFICES ASSUME IInv, msgAt = "asleep", ~fMsgProcWake, netAt # "wake",
                          NEW n \in vNodes, vProcessMsg[n] > 0
                   PROVE  fDisconnect[n] \/ fPauseSend[n] \/ n \in drained
      BY Zenon DEF IInv, MessagesMove, NoMessageSleeps
    <2>2. msgTodo = {}
      BY <2>1, Zenon DEF IInv, ConnectionsTypeOK, Held
    <2> QED
      BY <2>1, <2>2, Zenon DEF IInv, Attended
  <1> QED
    BY Invariance, <1>1, PTL

-----------------------------------------------------------------------------
(***************************************************************************)
(* Orphan transactions, for any number of peers and of transactions that   *)
(* depend on each other.  That an orphan which can be judged is queued is  *)
(* not inductive: the parent that makes it so may come from the pool, a    *)
(* block or another orphan, so the invariant says of every orphan that it  *)
(* is queued or that some parent of it has no coins.                       *)
(***************************************************************************)

\* Some transaction whose outputs t spends has no coins.
Missing(t, pool) == \E h \in Creators(t) : ~HaveCoinsOf(h, pool)

\* An orphan is to be tried again, or lacks a parent: what a work set drops as
\* still missing inputs keeps this, and so does every parent that arrives.
Awaited ==
    \A t \in Orphans \ stranded :
        (\E p \in peersOn : t \in orphan_work_set[p]) \/ Missing(t, mempoolTxs)

\* The peer of an invalid orphan is known to have sent one.
Blamed == \A t \in Orphans \cap InvalidTx : mapOrphanTransactions[t] \in lied

OrphanInv ==
    /\ OrphanTypeOK /\ ByPrevExact /\ OrphanSendersPunished
    /\ IsFiniteSet(Orphans) /\ Awaited /\ Blamed

\* A non-empty set of naturals has a least element.
LEMMA LeastNat ==
    ASSUME NEW T \in SUBSET Nat, T # {}
    PROVE  \E n \in T : \A m \in T : n <= m
<1> DEFINE R == OpToRel(<, Nat)
<1>1. IsWellFoundedOn(R, Nat)
  BY NatLessThanWellFounded, Zenon
<1>2. PICK x \in T : \A y \in T : ~(<<y, x>> \in R)
  <2> HIDE DEF R
  <2> QED BY <1>1, WFMin, Zenon
<1>3. \A y \in T : ~(y < x)
  BY <1>2, Zenon DEF OpToRel
<1> QED
  BY <1>3

\* What a verdict says about the parents.
LEMMA Verdicts ==
    ASSUME NEW t, NEW pool
    PROVE  /\ Verdict(t, pool) = "missing" => Missing(t, pool)
           /\ Verdict(t, pool) \in {"accepted", "invalid"} => ~Missing(t, pool)
           /\ Verdict(t, pool) = "invalid" => t \in InvalidTx
           /\ Verdict(t, pool) \in {"accepted", "invalid", "missing", "rejected"}
BY Zenon DEF Verdict, Missing

\* A parent still lacks coins when another transaction enters the pool.
LEMMA StillMissing ==
    ASSUME NEW t, NEW u, NEW pool, Missing(t, pool), u \notin Creators(t)
    PROVE  Missing(t, pool \cup {u})
BY Zenon DEF Missing, HaveCoinsOf

\* The index by prevout finds every orphan that spends an output of u.
LEMMA ChildrenAre ==
    ASSUME OrphanTypeOK, ByPrevExact, NEW u
    PROVE  Children(u) = {t \in Orphans : u \in Creators(t)}
<1>1. ASSUME NEW t \in Orphans PROVE t \in Txs /\ Spends[t] \subseteq Prevouts
  BY Zenon DEF OrphanTypeOK, Prevouts
<1>2. \A o \in Prevouts : mapOrphanTransactionsByPrev[o] = {t \in Orphans : o \in Spends[t]}
  BY Zenon DEF ByPrevExact
<1>3. ASSUME NEW t \in Children(u) PROVE t \in Orphans /\ u \in Creators(t)
  <2>1. PICK o \in Prevouts : o[1] = u /\ t \in mapOrphanTransactionsByPrev[o]
    BY <1>3, Zenon DEF Children
  <2> QED
    BY <1>2, <2>1, Zenon DEF Creators
<1>4. ASSUME NEW t \in Orphans, u \in Creators(t) PROVE t \in Children(u)
  <2>1. PICK o \in Spends[t] : o[1] = u
    BY <1>4, Zenon DEF Creators
  <2>2. o \in Prevouts /\ t \in mapOrphanTransactionsByPrev[o]
    BY <1>1, <1>2, <2>1, Zenon
  <2> QED
    BY <2>1, <2>2, Zenon DEF Children
<1> QED
  BY <1>3, <1>4, Zenon

\* Erasing keeps the two maps in step.
LEMMA Erasing ==
    ASSUME ByPrevExact, NEW S, EraseOrphans(S)
    PROVE  /\ Orphans' = Orphans \ S /\ ByPrevExact'
           /\ \A t \in Orphans' : mapOrphanTransactions'[t] = mapOrphanTransactions[t]
<1>1. mapOrphanTransactions' = [t \in Orphans \ S |-> mapOrphanTransactions[t]]
  BY Zenon DEF EraseOrphans
<1>2. DOMAIN mapOrphanTransactions' = Orphans \ S
  BY <1>1, Zenon
<1>3. Orphans' = Orphans \ S
  BY <1>2, Zenon DEF Orphans
<1>4. \A t \in Orphans' : mapOrphanTransactions'[t] = mapOrphanTransactions[t]
  BY <1>1, <1>3, Zenon
<1>5. mapOrphanTransactionsByPrev' =
          [o \in Prevouts |-> {t \in Orphans : o \in Spends[t]} \ (S \cap Orphans)]
  BY Zenon DEF EraseOrphans, ErasePrev, ByPrevExact
<1>6. \A o \in Prevouts : {t \in Orphans : o \in Spends[t]} \ (S \cap Orphans)
                            = {t \in Orphans' : o \in Spends[t]}
  BY <1>3, Zenon
<1>7. mapOrphanTransactionsByPrev' = [o \in Prevouts |-> {t \in Orphans' : o \in Spends[t]}]
  BY <1>5, <1>6, Zenon
<1> QED
  BY <1>3, <1>4, <1>7, Zenon DEF ByPrevExact

\* Orphans that were erased leave the others as they were.
LEMMA FewerOrphans ==
    ASSUME OrphanTypeOK, IsFiniteSet(Orphans), Orphans' \subseteq Orphans
    PROVE  /\ Orphans' \subseteq Txs \ Big /\ IsFiniteSet(Orphans')
           /\ Cardinality(Orphans') <= nMaxOrphanTx
<1>1. IsFiniteSet(Orphans') /\ Cardinality(Orphans') <= Cardinality(Orphans)
  BY FS_Subset, Zenon
<1>2. Cardinality(Orphans') \in Nat /\ Cardinality(Orphans) \in Nat
  BY <1>1, FS_CardinalityType, Zenon
<1>3. Orphans \subseteq Txs \ Big /\ Cardinality(Orphans) <= nMaxOrphanTx
  BY Zenon DEF OrphanTypeOK
<1> QED
  BY <1>1, <1>2, <1>3, OrphanPoolAssumption

-----------------------------------------------------------------------------
\* One call of ProcessOrphanTx, whichever handler makes it.
LEMMA ProcessStep ==
    ASSUME OrphanInv, NEW p \in peersOn, NEW work \in SUBSET Txs, NEW pool \in SUBSET Txs,
           NEW rejects \in SUBSET Txs, ProcessOrphanTx(p, work, pool, rejects),
           \A t \in Orphans \ stranded :
               \/ \E q \in peersOn : q # p /\ t \in orphan_work_set[q]
               \/ t \in work \/ Missing(t, pool),
           stranded' = stranded \cap DOMAIN mapOrphanTransactions',
           confirmed' = confirmed, peersOn' = peersOn,
           rejectsStale' \in BOOLEAN, lied \subseteq lied'
    PROVE  OrphanInv'
<1> DEFINE decided == {t \in work \cap Orphans : Verdict(t, pool) # "missing"}
<1>1. /\ OrphanTypeOK /\ ByPrevExact /\ OrphanSendersPunished /\ IsFiniteSet(Orphans)
      /\ Blamed
  BY Zenon DEF OrphanInv
<1>2. p \in OrphanPeers /\ orphan_work_set \in [OrphanPeers -> SUBSET Txs]
      /\ peersOn \subseteq OrphanPeers /\ Orphans \subseteq Txs /\ stranded \subseteq Orphans
  BY <1>1, Zenon DEF OrphanTypeOK
<1>3. stranded' = stranded \cap Orphans'
  BY Zenon DEF Orphans
<1>4. CASE decided = {}
  <2>1. /\ orphan_work_set' = [orphan_work_set EXCEPT ![p] = {}]
        /\ mempoolTxs' = pool /\ recentRejects' = rejects
        /\ UNCHANGED <<mapOrphanTransactions, mapOrphanTransactionsByPrev, punished>>
    BY <1>4, Zenon DEF ProcessOrphanTx
  <2>2. Orphans' = Orphans
    BY <2>1 DEF Orphans
  <2>3. OrphanTypeOK'
    BY <1>1, <1>2, <1>3, <2>1, <2>2, Zenon DEF OrphanTypeOK
  <2>4. ByPrevExact' /\ IsFiniteSet(Orphans)'
    BY <1>1, <2>1, <2>2, Zenon DEF ByPrevExact
  <2>5. OrphanSendersPunished' /\ Blamed'
    BY <1>1, <2>1, <2>2, Zenon DEF OrphanSendersPunished, Blamed
  <2>6. ASSUME NEW t \in Orphans' \ stranded'
        PROVE  (\E q \in peersOn' : t \in orphan_work_set'[q]) \/ Missing(t, mempoolTxs)'
    <3>1. t \in Orphans \ stranded
      BY <1>3, <2>2, <2>6, Zenon
    <3>2. CASE \E q \in peersOn : q # p /\ t \in orphan_work_set[q]
      BY <1>2, <2>1, <3>2, Zenon
    <3>3. CASE t \in work
      <4>1. Missing(t, pool)
        BY <1>4, <3>1, <3>3, Verdicts, Zenon
      <4> QED
        BY <2>1, <4>1, Zenon DEF Missing, HaveCoinsOf, SpentBy
    <3>4. CASE Missing(t, pool)
      BY <2>1, <3>4, Zenon DEF Missing, HaveCoinsOf, SpentBy
    <3> QED
      BY <3>1, <3>2, <3>3, <3>4, Zenon
  <2> QED
    BY <2>3, <2>4, <2>5, <2>6, Zenon DEF OrphanInv, Awaited
<1>5. CASE decided # {}
  <2> DEFINE t == CHOOSE t \in decided : \A u \in decided : t <= u
             rest == {u \in work : u > t}
             verdict == Verdict(t, pool)
  <2>1. t \in decided /\ \A u \in decided : t <= u
    <3>1. decided \in SUBSET Nat
      BY OrphanPoolAssumption, Zenon
    <3>2. \E n \in decided : \A u \in decided : n <= u
      BY <1>5, <3>1, LeastNat, Zenon
    <3> QED
      BY <3>2, Zenon
  <2>2. /\ orphan_work_set' = [orphan_work_set EXCEPT ![p] =
               IF verdict = "accepted" THEN rest \cup AddedWork(t) ELSE rest]
        /\ mempoolTxs' = (IF verdict = "accepted" THEN pool \cup {t} ELSE pool)
        /\ recentRejects' = (IF verdict = "accepted" THEN rejects ELSE rejects \cup {t})
        /\ punished' = (IF verdict = "invalid" THEN punished \cup {FromPeer(t, p)} ELSE punished)
        /\ EraseOrphans({t})
    BY <1>5, Zenon DEF ProcessOrphanTx
  <2>3. t \in work /\ t \in Orphans /\ t \in Txs /\ verdict # "missing"
    BY <2>1, Zenon
  <2>4. \A u \in work \cap Orphans : u # t /\ u \notin rest => Missing(u, pool)
    <3> SUFFICES ASSUME NEW u \in work \cap Orphans, u # t, u \notin rest PROVE Missing(u, pool)
      BY Zenon
    <3>1. u \in Nat /\ t \in Nat /\ ~(u > t)
      BY <2>3, OrphanPoolAssumption, Zenon
    <3>2. u \notin decided
      BY <2>1, <3>1
    <3> QED
      BY <3>2, Verdicts, Zenon
  <2> HIDE DEF t, decided
  <2>5. rest \in SUBSET Txs
    BY Zenon
  <2> HIDE DEF rest
  <2>6. /\ Orphans' = Orphans \ {t} /\ ByPrevExact'
        /\ \A u \in Orphans' : mapOrphanTransactions'[u] = mapOrphanTransactions[u]
    BY <1>1, <2>2, Erasing, Zenon
  <2>7. AddedWork(t) = {u \in Orphans : t \in Creators(u)}
    BY <1>1, ChildrenAre, Zenon DEF AddedWork
  <2> DEFINE new == IF verdict = "accepted" THEN rest \cup AddedWork(t) ELSE rest
  <2>8. new \in SUBSET Txs
    BY <1>2, <2>5, <2>7, Zenon
  <2>9. /\ orphan_work_set' \in [OrphanPeers -> SUBSET Txs] /\ orphan_work_set'[p] = new
        /\ \A q \in OrphanPeers : q # p => orphan_work_set'[q] = orphan_work_set[q]
    BY <1>2, <2>2, <2>8, Zenon
  <2>10. OrphanTypeOK' /\ IsFiniteSet(Orphans)'
    <3>1. /\ Orphans' \subseteq Txs \ Big /\ IsFiniteSet(Orphans')
          /\ Cardinality(Orphans') <= nMaxOrphanTx
      BY <1>1, <2>6, FewerOrphans, Zenon
    <3>2. mempoolTxs' \subseteq Txs /\ recentRejects' \subseteq Txs
      BY <2>2, <2>3
    <3> QED
      BY <1>1, <1>2, <1>3, <2>6, <2>9, <3>1, <3>2, Zenon DEF OrphanTypeOK
  <2>11. OrphanSendersPunished'
    <3>1. \A u \in Orphans' : mapOrphanTransactions'[u] \in peersOn'
      BY <1>1, <2>6, Zenon DEF OrphanSendersPunished
    <3>2. verdict = "invalid" => FromPeer(t, p) \in lied
      BY <1>1, <2>3, Verdicts, Zenon DEF Blamed, FromPeer
    <3> QED
      BY <1>1, <2>2, <3>1, <3>2, Zenon DEF OrphanSendersPunished
  <2>12. Blamed'
    BY <1>1, <2>6 DEF Blamed
  <2>13. ASSUME NEW u \in Orphans' \ stranded'
         PROVE  (\E q \in peersOn' : u \in orphan_work_set'[q]) \/ Missing(u, mempoolTxs)'
    <3>1. u \in Orphans \ stranded /\ u # t
      BY <1>3, <2>6, <2>13, Zenon
    <3>2. CASE \E q \in peersOn : q # p /\ u \in orphan_work_set[q]
      BY <1>2, <2>9, <3>2, Zenon
    <3>3. CASE u \in new
      BY <2>9, <3>3, Zenon
    <3>4. CASE Missing(u, pool) /\ u \notin new
      <4>1. Missing(u, mempoolTxs')
        BY <2>2, <2>7, <3>1, <3>4, StillMissing, Zenon
      <4> QED
        BY <4>1, Zenon DEF Missing, HaveCoinsOf, SpentBy
    <3>5. u \in work => u \in new \/ Missing(u, pool)
      BY <2>4, <3>1, Zenon
    <3> QED
      BY <3>1, <3>2, <3>3, <3>4, <3>5, Zenon
  <2> QED
    BY <2>6, <2>10, <2>11, <2>12, <2>13, Zenon DEF OrphanInv, Awaited
<1> QED
  BY <1>4, <1>5, Zenon

\* ProcessMessages tries the orphans of a work set.
LEMMA ProcessOrphansStep ==
    ASSUME OrphanInv, NEW p \in OrphanPeers, ProcessOrphans(p)
    PROVE  OrphanInv'
<1>1. /\ p \in peersOn
      /\ ProcessOrphanTx(p, orphan_work_set[p], mempoolTxs, recentRejects)
      /\ stranded' = stranded \cap DOMAIN mapOrphanTransactions'
      /\ UNCHANGED <<rejectsStale, confirmed, peersOn, lied>>
  BY Zenon DEF ProcessOrphans
<1>2. /\ orphan_work_set[p] \in SUBSET Txs /\ mempoolTxs \in SUBSET Txs
      /\ recentRejects \in SUBSET Txs /\ rejectsStale \in BOOLEAN
  BY Zenon DEF OrphanInv, OrphanTypeOK
<1>3. \A t \in Orphans \ stranded :
          \/ \E q \in peersOn : q # p /\ t \in orphan_work_set[q]
          \/ t \in orphan_work_set[p] \/ Missing(t, mempoolTxs)
  BY Zenon DEF OrphanInv, Awaited
<1>4. rejectsStale' \in BOOLEAN /\ lied \subseteq lied' /\ confirmed' = confirmed /\ peersOn' = peersOn
  BY <1>1, <1>2
<1> QED
  BY <1>1, <1>2, <1>3, <1>4, ProcessStep, Zenon

\* The new orphan lacks a parent; expiry and the limit only take orphans away.
LEMMA AddStep ==
    ASSUME OrphanInv, NEW t \in Txs \ Big, t \notin Orphans, NEW p \in peersOn, AddOrphanTx(t, p),
           Missing(t, mempoolTxs), stranded' = stranded \cap DOMAIN mapOrphanTransactions',
           UNCHANGED <<orphan_work_set, mempoolTxs, punished, confirmed, peersOn>>,
           recentRejects' \in SUBSET Txs, rejectsStale' \in BOOLEAN, lied \subseteq lied',
           t \in InvalidTx => p \in lied'
    PROVE  OrphanInv'
<1> DEFINE all == Orphans \cup {t}
<1>1. PICK unexpired \in {S \in SUBSET all : t \in S} :
        \E kept \in Limited(unexpired) :
            /\ mapOrphanTransactions' = [u \in kept |-> IF u = t THEN p ELSE mapOrphanTransactions[u]]
            /\ mapOrphanTransactionsByPrev' =
                   ErasePrev(all \ kept, [o \in Prevouts |->
                       mapOrphanTransactionsByPrev[o] \cup (IF o \in Spends[t] THEN {t} ELSE {})])
  BY Zenon DEF AddOrphanTx
<1>2. PICK kept \in Limited(unexpired) :
            /\ mapOrphanTransactions' = [u \in kept |-> IF u = t THEN p ELSE mapOrphanTransactions[u]]
            /\ mapOrphanTransactionsByPrev' =
                   ErasePrev(all \ kept, [o \in Prevouts |->
                       mapOrphanTransactionsByPrev[o] \cup (IF o \in Spends[t] THEN {t} ELSE {})])
  BY <1>1, Zenon
<1>3. kept \subseteq all /\ Cardinality(kept) <= nMaxOrphanTx
  BY Zenon DEF Limited
<1>4. DOMAIN mapOrphanTransactions' = kept
  BY <1>2, Zenon
<1>5. Orphans' = kept /\ stranded' = stranded \cap kept
  BY <1>4, Zenon DEF Orphans
<1>6. \A u \in kept : mapOrphanTransactions'[u] = IF u = t THEN p ELSE mapOrphanTransactions[u]
  BY <1>2, Zenon
<1>7. /\ OrphanTypeOK /\ ByPrevExact /\ OrphanSendersPunished /\ IsFiniteSet(Orphans)
      /\ Blamed /\ Awaited
  BY Zenon DEF OrphanInv
<1>8. IsFiniteSet(kept)
  BY <1>3, <1>7, FS_AddElement, FS_Subset, Zenon
<1>9. kept \subseteq Txs \ Big
  BY <1>3, <1>7 DEF OrphanTypeOK
<1>10. OrphanTypeOK'
  BY <1>3, <1>5, <1>7, <1>9, Zenon DEF OrphanTypeOK
<1>11. ByPrevExact'
  <2>1. mapOrphanTransactionsByPrev' = [o \in Prevouts |->
            ({u \in Orphans : o \in Spends[u]} \cup (IF o \in Spends[t] THEN {t} ELSE {})) \ (all \ kept)]
    BY <1>2, <1>7, Zenon DEF ErasePrev, ByPrevExact
  <2>2. ASSUME NEW o \in Prevouts
        PROVE  ({u \in Orphans : o \in Spends[u]} \cup (IF o \in Spends[t] THEN {t} ELSE {})) \ (all \ kept)
                  = {u \in kept : o \in Spends[u]}
    BY <1>3, Zenon
  <2>3. mapOrphanTransactionsByPrev' = [o \in Prevouts |-> {u \in kept : o \in Spends[u]}]
    BY <2>1, <2>2, Zenon
  <2> QED
    BY <1>5, <2>3, Zenon DEF ByPrevExact
<1>12. OrphanSendersPunished' /\ Blamed'
  BY <1>3, <1>5, <1>6, <1>7, Zenon DEF OrphanSendersPunished, Blamed
<1>13. Awaited'
  <2> SUFFICES ASSUME NEW u \in kept \ (stranded \cap kept)
               PROVE  (\E q \in peersOn : u \in orphan_work_set[q]) \/ Missing(u, mempoolTxs)
    BY <1>5, Zenon DEF Awaited, Missing, HaveCoinsOf, SpentBy
  <2> QED
    BY <1>3, <1>7, Zenon DEF Awaited
<1> QED
  BY <1>5, <1>8, <1>10, <1>11, <1>12, <1>13, Zenon DEF OrphanInv

\* A sweep only takes orphans away.
LEMMA SweepStep ==
    ASSUME OrphanInv, SweepOrphans, stranded' = stranded \cap DOMAIN mapOrphanTransactions',
           UNCHANGED <<orphan_work_set, mempoolTxs, punished, confirmed, peersOn>>,
           recentRejects' \in SUBSET Txs, rejectsStale' \in BOOLEAN, lied \subseteq lied'
    PROVE  OrphanInv'
<1>1. PICK expired \in SUBSET Orphans : EraseOrphans(expired)
  BY Zenon DEF SweepOrphans
<1>2. /\ OrphanTypeOK /\ ByPrevExact /\ OrphanSendersPunished /\ IsFiniteSet(Orphans)
      /\ Blamed /\ Awaited
  BY Zenon DEF OrphanInv
<1>3. /\ Orphans' \subseteq Orphans /\ ByPrevExact'
      /\ \A u \in Orphans' : mapOrphanTransactions'[u] = mapOrphanTransactions[u]
  BY <1>1, <1>2, Erasing, Zenon
<1>4. stranded' = stranded \cap Orphans'
  BY Zenon DEF Orphans
<1>5. /\ Orphans' \subseteq Txs \ Big /\ IsFiniteSet(Orphans')
      /\ Cardinality(Orphans') <= nMaxOrphanTx
  BY <1>2, <1>3, FewerOrphans, Zenon
<1>6. OrphanTypeOK'
  BY <1>2, <1>4, <1>5, Zenon DEF OrphanTypeOK
<1>7. OrphanSendersPunished' /\ Blamed'
  BY <1>2, <1>3, Zenon DEF OrphanSendersPunished, Blamed
<1>8. Awaited'
  BY <1>2, <1>3, <1>4, Zenon DEF Awaited, Missing, HaveCoinsOf, SpentBy
<1> QED
  BY <1>3, <1>5, <1>6, <1>7, <1>8, Zenon DEF OrphanInv

\* The TX message.
LEMMA TxMessageStep ==
    ASSUME OrphanInv, NEW p \in OrphanPeers, NEW t \in Txs, TxMessage(p, t)
    PROVE  OrphanInv'
<1> DEFINE rejects == IF rejectsStale THEN {} ELSE recentRejects
           have == t \in rejects \/ t \in mempoolTxs \/ t \in Orphans \/ HaveCoinsOf(t, {})
           verdict == IF have THEN "known" ELSE Verdict(t, mempoolTxs)
<1>1. /\ p \in peersOn /\ orphan_work_set[p] = {} /\ rejectsStale' = FALSE
      /\ lied' = (IF t \in InvalidTx THEN lied \cup {p} ELSE lied)
      /\ stranded' = stranded \cap DOMAIN mapOrphanTransactions'
      /\ UNCHANGED <<confirmed, peersOn>>
  BY Zenon DEF TxMessage
<1>2. /\ OrphanTypeOK /\ ByPrevExact /\ OrphanSendersPunished /\ IsFiniteSet(Orphans)
      /\ Blamed /\ Awaited
  BY Zenon DEF OrphanInv
<1>3. /\ rejects \in SUBSET Txs /\ mempoolTxs \in SUBSET Txs /\ Orphans \subseteq Txs
      /\ stranded \subseteq Orphans
  BY <1>2, Zenon DEF OrphanTypeOK
<1>4. lied \subseteq lied' /\ (t \in InvalidTx => p \in lied') /\ rejectsStale' \in BOOLEAN
  BY <1>1, Zenon
<1>5. \/ /\ verdict = "accepted"
         /\ ProcessOrphanTx(p, AddedWork(t), mempoolTxs \cup {t}, rejects)
      \/ /\ verdict = "missing"
         /\ recentRejects' \in {rejects, rejects \cup {t}}
         /\ \/ UNCHANGED <<mapOrphanTransactions, mapOrphanTransactionsByPrev>>
            \/ SweepOrphans
            \/ t \notin Big /\ AddOrphanTx(t, p)
         /\ UNCHANGED <<orphan_work_set, mempoolTxs, punished>>
      \/ /\ verdict \in {"known", "rejected", "invalid"}
         /\ recentRejects' = rejects \cup {t}
         /\ punished' = (IF verdict = "invalid" THEN punished \cup {p} ELSE punished)
         /\ UNCHANGED <<mapOrphanTransactions, mapOrphanTransactionsByPrev, orphan_work_set,
                        mempoolTxs>>
  BY Zenon DEF TxMessage
<1>6. CASE verdict = "accepted" /\ ProcessOrphanTx(p, AddedWork(t), mempoolTxs \cup {t}, rejects)
  <2>1. AddedWork(t) = {u \in Orphans : t \in Creators(u)}
    BY <1>2, ChildrenAre, Zenon DEF AddedWork
  <2>2. AddedWork(t) \in SUBSET Txs /\ mempoolTxs \cup {t} \in SUBSET Txs
    BY <1>3, <2>1, Zenon
  <2>3. ASSUME NEW u \in Orphans \ stranded
        PROVE  \/ \E q \in peersOn : q # p /\ u \in orphan_work_set[q]
               \/ u \in AddedWork(t) \/ Missing(u, mempoolTxs \cup {t})
    <3>1. CASE Missing(u, mempoolTxs)
      BY <2>1, <3>1, StillMissing, Zenon
    <3>2. CASE \E q \in peersOn : u \in orphan_work_set[q]
      BY <1>1, <3>2
    <3> QED
      BY <1>2, <3>1, <3>2, Zenon DEF Awaited
  <2> HIDE DEF rejects
  <2> QED
    BY <1>1, <1>3, <1>4, <1>6, <2>2, <2>3, ProcessStep, Zenon
<1>7. CASE UNCHANGED <<mapOrphanTransactions, mapOrphanTransactionsByPrev, orphan_work_set, mempoolTxs>>
           /\ recentRejects' \in SUBSET Txs /\ punished' \subseteq lied'
  <2>1. Orphans' = Orphans /\ stranded' = stranded
    BY <1>1, <1>3, <1>7, Zenon DEF Orphans
  <2>2. OrphanTypeOK' /\ ByPrevExact'
    BY <1>1, <1>2, <1>7, <2>1, Zenon DEF OrphanTypeOK, ByPrevExact
  <2>3. OrphanSendersPunished' /\ Blamed'
    BY <1>1, <1>2, <1>4, <1>7, <2>1, Zenon DEF OrphanSendersPunished, Blamed
  <2>4. Awaited'
    BY <1>1, <1>2, <1>7, <2>1, Zenon DEF Awaited, Missing, HaveCoinsOf, SpentBy
  <2> QED
    BY <1>2, <2>1, <2>2, <2>3, <2>4, Zenon DEF OrphanInv
<1>8. CASE /\ verdict = "missing" /\ recentRejects' \in {rejects, rejects \cup {t}}
           /\ t \notin Big /\ AddOrphanTx(t, p)
           /\ UNCHANGED <<orphan_work_set, mempoolTxs, punished>>
  <2>1. t \notin Orphans /\ Verdict(t, mempoolTxs) = "missing"
    BY <1>8, Zenon
  <2>2. Missing(t, mempoolTxs)
    BY <2>1, Verdicts, Zenon
  <2>3. recentRejects' \in SUBSET Txs /\ t \in Txs \ Big
    BY <1>3, <1>8, Zenon
  <2>4. UNCHANGED <<orphan_work_set, mempoolTxs, punished, confirmed, peersOn>>
    BY <1>1, <1>8, Zenon
  <2> QED
    BY <1>1, <1>4, <1>8, <2>1, <2>2, <2>3, <2>4, AddStep, Zenon
<1>9. verdict = "invalid" => t \in InvalidTx
  BY Verdicts, Zenon
<1>10. CASE /\ recentRejects' \in {rejects, rejects \cup {t}} /\ SweepOrphans
            /\ UNCHANGED <<orphan_work_set, mempoolTxs, punished>>
  <2>1. recentRejects' \in SUBSET Txs
    BY <1>3, <1>10, Zenon
  <2>2. UNCHANGED <<orphan_work_set, mempoolTxs, punished, confirmed, peersOn>>
    BY <1>1, <1>10, Zenon
  <2> QED
    BY <1>1, <1>4, <1>10, <2>1, <2>2, SweepStep, Zenon
<1>11. punished \subseteq lied
  BY <1>2 DEF OrphanSendersPunished
<1> QED
  BY <1>3, <1>4, <1>5, <1>6, <1>7, <1>8, <1>9, <1>10, <1>11, Zenon

\* A transaction that comes without a message strands its children.
LEMMA LocalStep ==
    ASSUME OrphanInv, NEW t \in Txs, LocalTransaction(t)
    PROVE  OrphanInv'
<1>1. /\ mempoolTxs' = mempoolTxs \cup {t} /\ stranded' = stranded \cup Children(t)
      /\ UNCHANGED <<mapOrphanTransactions, mapOrphanTransactionsByPrev, orphan_work_set,
                   recentRejects, rejectsStale, confirmed, peersOn, punished, lied>>
  BY Zenon DEF LocalTransaction
<1>2. /\ OrphanTypeOK /\ ByPrevExact /\ OrphanSendersPunished /\ IsFiniteSet(Orphans)
      /\ Blamed /\ Awaited
  BY Zenon DEF OrphanInv
<1>3. Orphans' = Orphans
  BY <1>1, Zenon DEF Orphans
<1>4. Children(t) = {u \in Orphans : t \in Creators(u)}
  BY <1>2, ChildrenAre, Zenon
<1>5. OrphanTypeOK' /\ ByPrevExact'
  BY <1>1, <1>2, <1>3, <1>4, Zenon DEF OrphanTypeOK, ByPrevExact
<1>6. OrphanSendersPunished' /\ Blamed'
  BY <1>1, <1>2, <1>3, Zenon DEF OrphanSendersPunished, Blamed
<1>7. Awaited'
  <2> SUFFICES ASSUME NEW u \in Orphans \ (stranded \cup Children(t))
               PROVE  (\E q \in peersOn : u \in orphan_work_set[q]) \/ Missing(u, mempoolTxs \cup {t})
    BY <1>1, <1>3, Zenon DEF Awaited, Missing, HaveCoinsOf, SpentBy
  <2> QED
    BY <1>2, <1>4, StillMissing, Zenon DEF Awaited
<1> QED
  BY <1>2, <1>3, <1>5, <1>6, <1>7, Zenon DEF OrphanInv

\* A block takes coins from everybody but its own transaction, whose children
\* are stranded.
LEMMA BlockStep ==
    ASSUME OrphanInv, NEW t \in Txs, BlockConnected(t)
    PROVE  OrphanInv'
<1>1. /\ confirmed' = confirmed \cup {t} /\ rejectsStale' = TRUE
      /\ mempoolTxs' \subseteq mempoolTxs
      /\ EraseOrphans(PrecludedOrphans(t))
      /\ stranded' = (stranded \cup Children(t)) \cap DOMAIN mapOrphanTransactions'
      /\ UNCHANGED <<orphan_work_set, recentRejects, peersOn, punished, lied>>
  BY Zenon DEF BlockConnected
<1>2. /\ OrphanTypeOK /\ ByPrevExact /\ OrphanSendersPunished /\ IsFiniteSet(Orphans)
      /\ Blamed /\ Awaited
  BY Zenon DEF OrphanInv
<1>3. /\ Orphans' \subseteq Orphans /\ ByPrevExact'
      /\ \A u \in Orphans' : mapOrphanTransactions'[u] = mapOrphanTransactions[u]
  BY <1>1, <1>2, Erasing, Zenon
<1>4. stranded' = (stranded \cup Children(t)) \cap Orphans'
  BY <1>1, Zenon DEF Orphans
<1>5. Children(t) = {u \in Orphans : t \in Creators(u)}
  BY <1>2, ChildrenAre, Zenon
<1>6. OrphanTypeOK' /\ IsFiniteSet(Orphans)'
  <2>1. /\ Orphans' \subseteq Txs \ Big /\ IsFiniteSet(Orphans')
        /\ Cardinality(Orphans') <= nMaxOrphanTx
    BY <1>2, <1>3, FewerOrphans, Zenon
  <2> QED
    BY <1>1, <1>2, <1>4, <2>1, Zenon DEF OrphanTypeOK
<1>7. OrphanSendersPunished' /\ Blamed'
  BY <1>1, <1>2, <1>3, Zenon DEF OrphanSendersPunished, Blamed
<1>8. ASSUME NEW h, ~HaveCoinsOf(h, mempoolTxs), h # t
      PROVE  ~HaveCoinsOf(h, mempoolTxs)'
  <2>1. SpentBy(confirmed) \subseteq SpentBy(confirmed)'
    BY <1>1, Zenon DEF SpentBy
  <2> QED
    BY <1>1, <1>8, <2>1, Zenon DEF HaveCoinsOf
<1>9. ASSUME NEW u \in Orphans' \ stranded'
      PROVE  (\E q \in peersOn' : u \in orphan_work_set'[q]) \/ Missing(u, mempoolTxs)'
  <2>1. u \in Orphans \ stranded /\ t \notin Creators(u)
    BY <1>3, <1>4, <1>5, <1>9, Zenon
  <2>2. CASE Missing(u, mempoolTxs)
    <3>1. PICK h \in Creators(u) : ~HaveCoinsOf(h, mempoolTxs)
      BY <2>2, Zenon DEF Missing
    <3>2. ~HaveCoinsOf(h, mempoolTxs)'
      BY <1>8, <2>1, <3>1, Zenon
    <3> QED
      BY <3>1, <3>2, Zenon DEF Missing
  <2> QED
    BY <1>1, <1>2, <2>1, <2>2, Zenon DEF Awaited
<1> QED
  BY <1>3, <1>6, <1>7, <1>9, Zenon DEF OrphanInv, Awaited

\* A peer that leaves takes its orphans along, and strands those of others that
\* were to be tried for it.
LEMMA DisconnectStep ==
    ASSUME OrphanInv, NEW p \in OrphanPeers, DisconnectPeer(p)
    PROVE  OrphanInv'
<1>1. /\ p \in peersOn /\ peersOn' = peersOn \ {p}
      /\ EraseOrphans(OrphansFor(p))
      /\ orphan_work_set' = [orphan_work_set EXCEPT ![p] = {}]
      /\ stranded' = (stranded \cup orphan_work_set[p]) \cap DOMAIN mapOrphanTransactions'
      /\ punished' = punished \ {p} /\ lied' = lied \ {p}
      /\ UNCHANGED <<recentRejects, rejectsStale, mempoolTxs, confirmed>>
  BY Zenon DEF DisconnectPeer
<1>2. /\ OrphanTypeOK /\ ByPrevExact /\ OrphanSendersPunished /\ IsFiniteSet(Orphans)
      /\ Blamed /\ Awaited
  BY Zenon DEF OrphanInv
<1>3. /\ Orphans' = Orphans \ OrphansFor(p) /\ ByPrevExact'
      /\ \A u \in Orphans' : mapOrphanTransactions'[u] = mapOrphanTransactions[u]
  BY <1>1, <1>2, Erasing, Zenon
<1>4. stranded' = (stranded \cup orphan_work_set[p]) \cap Orphans'
  BY <1>1, Zenon DEF Orphans
<1>5. \A u \in Orphans' : u \in Orphans /\ mapOrphanTransactions'[u] # p
  BY <1>3, Zenon DEF OrphansFor
<1>6. /\ orphan_work_set' \in [OrphanPeers -> SUBSET Txs] /\ peersOn \subseteq OrphanPeers
      /\ \A q \in OrphanPeers : q # p => orphan_work_set'[q] = orphan_work_set[q]
  BY <1>1, <1>2, Zenon DEF OrphanTypeOK
<1>7. OrphanTypeOK' /\ IsFiniteSet(Orphans)'
  <2>1. /\ Orphans' \subseteq Txs \ Big /\ IsFiniteSet(Orphans')
        /\ Cardinality(Orphans') <= nMaxOrphanTx
    BY <1>2, <1>3, FewerOrphans, Zenon
  <2> QED
    BY <1>1, <1>2, <1>4, <1>6, <2>1, Zenon DEF OrphanTypeOK
<1>8. OrphanSendersPunished' /\ Blamed'
  BY <1>1, <1>2, <1>3, <1>5, Zenon DEF OrphanSendersPunished, Blamed
<1>9. ASSUME NEW u \in Orphans' \ stranded'
      PROVE  (\E q \in peersOn' : u \in orphan_work_set'[q]) \/ Missing(u, mempoolTxs)'
  <2>1. u \in Orphans \ stranded /\ u \notin orphan_work_set[p]
    BY <1>4, <1>5, <1>9, Zenon
  <2>2. CASE Missing(u, mempoolTxs)
    BY <1>1, <2>2, Zenon DEF Missing, HaveCoinsOf, SpentBy
  <2>3. CASE \E q \in peersOn : u \in orphan_work_set[q]
    BY <1>1, <1>6, <2>1, <2>3, Zenon
  <2> QED
    BY <1>2, <2>1, <2>2, <2>3, Zenon DEF Awaited
<1> QED
  BY <1>3, <1>7, <1>8, <1>9, Zenon DEF OrphanInv, Awaited

\* A peer connects.
LEMMA ConnectStep ==
    ASSUME OrphanInv, NEW p \in OrphanPeers, ConnectPeer(p)
    PROVE  OrphanInv'
<1>1. /\ peersOn' = peersOn \cup {p}
      /\ UNCHANGED <<mapOrphanTransactions, mapOrphanTransactionsByPrev, orphan_work_set,
                   recentRejects, rejectsStale, mempoolTxs, confirmed, punished, lied, stranded>>
  BY Zenon DEF ConnectPeer
<1>2. Orphans' = Orphans
  BY <1>1, Zenon DEF Orphans
<1>3. OrphanTypeOK' /\ ByPrevExact' /\ OrphanSendersPunished' /\ Blamed'
  BY <1>1, <1>2, Zenon DEF OrphanInv, OrphanTypeOK, ByPrevExact, OrphanSendersPunished, Blamed
<1>4. Awaited'
  BY <1>1, <1>2, Zenon DEF OrphanInv, Awaited, Missing, HaveCoinsOf, SpentBy
<1> QED
  BY <1>2, <1>3, <1>4, Zenon DEF OrphanInv

\* Nothing happens.
LEMMA OrphanStutter ==
    ASSUME OrphanInv, UNCHANGED orphanVars
    PROVE  OrphanInv'
<1>1. Orphans' = Orphans
  BY Zenon DEF Orphans, orphanVars
<1>2. OrphanTypeOK' /\ ByPrevExact' /\ OrphanSendersPunished' /\ Blamed'
  BY <1>1, Zenon DEF OrphanInv, OrphanTypeOK, ByPrevExact, OrphanSendersPunished, Blamed, orphanVars
<1>3. Awaited'
  BY <1>1, Zenon DEF OrphanInv, Awaited, Missing, HaveCoinsOf, SpentBy, orphanVars
<1> QED
  BY <1>1, <1>2, <1>3, Zenon DEF OrphanInv

LEMMA OrphanFirst == OrphanInit => OrphanInv
<1> SUFFICES ASSUME OrphanInit PROVE OrphanInv
  BY Zenon
<1>1. Orphans = {} /\ IsFiniteSet(Orphans) /\ Cardinality(Orphans) = 0
  BY FS_EmptySet DEF OrphanInit, Orphans
<1>2. OrphanTypeOK
  <2>1. Cardinality(Orphans) <= nMaxOrphanTx
    BY <1>1, OrphanPoolAssumption
  <2>2. orphan_work_set \in [OrphanPeers -> SUBSET Txs]
    BY Zenon DEF OrphanInit
  <2> QED
    BY <1>1, <2>1, <2>2, Zenon DEF OrphanInit, OrphanTypeOK
<1>3. ByPrevExact
  BY <1>1, Zenon DEF OrphanInit, ByPrevExact
<1> QED
  BY <1>1, <1>2, <1>3, Zenon DEF OrphanInit, OrphanInv, OrphanSendersPunished, Awaited, Blamed

(***************************************************************************)
(* OrphansSafe.  However transactions, blocks and peers come and go, the   *)
(* two orphan maps agree, the peer of an orphan is connected and is        *)
(* punished only for what it sent, and an orphan that could be judged is   *)
(* in a work set or was stranded (AddOrphanTx, EraseOrphanTx,              *)
(* ProcessOrphanTx, EraseOrphansFor, SyncTransaction).                     *)
(***************************************************************************)
THEOREM OrphansAreSafe == OrphanSpec => []OrphansSafe
<1>1. OrphanInv /\ [OrphanNext]_orphanVars => OrphanInv'
  BY ProcessOrphansStep, DisconnectStep, ConnectStep, TxMessageStep, LocalStep, BlockStep,
     OrphanStutter, Zenon DEF OrphanNext
<1>2. OrphanInv => OrphansSafe
  <2> SUFFICES ASSUME OrphanInv PROVE OrphansQueued
    BY Zenon DEF OrphanInv, OrphansSafe
  <2> QED
    BY Verdicts, Zenon DEF OrphanInv, Awaited, OrphansQueued
<1> QED
  BY <1>1, <1>2, OrphanFirst, PTL DEF OrphanSpec
=============================================================================
