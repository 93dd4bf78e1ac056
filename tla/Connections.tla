---------------------------- MODULE Connections ----------------------------
(***************************************************************************)
(* The life of a CNode (net.cpp, CConnman).  Connections are opened by     *)
(* ThreadOpenConnections and accepted by ThreadSocketHandler, used by that *)
(* thread and by ThreadMessageHandler through copies of vNodes with a      *)
(* reference per node, and deleted by the socket thread when nobody holds  *)
(* a reference, or by Stop.  The two threads also hand over the received   *)
(* messages: the socket thread appends to vProcessMsg and sets             *)
(* fMsgProcWake, the message thread sleeps until that flag is set.         *)
(*                                                                         *)
(* A node is the place of a CNode object: free, until one is constructed   *)
(* there, and free again when it is deleted.  Messages are counted.  Every *)
(* section under a lock is a step, and so is every read or write of an     *)
(* atomic flag that other threads can see change.  The loops over vNodes   *)
(* under cs_vNodes read the fDisconnect flags at one moment: a flag set    *)
(* meanwhile is seen by the next iteration.  TRY_LOCK in                   *)
(* DeleteDisconnectedNodes always succeeds: the locks of a node are only   *)
(* held by users with a reference to it.                                   *)
(***************************************************************************)
EXTENDS Integers, FiniteSets

CONSTANTS Outbound,          \* nodes that ThreadOpenConnections can create
          Inbound,           \* nodes that AcceptConnection can create
          nMaxGrants,        \* initial value of semOutbound
          nReceiveFloodSize, \* messages in vProcessMsg beyond which reading stops
          Talkers            \* bound: the nodes that exchange messages

Nodes == Outbound \cup Inbound

ASSUME ConnectionsAssumption ==
    /\ IsFiniteSet(Nodes) /\ Outbound \cap Inbound = {}
    /\ nMaxGrants \in Nat /\ nReceiveFloodSize \in Nat /\ Talkers \subseteq Nodes

VARIABLES
    vNodes,             \* CConnman::vNodes
    vNodesDisconnected, \* removed from vNodes, not deleted yet
    made,               \* node ConnectNode returned and nobody has pushed yet
    freed,              \* places without an object: not made yet, or deleted
    nRefCount, fDisconnect, fPauseRecv, fPauseSend,
    vProcessMsg,        \* number of messages queued for a node
    semOutbound,        \* value of the semaphore
    opener,             \* ThreadOpenConnections: "idle", "grant", "made", "exit"
    netAt,              \* where ThreadSocketHandler is
    netCopy,            \* its vNodesCopy: nodes it holds a reference to
    netTodo,            \* nodes of the copy it has still to service
    msgAt,              \* where ThreadMessageHandler is
    msgCopy, msgTodo,   \* its vNodesCopy, and the part not yet visited
    fMoreWork, fMsgProcWake,
    flagInterruptMsgProc, interruptNet,
    stopAt,             \* CConnman: "running", "interrupted", "stopped"
    drained             \* nodes whose send buffer was full at the last visit and is not now

fieldVars == <<fDisconnect, fPauseRecv, fPauseSend, vProcessMsg, drained>>
nodeVars == <<nRefCount, fieldVars>>
listVars == <<vNodes, vNodesDisconnected, made, freed>>
netVars == <<netAt, netCopy, netTodo>>
msgVars == <<msgAt, msgCopy, msgTodo, fMoreWork>>
stopVars == <<flagInterruptMsgProc, interruptNet, stopAt>>

connVars == <<vNodes, vNodesDisconnected, made, freed, nRefCount, fDisconnect,
              fPauseRecv, fPauseSend, vProcessMsg, semOutbound, opener,
              netAt, netCopy, netTodo, msgAt, msgCopy, msgTodo, fMoreWork,
              fMsgProcWake, flagInterruptMsgProc, interruptNet, stopAt, drained>>

ConnectionsInit ==
    /\ vNodes = {} /\ vNodesDisconnected = {} /\ made = {} /\ freed = Nodes
    /\ nRefCount = [n \in Nodes |-> 0]
    /\ fDisconnect = [n \in Nodes |-> FALSE]
    /\ fPauseRecv = [n \in Nodes |-> FALSE]
    /\ fPauseSend = [n \in Nodes |-> FALSE]
    /\ vProcessMsg = [n \in Nodes |-> 0]
    /\ semOutbound = nMaxGrants /\ opener = "idle"
    /\ netAt = "disconnect" /\ netCopy = {} /\ netTodo = {}
    /\ msgAt = "pass" /\ msgCopy = {} /\ msgTodo = {} /\ fMoreWork = FALSE
    /\ fMsgProcWake = FALSE /\ flagInterruptMsgProc = FALSE /\ interruptNet = FALSE
    /\ stopAt = "running" /\ drained = {}

AddRef(N) == nRefCount' = [n \in Nodes |-> nRefCount[n] + (IF n \in N THEN 1 ELSE 0)]
Release(N) == nRefCount' = [n \in Nodes |-> nRefCount[n] - (IF n \in N THEN 1 ELSE 0)]
\* delete pnode: the next object in the place starts as the constructor leaves it.
DeleteNode(N) ==
    /\ freed' = freed \cup N
    /\ fDisconnect' = [n \in Nodes |-> fDisconnect[n] /\ n \notin N]
    /\ fPauseRecv' = [n \in Nodes |-> fPauseRecv[n] /\ n \notin N]
    /\ fPauseSend' = [n \in Nodes |-> fPauseSend[n] /\ n \notin N]
    /\ vProcessMsg' = [n \in Nodes |-> IF n \in N THEN 0 ELSE vProcessMsg[n]]
    /\ drained' = drained \ N

Flag(N) == fDisconnect' = [n \in Nodes |-> fDisconnect[n] \/ n \in N]

-----------------------------------------------------------------------------
(* ThreadOpenConnections.                                                   *)

\* CSemaphoreGrant grant(*semOutbound), and the test of interruptNet after it.
\* (The branch for -connect, which opens nodes without a grant, is left out.)
Acquire ==
    /\ opener = "idle" /\ ~interruptNet /\ semOutbound > 0
    /\ semOutbound' = semOutbound - 1
    /\ opener' = "grant"
    /\ UNCHANGED <<listVars, nodeVars, netVars, msgVars, stopVars, fMsgProcWake>>

\* No address, no connection, or interrupted: the grant's destructor posts.
GiveUp ==
    /\ opener = "grant"
    /\ semOutbound' = semOutbound + 1
    /\ opener' = IF interruptNet THEN "exit" ELSE "idle"
    /\ UNCHANGED <<listVars, nodeVars, netVars, msgVars, stopVars, fMsgProcWake>>

\* ConnectNode: the new node is referenced and takes over the grant.
ConnectNode(n) ==
    /\ opener = "grant" /\ n \in Outbound \cap freed
    /\ made' = {n} /\ freed' = freed \ {n} /\ AddRef({n}) /\ opener' = "made"
    /\ UNCHANGED <<vNodes, vNodesDisconnected, fieldVars, semOutbound, netVars, msgVars,
                   stopVars, fMsgProcWake>>

\* The end of OpenNetworkConnection: vNodes.push_back.
Push ==
    /\ opener = "made"
    /\ vNodes' = vNodes \cup made /\ made' = {}
    /\ opener' = "idle"
    /\ UNCHANGED <<vNodesDisconnected, freed, nodeVars, semOutbound, netVars,
                   msgVars, stopVars, fMsgProcWake>>

OpenerExit ==
    /\ opener = "idle" /\ interruptNet
    /\ opener' = "exit"
    /\ UNCHANGED <<listVars, nodeVars, semOutbound, netVars, msgVars, stopVars,
                   fMsgProcWake>>

OpenerStep == Acquire \/ GiveUp \/ (\E n \in Outbound : ConnectNode(n)) \/ Push \/ OpenerExit

-----------------------------------------------------------------------------
(* ThreadSocketHandler.                                                     *)

Grants(N) == Cardinality(N \cap Outbound)

\* Mutant: the grant of a disconnected node is kept until it is deleted.
DisconnectKeepingGrant ==
    LET gone == {n \in vNodes : fDisconnect[n]} IN
    /\ vNodes' = vNodes \ gone
    /\ vNodesDisconnected' = vNodesDisconnected \cup gone
    /\ Release(gone)
    /\ UNCHANGED <<semOutbound, made, freed, fieldVars>>

DisconnectUnusedNodes ==
    LET gone == {n \in vNodes : fDisconnect[n]} IN
    /\ vNodes' = vNodes \ gone
    /\ vNodesDisconnected' = vNodesDisconnected \cup gone
    /\ Release(gone)
    /\ semOutbound' = semOutbound + Grants(gone)
    /\ UNCHANGED <<made, freed, fieldVars>>

\* Mutant: a disconnected node is deleted whoever still uses it.
DeleteWhateverRefs ==
    /\ DeleteNode(vNodesDisconnected)
    /\ vNodesDisconnected' = {}
    /\ UNCHANGED <<vNodes, made, nRefCount, semOutbound>>

\* Mutant: the reference of vNodes is not expected to be gone.
DeleteNever ==
    LET unused == {n \in vNodesDisconnected : nRefCount[n] < 0} IN
    /\ DeleteNode(unused)
    /\ vNodesDisconnected' = vNodesDisconnected \ unused
    /\ UNCHANGED <<vNodes, made, nRefCount, semOutbound>>

DeleteDisconnectedNodes ==
    LET unused == {n \in vNodesDisconnected : nRefCount[n] <= 0} IN
    /\ DeleteNode(unused)
    /\ vNodesDisconnected' = vNodesDisconnected \ unused
    /\ UNCHANGED <<vNodes, made, nRefCount, semOutbound>>

NetDisconnect ==
    /\ netAt = "disconnect"
    /\ IF interruptNet
       THEN netAt' = "exit" /\ UNCHANGED <<listVars, nodeVars, semOutbound>>
       ELSE netAt' = "delete" /\ DisconnectUnusedNodes
    /\ UNCHANGED <<opener, netCopy, netTodo, msgVars, stopVars, fMsgProcWake>>

NetDelete ==
    /\ netAt = "delete"
    /\ netAt' = IF interruptNet THEN "exit" ELSE "accept"
    /\ DeleteDisconnectedNodes
    /\ UNCHANGED <<opener, netCopy, netTodo, msgVars, stopVars, fMsgProcWake>>

\* AttemptToEvictConnection marks some inbound node, or finds none to evict.
Evictions == {{}} \cup {{n} : n \in vNodes \cap Inbound}

\* AcceptConnection creates the node and pushes it, after evicting one at the
\* limit.  The limit can be set at any time (setmaxconnections) and is an input.
AcceptConnection(n) ==
    /\ netAt = "accept" /\ n \in Inbound \cap freed
    /\ \E E \in Evictions : Flag(E)
    /\ vNodes' = vNodes \cup {n} /\ freed' = freed \ {n} /\ AddRef({n})
    /\ UNCHANGED <<vNodesDisconnected, made, fPauseRecv, fPauseSend, vProcessMsg, drained,
                   semOutbound, opener, netVars, msgVars, stopVars, fMsgProcWake>>

\* vNodesCopy = vNodes with a reference for each, under cs_vNodes.
NetTakeCopy ==
    /\ netAt = "accept" /\ netAt' = "service"
    /\ netCopy' = vNodes /\ netTodo' = vNodes /\ AddRef(vNodes)
    /\ UNCHANGED <<listVars, fieldVars, semOutbound, opener, msgVars, stopVars, fMsgProcWake>>

\* A node is serviced: a complete message arrives (only selected for when reading
\* is not paused), the send buffer drains, the connection ends or has timed out,
\* or nothing happens.  What select() was asked for is older than the service:
\* since then the node may have been flagged, or its send buffer filled.
Receive(n) ==
    /\ n \in Talkers /\ ~fPauseRecv[n]
    /\ vProcessMsg' = [vProcessMsg EXCEPT ![n] = @ + 1]
    /\ fPauseRecv' = [fPauseRecv EXCEPT ![n] = vProcessMsg[n] + 1 > nReceiveFloodSize]
    /\ netAt' = "wake"
    /\ UNCHANGED <<fDisconnect, fPauseSend, drained>>

Drain(n) ==
    /\ fPauseSend[n]
    /\ fPauseSend' = [fPauseSend EXCEPT ![n] = FALSE]
    /\ drained' = drained \cup {n}
    /\ UNCHANGED <<netAt, vProcessMsg, fPauseRecv, fDisconnect>>

Hangup(n) ==
    /\ Flag({n})
    /\ UNCHANGED <<netAt, vProcessMsg, fPauseRecv, fPauseSend, drained>>

Quiet == UNCHANGED <<netAt, fieldVars>>

Service(n) ==
    /\ netAt = "service" /\ n \in netTodo /\ ~interruptNet
    /\ netTodo' = netTodo \ {n}
    /\ Receive(n) \/ Drain(n) \/ Hangup(n) \/ Quiet
    /\ UNCHANGED <<listVars, nRefCount, semOutbound, opener, netCopy, msgVars,
                   stopVars, fMsgProcWake>>

WakeMessageHandler ==
    /\ netAt = "wake"
    /\ fMsgProcWake' = TRUE
    /\ netAt' = "service"
    /\ UNCHANGED <<listVars, nodeVars, semOutbound, opener, netCopy, netTodo, msgVars,
                   stopVars>>

NetInterrupted ==
    /\ netAt = "service" /\ netTodo # {} /\ interruptNet
    /\ netAt' = "exit"
    /\ UNCHANGED <<listVars, nodeVars, semOutbound, opener, netCopy, netTodo, msgVars,
                   stopVars, fMsgProcWake>>

\* Above nMaxConnections unused nodes are disconnected and deleted while the
\* copy is held, and one node is evicted; then the references are released.
NetReduce ==
    /\ \/ netAt = "service" /\ netTodo = {} /\ netAt' = "reduce" /\ DisconnectUnusedNodes
       \/ netAt = "reduce" /\ netAt' = "evict" /\ DeleteDisconnectedNodes
       \/ /\ netAt = "evict" /\ netAt' = "release"
          /\ \E E \in Evictions : Flag(E)
          /\ UNCHANGED <<listVars, nRefCount, fPauseRecv, fPauseSend, vProcessMsg,
                         drained, semOutbound>>
    /\ UNCHANGED <<opener, netCopy, netTodo, msgVars, stopVars, fMsgProcWake>>

NetRelease ==
    /\ netAt = "release" \/ (netAt = "service" /\ netTodo = {})
    /\ Release(netCopy)
    /\ netCopy' = {} /\ netTodo' = {}
    /\ netAt' = "disconnect"
    /\ UNCHANGED <<listVars, fieldVars, semOutbound, opener, msgVars, stopVars, fMsgProcWake>>

NetStep ==
    \/ NetDisconnect \/ NetDelete \/ (\E n \in Inbound : AcceptConnection(n))
    \/ NetTakeCopy \/ (\E n \in Nodes : Service(n)) \/ WakeMessageHandler
    \/ NetInterrupted \/ NetReduce \/ NetRelease

-----------------------------------------------------------------------------
(* ThreadMessageHandler.                                                    *)

MsgTakeCopy ==
    /\ msgAt = "pass" /\ ~flagInterruptMsgProc
    /\ msgCopy' = vNodes /\ msgTodo' = vNodes /\ AddRef(vNodes)
    /\ fMoreWork' = FALSE /\ msgAt' = "visit"
    /\ UNCHANGED <<listVars, fieldVars, semOutbound, opener, netVars, fMsgProcWake, stopVars>>

MsgSkip(n) ==
    /\ msgAt = "visit" /\ n \in msgTodo /\ fDisconnect[n]
    /\ msgTodo' = msgTodo \ {n}
    /\ UNCHANGED <<listVars, nodeVars, semOutbound, opener, netVars, msgAt, msgCopy,
                   fMoreWork, fMsgProcWake, stopVars>>

PausedAfterTaking(n) == vProcessMsg[n] - 1 > nReceiveFloodSize

\* ProcessMessages and SendMessages for a node: at most one message is taken,
\* unless the send buffer is full; what either sends may fill it, and either may
\* have the node disconnected.
MsgVisit(n) ==
    LET taken == vProcessMsg[n] > 0 /\ ~fPauseSend[n] IN
    /\ msgAt = "visit" /\ n \in msgTodo /\ ~fDisconnect[n]
    /\ vProcessMsg' = [vProcessMsg EXCEPT ![n] = IF taken THEN @ - 1 ELSE @]
    /\ fPauseRecv' = [fPauseRecv EXCEPT ![n] =
                         IF taken THEN PausedAfterTaking(n) ELSE @]
    /\ \E full \in BOOLEAN, filled \in BOOLEAN, ends \in BOOLEAN :
          /\ full \/ filled => n \in Talkers
          /\ fPauseSend' = [fPauseSend EXCEPT ![n] = @ \/ full \/ filled]
          /\ Flag(IF ends THEN {n} ELSE {})
          /\ fMoreWork' = (fMoreWork \/ (taken /\ vProcessMsg[n] > 1 /\ ~full))
    /\ drained' = drained \ {n}
    /\ msgTodo' = msgTodo \ {n}
    /\ msgAt' = IF flagInterruptMsgProc THEN "exit" ELSE "visit"
    /\ UNCHANGED <<listVars, nRefCount, semOutbound, opener, netVars, msgCopy,
                   fMsgProcWake, stopVars>>

MsgRelease ==
    /\ msgAt = "visit" /\ msgTodo = {}
    /\ Release(msgCopy) /\ msgCopy' = {}
    /\ msgAt' = "wait"
    /\ UNCHANGED <<listVars, fieldVars, semOutbound, opener, netVars, msgTodo, fMoreWork,
                   fMsgProcWake, stopVars>>

\* Mutant: the wait does not test fMsgProcWake before it sleeps.
WaitUntested ==
    /\ msgAt = "wait"
    /\ msgAt' = IF fMoreWork THEN "pass" ELSE "asleep"
    /\ fMsgProcWake' = FALSE
    /\ UNCHANGED <<listVars, nodeVars, semOutbound, opener, netVars, msgCopy, msgTodo,
                   fMoreWork, stopVars>>

\* condMsgProc.wait_until is skipped when there is more work, and returns at
\* once when the flag is set already; the flag is cleared after it.
MsgWait ==
    /\ msgAt = "wait"
    /\ IF fMoreWork \/ fMsgProcWake
       THEN msgAt' = "pass" /\ fMsgProcWake' = FALSE
       ELSE msgAt' = "asleep" /\ UNCHANGED fMsgProcWake
    /\ UNCHANGED <<listVars, nodeVars, semOutbound, opener, netVars, msgCopy, msgTodo,
                   fMoreWork, stopVars>>

\* Notified with the flag set, or after 100 ms.
MsgAwake ==
    /\ msgAt = "asleep"
    /\ msgAt' = "pass" /\ fMsgProcWake' = FALSE
    /\ UNCHANGED <<listVars, nodeVars, semOutbound, opener, netVars, msgCopy, msgTodo,
                   fMoreWork, stopVars>>

MsgExit ==
    /\ msgAt = "pass" /\ flagInterruptMsgProc
    /\ msgAt' = "exit"
    /\ UNCHANGED <<listVars, nodeVars, semOutbound, opener, netVars, msgCopy, msgTodo,
                   fMoreWork, fMsgProcWake, stopVars>>

MsgStep ==
    \/ MsgTakeCopy \/ (\E n \in Nodes : MsgSkip(n) \/ MsgVisit(n)) \/ MsgRelease
    \/ MsgWait \/ MsgAwake \/ MsgExit

-----------------------------------------------------------------------------
(* RPC threads, and the thread that stops the node.                         *)

\* DisconnectNode (and Ban, SetNetworkActive), under cs_vNodes.
DisconnectNode(n) ==
    /\ stopAt = "running" /\ n \in vNodes
    /\ Flag({n})
    /\ UNCHANGED <<listVars, nRefCount, fPauseRecv, fPauseSend, vProcessMsg, drained,
                   semOutbound, opener, netVars, msgVars, fMsgProcWake, stopVars>>

\* CConnman::Interrupt: the message thread first, then the net threads, and
\* semOutbound is posted so that the opener does not wait for ever.
InterruptMsgProc ==
    /\ stopAt = "running" /\ ~flagInterruptMsgProc
    /\ flagInterruptMsgProc' = TRUE
    /\ UNCHANGED <<listVars, nodeVars, semOutbound, opener, netVars, msgVars,
                   fMsgProcWake, interruptNet, stopAt>>

InterruptNet ==
    /\ stopAt = "running" /\ flagInterruptMsgProc
    /\ interruptNet' = TRUE /\ stopAt' = "interrupted"
    /\ semOutbound' = semOutbound + nMaxGrants
    /\ UNCHANGED <<listVars, nodeVars, opener, netVars, msgVars, fMsgProcWake,
                   flagInterruptMsgProc>>

\* CConnman::Stop joins the threads and deletes every node that is left.
Stop ==
    /\ stopAt = "interrupted" /\ opener = "exit" /\ netAt = "exit" /\ msgAt = "exit"
    /\ DeleteNode(vNodes \cup vNodesDisconnected)
    /\ vNodes' = {} /\ vNodesDisconnected' = {} /\ stopAt' = "stopped"
    /\ netCopy' = {} /\ netTodo' = {} /\ msgCopy' = {} /\ msgTodo' = {}
    /\ UNCHANGED <<made, nRefCount, semOutbound, opener, netAt, msgAt, fMoreWork,
                   fMsgProcWake, flagInterruptMsgProc, interruptNet>>

ConnectionsStopped == stopAt = "stopped" /\ UNCHANGED connVars

ConnectionsNext ==
    \/ OpenerStep \/ NetStep \/ MsgStep
    \/ \E n \in Nodes : DisconnectNode(n)
    \/ InterruptMsgProc \/ InterruptNet \/ Stop
    \/ ConnectionsStopped

ConnectionsSpec == ConnectionsInit /\ [][ConnectionsNext]_connVars

-----------------------------------------------------------------------------
ConnectionsTypeOK ==
    /\ vNodes \subseteq Nodes /\ vNodesDisconnected \subseteq Nodes
    /\ made \subseteq Outbound /\ freed \subseteq Nodes
    /\ nRefCount \in [Nodes -> Int]
    /\ fDisconnect \in [Nodes -> BOOLEAN] /\ fPauseRecv \in [Nodes -> BOOLEAN]
    /\ fPauseSend \in [Nodes -> BOOLEAN]
    /\ vProcessMsg \in [Nodes -> Nat]
    /\ semOutbound \in Nat
    /\ opener \in {"idle", "grant", "made", "exit"}
    /\ netAt \in {"disconnect", "delete", "accept", "service", "wake", "reduce",
                  "evict", "release", "exit"}
    /\ netCopy \subseteq Nodes /\ netTodo \subseteq netCopy
    /\ msgAt \in {"pass", "visit", "wait", "asleep", "exit"}
    /\ msgCopy \subseteq Nodes /\ msgTodo \subseteq msgCopy /\ drained \subseteq Nodes
    /\ fMoreWork \in BOOLEAN /\ fMsgProcWake \in BOOLEAN
    /\ flagInterruptMsgProc \in BOOLEAN /\ interruptNet \in BOOLEAN
    /\ stopAt \in {"running", "interrupted", "stopped"}

\* Nobody holds a deleted node: whatever vNodes, a copy of it or the opening
\* thread refers to has not been passed to DeleteNode, however disconnection,
\* eviction, the two loops and Stop interleave.
NoUseAfterDelete ==
    (vNodes \cup vNodesDisconnected \cup made \cup netCopy \cup msgCopy) \cap freed = {}

\* nRefCount counts the holders of a node exactly, so that a node is not
\* deleted early and not kept for ever; only a loop that returned because it
\* was interrupted leaves its references to Stop.
RefCountExact ==
    stopAt # "stopped" => \A n \in Nodes : nRefCount[n] =
        (IF n \in vNodes \cup made THEN 1 ELSE 0) + (IF n \in netCopy THEN 1 ELSE 0)
        + (IF n \in msgCopy THEN 1 ELSE 0)

\* No node is lost: one that is not deleted is found in exactly one of the
\* lists, and after Stop there is none.
NoNodeLeaks ==
    /\ Nodes \ freed = vNodes \cup vNodesDisconnected \cup made
    /\ vNodes \cap vNodesDisconnected = {} /\ made \cap (vNodes \cup vNodesDisconnected) = {}
    /\ stopAt = "stopped" => freed = Nodes

\* CNode objects are safe: used while they exist, counted exactly, never lost.
NodesSafe == ConnectionsTypeOK /\ NoUseAfterDelete /\ RefCountExact /\ NoNodeLeaks

\* Every slot of semOutbound is free, held by the opening thread, or held by
\* one outbound node that is connected: none leaks when a node is dropped, and
\* there are never more outbound connections than slots.
OutboundSlots ==
    stopAt = "running" =>
        semOutbound + Grants(vNodes \cup made) + (IF opener = "grant" THEN 1 ELSE 0) = nMaxGrants

\* The message thread never sleeps on a message it was told of: when it sleeps
\* with fMsgProcWake clear, the only messages left are of nodes whose send
\* buffer was full when it last came by, or were not announced yet.
NoMessageSleeps ==
    msgAt = "asleep" /\ ~fMsgProcWake /\ netAt # "wake" =>
        \A n \in vNodes : vProcessMsg[n] > 0 => fDisconnect[n] \/ fPauseSend[n] \/ n \in drained

\* Reading is paused exactly while more than nReceiveFloodSize is queued:
\* a flag left behind would silence the peer for good.
PauseExact == \A n \in Nodes : fPauseRecv[n] <=> vProcessMsg[n] > nReceiveFloodSize

\* Messages move from the socket thread to the message thread: none is slept on,
\* and no peer is kept silent without need.
MessagesMove == NoMessageSleeps /\ PauseExact

\* A node marked for disconnection is deleted eventually, also when a thread
\* holds it, when the node is being stopped, or both.
DisconnectedDeleted == \A n \in Nodes : n \in vNodes /\ fDisconnect[n] ~> n \in freed
=============================================================================
