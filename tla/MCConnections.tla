---------------------------- MODULE MCConnections ----------------------------
(* One outbound and one inbound connection; only the inbound peer talks.    *)
EXTENDS Connections

\* The three threads keep running, Interrupt and Stop run to their end.
ConnectionsFairSpec ==
    /\ ConnectionsSpec
    /\ WF_connVars(OpenerStep) /\ WF_connVars(NetStep) /\ WF_connVars(MsgStep)
    /\ WF_connVars(InterruptNet \/ Stop)
=============================================================================
