----------------------------- MODULE MCTxRequest -----------------------------
(* TxRequest with three peers that announce one transaction, of which one   *)
(* announces another as well.                                               *)
EXTENDS TxRequest

CONSTANTS p1, p2, p3, t1, t2

\* p3 may announce t1 before or after it becomes preferred.
Prefs ==
    [x \in Announcements |->
        CASE x = <<p1, t1>> -> {TRUE} [] x = <<p2, t1>> -> {FALSE} [] x = <<p3, t1>> -> BOOLEAN
          [] x = <<p2, t2>> -> {FALSE} [] OTHER -> {}]

Hashes == [x \in Announcements |-> CASE x[1] = p1 -> 0 [] x[1] = p2 -> 1 [] OTHER -> 2]
=============================================================================
