---------------------------- MODULE ReceiptLedger ----------------------------
(***************************************************************************)
(* What a scheduler promises about its receipts, whatever stores them: a   *)
(* receipt moves along one graph of statuses, an attempt that may have run *)
(* is never run again, only settled receipts disappear, and no identity is *)
(* ever used twice.  SchedulerCore (one process over a local store) and    *)
(* ScheduledExecution (owners over a replicated log) both implement it.    *)
(***************************************************************************)
EXTENDS Naturals

VARIABLES
    receipts,  \* occurrence -> [kind, attempt]
    issued     \* every identity up to this one has been given away

Settled == {"Succeeded", "Failed", "Cancelled", "Abandoned"}

(* Where a receipt may go without a new attempt.  An uncertain receipt is  *)
(* cancelled, given up, or found never to have been launched.              *)
MayBecome(kind) ==
    CASE kind = "Pending"    -> {"Running", "Cancelled"}
      [] kind = "Running"    -> {"Succeeded", "Failed", "Cancelled", "Cancelling", "Unknown"}
      [] kind = "Cancelling" -> Settled
      [] kind = "Unknown"    -> {"Cancelling", "Failed", "Abandoned"}
      [] OTHER               -> {}

Moves(r, s) ==
    \/ s = r
    \/ s.attempt = r.attempt /\ s.kind \in MayBecome(r.kind)
    \/ r.kind = "Running" /\ s.kind = "Pending" /\ s.attempt = r.attempt + 1

Init ==
    /\ receipts = [i \in {} |-> 0]
    /\ issued = 0

Next ==
    /\ \A i \in DOMAIN receipts \cap DOMAIN receipts' : Moves(receipts[i], receipts'[i])
    /\ \A i \in DOMAIN receipts \ DOMAIN receipts' : receipts[i].kind \in Settled
    /\ \A i \in DOMAIN receipts' \ DOMAIN receipts :
        /\ i > issued
        /\ receipts'[i] = [kind |-> "Pending", attempt |-> 1]
    /\ issued' >= issued
    /\ \A i \in DOMAIN receipts' : i <= issued'

Spec == Init /\ [][Next]_<<receipts, issued>>
=============================================================================
