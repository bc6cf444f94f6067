---------------------------- MODULE PaymentLedger ----------------------------
(***************************************************************************)
(* What the payments table promises to whoever reads it: payouts, revenue  *)
(* analytics.  A row is written once, as completed; afterwards it keeps    *)
(* its subscription and its transaction, only its status flips, and no row *)
(* is ever deleted.  SubscriptionsService, the only writer of the table,   *)
(* implements this; the readers are modelled on top of it.                 *)
(***************************************************************************)
EXTENDS Naturals, Sequences

CONSTANTS Subs, Txs     \* subscriptions; the processors' transaction ids

VARIABLE payments       \* rows of table payments, in order of creation

Init == payments = <<>>

Record(sub, tx) ==
    payments' = Append(payments, [sub |-> sub, tx |-> tx, status |-> "completed"])

Fail(k) ==
    /\ payments[k].status = "completed"
    /\ payments' = [payments EXCEPT ![k].status = "failed"]

Restore(k) ==
    /\ payments[k].status = "failed"
    /\ payments' = [payments EXCEPT ![k].status = "completed"]

Next ==
    \/ \E sub \in Subs, tx \in Txs : Record(sub, tx)
    \/ \E k \in DOMAIN payments : Fail(k) \/ Restore(k)

Spec == Init /\ [][Next]_payments
=============================================================================
