---------------------------- MODULE Subscriptions ----------------------------
(***************************************************************************)
(* Subscriptions and their payments: SubscriptionsService, the webhook     *)
(* half of PaymentsController, and the cron that expires grace periods.    *)
(*                                                                         *)
(* Every request runs as a handler that awaits the database between two of *)
(* its steps, so handlers interleave at each await.  A statement, and a    *)
(* $transaction, is one action.  Payment processors deliver each webhook   *)
(* event at least once while it is not acknowledged, in any order, also    *)
(* while an earlier delivery of it is still being handled.                 *)
(***************************************************************************)
EXTENDS Integers, Sequences, FiniteSets

CONSTANTS
    Users, Pubs,      \* subscribers; publications with paid_enabled
    Txs,              \* transaction ids the processors hand out
    Handlers,         \* requests the server has in flight at a time
    Period, Grace,    \* length of a paid period and of a grace period, in ticks
    MaxSubs,          \* bound: subscription rows created
    MaxDeliveries,    \* bound: times a processor sends one event before giving up
    Faulty            \* whether calls may throw, answers get lost, the process crash

ASSUME PeriodsAssumption == Period \in Nat \ {0} /\ Grace \in Nat \ {0}
ASSUME BoundsAssumption == MaxSubs \in Nat /\ MaxDeliveries \in Nat
ASSUME FaultyAssumption == Faulty \in BOOLEAN
ASSUME HandlersAssumption == IsFiniteSet(Handlers)

VARIABLES
    subs,       \* rows of table subscriptions, in order of created_at
    payments,   \* rows of table payments, in order of creation
    handler,    \* what each handler goes on with after the await it is in
    charges,    \* the processors' own record of each transaction
    delivered,  \* times each event was sent
    acked       \* events the processors saw answered with HTTP 200

vars == <<subs, payments, handler, charges, delivered, acked>>

Never == -1     \* an expires_at of NULL

SubscriptionType == {"free", "paid"}
SubscriptionStatus == {"active", "cancelled", "expired", "grace_period", "pending"}
PaymentStatus == {"completed", "failed"}

\* left is the time until expires_at, 0 once it has passed.
Subscription == [user: Users, pub: Pubs, type: SubscriptionType,
                 status: SubscriptionStatus, left: Nat \cup {Never}]

Payment == [sub: Nat \ {0}, tx: Txs, status: PaymentStatus]

\* checkout is the row whose payment URL the payer went to.
Charge == [state: {"none", "completed", "declined", "reversed"}, checkout: Nat]

Events == [tx: Txs, status: {"completed", "declined", "reversed"}]

Idle == [at |-> "idle"]

Handler == {Idle}
    \cup [at: {"create_free", "create_paid"}, user: Users, pub: Pubs]
    \cup [at: {"cancel"}, sub: Nat \ {0}]
    \cup [at: {"find_pending"}, event: Events]
    \cup [at: {"activate_new"}, sub: Nat \ {0}, event: Events]
    \cup [at: {"activate_again", "fail"}, payment: Nat \ {0}, event: Events]

TypeOK ==
    /\ subs \in Seq(Subscription)
    /\ payments \in Seq(Payment)
    /\ handler \in [Handlers -> Handler]
    /\ charges \in [Txs -> Charge]
    /\ delivered \in [Events -> Nat]
    /\ acked \subseteq Events

Init ==
    /\ subs = <<>>
    /\ payments = <<>>
    /\ handler = [h \in Handlers |-> Idle]
    /\ charges = [tx \in Txs |-> [state |-> "none", checkout |-> 0]]
    /\ delivered = [e \in Events |-> 0]
    /\ acked = {}

-----------------------------------------------------------------------------
(* Slips a maintainer could make below, to see that the properties notice. *)

MutCancelledMisspelt(row) == [row EXCEPT !.status = "canceled"]
MutLapsedAnyStatus(row) == row.left = 0
MutLapsedAtOnce(row) == row.status = "grace_period"
MutLapsedActive(row) == row.status = "active" /\ row.left = 0
MutAnyLivePaidOnly(u, p) ==
    \E i \in DOMAIN subs : /\ subs[i].user = u /\ subs[i].pub = p
                           /\ subs[i].status = "active" /\ subs[i].type = "paid"
MutPendingAnyRow == DOMAIN subs
MutPaymentsOfUnfailed(tx) ==
    {k \in DOMAIN payments : payments[k].tx = tx /\ payments[k].status # "failed"}
MutIsSuccessUnlessReversed(status) == status # "reversed"
MutNewPaymentDefault(i, tx) == [sub |-> i, tx |-> tx, status |-> "pending"]
MutIsSuccessMisspelt(status) == status = "succeeded"

-----------------------------------------------------------------------------
(* Rows. *)

Live == {"active", "grace_period"}

NewRow(u, p, type, status) ==
    [user |-> u, pub |-> p, type |-> type, status |-> status, left |-> Never]

NewPayment(i, tx) == [sub |-> i, tx |-> tx, status |-> "completed"]

\* status active, expires_at 30 days from now
Activated(row) == [row EXCEPT !.status = "active", !.left = Period]

\* status grace_period, expires_at 3 days from now
Graced(row) == [row EXCEPT !.status = "grace_period", !.left = Grace]

Cancelled(row) == [row EXCEPT !.status = "cancelled"]

Expired(row) == [row EXCEPT !.status = "expired"]

Lapsed(row) == row.status = "grace_period" /\ row.left = 0

Rows(u, p) == {i \in DOMAIN subs : subs[i].user = u /\ subs[i].pub = p}

AnyLive(u, p) == \E i \in Rows(u, p) : subs[i].status \in Live

PaidLive(u, p) ==
    \E i \in Rows(u, p) : subs[i].status \in Live /\ subs[i].type = "paid"

PendingPaid == {i \in DOMAIN subs : subs[i].status = "pending" /\ subs[i].type = "paid"}

\* orderBy: created_at desc
MostRecent(i, rows) == i \in rows /\ \A j \in rows : j <= i

PaymentsOf(tx) == {k \in DOMAIN payments : payments[k].tx = tx}

-----------------------------------------------------------------------------
(* Requests of subscribers.  An early return that changes nothing is a     *)
(* stuttering step and is not written out.                                 *)

At(h, step) == handler[h].at = step

GoOn(h, next) == handler' = [handler EXCEPT ![h] = next]

\* Bound: leave room for the rows that are about to be created.
RoomForRow ==
    Len(subs) + Cardinality({h \in Handlers : handler[h].at \in {"create_free", "create_paid"}})
        < MaxSubs

SubscribeFreeCheck(h, u, p) ==
    /\ At(h, "idle") /\ RoomForRow
    /\ ~ AnyLive(u, p)
    /\ GoOn(h, [at |-> "create_free", user |-> u, pub |-> p])
    /\ UNCHANGED <<subs, payments, charges, delivered, acked>>

SubscribeFreeCreate(h) ==
    /\ At(h, "create_free")
    /\ subs' = Append(subs, NewRow(handler[h].user, handler[h].pub, "free", "active"))
    /\ GoOn(h, Idle)
    /\ UNCHANGED <<payments, charges, delivered, acked>>

SubscribePaidCheck(h, u, p) ==
    /\ At(h, "idle") /\ RoomForRow
    /\ ~ PaidLive(u, p)
    /\ GoOn(h, [at |-> "create_paid", user |-> u, pub |-> p])
    /\ UNCHANGED <<subs, payments, charges, delivered, acked>>

\* The payment URL answered next names the subscriber, never the row.
SubscribePaidCreate(h) ==
    /\ At(h, "create_paid")
    /\ subs' = Append(subs, NewRow(handler[h].user, handler[h].pub, "paid", "pending"))
    /\ GoOn(h, Idle)
    /\ UNCHANGED <<payments, charges, delivered, acked>>

CancelCheck(h, u, i) ==
    /\ At(h, "idle")
    /\ i \in DOMAIN subs /\ subs[i].user = u
    /\ subs[i].status \notin {"cancelled", "expired"}
    /\ GoOn(h, [at |-> "cancel", sub |-> i])
    /\ UNCHANGED <<subs, payments, charges, delivered, acked>>

CancelWrite(h) ==
    /\ At(h, "cancel")
    /\ subs' = [subs EXCEPT ![handler[h].sub] = Cancelled(@)]
    /\ GoOn(h, Idle)
    /\ UNCHANGED <<payments, charges, delivered, acked>>

-----------------------------------------------------------------------------
(* Webhooks. *)

IsSuccess(status) == status = "completed"

IsFailure(status) == status \in {"declined", "reversed"}

\* The processor reports each state its transaction has been in.
Raised(e) ==
    LET state == charges[e.tx].state
    IN  \/ e.status = state
        \/ e.status = "completed" /\ state = "reversed"

Receive(h, e) ==
    /\ At(h, "idle")
    /\ Raised(e) /\ e \notin acked /\ delivered[e] < MaxDeliveries
    /\ delivered' = [delivered EXCEPT ![e] = @ + 1]

\* HTTP 200, whatever came of the event; the answer may be lost on its way.
Acknowledge(e) ==
    \/ acked' = acked \cup {e}
    \/ Faulty /\ acked' = acked

FindPayment(h, e) ==
    /\ Receive(h, e) /\ IsSuccess(e.status)
    /\ \/ \E k \in PaymentsOf(e.tx) :
              GoOn(h, [at |-> "activate_again", payment |-> k, event |-> e])
       \/ /\ PaymentsOf(e.tx) = {}
          /\ GoOn(h, [at |-> "find_pending", event |-> e])
    /\ UNCHANGED <<subs, payments, charges, acked>>

FindPending(h) ==
    /\ At(h, "find_pending")
    /\ \/ /\ \E i \in DOMAIN subs :
                /\ MostRecent(i, PendingPaid)
                /\ GoOn(h, [at |-> "activate_new", sub |-> i, event |-> handler[h].event])
          /\ UNCHANGED acked
       \/ /\ PendingPaid = {}
          /\ GoOn(h, Idle)
          /\ Acknowledge(handler[h].event)
    /\ UNCHANGED <<subs, payments, charges, delivered>>

\* The transaction when no payment row was found: create it.
ActivateNew(h) ==
    /\ At(h, "activate_new")
    /\ payments' = Append(payments, NewPayment(handler[h].sub, handler[h].event.tx))
    /\ subs' = [subs EXCEPT ![handler[h].sub] = Activated(@)]
    /\ GoOn(h, Idle)
    /\ Acknowledge(handler[h].event)
    /\ UNCHANGED <<charges, delivered>>

\* The transaction when one was found: update it.
ActivateAgain(h) ==
    /\ At(h, "activate_again")
    /\ payments' = [payments EXCEPT ![handler[h].payment].status = "completed"]
    /\ subs' = [subs EXCEPT ![payments[handler[h].payment].sub] = Activated(@)]
    /\ GoOn(h, Idle)
    /\ Acknowledge(handler[h].event)
    /\ UNCHANGED <<charges, delivered>>

FindFailedPayment(h, e) ==
    /\ Receive(h, e) /\ IsFailure(e.status)
    /\ \/ /\ \E k \in PaymentsOf(e.tx) :
                GoOn(h, [at |-> "fail", payment |-> k, event |-> e])
          /\ UNCHANGED acked
       \/ /\ PaymentsOf(e.tx) = {}
          /\ Acknowledge(e)
          /\ UNCHANGED handler
    /\ UNCHANGED <<subs, payments, charges>>

FailPayment(h) ==
    /\ At(h, "fail")
    /\ payments' = [payments EXCEPT ![handler[h].payment].status = "failed"]
    /\ subs' = [subs EXCEPT ![payments[handler[h].payment].sub] = Graced(@)]
    /\ GoOn(h, Idle)
    /\ Acknowledge(handler[h].event)
    /\ UNCHANGED <<charges, delivered>>

-----------------------------------------------------------------------------
(* Failures: a database call that throws, a crash of the server. *)

Webhook(h) == handler[h].at \in {"find_pending", "activate_new", "activate_again", "fail"}

\* The webhook routes catch the error and still answer 200.
CallThrows(h) ==
    /\ Faulty /\ ~ At(h, "idle")
    /\ GoOn(h, Idle)
    /\ IF Webhook(h) THEN Acknowledge(handler[h].event) ELSE UNCHANGED acked
    /\ UNCHANGED <<subs, payments, charges, delivered>>

FirstCallThrows(h, e) ==
    /\ Faulty
    /\ Receive(h, e)
    /\ Acknowledge(e)
    /\ UNCHANGED <<subs, payments, handler, charges>>

Crash ==
    /\ Faulty
    /\ handler' = [h \in Handlers |-> Idle]
    /\ UNCHANGED <<subs, payments, charges, delivered, acked>>

-----------------------------------------------------------------------------
(* Statements that need no handler of their own, and time. *)

\* The hourly cron, one updateMany.
checkGracePeriods ==
    /\ subs' = [i \in DOMAIN subs |-> IF Lapsed(subs[i]) THEN Expired(subs[i]) ELSE subs[i]]
    /\ UNCHANGED <<payments, handler, charges, delivered, acked>>

\* EmailController, on a complaint or the third bounce: one updateMany.
cancelActiveSubscriptions(u) ==
    /\ subs' = [i \in DOMAIN subs |->
                    IF subs[i].user = u /\ subs[i].status \in Live
                    THEN Cancelled(subs[i]) ELSE subs[i]]
    /\ UNCHANGED <<payments, handler, charges, delivered, acked>>

CountDown(row) == [row EXCEPT !.left = IF @ > 0 THEN @ - 1 ELSE @]

Tick ==
    /\ \E i \in DOMAIN subs : subs[i].left > 0
    /\ subs' = [i \in DOMAIN subs |-> CountDown(subs[i])]
    /\ UNCHANGED <<payments, handler, charges, delivered, acked>>

-----------------------------------------------------------------------------
(* The payment processors: whoever was given a payment URL may be charged, *)
(* also again in a later period; a completed charge may be reversed.       *)

Settle(tx, i, state) ==
    /\ charges[tx].state = "none"
    /\ i \in DOMAIN subs /\ subs[i].type = "paid"
    /\ charges' = [charges EXCEPT ![tx] = [state |-> state, checkout |-> i]]
    /\ UNCHANGED <<subs, payments, handler, delivered, acked>>

Complete(tx, i) == Settle(tx, i, "completed")

Decline(tx, i) == Settle(tx, i, "declined")

Reverse(tx) ==
    /\ charges[tx].state = "completed"
    /\ charges' = [charges EXCEPT ![tx].state = "reversed"]
    /\ UNCHANGED <<subs, payments, handler, delivered, acked>>

-----------------------------------------------------------------------------
Request(h) ==
    \/ \E u \in Users, p \in Pubs : SubscribeFreeCheck(h, u, p) \/ SubscribePaidCheck(h, u, p)
    \/ \E u \in Users, i \in DOMAIN subs : CancelCheck(h, u, i)

Deliver(h, e) == FindPayment(h, e) \/ FindFailedPayment(h, e) \/ FirstCallThrows(h, e)

Continue(h) ==
    \/ SubscribeFreeCreate(h)
    \/ SubscribePaidCreate(h)
    \/ CancelWrite(h)
    \/ FindPending(h)
    \/ ActivateNew(h)
    \/ ActivateAgain(h)
    \/ FailPayment(h)
    \/ CallThrows(h)

Processor ==
    \/ \E tx \in Txs, i \in DOMAIN subs : Complete(tx, i) \/ Decline(tx, i)
    \/ \E tx \in Txs : Reverse(tx)

Next ==
    \/ \E h \in Handlers : Request(h) \/ Continue(h)
    \/ \E h \in Handlers, e \in Events : Deliver(h, e)
    \/ checkGracePeriods
    \/ \E u \in Users : cancelActiveSubscriptions(u)
    \/ Tick
    \/ Processor
    \/ Crash

Spec == Init /\ [][Next]_vars

(* Time passes and the cron runs; a handler that was started goes on; a    *)
(* processor sends an event until it is acknowledged or it gives up.       *)
Fairness ==
    /\ WF_vars(Tick)
    /\ WF_vars(checkGracePeriods)
    /\ \A h \in Handlers : WF_vars(Continue(h))
    /\ \A e \in Events : SF_vars(\E h \in Handlers : Deliver(h, e))

FairSpec == Spec /\ Fairness

-----------------------------------------------------------------------------
(* Safety. *)

Charged(tx) == charges[tx].state \in {"completed", "reversed"}

(* What a webhook handler remembers across an await still fits the rows    *)
(* when the transaction uses it: the subscription is a paid one, the       *)
(* payment row is one of the event's own transaction.                      *)
Fits(h) ==
    /\ At(h, "cancel") => handler[h].sub \in DOMAIN subs
    /\ At(h, "find_pending") => Charged(handler[h].event.tx)
    /\ At(h, "activate_new") =>
          /\ Charged(handler[h].event.tx)
          /\ handler[h].sub \in DOMAIN subs
          /\ subs[handler[h].sub].type = "paid"
    /\ handler[h].at \in {"activate_again", "fail"} =>
          /\ handler[h].payment \in DOMAIN payments
          /\ payments[handler[h].payment].tx = handler[h].event.tx

AwaitedRowsFit == \A h \in Handlers : Fits(h)

(* No payment row without money: the transaction of every row of payments  *)
(* was completed at its processor, and the row belongs to a paid           *)
(* subscription.  A declined charge is never recorded as income.           *)
PaymentsCharged ==
    \A k \in DOMAIN payments :
        /\ Charged(payments[k].tx)
        /\ payments[k].sub \in DOMAIN subs
        /\ subs[payments[k].sub].type = "paid"

HasPayment(i, status) ==
    \E k \in DOMAIN payments : payments[k].sub = i /\ payments[k].status = status

(* The two tables agree, whatever handlers and cron runs interleave: paid  *)
(* access is backed by a completed payment, a grace period and its expiry  *)
(* by a failed one, and what waits for payment or is free has no payment.  *)
PaidActiveBacked ==
    \A i \in DOMAIN subs :
        subs[i].type = "paid" /\ subs[i].status = "active" => HasPayment(i, "completed")

LapsedBacked ==
    \A i \in DOMAIN subs :
        subs[i].status \in {"grace_period", "expired"} => HasPayment(i, "failed")

PendingUnpaid ==
    \A i \in DOMAIN subs :
        /\ subs[i].status = "pending" => subs[i].type = "paid"
        /\ subs[i].status = "pending" \/ subs[i].type = "free" =>
              \A k \in DOMAIN payments : payments[k].sub # i

SubscriptionBacked == PaidActiveBacked /\ LapsedBacked /\ PendingUnpaid

(* A subscription that nobody cancelled only ends by a grace period that   *)
(* ran out after a payment that failed: no webhook, replay, fault or crash *)
(* takes it out of {active, grace_period}, no row is lost, and a step that *)
(* cancels ends the subscriptions of one reader, never anybody else's.     *)
Ends(i) == subs[i].status \in Live /\ subs'[i].status \notin Live

UncancelledEndsByLapse ==
    [][\A i \in DOMAIN subs :
          /\ i \in DOMAIN subs'
          /\ Ends(i) =>
                \/ /\ subs'[i].status = "cancelled"
                   /\ \A j \in DOMAIN subs : Ends(j) => subs[j].user = subs[i].user
                \/ /\ subs[i].status = "grace_period" /\ subs[i].left = 0
                   /\ HasPayment(i, "failed")]_vars

(* The payments table keeps what its readers count on: rows are appended   *)
(* as completed, never deleted and never moved to another subscription or  *)
(* transaction, whatever webhooks, replays and faults do to them.          *)
Ledger == INSTANCE PaymentLedger WITH Subs <- 1 .. MaxSubs

ImplementsLedger == Ledger!Spec

(* One payment row for each transaction, however often its webhook is      *)
(* delivered (docs/test-scenarios.md, replay: no duplicate payment)...     *)
TxRecordedOnce ==
    \A k, l \in DOMAIN payments : payments[k].tx = payments[l].tx => k = l

\* Between findFirst for a transaction's payment and the $transaction.
Recording(h) == handler[h].at \in {"find_pending", "activate_new"}

NoTwinWebhooks ==
    \A g, h \in Handlers :
        Recording(g) /\ Recording(h) /\ handler[g].event.tx = handler[h].event.tx => g = h

(* ...unless two deliveries were between lookup and write at once, which   *)
(* the code does nothing to prevent: no replay in sequence, no request of  *)
(* another kind in between, no fault and no crash makes a duplicate.       *)
DuplicateNeedsTwins == []NoTwinWebhooks => []TxRecordedOnce

(* subscribeFree's check keeps free subscriptions unique per subscriber    *)
(* and publication...                                                      *)
OneLiveFree ==
    \A i, j \in DOMAIN subs :
        /\ subs[i].user = subs[j].user /\ subs[i].pub = subs[j].pub
        /\ {subs[i].type, subs[j].type} = {"free"}
        /\ {subs[i].status, subs[j].status} \subseteq Live
        => i = j

NoTwinSubscribers ==
    \A g, h \in Handlers :
        /\ At(g, "create_free") /\ At(h, "create_free")
        /\ handler[g].user = handler[h].user /\ handler[g].pub = handler[h].pub
        => g = h

(* ...unless two requests of the subscriber passed the check together.     *)
SecondFreeNeedsTwins == []NoTwinSubscribers => []OneLiveFree

-----------------------------------------------------------------------------
(* Liveness, under FairSpec. *)

StatusOf(i) == IF i \in DOMAIN subs THEN subs[i].status ELSE "none"

(* A grace period ends: by payment, by cancelling, or by the cron.         *)
GraceResolved ==
    \A i \in 1 .. MaxSubs :
        StatusOf(i) = "grace_period" ~> StatusOf(i) # "grace_period"

(* Without faults, a completed charge whose webhook was not answered yet   *)
(* ends up in a payment row, unless no subscription waits for a payment.   *)
ChargeRecorded ==
    \A tx \in Txs :
        Charged(tx) /\ [tx |-> tx, status |-> "completed"] \notin acked
            ~> PaymentsOf(tx) # {} \/ PendingPaid = {}

-----------------------------------------------------------------------------
(* What the repository's documents say, and the code does not keep.        *)

(* docs/test-scenarios.md, cross-tenant payment: the payment is recorded   *)
(* for the subscription its payer went to pay for.                         *)
PaymentCreditsItsCheckout ==
    \A k \in DOMAIN payments : payments[k].sub = charges[payments[k].tx].checkout
=============================================================================
