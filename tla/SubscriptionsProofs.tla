------------------------- MODULE SubscriptionsProofs -------------------------
(***************************************************************************)
(* Proofs about Subscriptions, for every choice of the constants.          *)
(***************************************************************************)
EXTENDS Subscriptions, FiniteSetTheorems, TLAPS

(* Updating one row of a table keeps its type and its number of rows.      *)
LEMMA RowUpdate ==
    ASSUME NEW S, NEW s \in Seq(S), NEW i \in DOMAIN s, NEW row \in S
    PROVE  /\ [s EXCEPT ![i] = row] \in Seq(S)
           /\ DOMAIN [s EXCEPT ![i] = row] = DOMAIN s
  OBVIOUS

(* So does rewriting every row of it.                                      *)
LEMMA TableUpdate ==
    ASSUME NEW S, NEW s \in Seq(S), NEW t, t \in [DOMAIN s -> S]
    PROVE  t \in Seq(S) /\ DOMAIN t = DOMAIN s
  OBVIOUS

(* A new row comes after the ones a table has.                             *)
LEMMA RowAppend ==
    ASSUME NEW S, NEW s \in Seq(S), NEW row \in S
    PROVE  /\ Append(s, row) \in Seq(S)
           /\ DOMAIN Append(s, row) = DOMAIN s \cup {Len(s) + 1}
           /\ Len(s) + 1 \notin DOMAIN s
           /\ \A i \in DOMAIN s : Append(s, row)[i] = s[i]
           /\ Append(s, row)[Len(s) + 1] = row
  OBVIOUS

LEMMA AppendKeeps ==
    ASSUME NEW S, NEW s \in Seq(S), NEW row, NEW i \in DOMAIN s
    PROVE  Append(s, row)[i] = s[i]
  OBVIOUS

(* The status rewrites keep the type of a row.                             *)
LEMMA RowTypes ==
    ASSUME NEW row \in Subscription
    PROVE  /\ Activated(row) \in Subscription
           /\ Graced(row) \in Subscription
           /\ Cancelled(row) \in Subscription
           /\ Expired(row) \in Subscription
           /\ CountDown(row) \in Subscription
<1>. USE PeriodsAssumption DEF PeriodsAssumption, Subscription, SubscriptionStatus, Never
<1>1. Activated(row) \in Subscription  BY DEF Activated
<1>2. Graced(row) \in Subscription  BY DEF Graced
<1>3. Cancelled(row) \in Subscription  BY DEF Cancelled
<1>4. Expired(row) \in Subscription  BY DEF Expired
<1>5. CountDown(row) \in Subscription  BY DEF CountDown
<1>. QED  BY <1>1, <1>2, <1>3, <1>4, <1>5


(* The status rewrites leave whose row it is and what it is of alone.      *)
LEMMA RowFields ==
    ASSUME NEW row \in Subscription
    PROVE  /\ Activated(row).type = row.type /\ Activated(row).status = "active"
           /\ Graced(row).type = row.type /\ Graced(row).status = "grace_period"
           /\ Cancelled(row).type = row.type /\ Cancelled(row).status = "cancelled"
           /\ Expired(row).type = row.type /\ Expired(row).status = "expired"
           /\ CountDown(row).type = row.type /\ CountDown(row).status = row.status
  BY DEF Subscription, Activated, Graced, Cancelled, Expired, CountDown

LEMMA RowOwner ==
    ASSUME NEW row \in Subscription,
           NEW new \in {Activated(row), Graced(row), Cancelled(row), Expired(row), CountDown(row)}
    PROVE  new.user = row.user /\ new.pub = row.pub
  BY DEF Subscription, Activated, Graced, Cancelled, Expired, CountDown

-----------------------------------------------------------------------------
(* What a handler holds across an await, read off its type.                *)
LEMMA HandlerFields ==
    ASSUME TypeOK, NEW h \in Handlers
    PROVE  /\ handler[h] \in Handler
           /\ At(h, "create_free") \/ At(h, "create_paid") =>
                 handler[h].user \in Users /\ handler[h].pub \in Pubs
           /\ At(h, "cancel") => handler[h].sub \in Nat \ {0}
           /\ At(h, "activate_new") => handler[h].sub \in Nat \ {0}
           /\ handler[h].at \in {"activate_again", "fail"} => handler[h].payment \in Nat \ {0}
           /\ Webhook(h) => handler[h].event \in Events
<1>1. handler[h] \in Handler  BY DEF TypeOK
<1>. QED  BY <1>1 DEF Handler, Idle, At, Webhook

LEMMA NewRowType ==
    ASSUME NEW u \in Users, NEW p \in Pubs,
           NEW type \in SubscriptionType, NEW status \in SubscriptionStatus
    PROVE  NewRow(u, p, type, status) \in Subscription
  BY DEF NewRow, Subscription, Never


-----------------------------------------------------------------------------
(* The steps of a handler h that is in flight keep the types.              *)
LEMMA ContinueTypes ==
    ASSUME TypeOK, AwaitedRowsFit, PaymentsCharged, NEW h \in Handlers, Continue(h)
    PROVE  TypeOK'
<1>. USE DEF TypeOK
<1>a. Idle \in Handler  BY DEF Handler
<1>1. CASE SubscribeFreeCreate(h)
  <2>1. NewRow(handler[h].user, handler[h].pub, "free", "active") \in Subscription
    BY <1>1, HandlerFields, NewRowType DEF SubscribeFreeCreate, SubscriptionType, SubscriptionStatus
  <2>. QED  BY <1>1, <1>a, <2>1, RowAppend DEF SubscribeFreeCreate, GoOn
<1>2. CASE SubscribePaidCreate(h)
  <2>1. NewRow(handler[h].user, handler[h].pub, "paid", "pending") \in Subscription
    BY <1>2, HandlerFields, NewRowType DEF SubscribePaidCreate, SubscriptionType, SubscriptionStatus
  <2>. QED  BY <1>2, <1>a, <2>1, RowAppend DEF SubscribePaidCreate, GoOn
<1>3. CASE CancelWrite(h)
  <2>1. handler[h].sub \in DOMAIN subs  BY <1>3 DEF CancelWrite, AwaitedRowsFit, Fits
  <2>2. Cancelled(subs[handler[h].sub]) \in Subscription  BY <2>1, RowTypes
  <2>. QED  BY <1>3, <1>a, <2>1, <2>2, RowUpdate DEF CancelWrite, GoOn
<1>4. CASE FindPending(h)
  <2>1. handler[h].event \in Events  BY <1>4, HandlerFields DEF FindPending, Webhook, At
  <2>2. ASSUME NEW i \in DOMAIN subs
        PROVE  [at |-> "activate_new", sub |-> i, event |-> handler[h].event] \in Handler
    BY <2>1, <2>2 DEF Handler
  <2>. QED  BY <1>4, <1>a, <2>1, <2>2 DEF FindPending, GoOn, Acknowledge
<1>5. CASE ActivateNew(h)
  <2>1. handler[h].event \in Events /\ handler[h].sub \in DOMAIN subs /\ handler[h].sub \in Nat \ {0}
    BY <1>5, HandlerFields DEF ActivateNew, NewPayment, AwaitedRowsFit, Fits, Webhook, At
  <2>2. Activated(subs[handler[h].sub]) \in Subscription  BY <2>1, RowTypes
  <2>3. [sub |-> handler[h].sub, tx |-> handler[h].event.tx, status |-> "completed"] \in Payment
    BY <2>1 DEF Payment, Events, PaymentStatus
  <2>4. payments' \in Seq(Payment)  BY <1>5, <2>3, RowAppend DEF ActivateNew, NewPayment
  <2>5. subs' \in Seq(Subscription)  BY <1>5, <2>1, <2>2, RowUpdate DEF ActivateNew
  <2>. QED  BY <1>5, <1>a, <2>1, <2>4, <2>5 DEF ActivateNew, GoOn, Acknowledge
<1>6. CASE ActivateAgain(h)
  <2>. DEFINE k == handler[h].payment
  <2>1. handler[h].event \in Events /\ k \in DOMAIN payments
    BY <1>6, HandlerFields DEF ActivateAgain, AwaitedRowsFit, Fits, Webhook, At
  <2>2. payments[k].sub \in DOMAIN subs  BY <2>1 DEF PaymentsCharged
  <2>3. Activated(subs[payments[k].sub]) \in Subscription  BY <2>2, RowTypes
  <2>4. [payments[k] EXCEPT !.status = "completed"] \in Payment
    <3>1. payments[k] \in Payment  BY <2>1
    <3>. QED  BY <3>1 DEF Payment, PaymentStatus
  <2>5. payments' \in Seq(Payment)  BY <1>6, <2>1, <2>4, RowUpdate DEF ActivateAgain
  <2>6. subs' \in Seq(Subscription)  BY <1>6, <2>2, <2>3, RowUpdate DEF ActivateAgain
  <2>. QED  BY <1>6, <1>a, <2>1, <2>5, <2>6 DEF ActivateAgain, GoOn, Acknowledge
<1>7. CASE FailPayment(h)
  <2>. DEFINE k == handler[h].payment
  <2>1. handler[h].event \in Events /\ k \in DOMAIN payments
    BY <1>7, HandlerFields DEF FailPayment, AwaitedRowsFit, Fits, Webhook, At
  <2>2. payments[k].sub \in DOMAIN subs  BY <2>1 DEF PaymentsCharged
  <2>3. Graced(subs[payments[k].sub]) \in Subscription  BY <2>2, RowTypes
  <2>4. [payments[k] EXCEPT !.status = "failed"] \in Payment
    <3>1. payments[k] \in Payment  BY <2>1
    <3>. QED  BY <3>1 DEF Payment, PaymentStatus
  <2>5. payments' \in Seq(Payment)  BY <1>7, <2>1, <2>4, RowUpdate DEF FailPayment
  <2>6. subs' \in Seq(Subscription)  BY <1>7, <2>2, <2>3, RowUpdate DEF FailPayment
  <2>. QED  BY <1>7, <1>a, <2>1, <2>5, <2>6 DEF FailPayment, GoOn, Acknowledge
<1>8. CASE CallThrows(h)
  <2>1. Webhook(h) => handler[h].event \in Events  BY HandlerFields
  <2>. QED  BY <1>8, <1>a, <2>1 DEF CallThrows, GoOn, Acknowledge
<1>. QED  BY <1>1, <1>2, <1>3, <1>4, <1>5, <1>6, <1>7, <1>8 DEF Continue

(* So do the steps that start a handler.                                   *)
LEMMA StartTypes ==
    ASSUME TypeOK, NEW h \in Handlers, Request(h) \/ \E e \in Events : Deliver(h, e)
    PROVE  TypeOK'
<1>. USE DEF TypeOK
<1>1. CASE Request(h)
  <2>1. ASSUME NEW u \in Users, NEW p \in Pubs,
               SubscribeFreeCheck(h, u, p) \/ SubscribePaidCheck(h, u, p)
        PROVE  TypeOK'
    <3>1. /\ [at |-> "create_free", user |-> u, pub |-> p] \in Handler
          /\ [at |-> "create_paid", user |-> u, pub |-> p] \in Handler
      BY DEF Handler
    <3>. QED  BY <2>1, <3>1 DEF SubscribeFreeCheck, SubscribePaidCheck, GoOn
  <2>2. ASSUME NEW u \in Users, NEW i \in DOMAIN subs, CancelCheck(h, u, i)
        PROVE  TypeOK'
    <3>1. [at |-> "cancel", sub |-> i] \in Handler  BY DEF Handler
    <3>. QED  BY <2>2, <3>1 DEF CancelCheck, GoOn
  <2>. QED  BY <1>1, <2>1, <2>2 DEF Request
<1>2. ASSUME NEW e \in Events, Deliver(h, e)
      PROVE  TypeOK'
  <2>1. delivered' \in [Events -> Nat]
    BY <1>2 DEF Deliver, FindPayment, FindFailedPayment, FirstCallThrows, Receive
  <2>2. acked' \subseteq Events
    BY <1>2 DEF Deliver, FindPayment, FindFailedPayment, FirstCallThrows, Acknowledge
  <2>3. /\ [at |-> "find_pending", event |-> e] \in Handler
        /\ \A k \in DOMAIN payments :
              /\ [at |-> "activate_again", payment |-> k, event |-> e] \in Handler
              /\ [at |-> "fail", payment |-> k, event |-> e] \in Handler
    BY DEF Handler
  <2>4. handler' \in [Handlers -> Handler]
    BY <1>2, <2>3 DEF Deliver, FindPayment, FindFailedPayment, FirstCallThrows, GoOn, PaymentsOf
  <2>. QED
    BY <1>2, <2>1, <2>2, <2>4 DEF Deliver, FindPayment, FindFailedPayment, FirstCallThrows
<1>. QED  BY <1>1, <1>2

(* And so do the steps that need no handler.                               *)
LEMMA OtherTypes ==
    ASSUME TypeOK,
           \/ checkGracePeriods
           \/ \E u \in Users : cancelActiveSubscriptions(u)
           \/ Tick
           \/ Processor
           \/ Crash
    PROVE  TypeOK'
<1>. USE DEF TypeOK
<1>a. \A i \in DOMAIN subs : subs[i] \in Subscription  OBVIOUS
<1>1. CASE checkGracePeriods
  <2>1. subs' \in [DOMAIN subs -> Subscription]
    BY <1>1, <1>a, RowTypes DEF checkGracePeriods
  <2>. QED  BY <1>1, <2>1, TableUpdate DEF checkGracePeriods
<1>2. ASSUME NEW u \in Users, cancelActiveSubscriptions(u)
      PROVE  TypeOK'
  <2>1. subs' \in [DOMAIN subs -> Subscription]
    BY <1>2, <1>a, RowTypes DEF cancelActiveSubscriptions
  <2>. QED  BY <1>2, <2>1, TableUpdate DEF cancelActiveSubscriptions
<1>3. CASE Tick
  <2>1. subs' \in [DOMAIN subs -> Subscription]  BY <1>3, <1>a, RowTypes DEF Tick
  <2>. QED  BY <1>3, <2>1, TableUpdate DEF Tick
<1>4. CASE Processor
  <2>1. ASSUME NEW tx \in Txs, NEW i \in DOMAIN subs, Complete(tx, i) \/ Decline(tx, i)
        PROVE  TypeOK'
    <3>1. /\ [state |-> "completed", checkout |-> i] \in Charge
          /\ [state |-> "declined", checkout |-> i] \in Charge
      BY DEF Charge
    <3>. QED  BY <2>1, <3>1 DEF Complete, Decline, Settle
  <2>2. ASSUME NEW tx \in Txs, Reverse(tx)
        PROVE  TypeOK'
    BY <2>2 DEF Reverse, Charge
  <2>. QED  BY <1>4, <2>1, <2>2 DEF Processor
<1>5. CASE Crash
  BY <1>5 DEF Crash, Handler
<1>. QED  BY <1>1, <1>2, <1>3, <1>4, <1>5

LEMMA TypeStep ==
    ASSUME TypeOK, AwaitedRowsFit, PaymentsCharged, [Next]_vars
    PROVE  TypeOK'
<1>1. CASE Next
  <2>1. ASSUME NEW h \in Handlers, Request(h) \/ Continue(h) \/ \E e \in Events : Deliver(h, e)
        PROVE  TypeOK'
    BY <2>1, StartTypes, ContinueTypes
  <2>. QED  BY <1>1, <2>1, OtherTypes DEF Next
<1>2. CASE UNCHANGED vars
  BY <1>2 DEF vars, TypeOK
<1>. QED  BY <1>1, <1>2

-----------------------------------------------------------------------------
(* Rows and charges are facts that last: no step deletes a row, changes    *)
(* what a subscription is of or a payment is for, or undoes a charge.      *)
RowsLast ==
    /\ DOMAIN subs \subseteq DOMAIN subs'
    /\ \A i \in DOMAIN subs :
          /\ subs'[i].type = subs[i].type
          /\ subs'[i].user = subs[i].user /\ subs'[i].pub = subs[i].pub
    /\ DOMAIN payments \subseteq DOMAIN payments'
    /\ \A k \in DOMAIN payments :
          payments'[k].tx = payments[k].tx /\ payments'[k].sub = payments[k].sub
    /\ \A tx \in Txs : Charged(tx) => Charged(tx)'

LEMMA RowsLastStep ==
    ASSUME TypeOK, AwaitedRowsFit, PaymentsCharged, [Next]_vars
    PROVE  RowsLast
<1>. USE DEF TypeOK, RowsLast
<1>a. \A i \in DOMAIN subs : subs[i] \in Subscription  OBVIOUS
<1>1. ASSUME NEW h \in Handlers, Continue(h)
      PROVE  RowsLast
  <2>1. CASE SubscribeFreeCreate(h) \/ SubscribePaidCreate(h)
    <3>1. \A type \in SubscriptionType, status \in SubscriptionStatus :
             NewRow(handler[h].user, handler[h].pub, type, status) \in Subscription
      BY <2>1, HandlerFields, NewRowType DEF SubscribeFreeCreate, SubscribePaidCreate
    <3>2. PICK row \in Subscription : subs' = Append(subs, row)
      BY <2>1, <3>1 DEF SubscribeFreeCreate, SubscribePaidCreate, SubscriptionType, SubscriptionStatus
    <3>. QED  BY <2>1, <3>2, RowAppend DEF SubscribeFreeCreate, SubscribePaidCreate, Charged
  <2>2. CASE CancelWrite(h)
    <3>1. handler[h].sub \in DOMAIN subs  BY <2>2 DEF CancelWrite, AwaitedRowsFit, Fits
    <3>. QED  BY <2>2, <3>1, <1>a, RowFields, RowOwner DEF CancelWrite, Charged
  <2>3. CASE FindPending(h) \/ CallThrows(h)
    BY <2>3 DEF FindPending, CallThrows, Charged
  <2>4. CASE ActivateNew(h)
    BY <2>4 DEF ActivateNew, AwaitedRowsFit, Fits, Activated, Charged
  <2>5. CASE ActivateAgain(h)
    BY <2>5 DEF ActivateAgain, AwaitedRowsFit, Fits, Activated, Charged
  <2>6. CASE FailPayment(h)
    BY <2>6 DEF FailPayment, AwaitedRowsFit, Fits, Graced, Charged
  <2>. QED  BY <1>1, <2>1, <2>2, <2>3, <2>4, <2>5, <2>6 DEF Continue
<1>2. ASSUME NEW h \in Handlers, Request(h)
      PROVE  RowsLast
  BY <1>2 DEF Request, SubscribeFreeCheck, SubscribePaidCheck, CancelCheck, Charged
<1>3. ASSUME NEW h \in Handlers, NEW e \in Events, Deliver(h, e)
      PROVE  RowsLast
  BY <1>3 DEF Deliver, FindPayment, FindFailedPayment, FirstCallThrows, Charged
<1>4. CASE checkGracePeriods
  BY <1>4 DEF checkGracePeriods, Expired, Charged
<1>5. ASSUME NEW u \in Users, cancelActiveSubscriptions(u)
      PROVE  RowsLast
  BY <1>5 DEF cancelActiveSubscriptions, Cancelled, Charged
<1>6. CASE Tick
  BY <1>6, <1>a, RowFields, RowOwner DEF Tick, Charged
<1>7. CASE Processor
  BY <1>7 DEF Processor, Complete, Decline, Settle, Reverse, Charge, Charged
<1>8. CASE Crash \/ UNCHANGED vars
  BY <1>8 DEF Crash, vars, Charged
<1>. QED  BY <1>1, <1>2, <1>3, <1>4, <1>5, <1>6, <1>7, <1>8 DEF Next


(* A handler that keeps what it holds keeps fitting, because rows last.    *)
LEMMA StillFits ==
    ASSUME TypeOK, TypeOK', RowsLast, NEW g \in Handlers, Fits(g),
           handler'[g] = handler[g] \/ handler'[g].at \in {"idle", "create_free", "create_paid"}
    PROVE  Fits(g)'
<1>1. CASE handler'[g] = handler[g]
  <2>1. Webhook(g) => handler[g].event.tx \in Txs
    BY HandlerFields DEF Events
  <2>. QED  BY <1>1, <2>1 DEF Fits, At, RowsLast, Webhook
<1>2. CASE handler'[g].at \in {"idle", "create_free", "create_paid"}
  BY <1>2 DEF Fits, At
<1>. QED  BY <1>1, <1>2

LEMMA AwaitedStep ==
    ASSUME TypeOK, AwaitedRowsFit, PaymentsCharged, [Next]_vars
    PROVE  AwaitedRowsFit'
<1>a. TypeOK' /\ RowsLast  BY TypeStep, RowsLastStep
<1>b. ASSUME NEW h \in Handlers, NEW next, GoOn(h, next)
      PROVE  handler'[h] = next /\ \A g \in Handlers \ {h} : handler'[g] = handler[g]
  BY <1>b DEF GoOn, TypeOK
<1>c. ASSUME NEW h \in Handlers, NEW next, GoOn(h, next),
             next.at \in {"idle", "create_free", "create_paid"} \/ Fits(h)'
      PROVE  AwaitedRowsFit'
  BY <1>a, <1>b, <1>c, StillFits DEF AwaitedRowsFit
<1>d. ASSUME UNCHANGED handler
      PROVE  AwaitedRowsFit'
  BY <1>a, <1>d, StillFits DEF AwaitedRowsFit
<1>1. ASSUME NEW h \in Handlers, Continue(h)
      PROVE  AwaitedRowsFit'
  <2>1. CASE GoOn(h, Idle)
    BY <2>1, <1>c DEF Idle
  <2>2. ASSUME At(h, "find_pending"), NEW i \in DOMAIN subs, MostRecent(i, PendingPaid),
               GoOn(h, [at |-> "activate_new", sub |-> i, event |-> handler[h].event])
        PROVE  AwaitedRowsFit'
    <3>1. Charged(handler[h].event.tx) /\ handler[h].event.tx \in Txs
      BY <2>2, HandlerFields DEF AwaitedRowsFit, Fits, Webhook, At, Events
    <3>2. subs[i].type = "paid"  BY <2>2 DEF MostRecent, PendingPaid
    <3>3. handler'[h] = [at |-> "activate_new", sub |-> i, event |-> handler[h].event]
      BY <2>2, <1>b
    <3>4. Fits(h)'  BY <1>a, <3>1, <3>2, <3>3 DEF Fits, At, RowsLast
    <3>. QED  BY <2>2, <3>4, <1>c
  <2>. QED
    BY <1>1, <2>1, <2>2 DEF Continue, SubscribeFreeCreate, SubscribePaidCreate, CancelWrite,
          FindPending, ActivateNew, ActivateAgain, FailPayment, CallThrows
<1>2. ASSUME NEW h \in Handlers, Request(h)
      PROVE  AwaitedRowsFit'
  <2>1. ASSUME NEW u \in Users, NEW p \in Pubs,
               SubscribeFreeCheck(h, u, p) \/ SubscribePaidCheck(h, u, p)
        PROVE  AwaitedRowsFit'
    BY <2>1, <1>c DEF SubscribeFreeCheck, SubscribePaidCheck
  <2>2. ASSUME NEW u \in Users, NEW i \in DOMAIN subs, CancelCheck(h, u, i)
        PROVE  AwaitedRowsFit'
    <3>1. GoOn(h, [at |-> "cancel", sub |-> i])  BY <2>2 DEF CancelCheck
    <3>2. handler'[h] = [at |-> "cancel", sub |-> i]  BY <3>1, <1>b
    <3>3. Fits(h)'  BY <1>a, <3>2 DEF Fits, At, RowsLast
    <3>. QED  BY <3>1, <3>3, <1>c
  <2>. QED  BY <1>2, <2>1, <2>2 DEF Request
<1>3. ASSUME NEW h \in Handlers, NEW e \in Events, Deliver(h, e)
      PROVE  AwaitedRowsFit'
  <2>1. CASE UNCHANGED handler
    BY <2>1, <1>d
  <2>2. ASSUME IsSuccess(e.status), Raised(e),
               GoOn(h, [at |-> "find_pending", event |-> e])
        PROVE  AwaitedRowsFit'
    <3>1. Charged(e.tx) /\ e.tx \in Txs  BY <2>2 DEF IsSuccess, Raised, Charged, Events
    <3>2. handler'[h] = [at |-> "find_pending", event |-> e]  BY <2>2, <1>b
    <3>3. Fits(h)'  BY <1>a, <3>1, <3>2 DEF Fits, At, RowsLast
    <3>. QED  BY <2>2, <3>3, <1>c
  <2>3. ASSUME NEW k \in PaymentsOf(e.tx), NEW step \in {"activate_again", "fail"},
               GoOn(h, [at |-> step, payment |-> k, event |-> e])
        PROVE  AwaitedRowsFit'
    <3>1. k \in DOMAIN payments /\ payments[k].tx = e.tx  BY DEF PaymentsOf
    <3>2. handler'[h] = [at |-> step, payment |-> k, event |-> e]  BY <2>3, <1>b
    <3>3. Fits(h)'  BY <1>a, <3>1, <3>2 DEF Fits, At, RowsLast
    <3>. QED  BY <2>3, <3>3, <1>c
  <2>. QED
    BY <1>3, <2>1, <2>2, <2>3 DEF Deliver, FindPayment, FindFailedPayment, FirstCallThrows, Receive
<1>4. CASE Crash
  BY <1>a, <1>4, StillFits DEF Crash, AwaitedRowsFit, Idle
<1>5. CASE checkGracePeriods \/ (\E u \in Users : cancelActiveSubscriptions(u)) \/ Tick
           \/ Processor \/ UNCHANGED vars
  BY <1>5, <1>d DEF checkGracePeriods, cancelActiveSubscriptions, Tick, Processor,
        Complete, Decline, Settle, Reverse, vars
<1>. QED  BY <1>1, <1>2, <1>3, <1>4, <1>5 DEF Next


-----------------------------------------------------------------------------
(* Payment rows change only in a payment transaction.                      *)
LEMMA PaymentsUntouched ==
    ASSUME [Next]_vars,
           ~ \E h \in Handlers : ActivateNew(h) \/ ActivateAgain(h) \/ FailPayment(h)
    PROVE  UNCHANGED payments
<1>. USE DEF SubscribeFreeCreate, SubscribePaidCreate, CancelWrite, FindPending, CallThrows
<1>. QED
  BY DEF Next, Continue, Request, SubscribeFreeCheck, SubscribePaidCheck, CancelCheck,
         Deliver, FindPayment, FindFailedPayment, FirstCallThrows,
         checkGracePeriods, cancelActiveSubscriptions, Tick,
         Processor, Complete, Decline, Settle, Reverse, Crash, vars

(* A payment row that was not there is the one row ActivateNew appends.    *)
LEMMA NewPaymentRow ==
    ASSUME TypeOK, [Next]_vars, NEW k \in DOMAIN payments', k \notin DOMAIN payments
    PROVE  \E h \in Handlers : /\ ActivateNew(h)
                              /\ k = Len(payments) + 1
                              /\ payments'[k].sub = handler[h].sub
                              /\ payments'[k].tx = handler[h].event.tx
<1>1. ASSUME NEW h \in Handlers, ActivateNew(h)
      PROVE  /\ k = Len(payments) + 1
             /\ payments'[k].sub = handler[h].sub
             /\ payments'[k].tx = handler[h].event.tx
  BY <1>1 DEF ActivateNew, NewPayment, TypeOK
<1>2. ASSUME NEW h \in Handlers, ActivateAgain(h) \/ FailPayment(h)
      PROVE  k \in DOMAIN payments
  BY <1>2 DEF ActivateAgain, FailPayment
<1>. QED  BY <1>1, <1>2, PaymentsUntouched

LEMMA ChargedStep ==
    ASSUME TypeOK, AwaitedRowsFit, PaymentsCharged, [Next]_vars
    PROVE  PaymentsCharged'
<1>a. RowsLast /\ TypeOK'  BY RowsLastStep, TypeStep
<1>b. ASSUME NEW k \in DOMAIN payments
      PROVE  payments[k].tx \in Txs
  <2>1. payments[k] \in Payment  BY DEF TypeOK
  <2>. QED  BY <2>1 DEF Payment
<1>c. ASSUME NEW k \in DOMAIN payments'
      PROVE  \/ k \in DOMAIN payments
             \/ \E h \in Handlers : /\ At(h, "activate_new")
                                    /\ payments'[k].sub = handler[h].sub
                                    /\ payments'[k].tx = handler[h].event.tx
  BY NewPaymentRow DEF ActivateNew
<1>1. ASSUME NEW k \in DOMAIN payments'
      PROVE  /\ Charged(payments[k].tx)'
             /\ payments'[k].sub \in DOMAIN subs'
             /\ subs'[payments'[k].sub].type = "paid"
  <2>1. CASE k \in DOMAIN payments
    BY <1>a, <1>b, <2>1 DEF RowsLast, PaymentsCharged
  <2>2. ASSUME NEW h \in Handlers, At(h, "activate_new"),
               payments'[k].sub = handler[h].sub, payments'[k].tx = handler[h].event.tx
        PROVE  /\ Charged(payments[k].tx)'
               /\ payments'[k].sub \in DOMAIN subs'
               /\ subs'[payments'[k].sub].type = "paid"
    <3>1. handler[h].event.tx \in Txs  BY <2>2, HandlerFields DEF Webhook, At, Events
    <3>. QED  BY <1>a, <2>2, <3>1 DEF AwaitedRowsFit, Fits, RowsLast
  <2>. QED  BY <1>c, <2>1, <2>2
<1>. QED  BY <1>1 DEF PaymentsCharged


-----------------------------------------------------------------------------
(* The steps that write subscriptions alone: they add an unpaid row, cancel *)
(* rows, or expire rows out of their grace period.                         *)
LEMMA StatusStepBacked ==
    ASSUME TypeOK, PaymentsCharged, SubscriptionBacked, RowsLast, UNCHANGED payments,
           \A i \in DOMAIN subs' :
              \/ /\ i \in DOMAIN subs
                 /\ \/ subs'[i].status = subs[i].status
                    \/ subs'[i].status = "cancelled"
                    \/ subs[i].status = "grace_period" /\ subs'[i].status = "expired"
              \/ /\ i \notin DOMAIN subs
                 /\ \/ subs'[i].type = "free" /\ subs'[i].status = "active"
                    \/ subs'[i].type = "paid" /\ subs'[i].status = "pending"
    PROVE  SubscriptionBacked'
<1>. USE DEF SubscriptionBacked, PaidActiveBacked, LapsedBacked, PendingUnpaid, HasPayment
<1>1. PaidActiveBacked'  BY DEF RowsLast
<1>2. LapsedBacked'  BY DEF RowsLast
<1>3. PendingUnpaid'  BY DEF RowsLast, PaymentsCharged
<1>. QED  BY <1>1, <1>2, <1>3

(* A payment transaction writes one payment row and the subscription it is *)
(* for, to statuses that match.                                            *)
LEMMA TransactionBacked ==
    ASSUME TypeOK, SubscriptionBacked,
           NEW s \in DOMAIN subs, NEW k \in DOMAIN payments',
           subs[s].type = "paid", subs'[s].type = "paid",
           \/ subs'[s].status = "active" /\ payments'[k].status = "completed"
           \/ subs'[s].status = "grace_period" /\ payments'[k].status = "failed",
           payments'[k].sub = s,
           k \in DOMAIN payments => payments[k].sub = s,
           DOMAIN subs' = DOMAIN subs,
           \A i \in DOMAIN subs : i # s => subs'[i] = subs[i],
           DOMAIN payments' = DOMAIN payments \cup {k},
           \A l \in DOMAIN payments : l # k => payments'[l] = payments[l]
    PROVE  SubscriptionBacked'
<1>. USE DEF SubscriptionBacked, PaidActiveBacked, LapsedBacked, PendingUnpaid, HasPayment
<1>1. PaidActiveBacked'  OBVIOUS
<1>2. LapsedBacked'  OBVIOUS
<1>3. PendingUnpaid'  OBVIOUS
<1>. QED  BY <1>1, <1>2, <1>3

LEMMA BackedStep ==
    ASSUME TypeOK, AwaitedRowsFit, PaymentsCharged, SubscriptionBacked, [Next]_vars
    PROVE  SubscriptionBacked'
<1>a. RowsLast  BY RowsLastStep
<1>b. \A i \in DOMAIN subs : subs[i] \in Subscription  BY DEF TypeOK
<1>c. \A k \in DOMAIN payments : payments[k] \in Payment  BY DEF TypeOK
<1>1. ASSUME NEW h \in Handlers, ActivateNew(h)
      PROVE  SubscriptionBacked'
  <2>. DEFINE s == handler[h].sub
              k == Len(payments) + 1
              row == [sub |-> s, tx |-> handler[h].event.tx, status |-> "completed"]
  <2>1. s \in DOMAIN subs /\ subs[s].type = "paid"
    BY <1>1 DEF ActivateNew, AwaitedRowsFit, Fits
  <2>2. subs' = [subs EXCEPT ![s] = Activated(subs[s])]  BY <1>1 DEF ActivateNew
  <2>3. subs'[s].type = "paid" /\ subs'[s].status = "active"
    BY <1>b, <2>1, <2>2, RowFields
  <2>4. row \in Payment
    BY <1>1, <2>1, HandlerFields DEF Payment, PaymentStatus, Events, ActivateNew, Webhook, At
  <2>5. payments' = Append(payments, row)  BY <1>1 DEF ActivateNew, NewPayment
  <2>6. /\ DOMAIN payments' = DOMAIN payments \cup {k}
        /\ k \notin DOMAIN payments
        /\ \A l \in DOMAIN payments : payments'[l] = payments[l]
        /\ payments'[k].sub = s /\ payments'[k].status = "completed"
    BY <2>4, <2>5, RowAppend DEF TypeOK
  <2>. QED  BY <2>1, <2>2, <2>3, <2>6, TransactionBacked
<1>2. ASSUME NEW h \in Handlers, ActivateAgain(h) \/ FailPayment(h)
      PROVE  SubscriptionBacked'
  <2>. DEFINE k == handler[h].payment
              s == payments[k].sub
  <2>1. k \in DOMAIN payments
    BY <1>2 DEF ActivateAgain, FailPayment, AwaitedRowsFit, Fits, At
  <2>2. s \in DOMAIN subs /\ subs[s].type = "paid"  BY <2>1 DEF PaymentsCharged
  <2>3. PICK row \in {Activated(subs[s]), Graced(subs[s])}, status \in {"completed", "failed"} :
           /\ subs' = [subs EXCEPT ![s] = row]
           /\ payments' = [payments EXCEPT ![k].status = status]
           /\ \/ row = Activated(subs[s]) /\ status = "completed"
              \/ row = Graced(subs[s]) /\ status = "failed"
    BY <1>2 DEF ActivateAgain, FailPayment
  <2>4. /\ subs'[s].type = "paid"
        /\ \/ subs'[s].status = "active" /\ status = "completed"
           \/ subs'[s].status = "grace_period" /\ status = "failed"
    BY <1>b, <2>2, <2>3, RowFields
  <2>5. payments'[k].sub = s /\ payments'[k].status = status
    BY <1>c, <2>1, <2>3 DEF Payment
  <2>. QED  BY <2>1, <2>2, <2>3, <2>4, <2>5, TransactionBacked
<1>3. ASSUME NEW h \in Handlers, SubscribeFreeCreate(h) \/ SubscribePaidCreate(h)
      PROVE  SubscriptionBacked'
  <2>1. PICK u \in Users, p \in Pubs, type \in SubscriptionType, status \in SubscriptionStatus :
           /\ subs' = Append(subs, NewRow(u, p, type, status))
           /\ \/ type = "free" /\ status = "active"
              \/ type = "paid" /\ status = "pending"
    BY <1>3, HandlerFields
    DEF SubscribeFreeCreate, SubscribePaidCreate, SubscriptionType, SubscriptionStatus
  <2>. DEFINE row == NewRow(u, p, type, status)
  <2>2. row \in Subscription /\ row.type = type /\ row.status = status
    BY <2>1, NewRowType DEF NewRow
  <2>3. UNCHANGED payments  BY <1>3 DEF SubscribeFreeCreate, SubscribePaidCreate
  <2>. HIDE DEF row
  <2>4. /\ DOMAIN subs' = DOMAIN subs \cup {Len(subs) + 1}
        /\ Len(subs) + 1 \notin DOMAIN subs
        /\ \A i \in DOMAIN subs : subs'[i] = subs[i]
        /\ subs'[Len(subs) + 1] = row
    BY <2>1, <2>2, RowAppend DEF TypeOK, row
  <2>. QED  BY <1>a, <2>1, <2>2, <2>3, <2>4, StatusStepBacked
<1>4. ASSUME NEW h \in Handlers, CancelWrite(h)
      PROVE  SubscriptionBacked'
  <2>1. handler[h].sub \in DOMAIN subs  BY <1>4 DEF CancelWrite, AwaitedRowsFit, Fits
  <2>. QED  BY <1>4, <1>a, <1>b, <2>1, RowFields, StatusStepBacked DEF CancelWrite
<1>5. CASE checkGracePeriods
  BY <1>5, <1>a, <1>b, RowFields, StatusStepBacked DEF checkGracePeriods, Lapsed
<1>6. ASSUME NEW u \in Users, cancelActiveSubscriptions(u)
      PROVE  SubscriptionBacked'
  BY <1>6, <1>a, <1>b, RowFields, StatusStepBacked DEF cancelActiveSubscriptions
<1>7. CASE Tick
  BY <1>7, <1>a, <1>b, RowFields, StatusStepBacked DEF Tick
<1>8. CASE UNCHANGED <<subs, payments>>
  BY <1>8 DEF SubscriptionBacked, PaidActiveBacked, LapsedBacked, PendingUnpaid, HasPayment
<1>9. ASSUME NEW h \in Handlers, FindPending(h) \/ CallThrows(h) \/ Request(h)
                                    \/ \E e \in Events : Deliver(h, e)
      PROVE  UNCHANGED <<subs, payments>>
  BY <1>9 DEF FindPending, CallThrows, Request, SubscribeFreeCheck, SubscribePaidCheck,
        CancelCheck, Deliver, FindPayment, FindFailedPayment, FirstCallThrows
<1>10. CASE Processor \/ Crash \/ UNCHANGED vars
  <2>1. UNCHANGED <<subs, payments>>
    BY <1>10 DEF Processor, Complete, Decline, Settle, Reverse, Crash, vars
  <2>. QED  BY <2>1, <1>8
<1>. QED
  BY <1>1, <1>2, <1>3, <1>4, <1>5, <1>6, <1>7, <1>8, <1>9, <1>10 DEF Next, Continue

-----------------------------------------------------------------------------
(* The inductive invariant: none of its conjuncts is inductive by itself.  *)
(* A payment transaction keeps the tables in agreement only because what   *)
(* its handler remembers still fits them, and that in turn because rows    *)
(* last and payment rows stand for charges that completed.                 *)
IInv == TypeOK /\ AwaitedRowsFit /\ PaymentsCharged /\ SubscriptionBacked

THEOREM InductiveInvariant == Spec => []IInv
<1>1. Init => IInv
  BY DEF Init, IInv, TypeOK, AwaitedRowsFit, Fits, PaymentsCharged, SubscriptionBacked,
         PaidActiveBacked, LapsedBacked, PendingUnpaid, Handler, Idle, Charge, At, Events
<1>2. IInv /\ [Next]_vars => IInv'
  BY TypeStep, AwaitedStep, ChargedStep, BackedStep DEF IInv
<1>. QED  BY <1>1, <1>2, PTL DEF Spec

(* Every variable keeps its type, for any number of subscribers, handlers, *)
(* transactions and deliveries.                                            *)
THEOREM TypeCorrect == Spec => []TypeOK
<1>1. IInv => TypeOK  BY DEF IInv
<1>. QED  BY <1>1, InductiveInvariant, PTL

(* What a handler found before an await still fits when it commits.        *)
THEOREM AwaitsAreSafe == Spec => []AwaitedRowsFit
<1>1. IInv => AwaitedRowsFit  BY DEF IInv
<1>. QED  BY <1>1, InductiveInvariant, PTL

(* No payment row without a completed charge.                              *)
THEOREM NoPaymentWithoutCharge == Spec => []PaymentsCharged
<1>1. IInv => PaymentsCharged  BY DEF IInv
<1>. QED  BY <1>1, InductiveInvariant, PTL

(* Subscriptions and payments agree under every interleaving, with crashes *)
(* and errors.                                                             *)
THEOREM TablesAgree == Spec => []SubscriptionBacked
<1>1. IInv => SubscriptionBacked  BY DEF IInv
<1>. QED  BY <1>1, InductiveInvariant, PTL

-----------------------------------------------------------------------------
(* A step that takes a subscription out of {active, grace_period} cancels  *)
(* it, with no other reader's, or expires it once its grace period is over *)
(* and a payment has failed.                                               *)
AccessKept ==
    \A i \in DOMAIN subs :
       /\ i \in DOMAIN subs'
       /\ Ends(i) =>
             \/ /\ subs'[i].status = "cancelled"
                /\ \A j \in DOMAIN subs : Ends(j) => subs[j].user = subs[i].user
             \/ /\ subs[i].status = "grace_period" /\ subs[i].left = 0
                /\ HasPayment(i, "failed")

LEMMA AccessStep ==
    ASSUME IInv, [Next]_vars
    PROVE  AccessKept
<1>. USE DEF IInv, Live, Ends
<1>a. RowsLast  BY RowsLastStep
<1>b. \A i \in DOMAIN subs : subs[i] \in Subscription  BY DEF TypeOK
<1>1. ASSUME NEW h \in Handlers, SubscribeFreeCreate(h) \/ SubscribePaidCreate(h)
      PROVE  AccessKept
  <2>1. PICK row : subs' = Append(subs, row)
    BY <1>1 DEF SubscribeFreeCreate, SubscribePaidCreate
  <2>2. \A i \in DOMAIN subs : subs'[i] = subs[i]
    BY <2>1, AppendKeeps DEF TypeOK
  <2>. QED  BY <1>a, <2>2 DEF AccessKept, RowsLast
<1>2. ASSUME NEW h \in Handlers, CancelWrite(h)
      PROVE  AccessKept
  <2>1. handler[h].sub \in DOMAIN subs  BY <1>2 DEF CancelWrite, AwaitedRowsFit, Fits
  <2>. QED  BY <1>2, <1>b, <2>1, RowFields DEF CancelWrite, AccessKept
<1>4. ASSUME NEW h \in Handlers, ActivateNew(h)
      PROVE  AccessKept
  <2>. DEFINE s == handler[h].sub
  <2>1. subs[s] \in Subscription  BY <1>4, <1>b DEF ActivateNew, AwaitedRowsFit, Fits
  <2>2. Activated(subs[s]).status \in Live  BY <2>1, RowFields
  <2>. QED  BY <1>4, <2>2 DEF ActivateNew, AccessKept
<1>5. ASSUME NEW h \in Handlers, ActivateAgain(h) \/ FailPayment(h)
      PROVE  AccessKept
  <2>. DEFINE s == payments[handler[h].payment].sub
  <2>1. subs[s] \in Subscription
    BY <1>5, <1>b DEF ActivateAgain, FailPayment, AwaitedRowsFit, Fits, PaymentsCharged, At
  <2>2. Activated(subs[s]).status \in Live /\ Graced(subs[s]).status \in Live
    BY <2>1, RowFields
  <2>3. PICK row \in {Activated(subs[s]), Graced(subs[s])} : subs' = [subs EXCEPT ![s] = row]
    BY <1>5 DEF ActivateAgain, FailPayment
  <2>. QED  BY <2>2, <2>3 DEF AccessKept
<1>6. CASE checkGracePeriods
  <2>1. ASSUME NEW i \in DOMAIN subs
        PROVE  /\ subs'[i] = IF Lapsed(subs[i]) THEN Expired(subs[i]) ELSE subs[i]
               /\ Lapsed(subs[i]) => Expired(subs[i]).status = "expired"
    BY <1>6, <1>b, RowFields DEF checkGracePeriods
  <2>2. ASSUME NEW i \in DOMAIN subs, Ends(i)
        PROVE  /\ subs[i].status = "grace_period" /\ subs[i].left = 0
               /\ HasPayment(i, "failed")
    <3>1. Lapsed(subs[i])  BY <2>1, <2>2
    <3>. QED  BY <2>2, <3>1 DEF Lapsed, SubscriptionBacked, LapsedBacked
  <2>. QED  BY <1>6, <2>2 DEF checkGracePeriods, AccessKept
<1>7. ASSUME NEW u \in Users, cancelActiveSubscriptions(u)
      PROVE  AccessKept
  BY <1>7, <1>b, RowFields DEF cancelActiveSubscriptions, AccessKept
<1>8. CASE Tick
  BY <1>8, <1>b, RowFields DEF Tick, AccessKept
<1>9. CASE UNCHANGED subs
  BY <1>9 DEF AccessKept
<1>10. ASSUME NEW h \in Handlers, FindPending(h) \/ CallThrows(h) \/ Request(h)
                                     \/ \E e \in Events : Deliver(h, e)
       PROVE  UNCHANGED subs
  BY <1>10 DEF FindPending, CallThrows, Request, SubscribeFreeCheck, SubscribePaidCheck,
        CancelCheck, Deliver, FindPayment, FindFailedPayment, FirstCallThrows
<1>11. CASE Processor \/ Crash \/ UNCHANGED vars
  <2>1. UNCHANGED subs
    BY <1>11 DEF Processor, Complete, Decline, Settle, Reverse, Crash, vars
  <2>. QED  BY <2>1, <1>9
<1>. QED
  BY <1>1, <1>2, <1>4, <1>5, <1>6, <1>7, <1>8, <1>9, <1>10, <1>11 DEF Next, Continue

(* Without being cancelled, a subscription only ends by a grace period     *)
(* that ran out: by no webhook, replay, fault or crash.                    *)
THEOREM EndsOnlyByCancelOrLapse == Spec => UncancelledEndsByLapse
<1>1. IInv /\ [Next]_vars => [AccessKept]_vars  BY AccessStep
<1>2. [AccessKept]_vars <=>
        [\A i \in DOMAIN subs :
            /\ i \in DOMAIN subs'
            /\ Ends(i) =>
                  \/ /\ subs'[i].status = "cancelled"
                     /\ \A j \in DOMAIN subs : Ends(j) => subs[j].user = subs[i].user
                  \/ /\ subs[i].status = "grace_period" /\ subs[i].left = 0
                     /\ HasPayment(i, "failed")]_vars
  BY DEF AccessKept
<1>. QED  BY <1>1, <1>2, InductiveInvariant, PTL DEF Spec, UncancelledEndsByLapse

-----------------------------------------------------------------------------
\* Requests that are about to append a row.
Creating == {h \in Handlers : handler[h].at \in {"create_free", "create_paid"}}

(* Rows, and the requests that will append one, stay within the bound.     *)
RowsBounded == Len(subs) + Cardinality(Creating) <= MaxSubs

(* A step that appends no row and starts no request that will.             *)
LEMMA NoNewRow ==
    ASSUME TypeOK, TypeOK', RowsBounded, DOMAIN subs' = DOMAIN subs,
           \A g \in Handlers :
              \/ handler'[g] = handler[g]
              \/ handler'[g].at \notin {"create_free", "create_paid"}
    PROVE  RowsBounded'
<1>1. Creating' \subseteq Creating  BY DEF Creating
<1>2. IsFiniteSet(Creating)
  BY HandlersAssumption, FS_Subset DEF HandlersAssumption, Creating
<1>3. /\ Cardinality(Creating') <= Cardinality(Creating)
      /\ Cardinality(Creating') \in Nat /\ Cardinality(Creating) \in Nat
  BY <1>1, <1>2, FS_Subset, FS_CardinalityType
<1>4. Len(subs') = Len(subs) /\ Len(subs) \in Nat
  <2>1. 1 .. Len(subs') = 1 .. Len(subs) /\ Len(subs') \in Nat /\ Len(subs) \in Nat
    BY DEF TypeOK
  <2>. QED  BY <2>1
<1>. QED  BY <1>3, <1>4, BoundsAssumption DEF RowsBounded, BoundsAssumption

LEMMA BoundStep ==
    ASSUME TypeOK, AwaitedRowsFit, PaymentsCharged, RowsBounded, [Next]_vars
    PROVE  RowsBounded'
<1>a. TypeOK'  BY TypeStep
<1>b. ASSUME NEW h \in Handlers, NEW next, GoOn(h, next)
      PROVE  handler'[h] = next /\ \A g \in Handlers \ {h} : handler'[g] = handler[g]
  BY <1>b DEF GoOn, TypeOK
<1>c. ASSUME NEW h \in Handlers, NEW next, GoOn(h, next), DOMAIN subs' = DOMAIN subs,
             next.at \notin {"create_free", "create_paid"}
      PROVE  RowsBounded'
  BY <1>a, <1>b, <1>c, NoNewRow
<1>d. ASSUME UNCHANGED handler, DOMAIN subs' = DOMAIN subs
      PROVE  RowsBounded'
  BY <1>a, <1>d, NoNewRow
<1>e. /\ IsFiniteSet(Creating) /\ Cardinality(Creating) \in Nat
      /\ Len(subs) \in Nat
  BY HandlersAssumption, FS_Subset, FS_CardinalityType DEF HandlersAssumption, Creating, TypeOK
<1>1. ASSUME NEW h \in Handlers, NEW next, At(h, "idle"), RoomForRow, GoOn(h, next),
             next.at \in {"create_free", "create_paid"}, UNCHANGED subs
      PROVE  RowsBounded'
  <2>1. h \notin Creating  BY <1>1 DEF Creating, At
  <2>2. Creating' = Creating \cup {h}  BY <1>1, <1>b DEF Creating
  <2>3. Cardinality(Creating') = Cardinality(Creating) + 1
    BY <1>e, <2>1, <2>2, FS_AddElement
  <2>4. Len(subs) + Cardinality(Creating) < MaxSubs  BY <1>1 DEF RoomForRow, Creating
  <2>. QED  BY <1>1, <1>e, <2>3, <2>4, BoundsAssumption DEF RowsBounded, BoundsAssumption
<1>2. ASSUME NEW h \in Handlers, NEW row, At(h, "create_free") \/ At(h, "create_paid"),
             subs' = Append(subs, row), GoOn(h, Idle)
      PROVE  RowsBounded'
  <2>1. h \in Creating  BY <1>2 DEF Creating, At
  <2>2. Creating' = Creating \ {h}  BY <1>2, <1>b DEF Creating, Idle
  <2>3. Cardinality(Creating') = Cardinality(Creating) - 1
    BY <1>e, <2>1, <2>2, FS_RemoveElement
  <2>4. Len(subs') = Len(subs) + 1  BY <1>2 DEF TypeOK
  <2>. QED  BY <1>e, <2>3, <2>4, BoundsAssumption DEF RowsBounded, BoundsAssumption
<1>3. ASSUME NEW h \in Handlers, Continue(h)
      PROVE  RowsBounded'
  <2>1. CASE SubscribeFreeCreate(h)
    BY <1>2, <2>1 DEF SubscribeFreeCreate
  <2>2. CASE SubscribePaidCreate(h)
    BY <1>2, <2>2 DEF SubscribePaidCreate
  <2>3. CASE GoOn(h, Idle) /\ DOMAIN subs' = DOMAIN subs
    BY <1>c, <2>3 DEF Idle
  <2>4. ASSUME NEW i, GoOn(h, [at |-> "activate_new", sub |-> i, event |-> handler[h].event]),
               UNCHANGED subs
        PROVE  RowsBounded'
    BY <1>c, <2>4
  <2>. QED
    BY <1>3, <2>1, <2>2, <2>3, <2>4 DEF Continue, CancelWrite, FindPending, ActivateNew,
          ActivateAgain, FailPayment, CallThrows
<1>4. ASSUME NEW h \in Handlers, Request(h)
      PROVE  RowsBounded'
  <2>1. ASSUME NEW u \in Users, NEW p \in Pubs, SubscribeFreeCheck(h, u, p)
        PROVE  RowsBounded'
    BY <1>1, <2>1 DEF SubscribeFreeCheck
  <2>2. ASSUME NEW u \in Users, NEW p \in Pubs, SubscribePaidCheck(h, u, p)
        PROVE  RowsBounded'
    BY <1>1, <2>2 DEF SubscribePaidCheck
  <2>3. ASSUME NEW u \in Users, NEW i \in DOMAIN subs, CancelCheck(h, u, i)
        PROVE  RowsBounded'
    BY <1>c, <2>3 DEF CancelCheck
  <2>. QED  BY <1>4, <2>1, <2>2, <2>3 DEF Request
<1>5. ASSUME NEW h \in Handlers, NEW e \in Events, Deliver(h, e)
      PROVE  RowsBounded'
  <2>1. CASE UNCHANGED <<handler, subs>>
    BY <1>d, <2>1
  <2>2. ASSUME NEW k, NEW step \in {"activate_again", "fail"}, UNCHANGED subs,
               GoOn(h, [at |-> step, payment |-> k, event |-> e])
        PROVE  RowsBounded'
    BY <1>c, <2>2
  <2>3. ASSUME GoOn(h, [at |-> "find_pending", event |-> e]), UNCHANGED subs
        PROVE  RowsBounded'
    BY <1>c, <2>3
  <2>. QED
    BY <1>5, <2>1, <2>2, <2>3 DEF Deliver, FindPayment, FindFailedPayment, FirstCallThrows
<1>6. CASE Crash
  BY <1>6, <1>a, NoNewRow DEF Crash, Idle
<1>7. CASE checkGracePeriods \/ (\E u \in Users : cancelActiveSubscriptions(u)) \/ Tick
           \/ Processor \/ UNCHANGED vars
  BY <1>7, <1>d DEF checkGracePeriods, cancelActiveSubscriptions, Tick, Processor,
        Complete, Decline, Settle, Reverse, vars
<1>. QED  BY <1>3, <1>4, <1>5, <1>6, <1>7 DEF Next

(* No run of requests, however they overlap, passes the bound on rows.     *)
THEOREM RowsStayBounded == Spec => []RowsBounded
<1>1. Init => RowsBounded
  <2>. SUFFICES ASSUME Init PROVE RowsBounded  OBVIOUS
  <2>1. Creating = {} /\ Len(subs) = 0  BY DEF Init, Creating, Idle
  <2>2. Cardinality(Creating) = 0  BY <2>1, FS_EmptySet
  <2>. QED  BY <2>1, <2>2, BoundsAssumption DEF RowsBounded, BoundsAssumption
<1>2. IInv /\ RowsBounded /\ [Next]_vars => RowsBounded'
  BY BoundStep DEF IInv
<1>. QED  BY <1>1, <1>2, InductiveInvariant, PTL DEF Spec

LEMMA RowsWithinBound ==
    ASSUME TypeOK, RowsBounded
    PROVE  Len(subs) <= MaxSubs
<1>1. Cardinality(Creating) \in Nat
  BY HandlersAssumption, FS_Subset, FS_CardinalityType DEF HandlersAssumption, Creating
<1>. QED  BY <1>1, BoundsAssumption DEF RowsBounded, BoundsAssumption, TypeOK

(* The payments table as its readers see it.                               *)
LEMMA LedgerStep ==
    ASSUME IInv, RowsBounded, [Next]_vars
    PROVE  [Ledger!Next]_payments
<1>. USE DEF IInv
<1>1. ASSUME NEW h \in Handlers, ActivateNew(h)
      PROVE  Ledger!Next
  <2>1. handler[h].event.tx \in Txs
    BY <1>1, HandlerFields DEF ActivateNew, Webhook, At, Events
  <2>3. handler[h].sub \in 1 .. MaxSubs
    <3>1. handler[h].sub \in DOMAIN subs  BY <1>1 DEF ActivateNew, AwaitedRowsFit, Fits
    <3>2. Len(subs) <= MaxSubs  BY RowsWithinBound
    <3>. QED  BY <3>1, <3>2, BoundsAssumption DEF TypeOK, BoundsAssumption
  <2>2. Ledger!Record(handler[h].sub, handler[h].event.tx)
    BY <1>1 DEF ActivateNew, NewPayment, Ledger!Record
  <2>. QED  BY <2>1, <2>2, <2>3 DEF Ledger!Next
<1>2. ASSUME NEW h \in Handlers, ActivateAgain(h) \/ FailPayment(h)
      PROVE  [Ledger!Next]_payments
  <2>. DEFINE k == handler[h].payment
  <2>1. k \in DOMAIN payments
    BY <1>2 DEF ActivateAgain, FailPayment, AwaitedRowsFit, Fits, At
  <2>2. payments[k] \in Payment  BY <2>1 DEF TypeOK
  <2>3. PICK status \in PaymentStatus : payments' = [payments EXCEPT ![k].status = status]
    BY <1>2 DEF ActivateAgain, FailPayment, PaymentStatus
  <2>4. CASE payments[k].status = status
    <3>1. [payments[k] EXCEPT !.status = status] = payments[k]
      BY <2>2, <2>4 DEF Payment
    <3>2. payments' = [payments EXCEPT ![k] = payments[k]]  BY <2>1, <2>3, <3>1
    <3>. QED  BY <2>1, <3>2 DEF TypeOK
  <2>5. CASE payments[k].status # status
    <3>1. Ledger!Fail(k) \/ Ledger!Restore(k)
      BY <2>2, <2>3, <2>5 DEF Payment, PaymentStatus, Ledger!Fail, Ledger!Restore
    <3>. QED  BY <2>1, <3>1 DEF Ledger!Next
  <2>. QED  BY <2>4, <2>5
<1>. QED  BY <1>1, <1>2, PaymentsUntouched

(* SubscriptionsService implements what the readers of the payments table  *)
(* rely on: rows are appended as completed, keep their subscription and    *)
(* transaction, and are never deleted.                                     *)
THEOREM LedgerImplemented == Spec => ImplementsLedger
<1>1. Init => Ledger!Init  BY DEF Init, Ledger!Init
<1>2. IInv /\ RowsBounded /\ [Next]_vars => [Ledger!Next]_payments  BY LedgerStep
<1>. QED  BY <1>1, <1>2, InductiveInvariant, RowsStayBounded, PTL DEF Spec, Ledger!Spec, ImplementsLedger

-----------------------------------------------------------------------------
(* What can take a handler to where it is: it kept still, it ended, or it  *)
(* made one of the steps that read before they write.                      *)
LEMMA HandlerStep ==
    ASSUME TypeOK, [Next]_vars, NEW g \in Handlers
    PROVE  \/ handler'[g] = handler[g]
           \/ handler'[g].at \in {"idle", "create_paid", "cancel", "activate_again", "fail"}
           \/ /\ handler'[g].at = "create_free"
              /\ ~ AnyLive(handler'[g].user, handler'[g].pub)
              /\ UNCHANGED <<subs, payments>>
           \/ /\ handler'[g].at = "find_pending"
              /\ PaymentsOf(handler'[g].event.tx) = {}
              /\ UNCHANGED <<subs, payments>>
           \/ /\ At(g, "find_pending") /\ handler'[g].at = "activate_new"
              /\ handler'[g].event = handler[g].event
              /\ handler'[g].sub \in PendingPaid
              /\ UNCHANGED <<subs, payments>>
<1>. DEFINE Moved ==
           \/ handler'[g] = handler[g]
           \/ handler'[g].at \in {"idle", "create_paid", "cancel", "activate_again", "fail"}
           \/ /\ handler'[g].at = "create_free"
              /\ ~ AnyLive(handler'[g].user, handler'[g].pub)
              /\ UNCHANGED <<subs, payments>>
           \/ /\ handler'[g].at = "find_pending"
              /\ PaymentsOf(handler'[g].event.tx) = {}
              /\ UNCHANGED <<subs, payments>>
           \/ /\ At(g, "find_pending") /\ handler'[g].at = "activate_new"
              /\ handler'[g].event = handler[g].event
              /\ handler'[g].sub \in PendingPaid
              /\ UNCHANGED <<subs, payments>>
<1>. SUFFICES Moved  OBVIOUS
<1>a. ASSUME NEW h \in Handlers, NEW next, GoOn(h, next)
      PROVE  handler'[h] = next /\ (g # h => handler'[g] = handler[g])
  BY <1>a DEF GoOn, TypeOK
<1>1. ASSUME NEW h \in Handlers, GoOn(h, Idle)
      PROVE  Moved
  BY <1>1, <1>a DEF Idle
<1>2. ASSUME NEW h \in Handlers, FindPending(h)
      PROVE  Moved
  <2>1. ASSUME NEW i \in DOMAIN subs, At(h, "find_pending"), MostRecent(i, PendingPaid),
               GoOn(h, [at |-> "activate_new", sub |-> i, event |-> handler[h].event]),
               UNCHANGED <<subs, payments>>
        PROVE  Moved
    BY <2>1, <1>a DEF MostRecent
  <2>. QED  BY <1>1, <1>2, <2>1 DEF FindPending
<1>3. ASSUME NEW h \in Handlers, Continue(h)
      PROVE  Moved
  BY <1>1, <1>2, <1>3
  DEF Continue, SubscribeFreeCreate, SubscribePaidCreate, CancelWrite,
      ActivateNew, ActivateAgain, FailPayment, CallThrows
<1>4. ASSUME NEW h \in Handlers, Request(h)
      PROVE  Moved
  <2>1. ASSUME NEW u \in Users, NEW p \in Pubs, SubscribeFreeCheck(h, u, p)
        PROVE  Moved
    BY <2>1, <1>a DEF SubscribeFreeCheck
  <2>2. ASSUME NEW u \in Users, NEW p \in Pubs, SubscribePaidCheck(h, u, p)
        PROVE  Moved
    BY <2>2, <1>a DEF SubscribePaidCheck
  <2>3. ASSUME NEW u \in Users, NEW i \in DOMAIN subs, CancelCheck(h, u, i)
        PROVE  Moved
    BY <2>3, <1>a DEF CancelCheck
  <2>. QED  BY <1>4, <2>1, <2>2, <2>3 DEF Request
<1>5. ASSUME NEW h \in Handlers, NEW e \in Events, Deliver(h, e)
      PROVE  Moved
  <2>a. ASSUME NEW k, GoOn(h, [at |-> "activate_again", payment |-> k, event |-> e])
               \/ GoOn(h, [at |-> "fail", payment |-> k, event |-> e])
        PROVE  Moved
    <3>1. CASE GoOn(h, [at |-> "activate_again", payment |-> k, event |-> e])
      BY <3>1, <1>a
    <3>2. CASE GoOn(h, [at |-> "fail", payment |-> k, event |-> e])
      BY <3>2, <1>a
    <3>. QED  BY <2>a, <3>1, <3>2
  <2>b. ASSUME PaymentsOf(e.tx) = {}, UNCHANGED <<subs, payments>>,
               GoOn(h, [at |-> "find_pending", event |-> e])
        PROVE  Moved
    BY <2>b, <1>a
  <2>. HIDE DEF Moved
  <2>1. CASE FindPayment(h, e)
    BY <2>1, <2>a, <2>b DEF FindPayment
  <2>2. CASE FindFailedPayment(h, e)
    <3>1. UNCHANGED handler => Moved  BY DEF Moved
    <3>. QED  BY <2>2, <2>a, <3>1 DEF FindFailedPayment
  <2>3. CASE FirstCallThrows(h, e)
    BY <2>3 DEF FirstCallThrows, Moved
  <2>. QED  BY <1>5, <2>1, <2>2, <2>3 DEF Deliver
<1>6. CASE Crash
  BY <1>6 DEF Crash, Idle
<1>7. CASE checkGracePeriods \/ (\E u \in Users : cancelActiveSubscriptions(u)) \/ Tick
           \/ Processor \/ UNCHANGED vars
  BY <1>7 DEF checkGracePeriods, cancelActiveSubscriptions, Tick, Processor,
        Complete, Decline, Settle, Reverse, vars
<1>. QED  BY <1>3, <1>4, <1>5, <1>6, <1>7 DEF Next

-----------------------------------------------------------------------------
(* The two uniqueness properties are broken only by handlers that overlap  *)
(* in one way each: they hold in every behaviour, with any number of       *)
(* handlers, crashes and replays, in which that one overlap never happens. *)

(* The inductive invariant: what the check of a handler found absent is    *)
(* still absent when the handler creates it.                               *)
StillUnpaid ==
    \A h \in Handlers : Recording(h) => PaymentsOf(handler[h].event.tx) = {}

LEMMA TxOnceStep ==
    ASSUME IInv, TxRecordedOnce, StillUnpaid, NoTwinWebhooks, [Next]_vars
    PROVE  TxRecordedOnce' /\ StillUnpaid'
<1>. USE DEF IInv
<1>a. RowsLast  BY RowsLastStep
<1>b. ASSUME NEW k \in DOMAIN payments', k \notin DOMAIN payments
      PROVE  \E h \in Handlers : ActivateNew(h) /\ k = Len(payments) + 1
                                 /\ payments'[k].tx = handler[h].event.tx
  BY <1>b, NewPaymentRow
<1>1. ASSUME NEW k \in DOMAIN payments', NEW l \in DOMAIN payments',
             payments'[k].tx = payments'[l].tx
      PROVE  k = l
  <2>1. ASSUME NEW i \in DOMAIN payments, NEW j \in DOMAIN payments', j \notin DOMAIN payments
        PROVE  payments'[i].tx # payments'[j].tx
    <3>1. PICK h \in Handlers : ActivateNew(h) /\ payments'[j].tx = handler[h].event.tx
      BY <1>b, <2>1
    <3>2. PaymentsOf(handler[h].event.tx) = {}
      BY <3>1 DEF ActivateNew, StillUnpaid, Recording, At
    <3>. QED  BY <1>a, <3>1, <3>2 DEF RowsLast, PaymentsOf
  <2>2. CASE k \in DOMAIN payments /\ l \in DOMAIN payments
    BY <1>a, <1>1, <2>2 DEF RowsLast, TxRecordedOnce
  <2>3. CASE k \notin DOMAIN payments /\ l \notin DOMAIN payments
    BY <1>b, <2>3
  <2>. QED  BY <1>1, <2>1, <2>2, <2>3
<1>2. ASSUME NEW g \in Handlers, Recording(g)'
      PROVE  PaymentsOf(handler[g].event.tx)' = {}
  <2>1. Recording(g)' <=> handler'[g].at \in {"find_pending", "activate_new"}
    BY DEF Recording
  <2>2. CASE UNCHANGED payments /\ PaymentsOf(handler'[g].event.tx) = {}
    BY <2>2 DEF PaymentsOf
  <2>3. CASE At(g, "find_pending") /\ handler'[g].event = handler[g].event /\ UNCHANGED payments
    BY <2>3 DEF StillUnpaid, Recording, At, PaymentsOf
  <2>4. CASE handler'[g] = handler[g]
    <3>. DEFINE tx == handler[g].event.tx
    <3>1. Recording(g) /\ PaymentsOf(tx) = {}
      BY <1>2, <2>1, <2>4 DEF Recording, StillUnpaid
    <3>2. ASSUME NEW k \in DOMAIN payments', payments'[k].tx = tx
          PROVE  FALSE
      <4>1. k \notin DOMAIN payments
        BY <1>a, <3>1, <3>2 DEF RowsLast, PaymentsOf
      <4>2. PICK h \in Handlers : ActivateNew(h) /\ payments'[k].tx = handler[h].event.tx
        BY <1>b, <4>1
      <4>3. h = g
        BY <3>1, <3>2, <4>2 DEF NoTwinWebhooks, ActivateNew, Recording, At
      <4>4. handler'[g] = Idle
        BY <4>2, <4>3 DEF ActivateNew, GoOn, TypeOK
      <4>. QED  BY <1>2, <2>1, <4>4 DEF Idle
    <3>. QED  BY <2>4, <3>2 DEF PaymentsOf
  <2>. QED  BY <1>2, <2>1, <2>2, <2>3, <2>4, HandlerStep
<1>. QED  BY <1>1, <1>2 DEF TxRecordedOnce, StillUnpaid

(* One payment row for each transaction, unless two deliveries of its      *)
(* webhook are handled at the same time.                                   *)
THEOREM DuplicateNeedsTwinWebhooks == Spec => DuplicateNeedsTwins
<1>1. Init => TxRecordedOnce /\ StillUnpaid
  BY DEF Init, TxRecordedOnce, StillUnpaid, Recording, Idle
<1>2. /\ IInv /\ NoTwinWebhooks /\ TxRecordedOnce /\ StillUnpaid /\ [Next]_vars
      => TxRecordedOnce' /\ StillUnpaid'
  BY TxOnceStep
<1>. QED  BY <1>1, <1>2, InductiveInvariant, PTL DEF Spec, DuplicateNeedsTwins

-----------------------------------------------------------------------------
(* A free row becomes live when it is created, and never again.            *)
LEMMA FreeRowStep ==
    ASSUME IInv, [Next]_vars, NEW i \in DOMAIN subs', subs'[i].type = "free", subs'[i].status \in Live
    PROVE  \/ i \in DOMAIN subs /\ subs[i].type = "free" /\ subs[i].status \in Live
           \/ \E h \in Handlers : /\ SubscribeFreeCreate(h)
                                  /\ i = Len(subs) + 1
                                  /\ subs'[i].user = handler[h].user
                                  /\ subs'[i].pub = handler[h].pub
<1>. USE DEF IInv, Live
<1>. DEFINE Was == i \in DOMAIN subs /\ subs[i].type = "free" /\ subs[i].status \in Live
<1>a. RowsLast  BY RowsLastStep
<1>b. \A j \in DOMAIN subs : subs[j] \in Subscription  BY DEF TypeOK
<1>1. ASSUME NEW h \in Handlers, SubscribeFreeCreate(h), ~ Was
      PROVE  i = Len(subs) + 1 /\ subs'[i].user = handler[h].user /\ subs'[i].pub = handler[h].pub
  <2>. DEFINE row == NewRow(handler[h].user, handler[h].pub, "free", "active")
  <2>1. row \in Subscription
    BY <1>1, HandlerFields, NewRowType DEF SubscribeFreeCreate, SubscriptionType, SubscriptionStatus
  <2>2. row.user = handler[h].user /\ row.pub = handler[h].pub  BY DEF NewRow
  <2>3. subs' = Append(subs, row)  BY <1>1 DEF SubscribeFreeCreate
  <2>. HIDE DEF row
  <2>. QED  BY <1>1, <2>1, <2>2, <2>3, RowAppend DEF TypeOK
<1>2. ASSUME NEW h \in Handlers, SubscribePaidCreate(h)
      PROVE  Was
  <2>. DEFINE row == NewRow(handler[h].user, handler[h].pub, "paid", "pending")
  <2>1. row \in Subscription
    BY <1>2, HandlerFields, NewRowType DEF SubscribePaidCreate, SubscriptionType, SubscriptionStatus
  <2>2. row.type = "paid"  BY DEF NewRow
  <2>3. subs' = Append(subs, row)  BY <1>2 DEF SubscribePaidCreate
  <2>. HIDE DEF row
  <2>. QED  BY <2>1, <2>2, <2>3, RowAppend DEF TypeOK
<1>3. ASSUME NEW h \in Handlers, CancelWrite(h)
      PROVE  Was
  <2>1. handler[h].sub \in DOMAIN subs  BY <1>3 DEF CancelWrite, AwaitedRowsFit, Fits
  <2>. QED  BY <1>a, <1>b, <1>3, <2>1, RowFields DEF CancelWrite, RowsLast
<1>4. ASSUME NEW h \in Handlers, ActivateNew(h)
      PROVE  Was
  BY <1>a, <1>4 DEF ActivateNew, AwaitedRowsFit, Fits, RowsLast
<1>5. ASSUME NEW h \in Handlers, ActivateAgain(h) \/ FailPayment(h)
      PROVE  Was
  <2>. DEFINE s == payments[handler[h].payment].sub
  <2>1. s \in DOMAIN subs /\ subs[s].type = "paid"
    BY <1>5 DEF ActivateAgain, FailPayment, AwaitedRowsFit, Fits, PaymentsCharged, At
  <2>2. PICK row : subs' = [subs EXCEPT ![s] = row]
    BY <1>5 DEF ActivateAgain, FailPayment
  <2>. HIDE DEF s
  <2>. QED  BY <1>a, <2>1, <2>2 DEF RowsLast
<1>6. ASSUME checkGracePeriods
      PROVE  Was
  BY <1>a, <1>b, <1>6, RowFields DEF checkGracePeriods, RowsLast
<1>7. ASSUME NEW u \in Users, cancelActiveSubscriptions(u)
      PROVE  Was
  BY <1>a, <1>b, <1>7, RowFields DEF cancelActiveSubscriptions, RowsLast
<1>8. ASSUME Tick
      PROVE  Was
  BY <1>a, <1>b, <1>8, RowFields DEF Tick, RowsLast
<1>9. ASSUME UNCHANGED subs
      PROVE  Was
  BY <1>9
<1>10. ASSUME NEW h \in Handlers, FindPending(h) \/ CallThrows(h) \/ Request(h)
                                     \/ \E e \in Events : Deliver(h, e)
       PROVE  UNCHANGED subs
  BY <1>10 DEF FindPending, CallThrows, Request, SubscribeFreeCheck, SubscribePaidCheck,
        CancelCheck, Deliver, FindPayment, FindFailedPayment, FirstCallThrows
<1>11. ASSUME Processor \/ Crash \/ UNCHANGED vars
       PROVE  Was
  <2>1. UNCHANGED subs
    BY <1>11 DEF Processor, Complete, Decline, Settle, Reverse, Crash, vars
  <2>. QED  BY <2>1, <1>9
<1>. HIDE DEF Was
<1>12. Was \/ \E h \in Handlers : SubscribeFreeCreate(h) /\ ~ Was
  BY <1>2, <1>3, <1>4, <1>5, <1>6, <1>7, <1>8, <1>9, <1>10, <1>11 DEF Next, Continue
<1>. QED  BY <1>1, <1>12 DEF Was

(* A subscribeFree request that found no live row still would not find a   *)
(* free one.                                                               *)
StillUnsubscribed ==
    \A h \in Handlers : At(h, "create_free") =>
        \A i \in Rows(handler[h].user, handler[h].pub) :
            ~ (subs[i].type = "free" /\ subs[i].status \in Live)

LEMMA OneLiveFreeStep ==
    ASSUME IInv, OneLiveFree, StillUnsubscribed, NoTwinSubscribers, [Next]_vars
    PROVE  OneLiveFree' /\ StillUnsubscribed'
<1>. USE DEF IInv
<1>a. RowsLast  BY RowsLastStep
<1>. DEFINE LiveFree(i) == subs[i].type = "free" /\ subs[i].status \in Live
            LiveFreeNext(i) == subs'[i].type = "free" /\ subs'[i].status \in Live
<1>b. ASSUME NEW i \in DOMAIN subs', LiveFreeNext(i), ~ (i \in DOMAIN subs /\ LiveFree(i))
      PROVE  \E h \in Handlers : /\ SubscribeFreeCreate(h)
                                 /\ i = Len(subs) + 1
                                 /\ subs'[i].user = handler[h].user
                                 /\ subs'[i].pub = handler[h].pub
  BY <1>b, FreeRowStep
<1>c. \A i \in DOMAIN subs : subs'[i].user = subs[i].user /\ subs'[i].pub = subs[i].pub
  BY <1>a DEF RowsLast
<1>. HIDE DEF IInv
<1>1. ASSUME NEW i \in DOMAIN subs', NEW j \in DOMAIN subs',
             LiveFreeNext(i), LiveFreeNext(j),
             subs'[i].user = subs'[j].user, subs'[i].pub = subs'[j].pub
      PROVE  i = j
  <2>1. ASSUME NEW k \in DOMAIN subs, NEW l \in DOMAIN subs',
               LiveFree(k), LiveFreeNext(l), ~ (l \in DOMAIN subs /\ LiveFree(l)),
               subs[k].user = subs'[l].user, subs[k].pub = subs'[l].pub
        PROVE  FALSE
    <3>1. PICK h \in Handlers : /\ SubscribeFreeCreate(h)
                                /\ subs'[l].user = handler[h].user
                                /\ subs'[l].pub = handler[h].pub
      BY <1>b, <2>1
    <3>. QED  BY <2>1, <3>1 DEF SubscribeFreeCreate, StillUnsubscribed, Rows, At
  <2>2. CASE (i \in DOMAIN subs /\ LiveFree(i)) /\ (j \in DOMAIN subs /\ LiveFree(j))
    BY <1>c, <1>1, <2>2 DEF OneLiveFree
  <2>3. CASE ~ (i \in DOMAIN subs /\ LiveFree(i)) /\ ~ (j \in DOMAIN subs /\ LiveFree(j))
    BY <1>b, <1>1, <2>3
  <2>4. CASE (i \in DOMAIN subs /\ LiveFree(i)) /\ ~ (j \in DOMAIN subs /\ LiveFree(j))
    <3>1. subs[i].user = subs'[j].user /\ subs[i].pub = subs'[j].pub  BY <1>c, <1>1, <2>4
    <3>. HIDE DEF LiveFree, LiveFreeNext
    <3>. QED  BY <1>1, <2>1, <2>4, <3>1
  <2>5. CASE ~ (i \in DOMAIN subs /\ LiveFree(i)) /\ (j \in DOMAIN subs /\ LiveFree(j))
    <3>1. subs[j].user = subs'[i].user /\ subs[j].pub = subs'[i].pub  BY <1>c, <1>1, <2>5
    <3>. HIDE DEF LiveFree, LiveFreeNext
    <3>. QED  BY <1>1, <2>1, <2>5, <3>1
  <2>. QED  BY <2>2, <2>3, <2>4, <2>5
<1>2. ASSUME NEW g \in Handlers, handler'[g].at = "create_free",
             NEW i \in DOMAIN subs', subs'[i].user = handler'[g].user,
             subs'[i].pub = handler'[g].pub, LiveFreeNext(i)
      PROVE  FALSE
  <2>1. CASE ~ AnyLive(handler'[g].user, handler'[g].pub) /\ UNCHANGED subs
    BY <1>2, <2>1 DEF AnyLive, Rows
  <2>2. CASE handler'[g] = handler[g]
    <3>1. CASE i \in DOMAIN subs /\ LiveFree(i)
      BY <1>c, <1>2, <2>2, <3>1 DEF StillUnsubscribed, Rows, At
    <3>2. CASE ~ (i \in DOMAIN subs /\ LiveFree(i))
      <4>1. PICK h \in Handlers : /\ SubscribeFreeCreate(h)
                                  /\ subs'[i].user = handler[h].user
                                  /\ subs'[i].pub = handler[h].pub
        BY <1>b, <1>2, <3>2
      <4>2. h = g
        BY <1>2, <2>2, <4>1 DEF NoTwinSubscribers, SubscribeFreeCreate, At
      <4>3. handler'[g] = Idle
        BY <4>1, <4>2 DEF SubscribeFreeCreate, GoOn, TypeOK, IInv
      <4>. QED  BY <1>2, <4>3 DEF Idle
    <3>. QED  BY <3>1, <3>2
  <2>. QED  BY <1>2, <2>1, <2>2, HandlerStep DEF IInv
<1>3. ASSUME NEW i \in DOMAIN subs', NEW j \in DOMAIN subs',
             subs'[i].user = subs'[j].user, subs'[i].pub = subs'[j].pub,
             {subs'[i].type, subs'[j].type} = {"free"},
             {subs'[i].status, subs'[j].status} \subseteq Live
      PROVE  i = j
  <2>1. LiveFreeNext(i) /\ LiveFreeNext(j)
    <3>1. subs'[i].type = "free" /\ subs'[j].type = "free"  BY <1>3, Zenon
    <3>2. subs'[i].status \in Live /\ subs'[j].status \in Live  BY <1>3, Zenon
    <3>. QED  BY <3>1, <3>2
  <2>. QED  BY <1>1, <1>3, <2>1
<1>4. StillUnsubscribed'
  BY <1>2 DEF StillUnsubscribed, Rows, At
<1>. QED  BY <1>3, <1>4 DEF OneLiveFree

(* One live free subscription for each subscriber and publication, unless  *)
(* two requests of the subscriber are checked before either is served.     *)
THEOREM DuplicateNeedsTwinSubscribers == Spec => SecondFreeNeedsTwins
<1>1. Init => OneLiveFree /\ StillUnsubscribed
  BY DEF Init, OneLiveFree, StillUnsubscribed, At, Idle
<1>2. /\ IInv /\ NoTwinSubscribers /\ OneLiveFree /\ StillUnsubscribed /\ [Next]_vars
      => OneLiveFree' /\ StillUnsubscribed'
  BY OneLiveFreeStep
<1>. QED  BY <1>1, <1>2, InductiveInvariant, PTL DEF Spec, SecondFreeNeedsTwins

(* Both hold when the server has one request in flight at a time.          *)
COROLLARY OneAtATime ==
    ASSUME \A g, h \in Handlers : g = h
    PROVE  Spec => [](TxRecordedOnce /\ OneLiveFree)
<1>1. NoTwinWebhooks /\ NoTwinSubscribers
  BY DEF NoTwinWebhooks, NoTwinSubscribers
<1>. QED  BY <1>1, DuplicateNeedsTwinWebhooks, DuplicateNeedsTwinSubscribers, PTL
       DEF DuplicateNeedsTwins, SecondFreeNeedsTwins

-----------------------------------------------------------------------------
(* A success webhook takes the newest pending row, whoever paid.  That is  *)
(* the right one as long as no other checkout is pending at the time.      *)
NoRivalCheckouts ==
    \A h \in Handlers : At(h, "find_pending") =>
        PendingPaid \subseteq {charges[handler[h].event.tx].checkout}

(* What a handler holds on to is the row its payer went to pay for.        *)
HeldIsCheckout ==
    \A h \in Handlers : At(h, "activate_new") =>
        handler[h].sub = charges[handler[h].event.tx].checkout

\* A charge that was completed stays one of the same checkout.
LEMMA CheckoutKept ==
    ASSUME TypeOK, [Next]_vars, NEW tx \in Txs, Charged(tx)
    PROVE  charges'[tx].checkout = charges[tx].checkout
<1>1. ASSUME NEW s \in Txs, NEW i, NEW state, Settle(s, i, state)
      PROVE  charges'[tx].checkout = charges[tx].checkout
  <2>1. s # tx  BY <1>1 DEF Settle, Charged
  <2>. QED  BY <1>1, <2>1 DEF Settle, TypeOK
<1>2. ASSUME NEW s \in Txs, Reverse(s)
      PROVE  charges'[tx].checkout = charges[tx].checkout
  <2>1. charges[s] \in Charge  BY DEF TypeOK
  <2>2. CASE s = tx
    BY <1>2, <2>1, <2>2 DEF Reverse, TypeOK, Charge
  <2>3. CASE s # tx
    BY <1>2, <2>3 DEF Reverse, TypeOK
  <2>. QED  BY <2>2, <2>3
<1>3. CASE Processor
  BY <1>1, <1>2, <1>3 DEF Processor, Complete, Decline
<1>4. CASE UNCHANGED charges
  BY <1>4
<1>5. ~ Processor => UNCHANGED charges
  <2>. USE DEF SubscribeFreeCreate, SubscribePaidCreate, CancelWrite, FindPending, CallThrows,
               ActivateNew, ActivateAgain, FailPayment
  <2>. QED
    BY DEF Next, Continue, Request, SubscribeFreeCheck, SubscribePaidCheck, CancelCheck,
           Deliver, FindPayment, FindFailedPayment, FirstCallThrows,
           checkGracePeriods, cancelActiveSubscriptions, Tick, Crash, vars
<1>. QED  BY <1>3, <1>4, <1>5

LEMMA CreditStep ==
    ASSUME IInv, HeldIsCheckout, PaymentCreditsItsCheckout, NoRivalCheckouts, [Next]_vars
    PROVE  HeldIsCheckout' /\ PaymentCreditsItsCheckout'
<1>. USE DEF IInv
<1>a. RowsLast  BY RowsLastStep
<1>b. \A h \in Handlers : At(h, "find_pending") \/ At(h, "activate_new") =>
         handler[h].event.tx \in Txs /\ Charged(handler[h].event.tx)
  <2>. SUFFICES ASSUME NEW h \in Handlers, At(h, "find_pending") \/ At(h, "activate_new")
                PROVE  handler[h].event.tx \in Txs /\ Charged(handler[h].event.tx)
    OBVIOUS
  <2>1. handler[h].event \in Events  BY HandlerFields DEF At, Webhook
  <2>. QED  BY <2>1 DEF AwaitedRowsFit, Fits, Events
<1>1. ASSUME NEW g \in Handlers, handler'[g].at = "activate_new"
      PROVE  handler'[g].sub = charges'[handler'[g].event.tx].checkout
  <2>1. CASE handler'[g] = handler[g]
    BY <1>1, <1>b, <2>1, CheckoutKept DEF HeldIsCheckout, At
  <2>2. CASE At(g, "find_pending") /\ handler'[g].event = handler[g].event
             /\ handler'[g].sub \in PendingPaid
    <3>1. handler'[g].sub = charges[handler[g].event.tx].checkout
      BY <2>2 DEF NoRivalCheckouts
    <3>. QED  BY <1>b, <2>2, <3>1, CheckoutKept
  <2>. QED  BY <1>1, <2>1, <2>2, HandlerStep
<1>2. ASSUME NEW k \in DOMAIN payments'
      PROVE  payments'[k].sub = charges'[payments'[k].tx].checkout
  <2>1. CASE k \in DOMAIN payments
    <3>1. payments'[k].sub = payments[k].sub /\ payments'[k].tx = payments[k].tx
      BY <1>a, <2>1 DEF RowsLast
    <3>2. payments[k] \in Payment  BY <2>1 DEF TypeOK
    <3>3. payments[k].tx \in Txs /\ Charged(payments[k].tx)
      BY <2>1, <3>2 DEF PaymentsCharged, Payment
    <3>4. charges'[payments[k].tx].checkout = charges[payments[k].tx].checkout
      BY <3>3, CheckoutKept
    <3>. QED  BY <2>1, <3>1, <3>4 DEF PaymentCreditsItsCheckout
  <2>2. CASE k \notin DOMAIN payments
    <3>1. PICK h \in Handlers : /\ ActivateNew(h)
                                /\ payments'[k].sub = handler[h].sub
                                /\ payments'[k].tx = handler[h].event.tx
      BY <2>2, NewPaymentRow
    <3>2. At(h, "activate_new")  BY <3>1 DEF ActivateNew
    <3>. QED  BY <1>b, <3>1, <3>2, CheckoutKept DEF HeldIsCheckout
  <2>. QED  BY <2>1, <2>2
<1>. QED  BY <1>1, <1>2 DEF HeldIsCheckout, PaymentCreditsItsCheckout, At

(* A payment is recorded for the row its payer went to pay for, unless     *)
(* another checkout is pending when its webhook looks for one.             *)
THEOREM MisdirectedNeedsRivals == Spec /\ []NoRivalCheckouts => []PaymentCreditsItsCheckout
<1>1. Init => HeldIsCheckout /\ PaymentCreditsItsCheckout
  BY DEF Init, HeldIsCheckout, PaymentCreditsItsCheckout, At, Idle
<1>2. /\ IInv /\ NoRivalCheckouts /\ HeldIsCheckout /\ PaymentCreditsItsCheckout /\ [Next]_vars
      => HeldIsCheckout' /\ PaymentCreditsItsCheckout'
  BY CreditStep
<1>. QED  BY <1>1, <1>2, InductiveInvariant, PTL DEF Spec
=============================================================================
