---------------------------- MODULE EmailDelivery ----------------------------
(***************************************************************************)
(* Newsletters: EmailService puts one job per active subscription into the *)
(* queue, EmailProcessor sends them, and EmailController books what Resend *)
(* reports about them, which may unsubscribe a reader.  Subscriptions also *)
(* start, lapse and end meanwhile, as module Subscriptions describes.      *)
(*                                                                         *)
(* A fan-out, the worker and a webhook handler each await the database     *)
(* between two steps.  Bull gives the one worker one job at a time, again  *)
(* after an error, up to MaxAttempts; a job whose process died was stalled *)
(* and comes back MaxStalls times.                                         *)
(***************************************************************************)
EXTENDS Integers, Sequences, FiniteSetsExt, Functions

CONSTANTS
    Articles, Users,
    Rows, Owner,     \* subscriptions to the publication, and whose each one is
    Callers, Hooks,  \* fan-outs and Resend webhooks the server handles at a time
    MaxAttempts,     \* opts.attempts of a job
    MaxStalls,       \* Bull's maxStalledCount
    BounceLimit,     \* bounces after which a reader is unsubscribed
    MaxJobs,         \* bound: jobs put into the queue
    EventTypes,      \* events that Resend reports
    MaxEvents,       \* bound: how many of them
    MaxChanges,      \* bound: changes of subscriptions from elsewhere
    Faulty           \* whether calls may throw and the process crash

ASSUME OwnerAssumption == Owner \in [Rows -> Users]
ASSUME LimitsAssumption ==
    /\ {MaxAttempts, BounceLimit} \subseteq Nat \ {0}
    /\ {MaxStalls, MaxJobs, MaxEvents, MaxChanges} \subseteq Nat
ASSUME EventsAssumption ==
    {"bounced", "complained"} \subseteq EventTypes
    /\ EventTypes \subseteq {"delivered", "opened", "clicked", "bounced", "complained"}
ASSUME FaultyAssumption == Faulty \in BOOLEAN
ASSUME FiniteAssumption == IsFiniteSet(Rows) /\ IsFiniteSet(Hooks)

VARIABLES
    emailSent,    \* articles with email_sent set
    status,       \* status of each subscription
    late,         \* auxiliary: articles and who became active after their look-up
    fanOut,       \* how far each call of sendArticleToSubscribers is
    batches,      \* times jobs were put into the queue
    jobs,         \* the queue's jobs, by batch and subscription
    worker,       \* how far handleSendEmail is
    deliveries,   \* rows of table email_deliveries, in order of created_at
    hook,         \* how far each handleResendWebhook is
    events, changes,     \* auxiliary: events received, changes from elsewhere
    bounced, complained  \* auxiliary: rows ever shown as bounced, as complained

mailVars == <<emailSent, fanOut, batches>>
readerVars == <<status, late, changes>>
books == <<bounced, complained>>
hookVars == <<readerVars, hook, events, books>>
vars == <<mailVars, jobs, worker, deliveries, hookVars>>

Open == {"queued", "sent", "delivered", "opened"}
DeliveryStatus == Open \cup {"clicked", "bounced", "complained"}
Live == {"active", "grace_period"}
\* "cancelled" for cause, "none" if never started, expired or cancelled by the reader.
SubscriptionStatus == Live \cup {"none", "cancelled"}

Idle == [at |-> "idle"]

JobIds == Nat \X Rows     \* batch and subscription

Job == [article: Articles, state: {"waiting", "active", "done", "failed"},
        attempts: Nat, stalls: Nat,
        accepted: BOOLEAN]     \* whether Resend took the e-mail, at least once

FanOut == {Idle} \cup [at: {"find", "mark"}, article: Articles]
                 \cup [at: {"queue"}, article: Articles, rows: SUBSET Rows]
Delivery == [article: Articles, user: Users, status: DeliveryStatus]
Worker(ids, rows) ==
    {Idle} \cup [at: {"create"}, job: ids]
           \cup [at: {"send", "sent", "bounce", "throw"}, job: ids, row: rows]
Hook(rows) == {Idle} \cup [at: {"update", "count", "cancel"}, type: EventTypes, row: rows]

TypeOK ==
    /\ emailSent \subseteq Articles
    /\ status \in [Rows -> SubscriptionStatus] /\ late \subseteq Articles \X Rows
    /\ fanOut \in [Callers -> FanOut]
    /\ batches \in Nat
    /\ DOMAIN jobs \subseteq JobIds /\ jobs \in [DOMAIN jobs -> Job]
    /\ worker \in Worker(DOMAIN jobs, DOMAIN deliveries)
    /\ deliveries \in Seq(Delivery)
    /\ hook \in [Hooks -> Hook(DOMAIN deliveries)]
    /\ {events, changes} \subseteq Nat
    /\ bounced \subseteq DOMAIN deliveries /\ complained \subseteq DOMAIN deliveries

Init ==
    /\ emailSent = {}
    /\ status \in [Rows -> Live \cup {"none"}] /\ late = {} /\ changes = 0
    /\ fanOut = [c \in Callers |-> Idle]
    /\ batches = 0
    /\ jobs = <<>>
    /\ worker = Idle
    /\ deliveries = <<>>
    /\ hook = [h \in Hooks |-> Idle]
    /\ events = 0 /\ bounced = {} /\ complained = {}

-----------------------------------------------------------------------------
(* Slips a maintainer could make below, to see that the properties notice. *)

MutRecipientsFirstOnly ==
    LET all == {r \in Rows : status[r] = "active"}
    IN  IF all = {} THEN {} ELSE {CHOOSE r \in all : TRUE}
MutFoundQueued(a, u) ==
    {k \in DOMAIN deliveries : /\ deliveries[k].article = a /\ deliveries[k].user = u
                               /\ deliveries[k].status = "queued"}
MutAfterErrorIgnored(job) == "sent"
MutBouncesOfAnyStatus(u) == {k \in DOMAIN deliveries : deliveries[k].user = u}

-----------------------------------------------------------------------------
(* sendArticleToSubscribers. *)

Recipients == {r \in Rows : status[r] = "active"}

NewJob(a) ==
    [article |-> a, state |-> "waiting", attempts |-> 0, stalls |-> 0, accepted |-> FALSE]

\* Bound: no further fan-out once the queue is full.
ReadArticle(c, a) ==
    /\ fanOut[c] = Idle /\ Cardinality(DOMAIN jobs) < MaxJobs
    /\ a \notin emailSent
    /\ fanOut' = [fanOut EXCEPT ![c] = [at |-> "find", article |-> a]]
    /\ UNCHANGED <<emailSent, batches, jobs, worker, deliveries, hookVars>>

\* Bound: leave room for the batches under way.
RoomForBatch ==
    LET found(c) == IF fanOut[c].at = "queue" THEN Cardinality(fanOut[c].rows) ELSE 0
    IN  Cardinality(DOMAIN jobs) + Cardinality(Recipients) + MapThenSumSet(found, Callers) <= MaxJobs

FindSubscribers(c) ==
    /\ fanOut[c].at = "find" /\ RoomForBatch
    /\ fanOut' = [fanOut EXCEPT ![c] =
          IF Recipients = {}
          THEN [at |-> "mark", article |-> fanOut[c].article]
          ELSE [at |-> "queue", article |-> fanOut[c].article, rows |-> Recipients]]
    /\ UNCHANGED <<emailSent, batches, jobs, worker, deliveries, hookVars>>

\* addBulk: all jobs of the batch or none.
AddBulk(c) ==
    /\ fanOut[c].at = "queue"
    /\ batches' = batches + 1
    /\ jobs' = [j \in DOMAIN jobs \cup ({batches'} \X fanOut[c].rows) |->
                   IF j \in DOMAIN jobs THEN jobs[j] ELSE NewJob(fanOut[c].article)]
    /\ fanOut' = [fanOut EXCEPT ![c] = [at |-> "mark", article |-> fanOut[c].article]]
    /\ UNCHANGED <<emailSent, worker, deliveries, hookVars>>

markArticleEmailSent(c) ==
    /\ fanOut[c].at = "mark"
    /\ emailSent' = emailSent \cup {fanOut[c].article}
    /\ fanOut' = [fanOut EXCEPT ![c] = Idle]
    /\ UNCHANGED <<batches, jobs, worker, deliveries, hookVars>>

FanOutThrows(c) ==
    /\ Faulty /\ fanOut[c] # Idle
    /\ fanOut' = [fanOut EXCEPT ![c] = Idle]
    /\ UNCHANGED <<emailSent, batches, jobs, worker, deliveries, hookVars>>

-----------------------------------------------------------------------------
(* handleSendEmail, one job at a time. *)

ArticleOf(j) == jobs[j].article
ReaderOf(j) == Owner[j[2]]

LastAttempt(j) == jobs[j].attempts + 1 >= MaxAttempts

Found(a, u) ==
    {k \in DOMAIN deliveries : deliveries[k].article = a /\ deliveries[k].user = u}

\* What follows an error of Resend: the job throws, at last as bounced.
AfterError(j) == IF LastAttempt(j) THEN "bounce" ELSE "throw"

\* The queue hands out a job and upsertDelivery looks for its row.
TakeJob(j) ==
    /\ worker = Idle
    /\ jobs[j].state = "waiting"
    /\ jobs' = [jobs EXCEPT ![j].state = "active"]
    /\ \/ \E k \in Found(ArticleOf(j), ReaderOf(j)) :
              worker' = [at |-> "send", job |-> j, row |-> k]
       \/ /\ Found(ArticleOf(j), ReaderOf(j)) = {}
          /\ worker' = [at |-> "create", job |-> j]
    /\ UNCHANGED <<mailVars, deliveries, hookVars>>

CreateDelivery ==
    /\ worker.at = "create"
    /\ deliveries' = Append(deliveries, [article |-> ArticleOf(worker.job),
                                         user |-> ReaderOf(worker.job), status |-> "queued"])
    /\ worker' = [at |-> "send", job |-> worker.job, row |-> Len(deliveries')]
    /\ UNCHANGED <<mailVars, jobs, hookVars>>

SendAccepted ==
    /\ worker.at = "send"
    /\ jobs' = [jobs EXCEPT ![worker.job].accepted = TRUE]
    /\ worker' = [worker EXCEPT !.at = "sent"]
    /\ UNCHANGED <<mailVars, deliveries, hookVars>>

\* An error may also be a lost answer to an e-mail that Resend did take.
SendError ==
    /\ Faulty /\ worker.at = "send"
    /\ \E taken \in BOOLEAN : jobs' = [jobs EXCEPT ![worker.job].accepted = @ \/ taken]
    /\ worker' = [worker EXCEPT !.at = AfterError(worker.job)]
    /\ UNCHANGED <<mailVars, deliveries, hookVars>>

MarkSent ==
    /\ worker.at = "sent"
    /\ deliveries' = [deliveries EXCEPT ![worker.row].status = "sent"]
    /\ jobs' = [jobs EXCEPT ![worker.job].state = "done"]
    /\ worker' = Idle
    /\ UNCHANGED <<mailVars, hookVars>>

MarkBounced ==
    /\ worker.at = "bounce"
    /\ deliveries' = [deliveries EXCEPT ![worker.row].status = "bounced"]
    /\ bounced' = bounced \cup {worker.row}
    /\ worker' = [worker EXCEPT !.at = "throw"]
    /\ UNCHANGED <<mailVars, jobs, readerVars, hook, events, complained>>

\* Bull counts the attempt and keeps the job for another one, if any is left.
Thrown(j) ==
    [jobs[j] EXCEPT !.attempts = @ + 1,
                    !.state = IF LastAttempt(j) THEN "failed" ELSE "waiting"]

JobThrows ==
    /\ \/ worker.at = "throw"
       \/ Faulty /\ worker.at \in {"create", "send", "sent", "bounce"}
    /\ jobs' = [jobs EXCEPT ![worker.job] = Thrown(worker.job)]
    /\ worker' = Idle
    /\ UNCHANGED <<mailVars, deliveries, hookVars>>

-----------------------------------------------------------------------------
(* handleResendWebhook.  An event may also be about a welcome or a         *)
(* verification e-mail, so it may come at any time.                        *)

OpenDeliveries == {k \in DOMAIN deliveries : deliveries[k].status \in Open}

\* Deliveries that count towards the bounce limit.
Bounces(u) ==
    {k \in DOMAIN deliveries : deliveries[k].user = u /\ deliveries[k].status = "bounced"}

\* The newest open delivery stands in for the event's, which nobody recorded.
FindDelivery(h, type) ==
    /\ hook[h] = Idle /\ events < MaxEvents
    /\ events' = events + 1
    /\ hook' = IF OpenDeliveries = {} THEN hook
               ELSE [hook EXCEPT ![h] = [at |-> "update", type |-> type,
                                         row |-> Max(OpenDeliveries)]]
    /\ UNCHANGED <<mailVars, jobs, worker, deliveries, readerVars, books>>

AfterUpdate(call) ==
    CASE call.type = "bounced" -> [call EXCEPT !.at = "count"]
      [] call.type = "complained" -> [call EXCEPT !.at = "cancel"]
      [] OTHER -> Idle

UpdateDelivery(h) ==
    /\ hook[h].at = "update"
    /\ deliveries' = [deliveries EXCEPT ![hook[h].row].status = hook[h].type]
    /\ hook' = [hook EXCEPT ![h] = AfterUpdate(@)]
    /\ bounced' = bounced \cup {k \in {hook[h].row} : hook[h].type = "bounced"}
    /\ complained' = complained \cup {k \in {hook[h].row} : hook[h].type = "complained"}
    /\ UNCHANGED <<mailVars, jobs, worker, readerVars, events>>

CountBounces(h) ==
    /\ hook[h].at = "count"
    /\ hook' = [hook EXCEPT ![h] =
          IF Cardinality(Bounces(deliveries[@.row].user)) >= BounceLimit
          THEN [@ EXCEPT !.at = "cancel"] ELSE Idle]
    /\ UNCHANGED <<mailVars, jobs, worker, deliveries, readerVars, events, books>>

cancelActiveSubscriptions(h) ==
    /\ hook[h].at = "cancel"
    /\ status' = [r \in Rows |->
          IF Owner[r] = deliveries[hook[h].row].user /\ status[r] \in Live
          THEN "cancelled" ELSE status[r]]
    /\ hook' = [hook EXCEPT ![h] = Idle]
    /\ UNCHANGED <<mailVars, jobs, worker, deliveries, late, changes, events, books>>

HookThrows(h) ==
    /\ Faulty /\ hook[h] # Idle
    /\ hook' = [hook EXCEPT ![h] = Idle]
    /\ UNCHANGED <<mailVars, jobs, worker, deliveries, readerVars, events, books>>

-----------------------------------------------------------------------------
\* Articles whose subscribers were looked up, in a fan-out that is or ended well.
LookedUp ==
    emailSent \cup {fanOut[c].article : c \in {d \in Callers : fanOut[d].at \in {"queue", "mark"}}}

\* A subscription starts, is paid, falls behind with a payment, or ends otherwise than above.
SubscriptionChanges(r, s) ==
    /\ changes < MaxChanges /\ changes' = changes + 1
    /\ s # status[r] /\ (s = "none" => status[r] \in Live)
    /\ status' = [status EXCEPT ![r] = s]
    /\ late' = late \cup {<<a, r>> : a \in {b \in LookedUp : s = "active"}}
    /\ UNCHANGED <<mailVars, jobs, worker, deliveries, hook, events, books>>

-----------------------------------------------------------------------------
Stalled(job) ==
    IF job.stalls < MaxStalls
    THEN [job EXCEPT !.state = "waiting", !.stalls = @ + 1]
    ELSE [job EXCEPT !.state = "failed"]

Crash ==
    /\ Faulty
    /\ fanOut' = [c \in Callers |-> Idle]
    /\ hook' = [h \in Hooks |-> Idle]
    /\ worker' = Idle
    /\ jobs' = [j \in DOMAIN jobs |->
                   IF jobs[j].state = "active" THEN Stalled(jobs[j]) ELSE jobs[j]]
    /\ UNCHANGED <<emailSent, batches, deliveries, readerVars, events, books>>

-----------------------------------------------------------------------------
sendArticleToSubscribers(c) ==
    \/ \E a \in Articles : ReadArticle(c, a)
    \/ FindSubscribers(c)
    \/ AddBulk(c)
    \/ markArticleEmailSent(c)
    \/ FanOutThrows(c)

handleSendEmail ==
    \/ \E j \in DOMAIN jobs : TakeJob(j)
    \/ CreateDelivery
    \/ SendAccepted \/ SendError
    \/ MarkSent \/ MarkBounced
    \/ JobThrows

handleResendWebhook(h) ==
    \/ \E type \in EventTypes : FindDelivery(h, type)
    \/ UpdateDelivery(h)
    \/ CountBounces(h)
    \/ cancelActiveSubscriptions(h)
    \/ HookThrows(h)

Next ==
    \/ \E c \in Callers : sendArticleToSubscribers(c)
    \/ handleSendEmail
    \/ \E h \in Hooks : handleResendWebhook(h)
    \/ \E r \in Rows, s \in Live \cup {"none"} : SubscriptionChanges(r, s)
    \/ Crash

Spec == Init /\ [][Next]_vars

(* The worker takes the next job whenever it has finished one.             *)
FairSpec == Spec /\ WF_vars(handleSendEmail)

-----------------------------------------------------------------------------
(* One row of email_deliveries for an article and a reader, although no    *)
(* constraint keeps a second one out and jobs are repeated after errors,   *)
(* crashes and second fan-outs: only one worker looks and creates.         *)
OneDeliveryRow ==
    \A k, l \in DOMAIN deliveries :
        /\ deliveries[k].article = deliveries[l].article
        /\ deliveries[k].user = deliveries[l].user
        => k = l

JobsFor(a, u) == {j \in DOMAIN jobs : ArticleOf(j) = a /\ ReaderOf(j) = u}

(* A delivery shown as sent did leave: no retry, crash or late webhook     *)
(* makes a row "sent" whose e-mail Resend never took.                      *)
SentWasAccepted ==
    \A k \in DOMAIN deliveries :
        deliveries[k].status = "sent" =>
            \E j \in JobsFor(deliveries[k].article, deliveries[k].user) : jobs[j].accepted

(* email_sent stops every later fan-out, so once it is set each active     *)
(* subscription has its job, unless it became active only after the        *)
(* look-up: a fan-out that failed halfway, overlapped another one or ran   *)
(* while subscriptions changed leaves out nobody it could know.            *)
NobodyForgotten ==
    \A a \in emailSent, r \in Rows :
        status[r] = "active" /\ <<a, r>> \notin late =>
            \E j \in DOMAIN jobs : j[2] = r /\ ArticleOf(j) = a

(* A reader is unsubscribed automatically only after a complaint about an  *)
(* e-mail to this reader was booked, or bounces of as many different ones  *)
(* as the limit asks for, by the webhook or by the worker: no concurrent   *)
(* webhook, retry or crash lets another reader's bookings count.  Whether  *)
(* the row booked is that of the e-mail reported, the code does not know.  *)
OfReader(ks, u) == {k \in ks : deliveries[k].user = u}

UnsubscribeJustified ==
    \A r \in Rows : status[r] = "cancelled" =>
        \/ OfReader(complained, Owner[r]) # {}
        \/ Cardinality(OfReader(bounced, Owner[r])) >= BounceLimit

MailOf(m) ==
    LET sentTo == JobsFor(m[1], m[2])
    IN  CASE sentTo = {} -> "none"
          [] \E j \in sentTo : jobs[j].accepted -> "sent"
          [] OTHER -> IF \A j \in sentTo : jobs[j].state = "failed" THEN "given_up" ELSE "due"

Mailing == INSTANCE ArticleMailing WITH mail <- [m \in Articles \X Users |-> MailOf(m)]

(* An e-mail that was queued leaves or is given up, through errors, lost   *)
(* answers and crashes, and one that left never counts as due again.       *)
ImplementsMailing == Mailing!Spec

=============================================================================
