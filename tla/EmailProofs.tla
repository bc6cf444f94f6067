----------------------------- MODULE EmailProofs -----------------------------
(***************************************************************************)
(* Proofs about EmailDelivery, for any number of articles, readers,        *)
(* fan-outs and webhook handlers, any limit and any bound, and about the   *)
(* Settings e-mails leave with, for any number of keys, addresses, pages,  *)
(* saves and e-mails.                                                      *)
(***************************************************************************)
EXTENDS EmailDelivery, Settings, Tables, FiniteSetTheorems

(* What fan-outs, the worker and webhook handlers hold between two awaits. *)
LEMMA FanOutFields ==
    ASSUME TypeOK, NEW c \in Callers
    PROVE  /\ fanOut[c] \in FanOut
           /\ fanOut[c].at \in {"find", "mark", "queue"} => fanOut[c].article \in Articles
           /\ fanOut[c].at = "queue" => fanOut[c].rows \subseteq Rows
<1>1. fanOut[c] \in FanOut  BY DEF TypeOK
<1>. QED  BY <1>1 DEF FanOut, Idle

LEMMA WorkerFields ==
    ASSUME TypeOK
    PROVE  /\ worker.at = "create" => worker.job \in DOMAIN jobs
           /\ worker.at \in {"send", "sent", "bounce", "throw"} =>
                 /\ worker \in [at: {"send", "sent", "bounce", "throw"}, job: DOMAIN jobs,
                                row: DOMAIN deliveries]
                 /\ worker.job \in DOMAIN jobs /\ worker.row \in DOMAIN deliveries
  BY DEF TypeOK, Worker, Idle

LEMMA HookFields ==
    ASSUME TypeOK, NEW h \in Hooks
    PROVE  /\ hook[h] \in Hook(DOMAIN deliveries)
           /\ hook[h].at \in {"update", "count", "cancel"} =>
                 /\ hook[h] \in [at: {"update", "count", "cancel"}, type: EventTypes,
                                 row: DOMAIN deliveries]
                 /\ hook[h].type \in EventTypes /\ hook[h].row \in DOMAIN deliveries
<1>1. hook[h] \in Hook(DOMAIN deliveries)  BY DEF TypeOK
<1>. QED  BY <1>1 DEF Hook, Idle

LEMMA JobFields ==
    ASSUME TypeOK, NEW j \in DOMAIN jobs
    PROVE  jobs[j] \in Job /\ ArticleOf(j) \in Articles /\ ReaderOf(j) \in Users
<1>1. jobs[j] \in Job /\ j[2] \in Rows  BY DEF TypeOK, JobIds
<1>. QED  BY <1>1, OwnerAssumption DEF Job, ArticleOf, ReaderOf

LEMMA Rowed ==
    ASSUME TypeOK
    PROVE  DOMAIN deliveries = 1 .. Len(deliveries) /\ Len(deliveries) \in Nat
  BY DEF TypeOK

-----------------------------------------------------------------------------
(* No step forgets a row or a job, or changes what it is about, and an     *)
(* e-mail that was taken stays taken.                                      *)
RowsKept ==
    \A k \in DOMAIN deliveries :
        /\ k \in DOMAIN deliveries'
        /\ deliveries'[k].article = deliveries[k].article
        /\ deliveries'[k].user = deliveries[k].user

JobsKept ==
    \A j \in DOMAIN jobs :
        /\ j \in DOMAIN jobs'
        /\ jobs'[j].article = jobs[j].article
        /\ jobs[j].accepted => jobs'[j].accepted

LEMMA SameRows ==
    ASSUME UNCHANGED deliveries
    PROVE  RowsKept
  BY DEF RowsKept

LEMMA SameJobs ==
    ASSUME UNCHANGED jobs
    PROVE  JobsKept
  BY DEF JobsKept

\* The status of one row is written.
LEMMA StatusWritten ==
    ASSUME TypeOK, NEW k \in DOMAIN deliveries, NEW s \in DeliveryStatus,
           deliveries' = [deliveries EXCEPT ![k].status = s]
    PROVE  /\ deliveries' \in Seq(Delivery) /\ RowsKept
           /\ DOMAIN deliveries' = DOMAIN deliveries
           /\ deliveries'[k].status = s
           /\ \A l \in DOMAIN deliveries : l # k => deliveries'[l] = deliveries[l]
<1>. DEFINE row == [deliveries[k] EXCEPT !.status = s]
<1>1. deliveries \in Seq(Delivery) /\ deliveries[k] \in Delivery /\ k \in 1 .. Len(deliveries)
  BY Rowed DEF TypeOK
<1>2. row \in Delivery /\ row.status = s
      /\ row.article = deliveries[k].article /\ row.user = deliveries[k].user
  BY <1>1 DEF Delivery
<1>3. deliveries' = [deliveries EXCEPT ![k] = row]
  OBVIOUS
<1>. HIDE DEF row
<1>4. deliveries' \in Seq(Delivery) /\ DOMAIN deliveries' = DOMAIN deliveries
      /\ deliveries'[k] = row
      /\ \A l \in DOMAIN deliveries : l # k => deliveries'[l] = deliveries[l]
  BY <1>1, <1>2, <1>3
<1>5. RowsKept  BY <1>2, <1>4 DEF RowsKept
<1>. QED  BY <1>2, <1>4, <1>5

\* One job is written.
LEMMA JobWritten ==
    ASSUME TypeOK, NEW j \in DOMAIN jobs, NEW job \in Job,
           jobs' = [jobs EXCEPT ![j] = job],
           job.article = jobs[j].article, jobs[j].accepted => job.accepted
    PROVE  /\ DOMAIN jobs' = DOMAIN jobs /\ jobs' \in [DOMAIN jobs' -> Job] /\ JobsKept
           /\ jobs'[j] = job
<1>1. /\ DOMAIN jobs' = DOMAIN jobs /\ jobs' \in [DOMAIN jobs' -> Job] /\ jobs'[j] = job
      /\ \A i \in DOMAIN jobs : i # j => jobs'[i] = jobs[i]
  BY DEF TypeOK
<1>. QED  BY <1>1 DEF JobsKept

\* Rows and jobs that were there can be held on to.
LEMMA HoldersTyped ==
    ASSUME TypeOK, DOMAIN jobs \subseteq DOMAIN jobs', DOMAIN deliveries \subseteq DOMAIN deliveries'
    PROVE  /\ worker \in Worker(DOMAIN jobs', DOMAIN deliveries')
           /\ hook \in [Hooks -> Hook(DOMAIN deliveries')]
<1>1. worker \in Worker(DOMAIN jobs', DOMAIN deliveries')  BY DEF TypeOK, Worker
<1>2. Hook(DOMAIN deliveries) \subseteq Hook(DOMAIN deliveries')  BY DEF Hook
<1>. QED  BY <1>1, <1>2 DEF TypeOK

-----------------------------------------------------------------------------
LEMMA FanOutTypes ==
    ASSUME TypeOK, NEW c \in Callers, sendArticleToSubscribers(c)
    PROVE  TypeOK' /\ JobsKept /\ RowsKept
<1>a. Idle \in FanOut  BY DEF FanOut
<1>1. CASE \E a \in Articles : ReadArticle(c, a)
  <2>1. PICK a \in Articles : ReadArticle(c, a)  BY <1>1
  <2>2. [at |-> "find", article |-> a] \in FanOut  BY DEF FanOut
  <2>. QED  BY <2>1, <2>2, SameRows, SameJobs DEF ReadArticle, TypeOK, hookVars, readerVars, books
<1>2. CASE FindSubscribers(c)
  <2>1. fanOut[c].article \in Articles  BY <1>2, FanOutFields DEF FindSubscribers
  <2>2. /\ [at |-> "mark", article |-> fanOut[c].article] \in FanOut
        /\ [at |-> "queue", article |-> fanOut[c].article, rows |-> Recipients] \in FanOut
    BY <2>1 DEF FanOut, Recipients
  <2>3. fanOut' \in [Callers -> FanOut]  BY <1>2, <2>2 DEF FindSubscribers, TypeOK
  <2>. QED  BY <1>2, <2>3, SameRows, SameJobs DEF FindSubscribers, TypeOK, hookVars, readerVars, books
<1>3. CASE AddBulk(c)
  <2>1. fanOut[c].article \in Articles /\ fanOut[c].rows \subseteq Rows
    BY <1>3, FanOutFields DEF AddBulk
  <2>2. [at |-> "mark", article |-> fanOut[c].article] \in FanOut  BY <2>1 DEF FanOut
  <2>3. fanOut' \in [Callers -> FanOut] /\ batches' \in Nat  BY <1>3, <2>2 DEF AddBulk, TypeOK
  <2>4. NewJob(fanOut[c].article) \in Job  BY <2>1, LimitsAssumption DEF NewJob, Job
  <2>5. /\ DOMAIN jobs' \subseteq JobIds /\ jobs' \in [DOMAIN jobs' -> Job]
        /\ DOMAIN jobs \subseteq DOMAIN jobs' /\ \A j \in DOMAIN jobs : jobs'[j] = jobs[j]
    BY <1>3, <2>1, <2>3, <2>4 DEF AddBulk, TypeOK, JobIds
  <2>6. JobsKept  BY <2>5 DEF JobsKept
  <2>. QED  BY <1>3, <2>3, <2>5, <2>6, HoldersTyped, SameRows DEF AddBulk, TypeOK, hookVars, readerVars, books
<1>4. CASE markArticleEmailSent(c)
  <2>1. fanOut[c].article \in Articles  BY <1>4, FanOutFields DEF markArticleEmailSent
  <2>. QED
    BY <1>a, <1>4, <2>1, SameRows, SameJobs DEF markArticleEmailSent, TypeOK, hookVars, readerVars, books
<1>5. CASE FanOutThrows(c)
  BY <1>a, <1>5, SameRows, SameJobs DEF FanOutThrows, TypeOK, hookVars, readerVars, books
<1>. QED  BY <1>1, <1>2, <1>3, <1>4, <1>5 DEF sendArticleToSubscribers

LEMMA WorkerTypes ==
    ASSUME TypeOK, handleSendEmail
    PROVE  TypeOK' /\ JobsKept /\ RowsKept
<1>1. ASSUME NEW j \in DOMAIN jobs, TakeJob(j)
      PROVE  TypeOK' /\ JobsKept /\ RowsKept
  <2>. DEFINE job == [jobs[j] EXCEPT !.state = "active"]
  <2>1. job \in Job /\ job.article = jobs[j].article /\ job.accepted = jobs[j].accepted
    BY JobFields DEF Job
  <2>2. jobs' = [jobs EXCEPT ![j] = job]  BY <1>1 DEF TakeJob
  <2>. HIDE DEF job
  <2>3. DOMAIN jobs' = DOMAIN jobs /\ jobs' \in [DOMAIN jobs' -> Job] /\ JobsKept
    BY <2>1, <2>2, JobWritten
  <2>4. worker' \in Worker(DOMAIN jobs, DOMAIN deliveries)
    BY <1>1 DEF TakeJob, Found, Worker
  <2>. QED  BY <1>1, <2>3, <2>4, SameRows DEF TakeJob, TypeOK, mailVars, hookVars, readerVars, books
<1>2. CASE CreateDelivery
  <2>. DEFINE row == [article |-> ArticleOf(worker.job), user |-> ReaderOf(worker.job),
                      status |-> "queued"]
  <2>1. worker.job \in DOMAIN jobs  BY <1>2, WorkerFields DEF CreateDelivery
  <2>2. row \in Delivery  BY <2>1, JobFields DEF Delivery, DeliveryStatus, Open
  <2>3. deliveries' = Append(deliveries, row)
        /\ worker' = [at |-> "send", job |-> worker.job, row |-> Len(deliveries')]
    BY <1>2 DEF CreateDelivery
  <2>. HIDE DEF row
  <2>4. /\ deliveries' \in Seq(Delivery) /\ DOMAIN deliveries' = 1 .. Len(deliveries) + 1
        /\ Len(deliveries') = Len(deliveries) + 1
        /\ \A k \in DOMAIN deliveries : deliveries'[k] = deliveries[k]
    BY <2>2, <2>3, RowAdded DEF TypeOK
  <2>5. RowsKept /\ DOMAIN deliveries \subseteq DOMAIN deliveries'
    BY <2>4, Rowed DEF RowsKept
  <2>6. Len(deliveries') \in DOMAIN deliveries'  BY <2>4, Rowed
  <2>7. worker' \in Worker(DOMAIN jobs, DOMAIN deliveries')  BY <2>1, <2>3, <2>6 DEF Worker
  <2>8. hook \in [Hooks -> Hook(DOMAIN deliveries')]
    BY <1>2, <2>5, HoldersTyped DEF CreateDelivery
  <2>. QED
    BY <1>2, <2>4, <2>5, <2>7, <2>8, SameJobs DEF CreateDelivery, TypeOK, mailVars, hookVars, readerVars, books
<1>3. CASE SendAccepted \/ SendError
  <2>1. worker.job \in DOMAIN jobs /\ worker.row \in DOMAIN deliveries
    BY <1>3, WorkerFields DEF SendAccepted, SendError
  <2>2. PICK taken \in BOOLEAN :
           jobs' = [jobs EXCEPT ![worker.job].accepted = @ \/ taken]
    <3>1. jobs[worker.job].accepted \in BOOLEAN  BY <2>1, JobFields DEF Job
    <3>2. CASE SendAccepted
      <4>1. jobs' = [jobs EXCEPT ![worker.job].accepted = @ \/ TRUE]
        BY <3>1, <3>2 DEF SendAccepted
      <4>. QED  BY <4>1
    <3>3. CASE SendError  BY <3>3 DEF SendError
    <3>. QED  BY <1>3, <3>2, <3>3
  <2>. DEFINE job == [jobs[worker.job] EXCEPT !.accepted = @ \/ taken]
  <2>3. job \in Job /\ job.article = jobs[worker.job].article
        /\ (jobs[worker.job].accepted => job.accepted)
    BY <2>1, JobFields DEF Job
  <2>4. jobs' = [jobs EXCEPT ![worker.job] = job]  BY <2>1, <2>2 DEF TypeOK
  <2>. HIDE DEF job
  <2>5. DOMAIN jobs' = DOMAIN jobs /\ jobs' \in [DOMAIN jobs' -> Job] /\ JobsKept
    BY <2>1, <2>3, <2>4, JobWritten
  <2>6. worker' \in Worker(DOMAIN jobs, DOMAIN deliveries)
    BY <1>3, WorkerFields DEF SendAccepted, SendError, AfterError, Worker
  <2>7. UNCHANGED <<mailVars, deliveries, hookVars>>  BY <1>3 DEF SendAccepted, SendError
  <2>. QED  BY <2>5, <2>6, <2>7, SameRows DEF TypeOK, mailVars, hookVars, readerVars, books
<1>4. CASE MarkSent
  <2>1. worker.job \in DOMAIN jobs /\ worker.row \in DOMAIN deliveries
    BY <1>4, WorkerFields DEF MarkSent
  <2>2. /\ deliveries' \in Seq(Delivery) /\ RowsKept /\ DOMAIN deliveries' = DOMAIN deliveries
    BY <1>4, <2>1, StatusWritten DEF MarkSent, DeliveryStatus, Open
  <2>. DEFINE job == [jobs[worker.job] EXCEPT !.state = "done"]
  <2>3. job \in Job /\ job.article = jobs[worker.job].article
        /\ job.accepted = jobs[worker.job].accepted
    BY <2>1, JobFields DEF Job
  <2>4. jobs' = [jobs EXCEPT ![worker.job] = job]  BY <1>4 DEF MarkSent
  <2>. HIDE DEF job
  <2>5. DOMAIN jobs' = DOMAIN jobs /\ jobs' \in [DOMAIN jobs' -> Job] /\ JobsKept
    BY <2>1, <2>3, <2>4, JobWritten
  <2>6. worker' \in Worker(DOMAIN jobs, DOMAIN deliveries)  BY <1>4 DEF MarkSent, Worker
  <2>. QED  BY <1>4, <2>2, <2>5, <2>6 DEF MarkSent, TypeOK, mailVars, hookVars, readerVars, books
<1>5. CASE MarkBounced
  <2>1. worker.row \in DOMAIN deliveries  BY <1>5, WorkerFields DEF MarkBounced
  <2>2. /\ deliveries' \in Seq(Delivery) /\ RowsKept /\ DOMAIN deliveries' = DOMAIN deliveries
    BY <1>5, <2>1, StatusWritten DEF MarkBounced, DeliveryStatus, Open
  <2>3. worker' \in Worker(DOMAIN jobs, DOMAIN deliveries)
    BY <1>5, WorkerFields DEF MarkBounced, Worker
  <2>4. bounced' \subseteq DOMAIN deliveries'  BY <1>5, <2>1, <2>2 DEF MarkBounced, TypeOK
  <2>. QED
    BY <1>5, <2>2, <2>3, <2>4, SameJobs DEF MarkBounced, TypeOK, mailVars, readerVars
<1>6. CASE JobThrows
  <2>1. worker.job \in DOMAIN jobs  BY <1>6, WorkerFields DEF JobThrows
  <2>. DEFINE job == Thrown(worker.job)
  <2>2. job \in Job /\ job.article = jobs[worker.job].article
        /\ job.accepted = jobs[worker.job].accepted
    <3>1. jobs[worker.job] \in Job  BY <2>1, JobFields
    <3>. DEFINE more == jobs[worker.job].attempts + 1
                after == IF LastAttempt(worker.job) THEN "failed" ELSE "waiting"
    <3>2. more \in Nat /\ after \in {"failed", "waiting"}  BY <3>1 DEF Job
    <3>3. job = [jobs[worker.job] EXCEPT !.attempts = more, !.state = after]  BY DEF Thrown
    <3>. HIDE DEF job, more, after
    <3>. QED  BY <3>1, <3>2, <3>3 DEF Job
  <2>. HIDE DEF job
  <2>3. jobs' = [jobs EXCEPT ![worker.job] = job]  BY <1>6 DEF JobThrows, job
  <2>4. DOMAIN jobs' = DOMAIN jobs /\ jobs' \in [DOMAIN jobs' -> Job] /\ JobsKept
    BY <2>1, <2>2, <2>3, JobWritten
  <2>5. worker' \in Worker(DOMAIN jobs, DOMAIN deliveries)  BY <1>6 DEF JobThrows, Worker
  <2>. QED  BY <1>6, <2>4, <2>5, SameRows DEF JobThrows, TypeOK, mailVars, hookVars, readerVars, books
<1>. QED  BY <1>1, <1>2, <1>3, <1>4, <1>5, <1>6 DEF handleSendEmail

LEMMA HookTypes ==
    ASSUME TypeOK, NEW h \in Hooks, handleResendWebhook(h)
    PROVE  TypeOK' /\ UNCHANGED <<mailVars, jobs, worker>> /\ RowsKept
<1>a. Idle \in Hook(DOMAIN deliveries)  BY DEF Hook
<1>1. ASSUME NEW type \in EventTypes, FindDelivery(h, type)
      PROVE  TypeOK' /\ UNCHANGED <<mailVars, jobs, worker>> /\ RowsKept
  <2>1. OpenDeliveries \subseteq 1 .. Len(deliveries) /\ Len(deliveries) \in Nat
    BY Rowed DEF OpenDeliveries
  <2>2. OpenDeliveries # {} => Max(OpenDeliveries) \in DOMAIN deliveries
    BY <2>1, Rowed, NewestRow
  <2>. DEFINE call == [at |-> "update", type |-> type, row |-> Max(OpenDeliveries)]
  <2>3. OpenDeliveries # {} => call \in Hook(DOMAIN deliveries)
    BY <2>2 DEF Hook
  <2>4. hook' \in [Hooks -> Hook(DOMAIN deliveries)]
    <3>1. hook' = IF OpenDeliveries = {} THEN hook ELSE [hook EXCEPT ![h] = call]
      BY <1>1 DEF FindDelivery
    <3>. HIDE DEF call
    <3>. QED  BY <2>3, <3>1 DEF TypeOK
  <2>. QED  BY <1>1, <2>4, SameRows DEF FindDelivery, TypeOK, mailVars, readerVars, books
<1>2. CASE UpdateDelivery(h)
  <2>1. /\ hook[h] \in [at: {"update", "count", "cancel"}, type: EventTypes,
                         row: DOMAIN deliveries]
        /\ hook[h].row \in DOMAIN deliveries /\ hook[h].type \in DeliveryStatus
    BY <1>2, HookFields, EventsAssumption DEF UpdateDelivery, DeliveryStatus, Open
  <2>2. /\ deliveries' \in Seq(Delivery) /\ RowsKept /\ DOMAIN deliveries' = DOMAIN deliveries
    BY <1>2, <2>1, StatusWritten DEF UpdateDelivery
  <2>3. AfterUpdate(hook[h]) \in Hook(DOMAIN deliveries)
    BY <2>1 DEF AfterUpdate, Hook
  <2>4. hook' \in [Hooks -> Hook(DOMAIN deliveries)]
    BY <1>2, <2>3 DEF UpdateDelivery, TypeOK
  <2>5. bounced' \subseteq DOMAIN deliveries' /\ complained' \subseteq DOMAIN deliveries'
    BY <1>2, <2>1, <2>2 DEF UpdateDelivery, TypeOK
  <2>. QED  BY <1>2, <2>2, <2>4, <2>5 DEF UpdateDelivery, TypeOK, mailVars, readerVars
<1>3. CASE CountBounces(h)
  <2>1. [hook[h] EXCEPT !.at = "cancel"] \in Hook(DOMAIN deliveries)
    BY <1>3, HookFields DEF CountBounces, Hook
  <2>2. hook' \in [Hooks -> Hook(DOMAIN deliveries)]
    BY <1>a, <1>3, <2>1 DEF CountBounces, TypeOK
  <2>. QED  BY <1>3, <2>2, SameRows DEF CountBounces, TypeOK, mailVars, readerVars, books
<1>4. CASE cancelActiveSubscriptions(h)
  <2>1. status' \in [Rows -> SubscriptionStatus]
    BY <1>4 DEF cancelActiveSubscriptions, TypeOK, SubscriptionStatus
  <2>. QED
    BY <1>a, <1>4, <2>1, SameRows DEF cancelActiveSubscriptions, TypeOK, mailVars, books
<1>5. CASE HookThrows(h)
  BY <1>a, <1>5, SameRows DEF HookThrows, TypeOK, mailVars, readerVars, books
<1>. QED  BY <1>1, <1>2, <1>3, <1>4, <1>5 DEF handleResendWebhook

LEMMA ChangeTypes ==
    ASSUME TypeOK, NEW r \in Rows, NEW s \in Live \cup {"none"}, SubscriptionChanges(r, s)
    PROVE  TypeOK' /\ UNCHANGED <<mailVars, jobs, worker, deliveries, hook, events, books>>
<1>1. LookedUp \subseteq Articles
  <2>1. \A c \in Callers : fanOut[c].at \in {"queue", "mark"} => fanOut[c].article \in Articles
    BY FanOutFields
  <2>. QED  BY <2>1 DEF LookedUp, TypeOK
<1>2. late' \subseteq Articles \X Rows  BY <1>1 DEF SubscriptionChanges, TypeOK
<1>3. status' \in [Rows -> SubscriptionStatus]
  BY DEF SubscriptionChanges, TypeOK, SubscriptionStatus
<1>4. {events, changes}' \subseteq Nat  BY DEF SubscriptionChanges, TypeOK
<1>. QED  BY <1>2, <1>3, <1>4 DEF SubscriptionChanges, TypeOK, mailVars, books

LEMMA CrashTypes ==
    ASSUME TypeOK, Crash
    PROVE  TypeOK' /\ JobsKept /\ RowsKept
<1>1. ASSUME NEW job \in Job
      PROVE  /\ Stalled(job) \in Job
             /\ Stalled(job).article = job.article /\ Stalled(job).accepted = job.accepted
  <2>1. CASE job.stalls < MaxStalls
    <3>. DEFINE more == job.stalls + 1
    <3>1. more \in Nat  BY DEF Job
    <3>2. Stalled(job) = [job EXCEPT !.state = "waiting", !.stalls = more]
      BY <2>1 DEF Stalled
    <3>. HIDE DEF more
    <3>. QED  BY <3>1, <3>2 DEF Job
  <2>2. CASE ~ (job.stalls < MaxStalls)
    <3>1. Stalled(job) = [job EXCEPT !.state = "failed"]  BY <2>2 DEF Stalled
    <3>. QED  BY <3>1 DEF Job
  <2>. QED  BY <2>1, <2>2
<1>2. /\ DOMAIN jobs' = DOMAIN jobs /\ jobs' \in [DOMAIN jobs' -> Job]
      /\ \A j \in DOMAIN jobs : jobs'[j] \in {jobs[j], Stalled(jobs[j])}
  BY <1>1 DEF Crash, TypeOK
<1>3. JobsKept  BY <1>1, <1>2 DEF JobsKept, TypeOK
<1>4. Idle \in FanOut /\ Idle \in Hook(DOMAIN deliveries)
      /\ Idle \in Worker(DOMAIN jobs, DOMAIN deliveries)
  BY DEF FanOut, Hook, Worker
<1>. QED  BY <1>2, <1>3, <1>4, SameRows DEF Crash, TypeOK, readerVars, books

LEMMA InitTypes == Init => TypeOK
<1>. SUFFICES ASSUME Init PROVE TypeOK
  OBVIOUS
<1>1. Idle \in FanOut /\ Idle \in Hook(DOMAIN deliveries)
      /\ Idle \in Worker(DOMAIN jobs, DOMAIN deliveries)
  BY DEF FanOut, Hook, Worker
<1>2. deliveries \in Seq(Delivery)  BY DEF Init
<1>3. DOMAIN jobs = {} /\ jobs \in [DOMAIN jobs -> Job]  BY DEF Init
<1>4. {events, changes} \subseteq Nat /\ batches \in Nat /\ status \in [Rows -> SubscriptionStatus]
  BY DEF Init, SubscriptionStatus
<1>. QED  BY <1>1, <1>2, <1>3, <1>4 DEF Init, TypeOK

LEMMA StepTypes ==
    ASSUME TypeOK, [Next]_vars
    PROVE  TypeOK' /\ JobsKept /\ RowsKept
<1>1. CASE UNCHANGED vars
  BY <1>1, SameRows, SameJobs DEF TypeOK, vars, mailVars, hookVars, readerVars, books
<1>2. ASSUME NEW h \in Hooks, handleResendWebhook(h)
      PROVE  TypeOK' /\ JobsKept /\ RowsKept
  BY <1>2, HookTypes, SameJobs
<1>3. ASSUME NEW r \in Rows, NEW s \in Live \cup {"none"}, SubscriptionChanges(r, s)
      PROVE  TypeOK' /\ JobsKept /\ RowsKept
  BY <1>3, ChangeTypes, SameJobs, SameRows
<1>. QED  BY <1>1, <1>2, <1>3, FanOutTypes, WorkerTypes, CrashTypes DEF Next

(* Every job, row and call is one the program can have.                    *)
THEOREM TypeCorrect == Spec => []TypeOK
  BY InitTypes, StepTypes, PTL DEF Spec

-----------------------------------------------------------------------------
(* One row for an article and a reader, and "sent" only what was taken.    *)
(* What the worker knows between its awaits stays true: no fan-out and no  *)
(* webhook adds a row or changes whose it is.                              *)
WorkerFits ==
    /\ worker.at = "create" => Found(ArticleOf(worker.job), ReaderOf(worker.job)) = {}
    /\ worker.at \in {"send", "sent", "bounce", "throw"} =>
          /\ deliveries[worker.row].article = ArticleOf(worker.job)
          /\ deliveries[worker.row].user = ReaderOf(worker.job)
    /\ worker.at = "sent" => jobs[worker.job].accepted

DInv == TypeOK /\ WorkerFits /\ OneDeliveryRow /\ SentWasAccepted

\* Jobs that were for a reader still are.
LEMMA JobsForKept ==
    ASSUME JobsKept, NEW a, NEW u, NEW j \in JobsFor(a, u), jobs[j].accepted
    PROVE  j \in JobsFor(a, u)' /\ jobs'[j].accepted
  BY DEF JobsKept, JobsFor, ArticleOf, ReaderOf

\* No row is added, and none becomes "sent".
LEMMA NothingSent ==
    ASSUME DInv, JobsKept, RowsKept, DOMAIN deliveries' = DOMAIN deliveries,
           \A k \in DOMAIN deliveries :
              deliveries'[k].status = "sent" => deliveries[k].status = "sent"
    PROVE  OneDeliveryRow' /\ SentWasAccepted'
<1>1. OneDeliveryRow'  BY DEF DInv, OneDeliveryRow, RowsKept
<1>2. ASSUME NEW k \in DOMAIN deliveries, deliveries'[k].status = "sent"
      PROVE  \E j \in JobsFor(deliveries[k].article, deliveries[k].user)' : jobs'[j].accepted
  <2>1. PICK j \in JobsFor(deliveries[k].article, deliveries[k].user) : jobs[j].accepted
    BY <1>2 DEF DInv, SentWasAccepted
  <2>. QED  BY <2>1, JobsForKept DEF JobsFor, ArticleOf, ReaderOf, JobsKept, RowsKept
<1>. QED  BY <1>1, <1>2 DEF SentWasAccepted, RowsKept, JobsFor, ArticleOf, ReaderOf

\* Nor does the worker move.
LEMMA WorkerRests ==
    ASSUME DInv, JobsKept, RowsKept, DOMAIN deliveries' = DOMAIN deliveries, UNCHANGED worker
    PROVE  WorkerFits'
<1>1. worker.at \in {"create", "send", "sent", "bounce", "throw"} =>
        ArticleOf(worker.job)' = ArticleOf(worker.job) /\ worker.job \in DOMAIN jobs
  BY WorkerFields DEF DInv, JobsKept, ArticleOf
<1>2. worker.at = "create" => Found(ArticleOf(worker.job), ReaderOf(worker.job))' = {}
  BY <1>1 DEF DInv, WorkerFits, Found, ReaderOf, RowsKept
<1>3. worker.at \in {"send", "sent", "bounce", "throw"} => worker.row \in DOMAIN deliveries
  BY WorkerFields DEF DInv
<1>. QED  BY <1>1, <1>2, <1>3 DEF DInv, WorkerFits, RowsKept, JobsKept, ReaderOf

LEMMA DeliveryStep ==
    ASSUME DInv, [Next]_vars
    PROVE  WorkerFits' /\ OneDeliveryRow' /\ SentWasAccepted'
<1>. USE DEF DInv
<1>t. JobsKept /\ RowsKept  BY StepTypes
<1>1. ASSUME UNCHANGED deliveries, worker' = Idle \/ UNCHANGED worker
      PROVE  WorkerFits' /\ OneDeliveryRow' /\ SentWasAccepted'
  <2>1. OneDeliveryRow' /\ SentWasAccepted'  BY <1>t, <1>1, NothingSent
  <2>2. worker' = Idle => WorkerFits'  BY DEF WorkerFits, Idle
  <2>. QED  BY <1>t, <1>1, <2>1, <2>2, WorkerRests
<1>2. ASSUME NEW c \in Callers, sendArticleToSubscribers(c)
      PROVE  WorkerFits' /\ OneDeliveryRow' /\ SentWasAccepted'
  BY <1>1, <1>2 DEF sendArticleToSubscribers, ReadArticle, FindSubscribers, AddBulk,
        markArticleEmailSent, FanOutThrows
<1>3. ASSUME NEW h \in Hooks, handleResendWebhook(h)
      PROVE  WorkerFits' /\ OneDeliveryRow' /\ SentWasAccepted'
  <2>1. CASE UpdateDelivery(h)
    <3>1. /\ hook[h].row \in DOMAIN deliveries
          /\ hook[h].type \in DeliveryStatus /\ hook[h].type # "sent"
      BY <2>1, HookFields, EventsAssumption DEF UpdateDelivery, DeliveryStatus, Open
    <3>2. /\ DOMAIN deliveries' = DOMAIN deliveries
          /\ deliveries'[hook[h].row].status = hook[h].type
          /\ \A l \in DOMAIN deliveries : l # hook[h].row => deliveries'[l] = deliveries[l]
      <4>1. PICK k \in DOMAIN deliveries, s \in DeliveryStatus :
               k = hook[h].row /\ s = hook[h].type
        BY <3>1
      <4>2. deliveries' = [deliveries EXCEPT ![k].status = s]  BY <2>1, <4>1 DEF UpdateDelivery
      <4>. QED  BY <4>1, <4>2, StatusWritten
    <3>3. OneDeliveryRow' /\ SentWasAccepted'  BY <1>t, <3>1, <3>2, NothingSent
    <3>4. UNCHANGED worker  BY <2>1 DEF UpdateDelivery
    <3>. QED  BY <1>t, <3>2, <3>3, <3>4, WorkerRests
  <2>2. CASE ~ UpdateDelivery(h)
    BY <1>1, <1>3, <2>2 DEF handleResendWebhook, FindDelivery, CountBounces,
          cancelActiveSubscriptions, HookThrows
  <2>. QED  BY <2>1, <2>2
<1>4. ASSUME NEW j \in DOMAIN jobs, TakeJob(j)
      PROVE  WorkerFits' /\ OneDeliveryRow' /\ SentWasAccepted'
  <2>1. OneDeliveryRow' /\ SentWasAccepted'  BY <1>t, <1>4, NothingSent DEF TakeJob
  <2>2. jobs'[j].article = jobs[j].article  BY <1>t DEF JobsKept
  <2>3. UNCHANGED deliveries  BY <1>4 DEF TakeJob
  <2>4. CASE \E k \in Found(ArticleOf(j), ReaderOf(j)) :
               worker' = [at |-> "send", job |-> j, row |-> k]
    BY <2>1, <2>2, <2>3, <2>4 DEF WorkerFits, Found, ArticleOf, ReaderOf
  <2>5. CASE Found(ArticleOf(j), ReaderOf(j)) = {} /\ worker' = [at |-> "create", job |-> j]
    BY <2>1, <2>2, <2>3, <2>5 DEF WorkerFits, Found, ArticleOf, ReaderOf
  <2>. QED  BY <1>4, <2>1, <2>4, <2>5 DEF TakeJob
<1>5. CASE CreateDelivery
  <2>. DEFINE row == [article |-> ArticleOf(worker.job), user |-> ReaderOf(worker.job),
                      status |-> "queued"]
              n == Len(deliveries)
  <2>1. /\ deliveries' = Append(deliveries, row) /\ UNCHANGED jobs
        /\ worker' = [at |-> "send", job |-> worker.job, row |-> Len(deliveries')]
        /\ Found(row.article, row.user) = {}
    BY <1>5 DEF CreateDelivery, WorkerFits
  <2>2. row.article = ArticleOf(worker.job) /\ row.user = ReaderOf(worker.job)
        /\ row.status = "queued"
    OBVIOUS
  <2>. HIDE DEF row
  <2>3. /\ DOMAIN deliveries' = 1 .. n + 1 /\ DOMAIN deliveries = 1 .. n /\ n \in Nat
        /\ Len(deliveries') = n + 1 /\ deliveries'[n + 1] = row
        /\ \A k \in 1 .. n : deliveries'[k] = deliveries[k]
    BY <2>1, RowAdded DEF TypeOK
  <2>. HIDE DEF n
  <2>4. \A k \in 1 .. n : ~ (deliveries[k].article = row.article /\ deliveries[k].user = row.user)
    BY <2>1, <2>3 DEF Found
  <2>5. \A k \in 1 .. n + 1 : k \in 1 .. n \/ k = n + 1  BY <2>3
  <2>6. OneDeliveryRow'  BY <2>3, <2>4, <2>5 DEF OneDeliveryRow
  <2>7. SentWasAccepted'
    BY <2>1, <2>2, <2>3, <2>5 DEF SentWasAccepted, JobsFor, ArticleOf, ReaderOf
  <2>8. WorkerFits'  BY <2>1, <2>2, <2>3 DEF WorkerFits, ArticleOf, ReaderOf
  <2>. QED  BY <2>6, <2>7, <2>8
<1>6. CASE SendAccepted \/ SendError
  <2>1. worker.job \in DOMAIN jobs /\ UNCHANGED deliveries
        /\ worker.at = "send"
        /\ worker \in [at: {"send", "sent", "bounce", "throw"}, job: DOMAIN jobs,
                       row: DOMAIN deliveries]
    BY <1>6, WorkerFields DEF SendAccepted, SendError
  <2>2. /\ worker'.job = worker.job /\ worker'.row = worker.row
        /\ worker'.at \in {"sent", "bounce", "throw"}
        /\ worker'.at = "sent" => SendAccepted
    BY <1>6, <2>1 DEF SendAccepted, SendError, AfterError
  <2>3. SendAccepted => jobs'[worker.job].accepted
    <3>1. jobs[worker.job] \in Job  BY <2>1, JobFields
    <3>. QED  BY <2>1, <3>1 DEF SendAccepted, Job
  <2>4. OneDeliveryRow' /\ SentWasAccepted'  BY <1>t, <2>1, NothingSent
  <2>5. WorkerFits'
    BY <1>t, <2>1, <2>2, <2>3 DEF WorkerFits, JobsKept, ArticleOf, ReaderOf
  <2>. QED  BY <2>4, <2>5
<1>7. CASE MarkSent
  <2>1. /\ worker.row \in DOMAIN deliveries /\ worker.job \in DOMAIN jobs
        /\ deliveries[worker.row].article = ArticleOf(worker.job)
        /\ deliveries[worker.row].user = ReaderOf(worker.job)
        /\ jobs[worker.job].accepted
    BY <1>7, WorkerFields DEF MarkSent, WorkerFits
  <2>2. /\ DOMAIN deliveries' = DOMAIN deliveries
        /\ \A l \in DOMAIN deliveries : l # worker.row => deliveries'[l] = deliveries[l]
    BY <1>7, <2>1, StatusWritten DEF MarkSent, DeliveryStatus, Open
  <2>3. OneDeliveryRow'  BY <1>t, <2>2 DEF OneDeliveryRow, RowsKept
  <2>4. ASSUME NEW k \in DOMAIN deliveries, deliveries[k].status = "sent" \/ k = worker.row
        PROVE  \E j \in JobsFor(deliveries[k].article, deliveries[k].user) : jobs[j].accepted
    BY <2>1, <2>4 DEF SentWasAccepted, JobsFor
  <2>5. ASSUME NEW k \in DOMAIN deliveries, deliveries'[k].status = "sent"
        PROVE  \E j \in DOMAIN jobs' : /\ jobs'[j].article = deliveries'[k].article
                                       /\ Owner[j[2]] = deliveries'[k].user
                                       /\ jobs'[j].accepted
    <3>1. deliveries[k].status = "sent" \/ k = worker.row  BY <2>2, <2>5
    <3>2. PICK j \in JobsFor(deliveries[k].article, deliveries[k].user) : jobs[j].accepted
      BY <2>4, <3>1
    <3>3. j \in DOMAIN jobs /\ jobs[j].article = deliveries[k].article
          /\ Owner[j[2]] = deliveries[k].user
      BY <3>2 DEF JobsFor, ArticleOf, ReaderOf
    <3>. QED  BY <1>t, <3>2, <3>3 DEF RowsKept, JobsKept
  <2>6. SentWasAccepted'
    BY <2>2, <2>5 DEF SentWasAccepted, JobsFor, ArticleOf, ReaderOf
  <2>7. WorkerFits'  BY <1>7 DEF MarkSent, WorkerFits, Idle
  <2>. QED  BY <2>3, <2>6, <2>7
<1>8. CASE MarkBounced
  <2>1. worker \in [at: {"send", "sent", "bounce", "throw"}, job: DOMAIN jobs,
                    row: DOMAIN deliveries]
        /\ worker.row \in DOMAIN deliveries /\ worker.job \in DOMAIN jobs
    BY <1>8, WorkerFields DEF MarkBounced
  <2>2. /\ DOMAIN deliveries' = DOMAIN deliveries
        /\ deliveries'[worker.row].status = "bounced"
        /\ \A l \in DOMAIN deliveries : l # worker.row => deliveries'[l] = deliveries[l]
    BY <1>8, <2>1, StatusWritten DEF MarkBounced, DeliveryStatus, Open
  <2>3. OneDeliveryRow' /\ SentWasAccepted'  BY <1>t, <2>2, NothingSent
  <2>4. worker'.at = "throw" /\ worker'.job = worker.job /\ worker'.row = worker.row
    BY <1>8, <2>1 DEF MarkBounced
  <2>5. WorkerFits'
    BY <1>t, <1>8, <2>1, <2>4 DEF MarkBounced, WorkerFits, RowsKept, ArticleOf, ReaderOf
  <2>. QED  BY <2>3, <2>5
<1>9. CASE JobThrows \/ Crash \/ UNCHANGED vars
  BY <1>1, <1>9 DEF JobThrows, Crash, vars
<1>10. ASSUME NEW r \in Rows, NEW s \in Live \cup {"none"}, SubscriptionChanges(r, s)
      PROVE  WorkerFits' /\ OneDeliveryRow' /\ SentWasAccepted'
  BY <1>1, <1>10, ChangeTypes
<1>. QED
  BY <1>2, <1>3, <1>4, <1>5, <1>6, <1>7, <1>8, <1>9, <1>10 DEF Next, handleSendEmail

LEMMA DeliveryInductive == (Init => DInv) /\ (DInv /\ [Next]_vars => DInv')
<1>1. Init => WorkerFits /\ OneDeliveryRow /\ SentWasAccepted
  BY DEF Init, WorkerFits, OneDeliveryRow, SentWasAccepted, Idle
<1>. QED  BY <1>1, InitTypes, StepTypes, DeliveryStep DEF DInv

(* However often a job is repeated, an article and a reader have one row.  *)
THEOREM NoSecondRow == Spec => []OneDeliveryRow
  BY DeliveryInductive, PTL DEF Spec, DInv

(* A row shown as sent belongs to an e-mail that Resend took.              *)
THEOREM SentLeft == Spec => []SentWasAccepted
  BY DeliveryInductive, PTL DEF Spec, DInv

-----------------------------------------------------------------------------
(* Nobody is forgotten.  Jobs carry the number of their batch, so a new    *)
(* batch overwrites none; and from the look-up on, a fan-out knows every   *)
(* subscription that is active, unless it became so after the look-up.     *)
JobsNumbered == \A j \in DOMAIN jobs : j[1] <= batches

HasJob(a, r) == \E j \in DOMAIN jobs : j[2] = r /\ ArticleOf(j) = a

FanOutKnowsAll ==
    \A c \in Callers, r \in Rows : status[r] = "active" /\ <<fanOut[c].article, r>> \notin late =>
        /\ fanOut[c].at = "queue" => r \in fanOut[c].rows
        /\ fanOut[c].at = "mark" => HasJob(fanOut[c].article, r)

FInv == TypeOK /\ JobsNumbered /\ FanOutKnowsAll /\ NobodyForgotten

LEMMA HasJobKept ==
    ASSUME JobsKept, NEW a, NEW r, HasJob(a, r)
    PROVE  HasJob(a, r)'
  BY DEF JobsKept, HasJob, ArticleOf

\* Who reads is not changed but by complaints, bounces and from elsewhere.
LEMMA ReadersRest ==
    ASSUME TypeOK, [Next]_vars, \A h \in Hooks : ~ cancelActiveSubscriptions(h),
           \A r \in Rows, s \in Live \cup {"none"} : ~ SubscriptionChanges(r, s)
    PROVE  UNCHANGED readerVars
<1>1. ASSUME NEW c \in Callers, sendArticleToSubscribers(c)
      PROVE  UNCHANGED readerVars
  BY <1>1 DEF sendArticleToSubscribers, ReadArticle, FindSubscribers, AddBulk,
        markArticleEmailSent, FanOutThrows, hookVars
<1>2. CASE handleSendEmail
  BY <1>2 DEF handleSendEmail, TakeJob, CreateDelivery, SendAccepted, SendError, MarkSent,
        MarkBounced, JobThrows, hookVars
<1>3. ASSUME NEW h \in Hooks, handleResendWebhook(h)
      PROVE  UNCHANGED readerVars
  BY <1>3 DEF handleResendWebhook, FindDelivery, UpdateDelivery, CountBounces, HookThrows
<1>4. CASE Crash \/ UNCHANGED vars  BY <1>4 DEF Crash, vars, hookVars
<1>. QED  BY <1>1, <1>2, <1>3, <1>4 DEF Next

LEMMA LateStays ==
    ASSUME TypeOK, [Next]_vars
    PROVE  late \subseteq late'
<1>1. ASSUME NEW h \in Hooks, cancelActiveSubscriptions(h)
      PROVE  UNCHANGED late
  BY <1>1 DEF cancelActiveSubscriptions
<1>2. ASSUME NEW r \in Rows, NEW s \in Live \cup {"none"}, SubscriptionChanges(r, s)
      PROVE  late \subseteq late'
  BY <1>2 DEF SubscriptionChanges
<1>. QED  BY <1>1, <1>2, ReadersRest DEF readerVars

\* Otherwise than by changes from elsewhere nobody becomes active.
LEMMA StatusOnlyFalls ==
    ASSUME TypeOK, [Next]_vars, NEW r \in Rows, status'[r] = "active",
           \A q \in Rows, s \in Live \cup {"none"} : ~ SubscriptionChanges(q, s)
    PROVE  status[r] = "active"
<1>1. ASSUME NEW h \in Hooks, cancelActiveSubscriptions(h)
      PROVE  status[r] = "active"
  BY <1>1 DEF cancelActiveSubscriptions
<1>2. CASE \A h \in Hooks : ~ cancelActiveSubscriptions(h)
  BY <1>2, ReadersRest DEF readerVars
<1>. QED  BY <1>1, <1>2

\* The worker, the webhook handlers and a crash leave what the fan-outs did.
LEMMA FanOutRests ==
    ASSUME FInv, JobsKept, DOMAIN jobs' = DOMAIN jobs, UNCHANGED <<batches, emailSent>>,
           \A c \in Callers : fanOut'[c] = Idle \/ UNCHANGED fanOut[c],
           late \subseteq late',
           \A r \in Rows : status'[r] = "active" => status[r] = "active"
    PROVE  JobsNumbered' /\ FanOutKnowsAll' /\ NobodyForgotten'
<1>. USE DEF FInv
<1>1. JobsNumbered'  BY DEF JobsNumbered
<1>2. FanOutKnowsAll'  BY HasJobKept DEF FanOutKnowsAll, HasJob, Idle, JobsKept, ArticleOf
<1>3. NobodyForgotten'
  BY DEF NobodyForgotten, JobsKept, ArticleOf
<1>. QED  BY <1>1, <1>2, <1>3

LEMMA FanOutStep ==
    ASSUME FInv, NEW c \in Callers, sendArticleToSubscribers(c)
    PROVE  JobsNumbered' /\ FanOutKnowsAll' /\ NobodyForgotten'
<1>. USE DEF FInv
<1>t. UNCHANGED <<status, late>>
  BY DEF sendArticleToSubscribers, ReadArticle, FindSubscribers, AddBulk, markArticleEmailSent,
        FanOutThrows, hookVars, readerVars, books
<1>k. JobsKept  BY FanOutTypes
<1>1. ASSUME NEW next, fanOut' = [fanOut EXCEPT ![c] = next],
             UNCHANGED <<batches, jobs, emailSent>>,
             next.at = "queue" => Recipients \subseteq next.rows,
             next.at = "mark" => \A r \in Recipients : HasJob(next.article, r)
      PROVE  JobsNumbered' /\ FanOutKnowsAll' /\ NobodyForgotten'
  <2>1. fanOut'[c] = next /\ \A d \in Callers : d # c => UNCHANGED fanOut[d]
    BY <1>1 DEF TypeOK
  <2>2. FanOutKnowsAll'
    BY <1>t, <1>1, <2>1 DEF FanOutKnowsAll, HasJob, ArticleOf, Recipients
  <2>. QED  BY <1>t, <1>1, <2>2 DEF JobsNumbered, NobodyForgotten, ArticleOf
<1>2. CASE (\E a \in Articles : ReadArticle(c, a)) \/ FanOutThrows(c)
  BY <1>1, <1>2 DEF ReadArticle, FanOutThrows, Idle
<1>3. CASE FindSubscribers(c)
  BY <1>1, <1>3 DEF FindSubscribers
<1>4. CASE AddBulk(c)
  <2>a. PICK b \in Nat : b = batches + 1  BY DEF TypeOK
  <2>b. PICK a : a = fanOut[c].article  OBVIOUS
  <2>c. PICK rows \in SUBSET Rows : rows = fanOut[c].rows
    BY <1>4, FanOutFields DEF AddBulk
  <2>. DEFINE new == {b} \X rows
  <2>1. /\ fanOut[c].at = "queue" /\ batches' = b /\ batches \in Nat
        /\ DOMAIN jobs' = DOMAIN jobs \cup new
        /\ \A j \in DOMAIN jobs \cup new :
              jobs'[j] = IF j \in DOMAIN jobs THEN jobs[j] ELSE NewJob(a)
        /\ DOMAIN jobs \subseteq JobIds /\ UNCHANGED emailSent
    BY <1>4, <2>a, <2>b, <2>c DEF AddBulk, TypeOK
  <2>2. \A j \in new : j[1] = b /\ j \notin DOMAIN jobs
    <3>1. \A j \in DOMAIN jobs : j[1] # b  BY <2>a, <2>b, <2>c, <2>1 DEF JobsNumbered, JobIds
    <3>. QED  BY <3>1
  <2>3. JobsNumbered'
    <3>1. \A j \in DOMAIN jobs : j[1] \in Nat /\ j[1] <= batches  BY <2>1 DEF JobsNumbered, JobIds
    <3>2. \A j \in DOMAIN jobs' : j[1] <= b  BY <2>a, <2>b, <2>c, <2>1, <2>2, <3>1
    <3>. QED  BY <2>1, <3>2 DEF JobsNumbered
  <2>4. ASSUME NEW r \in rows
        PROVE  HasJob(a, r)'
    <3>1. <<b, r>> \in new  OBVIOUS
    <3>2. <<b, r>> \in DOMAIN jobs'  BY <2>1, <3>1
    <3>3. jobs'[<<b, r>>] = NewJob(a)  BY <2>1, <2>2, <3>1
    <3>4. jobs'[<<b, r>>].article = a  BY <3>3 DEF NewJob
    <3>5. (<<b, r>>)[2] = r  OBVIOUS
    <3>. QED  BY <3>2, <3>4, <3>5 DEF HasJob, ArticleOf
  <2>5. /\ fanOut'[c] = [at |-> "mark", article |-> a]
        /\ \A d \in Callers : d # c => UNCHANGED fanOut[d]
    BY <1>4, <2>a, <2>b, <2>c DEF AddBulk, TypeOK
  <2>6. FanOutKnowsAll'
    <3>1. ASSUME NEW r \in Rows, status[r] = "active", <<a, r>> \notin late
          PROVE  HasJob(a, r)'
      BY <2>a, <2>b, <2>c, <2>1, <2>4, <3>1 DEF FanOutKnowsAll
    <3>2. ASSUME NEW d \in Callers, d # c, NEW r \in Rows, status[r] = "active",
                 fanOut[d].at = "mark", NEW x, x = fanOut[d].article, <<x, r>> \notin late
          PROVE  HasJob(x, r)'
      BY <1>k, <3>2, HasJobKept DEF FanOutKnowsAll
    <3>3. ASSUME NEW d \in Callers, d # c, NEW r \in Rows, status[r] = "active",
                 fanOut[d].at = "queue", <<fanOut[d].article, r>> \notin late
          PROVE  r \in fanOut[d].rows
      BY <3>3 DEF FanOutKnowsAll
    <3>. QED  BY <1>t, <2>5, <3>1, <3>2, <3>3 DEF FanOutKnowsAll, HasJob, ArticleOf
  <2>7. NobodyForgotten'
    BY <1>t, <1>k, <2>1 DEF NobodyForgotten, JobsKept, ArticleOf
  <2>. QED  BY <2>3, <2>6, <2>7
<1>5. CASE markArticleEmailSent(c)
  <2>1. /\ emailSent' = emailSent \cup {fanOut[c].article} /\ fanOut[c].at = "mark"
        /\ UNCHANGED <<batches, jobs>>
    BY <1>5 DEF markArticleEmailSent
  <2>2. fanOut'[c] = Idle /\ \A d \in Callers : d # c => UNCHANGED fanOut[d]
    BY <1>5 DEF markArticleEmailSent, TypeOK
  <2>3. FanOutKnowsAll'
    BY <1>t, <2>1, <2>2 DEF FanOutKnowsAll, HasJob, ArticleOf, Idle
  <2>4. NobodyForgotten'
    BY <1>t, <2>1 DEF FanOutKnowsAll, NobodyForgotten, HasJob, ArticleOf
  <2>. QED  BY <2>1, <2>3, <2>4 DEF JobsNumbered
<1>. QED  BY <1>2, <1>3, <1>4, <1>5 DEF sendArticleToSubscribers

\* Who becomes active too late for an article is known to be late for it.
LEMMA ChangeKnown ==
    ASSUME FInv, NEW r \in Rows, NEW s \in Live \cup {"none"}, SubscriptionChanges(r, s)
    PROVE  JobsNumbered' /\ FanOutKnowsAll' /\ NobodyForgotten'
<1>. USE DEF FInv
<1>1. UNCHANGED <<emailSent, batches, fanOut, jobs>> /\ late \subseteq late'
  BY ChangeTypes DEF mailVars, SubscriptionChanges
<1>2. \A q \in Rows : q # r => status'[q] = status[q]
  BY DEF SubscriptionChanges, TypeOK
<1>3. status'[r] = "active" => \A a \in LookedUp : <<a, r>> \in late'
  BY DEF SubscriptionChanges, TypeOK
<1>4. JobsNumbered'  BY <1>1 DEF JobsNumbered
<1>5. FanOutKnowsAll'
  BY <1>1, <1>2, <1>3 DEF FanOutKnowsAll, HasJob, ArticleOf, LookedUp
<1>6. NobodyForgotten'
  BY <1>1, <1>2, <1>3 DEF NobodyForgotten, ArticleOf, LookedUp
<1>. QED  BY <1>4, <1>5, <1>6

LEMMA ForgottenStep ==
    ASSUME FInv, [Next]_vars
    PROVE  JobsNumbered' /\ FanOutKnowsAll' /\ NobodyForgotten'
<1>1. JobsKept /\ late \subseteq late'
  BY StepTypes, LateStays DEF FInv
<1>2. CASE \E r \in Rows, s \in Live \cup {"none"} : SubscriptionChanges(r, s)
  BY <1>2, ChangeKnown
<1>3. ASSUME \A r \in Rows, s \in Live \cup {"none"} : ~ SubscriptionChanges(r, s)
      PROVE  JobsNumbered' /\ FanOutKnowsAll' /\ NobodyForgotten'
  <2>a. \A r \in Rows : status'[r] = "active" => status[r] = "active"
    BY <1>3, StatusOnlyFalls DEF FInv
  <2>1. CASE handleSendEmail
    <3>1. DOMAIN jobs' = DOMAIN jobs
      BY <2>1 DEF handleSendEmail, TakeJob, CreateDelivery, SendAccepted, SendError, MarkSent,
            MarkBounced, JobThrows, FInv, TypeOK
    <3>2. UNCHANGED <<batches, emailSent, fanOut>>
      BY <2>1 DEF handleSendEmail, TakeJob, CreateDelivery, SendAccepted, SendError, MarkSent,
            MarkBounced, JobThrows, mailVars
    <3>. QED  BY <1>1, <2>a, <3>1, <3>2, FanOutRests
  <2>2. ASSUME NEW h \in Hooks, handleResendWebhook(h)
        PROVE  JobsNumbered' /\ FanOutKnowsAll' /\ NobodyForgotten'
    <3>1. UNCHANGED <<batches, emailSent, fanOut, jobs>>
      BY <2>2, HookTypes DEF FInv, mailVars
    <3>. QED  BY <1>1, <2>a, <3>1, FanOutRests
  <2>3. CASE Crash
    <3>1. /\ DOMAIN jobs' = DOMAIN jobs /\ UNCHANGED <<batches, emailSent>>
          /\ \A c \in Callers : fanOut'[c] = Idle
      BY <2>3 DEF Crash
    <3>. QED  BY <1>1, <2>a, <3>1, FanOutRests
  <2>4. CASE UNCHANGED vars
    BY <1>1, <2>a, <2>4, FanOutRests DEF vars, mailVars
  <2>. QED  BY <1>3, <2>1, <2>2, <2>3, <2>4, FanOutStep DEF Next
<1>. QED  BY <1>2, <1>3

(* Once an article is marked as sent, no active subscription lacks its     *)
(* job but those that became active after the look-up, whichever fan-out   *)
(* failed or crashed and whoever subscribed or left in between.            *)
THEOREM EverybodyQueued == Spec => []NobodyForgotten
<1>1. Init => FInv
  BY InitTypes DEF Init, FInv, JobsNumbered, FanOutKnowsAll, NobodyForgotten, Idle
<1>2. FInv /\ [Next]_vars => FInv'
  BY StepTypes, ForgottenStep DEF FInv
<1>. QED  BY <1>1, <1>2, PTL DEF Spec, FInv

-----------------------------------------------------------------------------
(* Mailing an article, as ArticleMailing promises it.  The worker only ever *)
(* holds an active job, so a failed one is never sent after all.            *)
WorkerHoldsActive == worker # Idle => jobs[worker.job].state = "active"

MInv == TypeOK /\ WorkerHoldsActive

\* What a step may do to the jobs of the queue.
JobsMove ==
    /\ JobsKept
    /\ \A j \in DOMAIN jobs :
          jobs[j].state = "failed" => jobs'[j].accepted = jobs[j].accepted
    /\ \A j \in DOMAIN jobs' :
          j \notin DOMAIN jobs => ~ jobs'[j].accepted /\ jobs'[j].state = "waiting"

\* The worker's job, and no other, is rewritten; the e-mail is not sent.
LEMMA OneJobMoves ==
    ASSUME TypeOK, NEW j \in DOMAIN jobs, JobsKept, DOMAIN jobs' = DOMAIN jobs,
           jobs'[j].accepted = jobs[j].accepted,
           \A i \in DOMAIN jobs : i # j => jobs'[i] = jobs[i]
    PROVE  JobsMove
  BY DEF JobsMove

LEMMA MoveStep ==
    ASSUME MInv, [Next]_vars
    PROVE  JobsMove /\ WorkerHoldsActive'
<1>. USE DEF MInv
<1>t. JobsKept  BY StepTypes
<1>w. worker # Idle => worker.at \in {"create", "send", "sent", "bounce", "throw"}
                       /\ worker.job \in DOMAIN jobs
  BY DEF TypeOK, Worker
<1>s. UNCHANGED jobs => JobsMove  BY <1>t DEF JobsMove
<1>1. ASSUME UNCHANGED <<jobs, worker>>
      PROVE  JobsMove /\ WorkerHoldsActive'
  BY <1>s, <1>1 DEF WorkerHoldsActive
<1>2. ASSUME NEW c \in Callers, sendArticleToSubscribers(c)
      PROVE  JobsMove /\ WorkerHoldsActive'
  <2>1. CASE AddBulk(c)
    <3>1. PICK new : new = {batches'} \X fanOut[c].rows  OBVIOUS
    <3>2. PICK job : job = NewJob(fanOut[c].article)  OBVIOUS
    <3>3. /\ jobs' = [j \in DOMAIN jobs \cup new |-> IF j \in DOMAIN jobs THEN jobs[j] ELSE job]
          /\ UNCHANGED worker
      BY <2>1, <3>1, <3>2 DEF AddBulk
    <3>4. ~ job.accepted /\ job.state = "waiting"  BY <3>2 DEF NewJob
    <3>5. \A j \in DOMAIN jobs : j \in DOMAIN jobs' /\ jobs'[j] = jobs[j]  BY <3>3
    <3>6. JobsMove  BY <1>t, <3>3, <3>4, <3>5 DEF JobsMove
    <3>7. WorkerHoldsActive'  BY <1>w, <3>3, <3>5 DEF WorkerHoldsActive
    <3>. QED  BY <3>6, <3>7
  <2>2. CASE ~ AddBulk(c)
    BY <1>1, <1>2, <2>2 DEF sendArticleToSubscribers, ReadArticle, FindSubscribers,
          markArticleEmailSent, FanOutThrows
  <2>. QED  BY <2>1, <2>2
<1>3. ASSUME NEW h \in Hooks, handleResendWebhook(h)
      PROVE  JobsMove /\ WorkerHoldsActive'
  BY <1>1, <1>3, HookTypes
<1>4. ASSUME NEW j \in DOMAIN jobs, TakeJob(j)
      PROVE  JobsMove /\ WorkerHoldsActive'
  <2>. DEFINE job == [jobs[j] EXCEPT !.state = "active"]
  <2>1. /\ job.article = jobs[j].article /\ job.accepted = jobs[j].accepted
        /\ job.state = "active"
    BY JobFields DEF Job
  <2>2. jobs' = [jobs EXCEPT ![j] = job]  BY <1>4 DEF TakeJob
  <2>. HIDE DEF job
  <2>3. JobsMove  BY <1>t, <2>1, <2>2, OneJobMoves
  <2>4. worker'.job = j  BY <1>4 DEF TakeJob
  <2>5. jobs'[j].state = "active"  BY <2>1, <2>2
  <2>. QED  BY <2>3, <2>4, <2>5 DEF WorkerHoldsActive
<1>5. CASE CreateDelivery
  <2>1. UNCHANGED jobs /\ worker'.job = worker.job /\ worker # Idle
    BY <1>5 DEF CreateDelivery, Idle
  <2>. QED  BY <1>s, <2>1 DEF WorkerHoldsActive
<1>6. CASE SendAccepted \/ SendError
  <2>1. worker.job \in DOMAIN jobs /\ worker # Idle /\ jobs[worker.job].state = "active"
    BY <1>6, <1>w DEF SendAccepted, SendError, WorkerHoldsActive, Idle
  <2>2. PICK taken \in BOOLEAN :
           jobs' = [jobs EXCEPT ![worker.job].accepted = @ \/ taken]
    <3>1. jobs[worker.job].accepted \in BOOLEAN  BY <2>1, JobFields DEF Job
    <3>2. CASE SendAccepted
      <4>1. jobs' = [jobs EXCEPT ![worker.job].accepted = @ \/ TRUE]
        BY <3>1, <3>2 DEF SendAccepted
      <4>. QED  BY <4>1
    <3>3. CASE SendError  BY <3>3 DEF SendError
    <3>. QED  BY <1>6, <3>2, <3>3
  <2>. DEFINE job == [jobs[worker.job] EXCEPT !.accepted = @ \/ taken]
  <2>3. job.article = jobs[worker.job].article /\ job.state = jobs[worker.job].state
        /\ job.accepted \in {jobs[worker.job].accepted, TRUE}
    BY <2>1, JobFields DEF Job
  <2>4. jobs' = [jobs EXCEPT ![worker.job] = job]  BY <2>1, <2>2 DEF TypeOK
  <2>. HIDE DEF job
  <2>5. JobsMove
    BY <1>t, <2>1, <2>3, <2>4 DEF JobsMove
  <2>6. jobs'[worker.job].state = "active"  BY <2>1, <2>3, <2>4
  <2>7. worker'.job = worker.job
    BY <1>6, <2>1, WorkerFields DEF SendAccepted, SendError
  <2>. QED  BY <2>5, <2>6, <2>7 DEF WorkerHoldsActive
<1>7. CASE MarkSent \/ JobThrows
  <2>1. worker.job \in DOMAIN jobs /\ worker' = Idle
    BY <1>7, WorkerFields DEF MarkSent, JobThrows
  <2>2. jobs[worker.job] \in Job  BY <2>1, JobFields
  <2>3. CASE MarkSent
    <3>. DEFINE job == [jobs[worker.job] EXCEPT !.state = "done"]
    <3>1. jobs' = [jobs EXCEPT ![worker.job] = job]  BY <2>3 DEF MarkSent
    <3>2. job.accepted = jobs[worker.job].accepted  BY <2>2 DEF Job
    <3>. HIDE DEF job
    <3>3. JobsMove  BY <1>t, <2>1, <3>1, <3>2, OneJobMoves
    <3>. QED  BY <2>1, <3>3 DEF WorkerHoldsActive
  <2>4. CASE JobThrows
    <3>. DEFINE job == Thrown(worker.job)
                more == jobs[worker.job].attempts + 1
                after == IF LastAttempt(worker.job) THEN "failed" ELSE "waiting"
    <3>1. jobs' = [jobs EXCEPT ![worker.job] = job]  BY <2>4 DEF JobThrows
    <3>2. job = [jobs[worker.job] EXCEPT !.attempts = more, !.state = after]  BY DEF Thrown
    <3>. HIDE DEF job, more, after
    <3>3. job.accepted = jobs[worker.job].accepted  BY <2>2, <3>2 DEF Job
    <3>4. JobsMove  BY <1>t, <2>1, <3>1, <3>3, OneJobMoves
    <3>. QED  BY <2>1, <3>4 DEF WorkerHoldsActive
  <2>. QED  BY <1>7, <2>3, <2>4
<1>8. CASE MarkBounced
  <2>1. UNCHANGED jobs /\ worker # Idle /\ worker'.job = worker.job
    BY <1>8, WorkerFields DEF MarkBounced, Idle
  <2>. QED  BY <1>s, <2>1 DEF WorkerHoldsActive
<1>9. CASE Crash
  <2>1. ASSUME NEW j \in DOMAIN jobs
        PROVE  jobs'[j].accepted = jobs[j].accepted
    <3>1. jobs[j] \in Job  BY JobFields
    <3>2. jobs'[j] \in {jobs[j], Stalled(jobs[j])}  BY <1>9 DEF Crash
    <3>3. CASE jobs[j].stalls < MaxStalls
      <4>. DEFINE more == jobs[j].stalls + 1
      <4>1. Stalled(jobs[j]) = [jobs[j] EXCEPT !.state = "waiting", !.stalls = more]
        BY <3>3 DEF Stalled
      <4>. HIDE DEF more
      <4>2. Stalled(jobs[j]).accepted = jobs[j].accepted  BY <3>1, <4>1 DEF Job
      <4>. QED  BY <3>2, <4>2
    <3>4. CASE ~ (jobs[j].stalls < MaxStalls)
      BY <3>1, <3>2, <3>4 DEF Stalled, Job
    <3>. QED  BY <3>3, <3>4
  <2>2. DOMAIN jobs' = DOMAIN jobs /\ worker' = Idle  BY <1>9 DEF Crash
  <2>. QED  BY <1>t, <2>1, <2>2 DEF JobsMove, WorkerHoldsActive
<1>10. CASE UNCHANGED vars
  BY <1>1, <1>10 DEF vars
<1>11. ASSUME NEW r \in Rows, NEW s \in Live \cup {"none"}, SubscriptionChanges(r, s)
      PROVE  JobsMove /\ WorkerHoldsActive'
  BY <1>1, <1>11, ChangeTypes
<1>. QED
  BY <1>2, <1>3, <1>4, <1>5, <1>6, <1>7, <1>8, <1>9, <1>10, <1>11 DEF Next, handleSendEmail

\* The state of a mail, by cases.
LEMMA MailCases ==
    ASSUME NEW m
    PROVE  LET sentTo == JobsFor(m[1], m[2])
           IN  /\ sentTo = {} <=> MailOf(m) = "none"
               /\ (\E j \in sentTo : jobs[j].accepted) <=> MailOf(m) = "sent"
               /\ MailOf(m) = "given_up" <=>
                     /\ sentTo # {}
                     /\ \A j \in sentTo : ~ jobs[j].accepted /\ jobs[j].state = "failed"
               /\ MailOf(m) \in {"none", "sent", "given_up", "due"}
  BY DEF MailOf

LEMMA MailCasesNext ==
    ASSUME NEW m
    PROVE  LET sentTo == JobsFor(m[1], m[2])'
           IN  /\ sentTo = {} <=> MailOf(m)' = "none"
               /\ (\E j \in sentTo : jobs'[j].accepted) <=> MailOf(m)' = "sent"
               /\ MailOf(m)' = "given_up" <=>
                     /\ sentTo # {}
                     /\ \A j \in sentTo : ~ jobs'[j].accepted /\ jobs'[j].state = "failed"
               /\ MailOf(m)' \in {"none", "sent", "given_up", "due"}
  BY DEF MailOf

(* An e-mail that is not announced is not sent or given up; one that left  *)
(* has left for good; one that was given up can only be announced again.   *)
LEMMA MailMove ==
    ASSUME JobsMove, NEW m
    PROVE  \/ MailOf(m)' = MailOf(m)
           \/ MailOf(m) \in {"none", "given_up"} /\ MailOf(m)' = "due"
           \/ MailOf(m) = "due" /\ MailOf(m)' \in {"sent", "given_up"}
<1>. DEFINE old == JobsFor(m[1], m[2])
            new == JobsFor(m[1], m[2])'
<1>1. /\ old \subseteq DOMAIN jobs /\ new \subseteq DOMAIN jobs'
      /\ \A j \in old : j \in new /\ (jobs[j].accepted => jobs'[j].accepted)
      /\ \A j \in new : \/ j \in old
                        \/ j \notin DOMAIN jobs /\ ~ jobs'[j].accepted /\ jobs'[j].state = "waiting"
      /\ \A j \in old : jobs[j].state = "failed" => jobs'[j].accepted = jobs[j].accepted
  BY DEF JobsMove, JobsKept, JobsFor, ArticleOf, ReaderOf
<1>2. /\ old = {} <=> MailOf(m) = "none"
      /\ (\E j \in old : jobs[j].accepted) <=> MailOf(m) = "sent"
      /\ MailOf(m) = "given_up" <=>
            old # {} /\ \A j \in old : ~ jobs[j].accepted /\ jobs[j].state = "failed"
      /\ MailOf(m) \in {"none", "sent", "given_up", "due"}
  BY MailCases
<1>3. /\ new = {} <=> MailOf(m)' = "none"
      /\ (\E j \in new : jobs'[j].accepted) <=> MailOf(m)' = "sent"
      /\ MailOf(m)' = "given_up" <=>
            new # {} /\ \A j \in new : ~ jobs'[j].accepted /\ jobs'[j].state = "failed"
      /\ MailOf(m)' \in {"none", "sent", "given_up", "due"}
  BY MailCasesNext
<1>. HIDE DEF old, new
<1>4. CASE MailOf(m) = "none"
  BY <1>1, <1>2, <1>3, <1>4
<1>5. CASE MailOf(m) = "sent"
  BY <1>1, <1>2, <1>3, <1>5
<1>6. CASE MailOf(m) = "given_up"
  BY <1>1, <1>2, <1>3, <1>6
<1>7. CASE MailOf(m) = "due"
  BY <1>1, <1>2, <1>3, <1>7
<1>. QED  BY <1>2, <1>4, <1>5, <1>6, <1>7

\* Whom an article went to, as Mailing sees it.
MailMap == [m \in Articles \X Users |-> MailOf(m)]

(* The queue and the worker take no step that ArticleMailing does not      *)
(* allow: no e-mail that left is due again, and none that was given up     *)
(* leaves without being announced anew.                                    *)
THEOREM MailingSteps == Spec => Mailing!Init /\ [][Mailing!Next]_MailMap
<1>1. Init => MInv /\ Mailing!Init
  <2>. SUFFICES ASSUME Init PROVE MInv /\ Mailing!Init
    OBVIOUS
  <2>1. MInv  BY InitTypes DEF MInv, WorkerHoldsActive, Init
  <2>2. \A m \in Articles \X Users : JobsFor(m[1], m[2]) = {}  BY DEF Init, JobsFor
  <2>3. \A m \in Articles \X Users : MailOf(m) = "none"  BY <2>2, MailCases
  <2>. QED  BY <2>1, <2>3 DEF Mailing!Init, Mailing!Mails
<1>2. MInv /\ [Next]_vars => MInv' /\ [Mailing!Next]_MailMap
  <2>. SUFFICES ASSUME MInv, [Next]_vars PROVE MInv' /\ Mailing!Next
    OBVIOUS
  <2>1. MInv' /\ JobsMove  BY MoveStep, StepTypes DEF MInv
  <2>2. Mailing!Next
    BY <2>1, MailMove
    DEF Mailing!Next, Mailing!Mails, Mailing!Announced, Mailing!Left, Mailing!GivenUp
  <2>. QED  BY <2>1, <2>2
<1>. QED  BY <1>1, <1>2, PTL DEF Spec

-----------------------------------------------------------------------------
(* Readers are unsubscribed for what was booked on their own deliveries.   *)
(* What was booked stays booked, whatever a delivery shows later, and a    *)
(* webhook handler cancels for the reader of the row that it wrote.        *)
Bounced(u) == Cardinality(OfReader(bounced, u))

Booked ==
    \A k \in DOMAIN deliveries : deliveries[k].status = "bounced" => k \in bounced

Cause(u) == OfReader(complained, u) # {} \/ Bounced(u) >= BounceLimit

HookJustified(h) ==
    /\ hook[h].at = "count" => hook[h].type = "bounced"
    /\ hook[h].at = "cancel" => Cause(deliveries[hook[h].row].user)

UInv ==
    /\ TypeOK /\ Booked
    /\ \A h \in Hooks : HookJustified(h)
    /\ UnsubscribeJustified

LEMMA FiniteBooks ==
    ASSUME TypeOK, NEW u
    PROVE  IsFiniteSet(OfReader(bounced, u)) /\ Bounced(u) \in Nat
<1>1. IsFiniteSet(DOMAIN deliveries)  BY Rowed, FS_Interval
<1>2. OfReader(bounced, u) \subseteq DOMAIN deliveries  BY DEF OfReader, TypeOK
<1>. QED  BY <1>1, <1>2, FS_Subset, FS_CardinalityType DEF Bounced

LEMMA BooksStep ==
    ASSUME TypeOK, Booked, [Next]_vars
    PROVE  Booked' /\ bounced \subseteq bounced' /\ complained \subseteq complained'
<1>1. ASSUME UNCHANGED <<deliveries, books>>
      PROVE  Booked' /\ bounced \subseteq bounced' /\ complained \subseteq complained'
  BY <1>1 DEF Booked, books
<1>2. ASSUME NEW c \in Callers, sendArticleToSubscribers(c)
      PROVE  UNCHANGED <<deliveries, books>>
  BY <1>2 DEF sendArticleToSubscribers, ReadArticle, FindSubscribers, AddBulk,
        markArticleEmailSent, FanOutThrows, hookVars
<1>3. (\E j \in DOMAIN jobs : TakeJob(j)) \/ SendAccepted \/ SendError \/ JobThrows
        => UNCHANGED <<deliveries, books>>
  BY DEF TakeJob, SendAccepted, SendError, JobThrows, hookVars
<1>4. CASE CreateDelivery
  <2>. DEFINE row == [article |-> ArticleOf(worker.job), user |-> ReaderOf(worker.job),
                      status |-> "queued"]
              n == Len(deliveries)
  <2>1. deliveries' = Append(deliveries, row) /\ row.status = "queued" /\ UNCHANGED books
    BY <1>4 DEF CreateDelivery, hookVars
  <2>. HIDE DEF row
  <2>2. /\ DOMAIN deliveries' = 1 .. n + 1 /\ DOMAIN deliveries = 1 .. n /\ n \in Nat
        /\ deliveries'[n + 1] = row
        /\ \A k \in 1 .. n : deliveries'[k] = deliveries[k]
    BY <2>1, RowAdded DEF TypeOK
  <2>. HIDE DEF n
  <2>3. \A k \in 1 .. n + 1 : k \in 1 .. n \/ k = n + 1  BY <2>2
  <2>. QED  BY <2>1, <2>2, <2>3 DEF Booked, books
<1>5. ASSUME NEW k \in DOMAIN deliveries, NEW s \in DeliveryStatus,
             deliveries' = [deliveries EXCEPT ![k].status = s],
             bounced \subseteq bounced', s = "bounced" => k \in bounced'
      PROVE  Booked'
  BY <1>5, StatusWritten DEF Booked
<1>6. CASE MarkSent
  <2>1. worker.row \in DOMAIN deliveries /\ UNCHANGED books
    BY <1>6, WorkerFields DEF MarkSent, hookVars
  <2>. QED  BY <1>5, <1>6, <2>1 DEF MarkSent, DeliveryStatus, Open, books
<1>7. CASE MarkBounced
  <2>1. worker.row \in DOMAIN deliveries  BY <1>7, WorkerFields DEF MarkBounced
  <2>. QED  BY <1>5, <1>7, <2>1 DEF MarkBounced, DeliveryStatus
<1>8. ASSUME NEW h \in Hooks, UpdateDelivery(h)
      PROVE  Booked' /\ bounced \subseteq bounced' /\ complained \subseteq complained'
  <2>1. PICK k \in DOMAIN deliveries : k = hook[h].row
    BY <1>8, HookFields DEF UpdateDelivery
  <2>2. PICK s \in DeliveryStatus : s = hook[h].type
    BY <1>8, HookFields, EventsAssumption DEF UpdateDelivery, DeliveryStatus, Open
  <2>3. /\ deliveries' = [deliveries EXCEPT ![k].status = s]
        /\ bounced \subseteq bounced' /\ complained \subseteq complained'
        /\ s = "bounced" => k \in bounced'
    BY <1>8, <2>1, <2>2 DEF UpdateDelivery
  <2>. QED  BY <1>5, <2>3
<1>9. ASSUME NEW h \in Hooks, handleResendWebhook(h), ~ UpdateDelivery(h)
      PROVE  UNCHANGED <<deliveries, books>>
  BY <1>9 DEF handleResendWebhook, FindDelivery, CountBounces, cancelActiveSubscriptions,
        HookThrows
<1>10. ASSUME NEW r \in Rows, NEW s \in Live \cup {"none"}, SubscriptionChanges(r, s)
      PROVE  UNCHANGED <<deliveries, books>>
  BY <1>10, ChangeTypes
<1>11. Crash \/ UNCHANGED vars => UNCHANGED <<deliveries, books>>  BY DEF Crash, vars, hookVars
<1>. QED
  BY <1>1, <1>2, <1>3, <1>4, <1>6, <1>7, <1>8, <1>9, <1>10, <1>11 DEF Next, handleSendEmail

\* A cause stays one.
LEMMA CauseLasts ==
    ASSUME TypeOK, TypeOK', RowsKept, bounced \subseteq bounced', complained \subseteq complained',
           NEW u, Cause(u)
    PROVE  Cause(u)'
<1>1. OfReader(bounced, u) \subseteq OfReader(bounced, u)'
      /\ OfReader(complained, u) \subseteq OfReader(complained, u)'
  BY DEF OfReader, RowsKept, TypeOK
<1>2. IsFiniteSet(OfReader(bounced, u)') /\ Bounced(u)' \in Nat
  <2>1. IsFiniteSet(DOMAIN deliveries')
    <3>1. DOMAIN deliveries' = 1 .. Len(deliveries') /\ Len(deliveries') \in Nat  BY DEF TypeOK
    <3>. QED  BY <3>1, FS_Interval
  <2>2. OfReader(bounced, u)' \subseteq DOMAIN deliveries'  BY DEF OfReader, TypeOK
  <2>. QED  BY <2>1, <2>2, FS_Subset, FS_CardinalityType DEF Bounced
<1>3. Bounced(u) <= Bounced(u)'  BY <1>1, <1>2, FS_Subset DEF Bounced
<1>. QED
  BY <1>1, <1>2, <1>3, FiniteBooks, LimitsAssumption DEF Cause, LimitsAssumption

LEMMA AfterUpdateFields ==
    ASSUME NEW call, call \in [at: {"update", "count", "cancel"}, type: EventTypes,
                               row: DOMAIN deliveries]
    PROVE  LET next == AfterUpdate(call)
           IN  \/ next = Idle /\ next.at = "idle"
               \/ next.at = "count" /\ next.type = "bounced" /\ call.type = "bounced"
               \/ next.at = "cancel" /\ next.row = call.row /\ call.type = "complained"
<1>1. CASE call.type = "bounced"
  <2>1. AfterUpdate(call) = [call EXCEPT !.at = "count"]  BY <1>1 DEF AfterUpdate
  <2>. QED  BY <1>1, <2>1
<1>2. CASE call.type = "complained"
  <2>1. AfterUpdate(call) = [call EXCEPT !.at = "cancel"]  BY <1>2 DEF AfterUpdate
  <2>. QED  BY <1>2, <2>1
<1>3. CASE call.type \notin {"bounced", "complained"}
  <2>1. AfterUpdate(call) = Idle  BY <1>3 DEF AfterUpdate
  <2>. QED  BY <2>1 DEF Idle
<1>. QED  BY <1>1, <1>2, <1>3

LEMMA HooksJustified ==
    ASSUME UInv, [Next]_vars, TypeOK', RowsKept,
           bounced \subseteq bounced', complained \subseteq complained', NEW g \in Hooks
    PROVE  HookJustified(g)'
<1>. USE DEF UInv
<1>1. ASSUME hook'[g] = hook[g]
      PROVE  HookJustified(g)'
  <2>1. CASE hook[g].at = "cancel"
    <3>1. hook[g].row \in DOMAIN deliveries  BY <2>1, HookFields
    <3>2. deliveries'[hook[g].row].user = deliveries[hook[g].row].user
      BY <3>1 DEF RowsKept
    <3>3. PICK u : u = deliveries[hook[g].row].user  OBVIOUS
    <3>4. Cause(u)  BY <2>1, <3>3 DEF HookJustified
    <3>5. Cause(u)'  BY <3>4, CauseLasts
    <3>. QED  BY <1>1, <2>1, <3>2, <3>3, <3>5 DEF HookJustified, Cause, OfReader, Bounced
  <2>2. CASE hook[g].at # "cancel"  BY <1>1, <2>2 DEF HookJustified
  <2>. QED  BY <2>1, <2>2
<1>2. ASSUME hook'[g] = Idle
      PROVE  HookJustified(g)'
  BY <1>2 DEF HookJustified, Idle
<1>3. ASSUME NEW type \in EventTypes, FindDelivery(g, type),
             hook'[g] # hook[g]
      PROVE  HookJustified(g)'
  <2>1. hook'[g].at = "update"  BY <1>3 DEF FindDelivery, TypeOK
  <2>. QED  BY <2>1 DEF HookJustified
<1>4. CASE UpdateDelivery(g)
  <2>1. /\ hook[g] \in [at: {"update", "count", "cancel"}, type: EventTypes,
                         row: DOMAIN deliveries]
        /\ hook[g].row \in DOMAIN deliveries
    BY <1>4, HookFields DEF UpdateDelivery
  <2>2. hook'[g] = AfterUpdate(hook[g])  BY <1>4 DEF UpdateDelivery, TypeOK
  <2>3. CASE hook'[g].at = "cancel" /\ hook'[g].row = hook[g].row /\ hook[g].type = "complained"
    <3>1. hook[g].row \in complained'  BY <1>4, <2>3 DEF UpdateDelivery
    <3>2. hook'[g].row \in OfReader(complained, deliveries[hook[g].row].user)'
      BY <2>3, <3>1 DEF OfReader
    <3>. QED  BY <2>3, <3>2 DEF HookJustified, Cause, OfReader
  <2>4. \/ hook'[g] = Idle
        \/ hook'[g].at = "count" /\ hook'[g].type = "bounced"
        \/ hook'[g].at = "cancel" /\ hook'[g].row = hook[g].row /\ hook[g].type = "complained"
    <3>1. PICK call : call = hook[g]  OBVIOUS
    <3>2. call \in [at: {"update", "count", "cancel"}, type: EventTypes,
                    row: DOMAIN deliveries]
      BY <2>1, <3>1
    <3>3. PICK next : next = AfterUpdate(call)  OBVIOUS
    <3>4. \/ next = Idle /\ next.at = "idle"
          \/ next.at = "count" /\ next.type = "bounced" /\ call.type = "bounced"
          \/ next.at = "cancel" /\ next.row = call.row /\ call.type = "complained"
      BY <3>2, <3>3, AfterUpdateFields
    <3>. QED  BY <2>2, <3>1, <3>3, <3>4
  <2>5. CASE hook'[g].at = "count" /\ hook'[g].type = "bounced"
    BY <2>5 DEF HookJustified
  <2>. QED  BY <1>2, <2>3, <2>4, <2>5
<1>5. CASE CountBounces(g)
  <2>1. /\ hook[g] \in [at: {"update", "count", "cancel"}, type: EventTypes,
                         row: DOMAIN deliveries]
        /\ hook[g].row \in DOMAIN deliveries
    BY <1>5, HookFields DEF CountBounces
  <2>2. PICK u : u = deliveries[hook[g].row].user  OBVIOUS
  <2>3. hook'[g] = IF Cardinality(Bounces(u)) >= BounceLimit
                   THEN [hook[g] EXCEPT !.at = "cancel"] ELSE Idle
    BY <1>5, <2>2 DEF CountBounces, TypeOK
  <2>4. CASE Cardinality(Bounces(u)) >= BounceLimit
    <3>1. Bounces(u) \subseteq OfReader(bounced, u)  BY DEF Bounces, OfReader, Booked
    <3>2. /\ IsFiniteSet(OfReader(bounced, u)) /\ Bounced(u) \in Nat
      BY FiniteBooks
    <3>3. Cardinality(Bounces(u)) \in Nat /\ Cardinality(Bounces(u)) <= Bounced(u)
      BY <3>1, <3>2, FS_Subset, FS_CardinalityType DEF Bounced
    <3>4. Cause(u)  BY <2>4, <3>2, <3>3, LimitsAssumption DEF Cause, LimitsAssumption
    <3>5. Cause(u)'  BY <3>4, CauseLasts
    <3>6. hook'[g].at = "cancel" /\ hook'[g].row = hook[g].row  BY <2>1, <2>3, <2>4
    <3>7. deliveries'[hook[g].row].user = u  BY <2>1, <2>2 DEF RowsKept
    <3>. QED  BY <3>5, <3>6, <3>7 DEF HookJustified, Cause, OfReader, Bounced
  <2>. QED  BY <1>2, <2>3, <2>4
<1>6. ASSUME NEW h \in Hooks, handleResendWebhook(h)
      PROVE  HookJustified(g)'
  <2>1. CASE h # g
    <3>1. hook'[g] = hook[g]
      BY <1>6, <2>1 DEF handleResendWebhook, FindDelivery, UpdateDelivery, CountBounces,
            cancelActiveSubscriptions, HookThrows, TypeOK
    <3>. QED  BY <1>1, <3>1
  <2>2. CASE h = g
    <3>1. cancelActiveSubscriptions(g) \/ HookThrows(g) => hook'[g] = Idle
      BY DEF cancelActiveSubscriptions, HookThrows, TypeOK
    <3>. QED  BY <1>1, <1>2, <1>3, <1>4, <1>5, <1>6, <2>2, <3>1 DEF handleResendWebhook
  <2>. QED  BY <2>1, <2>2
<1>7. ASSUME NEW c \in Callers, sendArticleToSubscribers(c)
      PROVE  UNCHANGED hook
  BY <1>7 DEF sendArticleToSubscribers, ReadArticle, FindSubscribers, AddBulk,
        markArticleEmailSent, FanOutThrows, hookVars
<1>8. handleSendEmail => UNCHANGED hook
  BY DEF handleSendEmail, TakeJob, CreateDelivery, SendAccepted, SendError, MarkSent,
        MarkBounced, JobThrows, hookVars
<1>9. Crash => hook'[g] = Idle  BY DEF Crash
<1>10. UNCHANGED vars => UNCHANGED hook  BY DEF vars, hookVars
<1>11. ASSUME NEW r \in Rows, NEW s \in Live \cup {"none"}, SubscriptionChanges(r, s)
      PROVE  UNCHANGED hook
  BY <1>11, ChangeTypes
<1>. QED  BY <1>1, <1>2, <1>6, <1>7, <1>8, <1>9, <1>10, <1>11 DEF Next

LEMMA CancelledForCause ==
    ASSUME UInv, [Next]_vars, TypeOK', RowsKept,
           bounced \subseteq bounced', complained \subseteq complained',
           NEW r \in Rows, status'[r] = "cancelled"
    PROVE  Cause(Owner[r])'
<1>. USE DEF UInv
<1>1. CASE status[r] = "cancelled"
  <2>1. Cause(Owner[r])  BY <1>1 DEF UnsubscribeJustified, Cause, Bounced
  <2>. QED  BY <2>1, CauseLasts
<1>2. ASSUME NEW h \in Hooks, cancelActiveSubscriptions(h)
      PROVE  Cause(Owner[r])'
  <2>1. CASE status[r] # "cancelled"
    <3>1. Owner[r] = deliveries[hook[h].row].user
      BY <1>2, <2>1 DEF cancelActiveSubscriptions
    <3>2. Cause(Owner[r])  BY <1>2, <3>1 DEF cancelActiveSubscriptions, HookJustified
    <3>. QED  BY <3>2, CauseLasts
  <2>. QED  BY <1>1, <2>1
<1>3. ASSUME NEW q \in Rows, NEW s \in Live \cup {"none"}, SubscriptionChanges(q, s)
      PROVE  status[r] = "cancelled"
  BY <1>3 DEF SubscriptionChanges, TypeOK, Live
<1>. QED  BY <1>1, <1>2, <1>3, ReadersRest DEF readerVars

(* Readers are unsubscribed automatically only for what was booked on      *)
(* their own deliveries, for any number of readers, articles and events,   *)
(* through crashes, retries and webhooks that overlap.                     *)
THEOREM UnsubscribedForCause == Spec => []UnsubscribeJustified
<1>1. Init => UInv
  <2>. SUFFICES ASSUME Init PROVE UInv
    OBVIOUS
  <2>1. TypeOK  BY InitTypes
  <2>2. UnsubscribeJustified  BY DEF Init, UnsubscribeJustified, Live
  <2>. QED  BY <2>1, <2>2 DEF UInv, Init, Booked, HookJustified, Idle
<1>2. UInv /\ [Next]_vars => UInv'
  <2>. SUFFICES ASSUME UInv, [Next]_vars PROVE UInv'
    OBVIOUS
  <2>1. TypeOK' /\ RowsKept  BY StepTypes DEF UInv
  <2>2. Booked' /\ bounced \subseteq bounced' /\ complained \subseteq complained'
    BY BooksStep DEF UInv
  <2>3. \A h \in Hooks : HookJustified(h)'  BY <2>1, <2>2, HooksJustified
  <2>4. \A r \in Rows : status'[r] = "cancelled" => Cause(Owner[r])'
    BY <2>1, <2>2, CancelledForCause
  <2>5. UnsubscribeJustified'  BY <2>4 DEF UnsubscribeJustified, Cause, Bounced, OfReader
  <2>. QED  BY <2>1, <2>2, <2>3, <2>5 DEF UInv
<1>3. UInv => UnsubscribeJustified  BY DEF UInv
<1>. QED  BY <1>1, <1>2, <1>3, PTL DEF Spec

-----------------------------------------------------------------------------
(* What e-mails leave with, and what the settings page shows of it.        *)
KeyRead == Keys \cup {Empty, EnvKey}
Sender == Addresses \cup {Empty, EnvAddress}

Steps == {"setKey", "setFrom", "testKey", "testFrom", "answer"}
CallRecord ==
    [at: Steps, typed: [key: Keys \cup {Empty}, from: Sender],
     read: [key: KeyRead, from: Sender], due: [key: KeyRead, from: Sender], torn: BOOLEAN]

Ask == {Resting, [at |-> "done"]} \cup CallRecord

ShownPage ==
    {Resting} \cup [at: {"shown"}, read: [key: KeyRead, from: Sender],
                    due: [key: KeyRead, from: Sender], torn: BOOLEAN]

Mail ==
    {Resting} \cup [at: {"skipped"}, key: {Unset}, torn: BOOLEAN]
              \cup [at: {"from"}, key: KeyRead, torn: BOOLEAN]
              \cup [at: {"sent", "failed"}, key: KeyRead, from: Sender, torn: BOOLEAN]

SettingsTypeOK ==
    /\ stored \in [key: Keys \cup {Unset}, from: Addresses \cup {Unset, EnvAddress}]
    /\ asks \in [Pages -> [Calls -> Ask]]
    /\ field \in [Pages -> Sender]
    /\ shown \in [Pages -> ShownPage]
    /\ mail \in [Senders -> Mail]

(* Whoever was not disturbed has read what is still so: a call is at each  *)
(* of its steps on the way to what its page should show, and what pages    *)
(* show and e-mails left with is what the settings are.                    *)
KeyDue(call) == call.due.key = getResendApiKey
FromDue(call) == call.due.from = getEmailFrom

CallFits(call) ==
    call.at \in Steps /\ ~ call.torn =>
        /\ call.at = "setKey" => call.due = Due(call.typed)
        /\ call.at = "setFrom" =>
              KeyDue(call) /\ call.due.from = Due(call.typed).from
        /\ call.at \in {"testKey", "testFrom", "answer"} => KeyDue(call) /\ FromDue(call)
        /\ call.at \in {"testFrom", "answer"} => call.read.key = call.due.key
        /\ call.at = "answer" => call.read.from = call.due.from

ShownFits(page) ==
    page.at = "shown" /\ ~ page.torn =>
        /\ page.read = page.due
        /\ page.read.key = getResendApiKey /\ page.read.from = getEmailFrom

MailFits(email) ==
    email.at # "idle" /\ ~ email.torn =>
        /\ email.key = getResendApiKey
        /\ email.at = "sent" => email.from = getEmailFrom

SInv ==
    /\ SettingsTypeOK
    /\ \A p \in Pages, c \in Calls : CallFits(asks[p][c])
    /\ \A p \in Pages : ShownFits(shown[p])
    /\ \A m \in Senders : MailFits(mail[m])

-----------------------------------------------------------------------------
(* What the getters return.                                                *)
LEMMA GetterTypes ==
    ASSUME SettingsTypeOK
    PROVE  getResendApiKey \in KeyRead /\ getEmailFrom \in Sender /\ getEmailFrom # Empty
  BY ValuesAssumption
  DEF SettingsTypeOK, getResendApiKey, getEmailFrom, KeyRead, Sender

LEMMA SameGetters ==
    ASSUME UNCHANGED stored
    PROVE  UNCHANGED <<getResendApiKey, getEmailFrom>>
  BY DEF getResendApiKey, getEmailFrom

\* A step that writes one call, and neither the settings nor pages nor e-mails.
LEMMA CallGoesOn ==
    ASSUME SInv, NEW p \in Pages, NEW c \in Calls, NEW call \in Ask,
           asks' = [asks EXCEPT ![p][c] = call], UNCHANGED <<stored, shown, mail>>,
           CallFits(call), field' \in [Pages -> Sender]
    PROVE  SInv'
<1>0. SettingsTypeOK  BY DEF SInv
<1>1. /\ asks' \in [Pages -> [Calls -> Ask]] /\ asks'[p][c] = call
      /\ \A q \in Pages, d \in Calls : (q # p \/ d # c) => asks'[q][d] = asks[q][d]
  BY <1>0 DEF SettingsTypeOK
<1>. USE DEF SInv
<1>2. UNCHANGED <<getResendApiKey, getEmailFrom>>  BY SameGetters
<1>3. SettingsTypeOK'  BY <1>1 DEF SettingsTypeOK
<1>4. ASSUME NEW q \in Pages, NEW d \in Calls
      PROVE  CallFits(asks[q][d])'
  <2>1. CASE q = p /\ d = c
    <3>1. asks'[q][d] = call  BY <1>1, <2>1
    <3>. QED  BY <1>2, <3>1 DEF CallFits, KeyDue, FromDue, Due
  <2>2. CASE (q # p \/ d # c)
    <3>1. asks'[q][d] = asks[q][d] /\ CallFits(asks[q][d])  BY <1>1, <2>2
    <3>. QED  BY <1>2, <3>1 DEF CallFits, KeyDue, FromDue, Due
  <2>. QED  BY <2>1, <2>2
<1>5. \A q \in Pages : ShownFits(shown[q])'  BY <1>2 DEF ShownFits
<1>6. \A m \in Senders : MailFits(mail[m])'  BY <1>2 DEF MailFits
<1>. QED  BY <1>3, <1>4, <1>5, <1>6

LEMMA DueType ==
    ASSUME SettingsTypeOK, NEW typed \in [key: Keys \cup {Empty}, from: Sender]
    PROVE  Due(typed) \in [key: KeyRead, from: Sender]
<1>1. getResendApiKey \in KeyRead /\ getEmailFrom \in Sender  BY GetterTypes
<1>. QED  BY <1>1 DEF Due, KeyRead, Sender

\* Each call begins with nothing read.
LEMMA CallBegins ==
    ASSUME SettingsTypeOK, NEW typed \in [key: Keys \cup {Empty}, from: Sender],
           NEW at \in {"setKey", "testKey"}, at = "testKey" => typed = Nothing
    PROVE  Call(at, typed) \in Ask /\ CallFits(Call(at, typed))
<1>1. Due(typed) \in [key: KeyRead, from: Sender]  BY DueType
<1>2. Nothing \in [key: KeyRead, from: Sender]  BY DEF Nothing, KeyRead, Sender
<1>3. Call(at, typed) \in Ask  BY <1>1, <1>2 DEF Call, Ask, CallRecord, Steps
<1>4. typed = Nothing => Due(typed).key = getResendApiKey /\ Due(typed).from = getEmailFrom
  BY DEF Due, Nothing
<1>5. CallFits(Call(at, typed))
  BY <1>4 DEF Call, CallFits, KeyDue, FromDue, Steps
<1>. QED  BY <1>3, <1>5

LEMMA EndedFits ==
    ASSUME NEW c
    PROVE  Ended(c) \in Ask /\ CallFits(Ended(c))
  BY DEF Ended, Ask, CallFits, Resting, Steps

LEMMA CallType ==
    ASSUME SettingsTypeOK, NEW p \in Pages, NEW c \in Calls, asks[p][c].at \in Steps
    PROVE  asks[p][c] \in CallRecord
<1>1. asks[p][c] \in Ask  BY DEF SettingsTypeOK
<1>. QED  BY <1>1 DEF Ask, Resting, Steps

-----------------------------------------------------------------------------
LEMMA PageStep ==
    ASSUME SInv, NEW p \in Pages,
           \/ loadEmailSettings(p)
           \/ \E key \in Keys \cup {Empty}, from \in Addresses \cup {Empty, field[p]} :
                 handleSaveEmailSettings(p, key, from)
    PROVE  SInv'
<1>. USE DEF SInv
<1>c. "load" \in Calls /\ "save" \in Calls  BY DEF Calls
<1>1. CASE loadEmailSettings(p)
  <2>1. Nothing \in [key: Keys \cup {Empty}, from: Sender]  BY DEF Nothing, Sender
  <2>2. Call("testKey", Nothing) \in Ask /\ CallFits(Call("testKey", Nothing))
    BY <2>1, CallBegins
  <2>3. /\ asks' = [asks EXCEPT ![p]["load"] = Call("testKey", Nothing)]
        /\ UNCHANGED <<stored, shown, mail>> /\ field' \in [Pages -> Sender]
    BY <1>1 DEF loadEmailSettings, SettingsTypeOK
  <2>. HIDE DEF SInv
  <2>. QED  BY <1>c, <2>2, <2>3, CallGoesOn
<1>2. ASSUME NEW key \in Keys \cup {Empty}, NEW from \in Addresses \cup {Empty, field[p]},
             handleSaveEmailSettings(p, key, from)
      PROVE  SInv'
  <2>. DEFINE typed == [key |-> key, from |-> from]
  <2>1. from \in Sender  BY DEF SettingsTypeOK, Sender
  <2>2. typed \in [key: Keys \cup {Empty}, from: Sender]  BY <2>1
  <2>3. asks' = [asks EXCEPT ![p]["save"] = Call("setKey", typed)]
        /\ UNCHANGED <<stored, shown, mail>> /\ field' = [field EXCEPT ![p] = from]
    BY <1>2 DEF handleSaveEmailSettings
  <2>. HIDE DEF typed
  <2>4. Call("setKey", typed) \in Ask /\ CallFits(Call("setKey", typed))
    BY <2>2, CallBegins
  <2>5. field' \in [Pages -> Sender]  BY <2>1, <2>3 DEF SettingsTypeOK
  <2>. HIDE DEF SInv
  <2>. QED  BY <1>c, <2>3, <2>4, <2>5, CallGoesOn
<1>. QED  BY <1>1, <1>2

LEMMA TestStep ==
    ASSUME SInv, NEW p \in Pages, NEW c \in Calls, testEmail(p, c) \/ Fails(p, c)
    PROVE  SInv'
<1>. USE DEF SInv
<1>f. field' \in [Pages -> Sender] /\ UNCHANGED <<stored, shown, mail>>
  BY DEF SettingsTypeOK, testEmail, Fails
<1>g. getResendApiKey \in KeyRead /\ getEmailFrom \in Sender  BY GetterTypes
<1>1. CASE asks[p][c].at = "testKey" /\ testEmail(p, c)
  <2>. DEFINE call == asks[p][c]
              next == [call EXCEPT !.read = [call.read EXCEPT !.key = getResendApiKey],
                                   !.at = "testFrom"]
  <2>1. call \in CallRecord /\ CallFits(call)  BY <1>1, CallType DEF Steps
  <2>2. asks' = [asks EXCEPT ![p][c] = next]
    BY <1>1, <2>1 DEF testEmail, SettingsTypeOK, CallRecord
  <2>. HIDE DEF call
  <2>3. /\ next \in CallRecord /\ next.at = "testFrom" /\ next.due = call.due
        /\ next.torn = call.torn /\ next.read.key = getResendApiKey
    BY <1>g, <2>1 DEF CallRecord, Steps
  <2>4. call.at = "testKey"  BY <1>1 DEF call
  <2>5. CallFits(next)
    BY <2>1, <2>3, <2>4 DEF CallFits, KeyDue, FromDue, Steps
  <2>6. next \in Ask  BY <2>3 DEF Ask
  <2>. HIDE DEF SInv, next
  <2>. QED  BY <1>f, <2>2, <2>5, <2>6, CallGoesOn
<1>2. CASE asks[p][c].at = "testFrom" /\ testEmail(p, c)
  <2>. DEFINE call == asks[p][c]
              next == [call EXCEPT !.read = [call.read EXCEPT !.from = getEmailFrom],
                                   !.at = "answer"]
  <2>1. call \in CallRecord /\ CallFits(call)  BY <1>2, CallType DEF Steps
  <2>2. asks' = [asks EXCEPT ![p][c] = next]
    BY <1>2, <2>1 DEF testEmail, SettingsTypeOK, CallRecord
  <2>. HIDE DEF call
  <2>3. /\ next \in CallRecord /\ next.at = "answer" /\ next.due = call.due
        /\ next.torn = call.torn /\ next.read.key = call.read.key
        /\ next.read.from = getEmailFrom
    BY <1>g, <2>1 DEF CallRecord, Steps
  <2>4. call.at = "testFrom"  BY <1>2 DEF call
  <2>5. CallFits(next)
    BY <2>1, <2>3, <2>4 DEF CallFits, KeyDue, FromDue, Steps
  <2>6. next \in Ask  BY <2>3 DEF Ask
  <2>. HIDE DEF SInv, next
  <2>. QED  BY <1>f, <2>2, <2>5, <2>6, CallGoesOn
<1>3. CASE Fails(p, c)
  <2>1. asks' = [asks EXCEPT ![p][c] = Ended(c)]  BY <1>3 DEF Fails
  <2>. HIDE DEF SInv
  <2>. QED  BY <1>f, <2>1, EndedFits, CallGoesOn
<1>. QED  BY <1>1, <1>2, <1>3 DEF testEmail

LEMMA ShowStep ==
    ASSUME SInv, NEW p \in Pages, NEW c \in Calls, Show(p, c)
    PROVE  SInv'
<1>0. SettingsTypeOK  BY DEF SInv
<1>. DEFINE call == asks[p][c]
            page == [at |-> "shown", read |-> call.read, due |-> call.due, torn |-> call.torn]
<1>1. call \in CallRecord /\ CallFits(call) /\ call.at = "answer"
  BY CallType DEF SInv, Show, Steps
<1>2. /\ shown' = [shown EXCEPT ![p] = page] /\ field' = [field EXCEPT ![p] = call.read.from]
      /\ asks' = [asks EXCEPT ![p][c] = Ended(c)] /\ UNCHANGED <<stored, mail>>
  BY DEF Show
<1>. HIDE DEF call
<1>3. call.read.from \in Sender /\ page \in ShownPage  BY <1>1 DEF CallRecord, ShownPage
<1>4. /\ asks' \in [Pages -> [Calls -> Ask]] /\ asks'[p][c] = Ended(c)
      /\ \A q \in Pages, d \in Calls : (q # p \/ d # c) => asks'[q][d] = asks[q][d]
  <2>. DEFINE ended == Ended(c)
  <2>1. ended \in Ask /\ asks' = [asks EXCEPT ![p][c] = ended]  BY <1>2, EndedFits
  <2>. HIDE DEF ended
  <2>2. /\ asks' \in [Pages -> [Calls -> Ask]] /\ asks'[p][c] = ended
        /\ \A q \in Pages, d \in Calls : (q # p \/ d # c) => asks'[q][d] = asks[q][d]
    BY <1>0, <2>1 DEF SettingsTypeOK
  <2>. QED  BY <2>2 DEF ended
<1>. USE DEF SInv
<1>5. UNCHANGED <<getResendApiKey, getEmailFrom>>  BY <1>2, SameGetters
<1>6. ShownFits(page)
  <2>1. call.read \in [key: KeyRead, from: Sender] /\ call.due \in [key: KeyRead, from: Sender]
    BY <1>1 DEF CallRecord
  <2>2. ~ call.torn => /\ call.read.key = call.due.key /\ call.read.from = call.due.from
                       /\ call.due.key = getResendApiKey /\ call.due.from = getEmailFrom
    BY <1>1 DEF CallFits, KeyDue, FromDue, Steps
  <2>. QED  BY <2>1, <2>2 DEF ShownFits
<1>7. SettingsTypeOK'
  BY <1>2, <1>3, <1>4 DEF SettingsTypeOK
<1>8. ASSUME NEW q \in Pages, NEW d \in Calls
      PROVE  CallFits(asks[q][d])'
  <2>1. CallFits(asks'[q][d])  BY <1>4, EndedFits
  <2>. QED  BY <1>5, <2>1 DEF CallFits, KeyDue, FromDue, Due
<1>9. ASSUME NEW q \in Pages
      PROVE  ShownFits(shown[q])'
  <2>1. ShownFits(shown'[q])  BY <1>2, <1>6 DEF SettingsTypeOK
  <2>. QED  BY <1>5, <2>1 DEF ShownFits
<1>10. \A m \in Senders : MailFits(mail[m])'  BY <1>2, <1>5 DEF MailFits
<1>. QED  BY <1>7, <1>8, <1>9, <1>10

-----------------------------------------------------------------------------
(* A save writes a row, which tears everybody else.                        *)
LEMMA TornCalls ==
    ASSUME SettingsTypeOK, NEW p \in Pages, NEW typed, NEW next \in Steps, NEW base,
           asks[p]["save"].at \in Steps,
           base = IF typed = Empty THEN asks ELSE TornAsks(p, "save"),
           asks' = [base EXCEPT ![p]["save"].at = next]
    PROVE  /\ asks' \in [Pages -> [Calls -> Ask]]
           /\ asks'[p]["save"] = [asks[p]["save"] EXCEPT !.at = next]
           /\ \A q \in Pages, d \in Calls : (q # p \/ d # "save") =>
                 \/ asks'[q][d] = asks[q][d] /\ (typed = Empty \/ asks[q][d].at \notin Steps)
                 \/ asks'[q][d].torn
<1>c. "save" \in Calls  BY DEF Calls
<1>1. \A q \in Pages, d \in Calls : asks[q][d] \in Ask  BY DEF SettingsTypeOK
<1>2. ASSUME NEW call \in CallRecord
      PROVE  /\ [call EXCEPT !.torn = TRUE] \in CallRecord /\ [call EXCEPT !.torn = TRUE].torn
             /\ [call EXCEPT !.at = next] \in CallRecord
  BY DEF CallRecord
<1>3. \A q \in Pages, d \in Calls :
        asks[q][d] \in CallRecord \/ asks[q][d].at \in {"idle", "done"}
  BY <1>1 DEF Ask, Resting
<1>4. CallRecord \subseteq Ask  BY DEF Ask
<1>5. base \in [Pages -> [Calls -> Ask]]
  BY <1>1, <1>2, <1>3, <1>4 DEF TornAsks, SettingsTypeOK
<1>6. \A q \in Pages, d \in Calls : (q # p \/ d # "save") =>
         \/ base[q][d] = asks[q][d] /\ (typed = Empty \/ asks[q][d].at \notin Steps)
         \/ base[q][d].torn
  BY <1>2, <1>3 DEF TornAsks, Steps
<1>7. base[p]["save"] = asks[p]["save"]  BY <1>c DEF TornAsks
<1>8. asks[p]["save"] \in CallRecord  BY <1>c, CallType
<1>. DEFINE moved == [asks[p]["save"] EXCEPT !.at = next]
<1>9. asks' = [base EXCEPT ![p]["save"] = moved]
  <2>1. asks' = [base EXCEPT ![p]["save"] = [base[p]["save"] EXCEPT !.at = next]]  OBVIOUS
  <2>. QED  BY <1>7, <2>1
<1>a. moved \in Ask  BY <1>2, <1>4, <1>8
<1>. HIDE DEF moved
<1>10. /\ asks' \in [Pages -> [Calls -> Ask]]
       /\ asks'[p]["save"] = moved
       /\ \A q \in Pages, d \in Calls : (q # p \/ d # "save") => asks'[q][d] = base[q][d]
  BY <1>c, <1>5, <1>9, <1>a
<1>. QED  BY <1>6, <1>10 DEF moved

LEMMA TornPages ==
    ASSUME SettingsTypeOK
    PROVE  /\ Torn(shown) \in [Pages -> ShownPage]
           /\ \A p \in Pages : Torn(shown)[p].at = "idle" \/ Torn(shown)[p].torn
           /\ Torn(mail) \in [Senders -> Mail]
           /\ \A m \in Senders : Torn(mail)[m].at = "idle" \/ Torn(mail)[m].torn
<1>1. ASSUME NEW page \in ShownPage, page.at # "idle"
      PROVE  [page EXCEPT !.torn = TRUE] \in ShownPage /\ [page EXCEPT !.torn = TRUE].torn
  <2>. DEFINE Page == [at: {"shown"}, read: [key: KeyRead, from: Sender],
                       due: [key: KeyRead, from: Sender], torn: BOOLEAN]
  <2>1. page \in Page  BY <1>1 DEF ShownPage, Resting
  <2>2. [page EXCEPT !.torn = TRUE] \in Page /\ [page EXCEPT !.torn = TRUE].torn  BY <2>1
  <2>. QED  BY <2>2 DEF ShownPage
<1>2. ASSUME NEW email \in Mail, email.at # "idle"
      PROVE  [email EXCEPT !.torn = TRUE] \in Mail /\ [email EXCEPT !.torn = TRUE].torn
  <2>. DEFINE Skipped == [at: {"skipped"}, key: {Unset}, torn: BOOLEAN]
              Leaving == [at: {"from"}, key: KeyRead, torn: BOOLEAN]
              Left == [at: {"sent", "failed"}, key: KeyRead, from: Sender, torn: BOOLEAN]
  <2>1. email \in Skipped \/ email \in Leaving \/ email \in Left
    BY <1>2 DEF Mail, Resting
  <2>2. /\ email \in Skipped => [email EXCEPT !.torn = TRUE] \in Skipped
        /\ email \in Skipped => [email EXCEPT !.torn = TRUE].torn
    OBVIOUS
  <2>3. /\ email \in Leaving => [email EXCEPT !.torn = TRUE] \in Leaving
        /\ email \in Leaving => [email EXCEPT !.torn = TRUE].torn
    OBVIOUS
  <2>4. /\ email \in Left => [email EXCEPT !.torn = TRUE] \in Left
        /\ email \in Left => [email EXCEPT !.torn = TRUE].torn
    OBVIOUS
  <2>. QED  BY <2>1, <2>2, <2>3, <2>4 DEF Mail
<1>3. DOMAIN shown = Pages /\ \A p \in Pages : shown[p] \in ShownPage  BY DEF SettingsTypeOK
<1>4. DOMAIN mail = Senders /\ \A m \in Senders : mail[m] \in Mail  BY DEF SettingsTypeOK
<1>5. Torn(shown) \in [Pages -> ShownPage]
      /\ \A p \in Pages : Torn(shown)[p].at = "idle" \/ Torn(shown)[p].torn
  BY <1>1, <1>3 DEF Torn
<1>6. Torn(mail) \in [Senders -> Mail]
      /\ \A m \in Senders : Torn(mail)[m].at = "idle" \/ Torn(mail)[m].torn
  BY <1>2, <1>4 DEF Torn
<1>. QED  BY <1>5, <1>6

LEMMA WriteStep ==
    ASSUME SInv, NEW p \in Pages, updateSettings(p)
    PROVE  SInv'
<1>. USE DEF SInv
<1>c. "save" \in Calls  BY DEF Calls
<1>1. PICK call \in CallRecord : call = asks[p]["save"] /\ CallFits(call)
  BY <1>c, CallType DEF updateSettings, Steps
<1>2. \/ call.at = "setKey" /\ set(p, "key", "setFrom")
      \/ call.at = "setFrom" /\ set(p, "from", "testKey")
  BY <1>1 DEF updateSettings
<1>2a. PICK row \in {"key", "from"}, next \in {"setFrom", "testKey"} :
          /\ set(p, row, next)
          /\ row = "key" => call.at = "setKey" /\ next = "setFrom"
          /\ row = "from" => call.at = "setFrom" /\ next = "testKey"
  BY <1>2
<1>3. PICK typed :
         /\ set(p, row, next) /\ typed = call.typed[row]
         /\ row = "key" => /\ call.at = "setKey" /\ next = "setFrom" /\ typed = call.typed.key
         /\ row = "from" => /\ call.at = "setFrom" /\ next = "testKey" /\ typed = call.typed.from
  BY <1>2a
<1>b. PICK base : base = IF typed = Empty THEN asks ELSE TornAsks(p, "save")
  OBVIOUS
<1>4. /\ asks' = [base EXCEPT ![p]["save"].at = next]
      /\ stored' = [stored EXCEPT ![row] = Written(@, typed)]
      /\ mail' = IF typed = Empty THEN mail ELSE Torn(mail)
      /\ shown' = IF typed = Empty THEN shown ELSE Torn(shown)
      /\ UNCHANGED field
  BY <1>1, <1>3, <1>b DEF set
<1>5. next \in Steps /\ call.at \in Steps  BY DEF Steps, CallRecord
<1>6. /\ asks' \in [Pages -> [Calls -> Ask]]
      /\ asks'[p]["save"] = [call EXCEPT !.at = next]
      /\ \A q \in Pages, d \in Calls : (q # p \/ d # "save") =>
            \/ asks'[q][d] = asks[q][d] /\ (typed = Empty \/ asks[q][d].at \notin Steps)
            \/ asks'[q][d].torn
  BY <1>1, <1>4, <1>5, <1>b, TornCalls
<1>7. typed = Empty => UNCHANGED <<getResendApiKey, getEmailFrom>>
  <2>1. ASSUME typed = Empty
        PROVE  stored' = stored
    BY <1>3, <1>4, <2>1 DEF SettingsTypeOK, Written
  <2>. QED  BY <2>1, SameGetters
<1>8. row = "key" /\ typed # Empty => getResendApiKey' = typed /\ UNCHANGED getEmailFrom
  <2>1. ASSUME row = "key", typed # Empty
        PROVE  stored'.key = typed /\ stored'.from = stored.from
    BY <1>4, <2>1 DEF SettingsTypeOK, Written
  <2>2. call.typed.key \in Keys \cup {Empty}  BY <1>1 DEF CallRecord
  <2>. QED  BY <1>3, <2>1, <2>2, ValuesAssumption DEF getResendApiKey, getEmailFrom
<1>9. row = "from" /\ typed # Empty => getEmailFrom' = typed /\ UNCHANGED getResendApiKey
  <2>1. ASSUME row = "from", typed # Empty
        PROVE  stored'.from = typed /\ stored'.key = stored.key
    BY <1>4, <2>1 DEF SettingsTypeOK, Written
  <2>2. call.typed.from \in Sender  BY <1>1 DEF CallRecord
  <2>. QED  BY <1>3, <2>1, <2>2, ValuesAssumption DEF getResendApiKey, getEmailFrom, Sender
<1>10. stored' \in [key: Keys \cup {Unset}, from: Addresses \cup {Unset, EnvAddress}]
  <2>1. call.typed.key \in Keys \cup {Empty} /\ call.typed.from \in Sender
    BY <1>1 DEF CallRecord
  <2>. QED  BY <1>3, <1>4, <2>1 DEF SettingsTypeOK, Written, Sender
<1>11. SettingsTypeOK'
  BY <1>4, <1>6, <1>10, TornPages DEF SettingsTypeOK
<1>12. CallFits(asks[p]["save"])'
  <2>. DEFINE after == [call EXCEPT !.at = next]
  <2>1. /\ after.at = next /\ after.due = call.due /\ after.typed = call.typed
        /\ after.torn = call.torn
    BY <1>1 DEF CallRecord
  <2>2. asks'[p]["save"] = after  BY <1>6
  <2>. HIDE DEF after
  <2>3. CASE row = "key"
    <3>1. call.at = "setKey" /\ next = "setFrom"  BY <1>3, <2>3
    <3>2. ~ call.torn => call.due = Due(call.typed)  BY <1>1, <3>1 DEF CallFits, Steps
    <3>3. /\ Due(call.typed).key =
                IF call.typed.key = Empty THEN getResendApiKey ELSE call.typed.key
          /\ Due(call.typed).from =
                IF call.typed.from = Empty THEN getEmailFrom ELSE call.typed.from
      BY DEF Due
    <3>4. getResendApiKey' = Due(call.typed).key /\ UNCHANGED getEmailFrom
      BY <1>3, <1>7, <1>8, <2>3, <3>3
    <3>5. Due(call.typed).from = Due(call.typed).from'
      BY <3>3, <3>4 DEF Due
    <3>. QED
      BY <2>1, <2>2, <3>1, <3>2, <3>4, <3>5 DEF CallFits, KeyDue, FromDue, Due
  <2>4. CASE row = "from"
    <3>1. call.at = "setFrom" /\ next = "testKey"  BY <1>3, <2>4
    <3>2. ~ call.torn => call.due.key = getResendApiKey /\ call.due.from = Due(call.typed).from
      BY <1>1, <3>1 DEF CallFits, KeyDue, Steps
    <3>3. Due(call.typed).from =
                IF call.typed.from = Empty THEN getEmailFrom ELSE call.typed.from
      BY DEF Due
    <3>4. getEmailFrom' = Due(call.typed).from /\ UNCHANGED getResendApiKey
      BY <1>3, <1>7, <1>9, <2>4, <3>3
    <3>. QED  BY <2>1, <2>2, <3>1, <3>2, <3>4 DEF CallFits, KeyDue, FromDue
  <2>. QED  BY <1>3, <2>3, <2>4
<1>13. ASSUME NEW q \in Pages, NEW d \in Calls
       PROVE  CallFits(asks[q][d])'
  <2>1. CASE q = p /\ d = "save"  BY <1>12, <2>1
  <2>2. CASE (q # p \/ d # "save") /\ asks'[q][d].torn  BY <2>2 DEF CallFits
  <2>3. CASE asks'[q][d] = asks[q][d] /\ (typed = Empty \/ asks[q][d].at \notin Steps)
    <3>1. CASE asks[q][d].at \notin Steps  BY <2>3, <3>1 DEF CallFits
    <3>2. CASE typed = Empty
      BY <1>7, <2>3, <3>2 DEF CallFits, KeyDue, FromDue, Due
    <3>. QED  BY <2>3, <3>1, <3>2
  <2>. QED  BY <1>6, <2>1, <2>2, <2>3
<1>14. ASSUME NEW q \in Pages
       PROVE  ShownFits(shown[q])'
  <2>1. CASE typed = Empty  BY <1>4, <1>7, <2>1 DEF ShownFits
  <2>2. CASE typed # Empty  BY <1>4, <2>2, TornPages DEF ShownFits
  <2>. QED  BY <2>1, <2>2
<1>15. ASSUME NEW m \in Senders
       PROVE  MailFits(mail[m])'
  <2>1. CASE typed = Empty  BY <1>4, <1>7, <2>1 DEF MailFits
  <2>2. CASE typed # Empty  BY <1>4, <2>2, TornPages DEF MailFits
  <2>. QED  BY <2>1, <2>2
<1>. QED  BY <1>11, <1>13, <1>14, <1>15

LEMMA MailStep ==
    ASSUME SInv, NEW m \in Senders, getResendClient(m) \/ sendWelcomeEmail(m)
    PROVE  SInv'
<1>. USE DEF SInv
<1>1. UNCHANGED <<stored, asks, field, shown>>  BY DEF getResendClient, sendWelcomeEmail
<1>2. UNCHANGED <<getResendApiKey, getEmailFrom>>  BY <1>1, SameGetters
<1>g. getResendApiKey \in KeyRead /\ getEmailFrom \in Sender  BY GetterTypes
<1>3. PICK email \in Mail : mail' = [mail EXCEPT ![m] = email] /\ MailFits(email)
  <2>1. CASE getResendClient(m)
    <3>. DEFINE skipped == [at |-> "skipped", key |-> Unset, torn |-> FALSE]
                leaving == [at |-> "from", key |-> getResendApiKey, torn |-> FALSE]
    <3>1. mail' = [mail EXCEPT ![m] = IF getResendApiKey = Unset THEN skipped ELSE leaving]
      BY <2>1 DEF getResendClient, Client
    <3>2. leaving \in Mail /\ MailFits(leaving)  BY <1>g DEF Mail, MailFits
    <3>3. skipped \in Mail /\ (getResendApiKey = Unset => MailFits(skipped))
      BY DEF Mail, MailFits
    <3>. HIDE DEF skipped, leaving
    <3>. QED  BY <3>1, <3>2, <3>3
  <2>2. CASE sendWelcomeEmail(m)
    <3>1. PICK outcome \in {"sent", "failed"} :
             mail' = [mail EXCEPT ![m] = [at |-> outcome, key |-> mail[m].key,
                                          from |-> getEmailFrom, torn |-> mail[m].torn]]
      BY <2>2 DEF sendWelcomeEmail
    <3>2. mail[m] \in Mail /\ mail[m].at = "from" /\ MailFits(mail[m])
      BY <2>2 DEF sendWelcomeEmail, SettingsTypeOK
    <3>3. mail[m].key \in KeyRead /\ mail[m].torn \in BOOLEAN
          /\ (~ mail[m].torn => mail[m].key = getResendApiKey)
      BY <3>2 DEF Mail, MailFits, Resting
    <3>. DEFINE email == [at |-> outcome, key |-> mail[m].key, from |-> getEmailFrom,
                          torn |-> mail[m].torn]
    <3>4. email \in Mail  BY <1>g, <3>3 DEF Mail
    <3>5. MailFits(email)  BY <3>3 DEF MailFits
    <3>. QED  BY <3>1, <3>4, <3>5
  <2>. QED  BY <2>1, <2>2
<1>4. SettingsTypeOK'  BY <1>1, <1>3 DEF SettingsTypeOK
<1>5. \A q \in Pages, d \in Calls : CallFits(asks[q][d])'
  BY <1>1, <1>2 DEF CallFits, KeyDue, FromDue, Due
<1>6. \A q \in Pages : ShownFits(shown[q])'  BY <1>1, <1>2 DEF ShownFits
<1>7. ASSUME NEW n \in Senders
      PROVE  MailFits(mail[n])'
  <2>1. MailFits(mail'[n])  BY <1>3 DEF SettingsTypeOK
  <2>. QED  BY <1>2, <2>1 DEF MailFits
<1>. QED  BY <1>4, <1>5, <1>6, <1>7

LEMMA SettingsInductive ==
    (SettingsInit => SInv) /\ (SInv /\ [SettingsNext]_settings => SInv')
<1>1. SettingsInit => SInv
  BY DEF SettingsInit, SInv, SettingsTypeOK, CallFits, ShownFits, MailFits, Resting, Ask,
         ShownPage, Mail, Steps, Sender
<1>2. SInv /\ UNCHANGED settings => SInv'
  <2>. SUFFICES ASSUME SInv, UNCHANGED settings PROVE SInv'
    OBVIOUS
  <2>1. UNCHANGED <<stored, asks, field, shown, mail>>  BY DEF settings
  <2>2. UNCHANGED <<getResendApiKey, getEmailFrom>>  BY <2>1, SameGetters
  <2>. QED
    BY <2>1, <2>2
    DEF SInv, SettingsTypeOK, CallFits, KeyDue, FromDue, Due, ShownFits, MailFits
<1>. QED
  BY <1>1, <1>2, PageStep, WriteStep, TestStep, ShowStep, MailStep DEF SettingsNext

(* What a page shows is what e-mails leave with, until somebody saves.     *)
THEOREM ShownIsWhatIsUsed == SettingsSpec => []ShownIsUsed
<1>1. SInv => ShownIsUsed
  BY DEF SInv, ShownIsUsed, ShownFits, MailFits
<1>. QED  BY <1>1, SettingsInductive, PTL DEF SettingsSpec

(* A save takes effect, unless somebody else saved meanwhile.              *)
THEOREM SavesTakeEffect == SettingsSpec => []SaveTakesEffect
<1>1. SInv => SaveTakesEffect
  BY DEF SInv, SaveTakesEffect, ShownFits
<1>. QED  BY <1>1, SettingsInductive, PTL DEF SettingsSpec
=============================================================================
