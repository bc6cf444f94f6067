# Verification of the newsletter platform

TLA+ models of the repository's own logic: who has access to what, where the money
goes, which e-mails leave, what readers of an article see, and who a browser is
signed in as. TLC checks the models on small instances; TLAPS proves the most
important of the properties for every instance.

Paths are relative to the repository root; `backend/` stands for
`packages/backend/src/`, `frontend/` for `packages/frontend/src/`.

## 1. The system

A NestJS backend over PostgreSQL (Prisma) and Redis (Bull), and a Next.js frontend.
Requests, webhooks, crons and the queue's worker run in one Node process:
`docker-compose.yml` names a worker and a scheduler besides, but the repository has
one entry point, `main.ts`. Code between two `await`s is atomic, and everything else
interleaves at the `await`s. A Prisma statement is atomic, and so is a
`$transaction([...])`.

| Component | State it keeps | Operations | Hard behaviour | What makes it correct |
|---|---|---|---|---|
| **Subscriptions** `backend/modules/subscriptions/` | tables `subscriptions`, `payments` | `subscribeFree`, `subscribePaid`, `cancelSubscription`, `handlePaymentSuccess`, `handlePaymentFailed`, cron `checkGracePeriods` | check, await, write by id; webhooks carry no subscription id | the tables agree; no payment without money; what nobody cancelled ends by lapsing only |
| **Payment webhooks** `backend/modules/payments/payments.controller.ts` | none | three routes | repeated, reordered, concurrent deliveries; errors swallowed | every completed charge ends in a row |
| **Fees, payment sessions** `payments.service.ts`, `subscriptions.service.ts` | none | the split of a charge; rubles and kopecks | roundings | exact to a kopeck, positive, monotone; the price survives the processor |
| **Payouts** `backend/modules/payouts/` | table `payouts`, also the store of bank details | cron `processPayouts`, `saveBankDetails`, breakdown | sums read one after the other; a run dies halfway; details copied from row to row | never overpaid; to the author's own account; a due balance is paid in the end |
| **Email delivery** `backend/modules/email/` | table `email_deliveries`, the queue, `articles.email_sent` | fan-out, worker, Resend webhooks, automatic unsubscribe | check-queue-flag; retries after a partial success; events matched with the newest open delivery | nobody forgotten; nothing shown as sent that did not leave; nobody unsubscribed on another reader's account |
| **Settings** `backend/modules/settings/`, settings page | table `platform_settings` over the environment | load, save, test, send at once | two statements to a save, two reads to a test, several pages | what a page shows is what is used |
| **Articles, publications** `backend/modules/articles/`, `publications/`, editor, article page | their tables; the editor's state; the cached page | create, update, publish, schedule, delete, slug lookup, list | row read before an await and written after it; slugs looked up before they are claimed; lost answers; offset pagination | nothing shown that was not released; HTML follows Markdown; one draft per editor |
| **Authentication, frontend session** `backend/auth/`, `frontend/lib/api.ts`, `auth.ts` | `users`, two in-memory maps; the browser's store and cookies | register, verify, login, refresh, logout, request with refresh on 401 | rotation; late answers; cookies besides the header; restarts | nobody acts for another; a link for its 24 hours or until verified; every call ends |
| **Analytics, breakdown, export** `backend/modules/analytics/`, `payouts/`, `export.controller.ts` | none | reports | the same rows summed in several places, by days here and by hours there | the reports agree and add up |
| **Texts** `articles.utils.ts`, `publications.service.ts`, e-mail template, CSV | none | slugs, excerpts, escaping | order of replacements, boundaries | what was typed is what is read |
| **Health, empty modules, shared schemas, other pages** | none | – | – | – |

Interactions. The webhook routes call `SubscriptionsService`. Payouts and analytics
read `payments`, which only `SubscriptionsService` writes. The Resend webhooks
cancel live subscriptions. The worker and the senders of single e-mails read the
settings. The article page calls `findBySlug` and keeps its answer for a minute. The
strategy that authenticates requests prefers the cookie to the header, the browser's
store only knows the latter.

The hazards of this code, each at its line and with the properties that would
catch it, are listed in `PROJECT.json`.

## 2. Modules

| Module | Models | Composed with |
|---|---|---|
| `Subscriptions` | subscriptions, payments, webhooks, processors, faults, time | implements `PaymentLedger` |
| `PaymentLedger` | what the `payments` table promises its readers (abstract) | |
| `Payouts`, `MCPayouts` | the monthly run and the bank details | over `PaymentLedger` |
| `EmailDelivery`, `MCEmailDelivery`, `MCReaders` | fan-out, worker, Resend webhooks, subscriptions that change meanwhile | implements `ArticleMailing`; with `Settings` in one run |
| `ArticleMailing` | the life of an e-mail: announced, then left or given up (abstract) | |
| `Settings` | key and sender of e-mails, settings pages, e-mails that leave at once | |
| `Publishing`, `MCPublishing` | publications, articles, the editor, the public page | |
| `Sessions`, `MCSessions` | server's and browser's side of being signed in | |
| `Reports` | analytics, balances, breakdown, export as operators of the tables | over `Fees` |
| `Listings` | the paginated list of articles while articles come and go | |
| `Conversions`, `MCConversions` | slugs, excerpts, e-mail and CSV escaping, rubles | over `Fees` |
| `Fees`, `MCFees` | the arithmetic of one charge | |
| `MCReports` | one run of the modules that only compute | `Fees`, `Reports`, `Conversions`, `Listings` |
| `Tables` | lemmas on the newest row of a table, on adding one, on finite sums and on quotients; on texts that are folded, flattened and spelled | |
| `*Proofs` | theorems, section 4; `EmailProofs` those of `Settings`, `ReportsProofs` those of `Fees` and `Listings`, too | their module |

Each `Mut...` operator is a plausible slip in the definition it stands beside, used
to see that a property notices; no specification refers to one.

### 2.1 Subscriptions

| Model | Code |
|---|---|
| `subs` | table `subscriptions`, in order of `created_at`; `left` is the time until `expires_at`, `Never` is NULL |
| `payments` | table `payments`; `tx` is `processor_tx_id` |
| `handler[h]` | the locals that a request in flight uses after its `await` |
| `charges`, `delivered`, `acked` | the processors: state of each transaction, the checkout the payer went to (an auxiliary the server never sees), webhooks sent and answered |
| `SubscribeFreeCheck/Create`, `SubscribePaidCheck/Create` | `subscribeFree`, `subscribePaid` up to and after `findFirst` |
| `CancelCheck`, `CancelWrite` | `cancelSubscription`: lookup and checks; update by id |
| `FindPayment`, `FindPending`, `ActivateNew`, `ActivateAgain` | `handlePaymentSuccess`: lookup by transaction, newest pending paid row, the two forms of the transaction |
| `FindFailedPayment`, `FailPayment` | `handlePaymentFailed` |
| `Receive`, `Acknowledge`, `CallThrows`, `FirstCallThrows` | the routes: dispatch on the status, `catch`, HTTP 200 in every case |
| `checkGracePeriods`, `cancelActiveSubscriptions` | the two `updateMany`s; the second, of the automatic unsubscribe, is allowed at any time here, for any user (when it really happens is in `EmailDelivery`) |
| `Complete`, `Decline`, `Reverse`, `Tick`, `Crash` | processors, time, the end of the process |

A webhook enters the model after its signature was accepted. A processor repeats an
event until it sees an HTTP 200, at most `MaxDeliveries` times, in any order and also
while an earlier delivery is being handled; with `Faulty`, an answer may be lost, any
call may throw and the process may crash. A renewal has a transaction id of its own,
and any paid subscription's checkout may be charged again. Left out: amounts (see
`Fees`), `started_at`, `cancelled_at`, rejected requests. `Pubs` are the publications
with `paid_enabled`; switching it off is not modelled.

### 2.2 Payouts

`cron` holds the locals of `processPayouts` between two awaits: the authors still to do,
then for one author the sum of completed payments, the balance and the bank details.
`ReadEarned`, `ReadPaidOut`, `ReadAccount` and `CreatePayout` are the awaits of
`calculateMonthlyPayout` and of `getPendingBalance`, which it calls. The subscription
ids are read before the payments are summed, so payments of subscriptions created in
between are missed (`missed`). `AuthorThrows` is the per-author `catch`, `Crash` the end
of the run, which nothing resumes. `saveBankDetails` writes a zero-amount, completed
row; `LastAccount` is the lookup of the newest row. `RecordPayment`, `FailPayment`,
`RestorePayment` are `PaymentLedger`'s steps, so what is shown of the payouts holds for
every behaviour of the table's real writer. An author whose details were never saved is
paid to `NoAccount`, the code's `'{}'`; `EarningsPaidOut` is about the others only.
`peak` is an auxiliary history: a reversal may take back what was already paid, so
"never more than earned" means "than was earned at some time".

### 2.3 Email delivery and article mailing

| Model | Code |
|---|---|
| `fanOut[c]`: `ReadArticle`, `FindSubscribers`, `AddBulk`, `markArticleEmailSent`, `FanOutThrows` | the four awaits of `sendArticleToSubscribers` (`email.service.ts`) and their failing |
| `jobs`, by batch and subscription | Bull's jobs: state, attempts, stalls; `accepted` is an auxiliary: Resend took the e-mail at least once |
| `worker`: `TakeJob`, `CreateDelivery`, `SendAccepted`, `SendError`, `MarkSent`, `MarkBounced`, `JobThrows` | `handleSendEmail` and `upsertDelivery` (`email.processor.ts`); the processor has no concurrency set, so one job at a time. `SendError` may be a lost answer |
| `deliveries` | table `email_deliveries`, in order of `created_at` |
| `hook[h]`: `FindDelivery`, `UpdateDelivery`, `CountBounces`, `cancelActiveSubscriptions`, `HookThrows` | `handleResendWebhook` and what it calls (`email.controller.ts`); an event may be about any e-mail of the platform, so it may come at any time, and it is booked on the newest open delivery |
| `status`, `SubscriptionChanges` | each subscription's status, and what module `Subscriptions` may do to it: it starts, is paid, falls behind, ends |
| `Crash` | the process dies: an active job was stalled and comes back `MaxStalls` times (Bull) |

`sendArticleToSubscribers` has no caller yet (section 7); the model calls it as the
comment at `articles.service.ts:388-399` announces. Each subscription has a status of its
own, and `Owner` says whose it is. `late` is an auxiliary: who became active after a
fan-out had looked its readers up (`LookedUp`); `bounced` and `complained` are the rows
ever booked so. `ArticleMailing` knows of each
e-mail only that it is announced, and then left or is given up; the refinement maps a
job's state to it, forgetting deliveries, attempts and webhooks. It says that no
retry or stall sets back an e-mail that left, that one given up is due again only when
its article is announced anew, and, under the worker's fairness,
that each one gets to an end.

### 2.4 Settings

`stored` is `platform_settings` (an absent row is `Unset`), read by `getResendApiKey`
and `getEmailFrom` with the environment behind it. `asks[p]` is how far the load and
the save of a settings page are: a save writes two rows in two statements
(`updateSettings`; an empty field writes nothing), then reads them again
(`testEmail`) and shows them (`Show`). `field[p]` is the sender in the form, which a
save sends back whether it was changed or not. `mail[m]` is an e-mail sent at once:
`getResendClient` reads the key and makes a client, `sendWelcomeEmail` reads the
sender. `torn`, `due` are auxiliaries: somebody wrote since; what the page should show.

### 2.5 Publishing

| Model | Code |
|---|---|
| `publications`; `createPublication`, `updatePublication`, `ClaimSlug`, `ClaimFails` | slug lookup, then insert or update under the unique index |
| `articles`, `used`; `Create`, `uniqueSlug`, `InsertArticle`, `InsertFails` | `create`: one probe per await; the unique index decides in the end. A slug is a base and a number |
| `PatchArticle`, `Update`, `WriteUpdate`, `UpdateFails` | `update`: owner check and comparison with the row read, the write after an await |
| `publish`, `schedule`, `delete`, `WriteChange`, `ChangeFails` | the same for the three single-field changes |
| `tab[k]`; `handleSaveDraft`, `handlePublish`, `SaveAnswered`, `PublishAnswered`, `LoseAnswer`, `OpenEditor` | the editor: `savedId`, the two disabled buttons, a lost answer |
| `page`; `findBySlug`, `ShowArticle`, `NotFound` | the article page: two lookups, then what the web server keeps of the answer |

A `Patch` may leave fields out, and `Given` keeps what the row has for them, as `update`
does; a payload with all fields stands for a request whose missing fields were filled
with the DTO's defaults. The schedule button is not disabled while an article is being
published, the other two buttons are. HTML is known by the text it was rendered from.
`released`, `overlapped` and `mine` are auxiliary histories. Requests of somebody who is
not the owner are refused before anything changes, so all requests are the owner's. That
a revalidated page may be a minute old shows as `page` keeping its value for as long as
it likes.

### 2.6 Sessions

| Model | Code |
|---|---|
| `accounts`, `verified`, `links`, `stored` | table `users`, the maps `verificationTokens` and `refreshTokens` of `AuthService` |
| `shown`, `bearer`, `jar` | the persisted store of `useAuth`, its access token, the two httpOnly cookies |
| `Register`, `CreateUser`, `CreateUserFails`, `Login`, `OpenLink`, `VerifyEmail`, `Sign`, `Store` | `auth.service.ts`; `generateTokenPair` signs, awaits and stores |
| `TakeCookies`, `SignedIn` | an answer to a sign-in: `fetch` resolves with its cookies in the jar; then, the body awaited, the store shows the user |
| `Send`, `Serve`, `Refuse`, `Answered` | `fetchAPI`, `JwtStrategy` (cookie first), the guard |
| `tryRefreshToken`, `refreshToken`, `RefreshRefused`, `RefreshGranted`, `GiveUp` | the refresh on a 401, on both sides; a granted one goes through `TakeCookies`, too |
| `Lose`, `Restart`, `Tick` | lost answers and failing writes; the maps are gone; time |

Between an answer's cookies and its body (`HalfRead`) the browser may send requests of the
user still shown with the cookies of the one to come, so `Sender` names nobody for
them. `mixed` is an auxiliary: two such answers overlapped, or a body was lost, and
what is in the jar need not be the shown user's until a later answer is read. `mailed`
is when a link was mailed; it is `Fresh` for `LinkLife`, the e-mail's 24 hours, of which
the server knows nothing. A `create` that throws may have been committed: that account
never gets a link.

A token is its user and the second it was signed. One tab to a browser, and the page
and the API share an origin (`SameOrigin`), as behind one host name; with the default
`NEXT_PUBLIC_API_URL`, another port, the browser keeps no cookies and every refresh is
refused. The proofs cover both. The server's logout route has no caller.

### 2.7 Reports, conversions, listings

`Reports` has the tables as variables, changed by the steps of webhooks and payouts, and
each report as an operator: `getRevenueAnalytics` with its monthly buckets,
`getPendingBalance`, `getRevenueBreakdown`, `getOverview`, `getArticleAnalytics`,
`exportSubscribers`. The statements of one report are taken at one moment. Two clocks
read the dates: `now` counts hours by the server's own, by which `setHours` and
`getMonth` go, and `Offset` is how far it is ahead of UTC. The two dates of a report are
parsed as midnights of UTC (`StartOf`), and the second is then moved to 23:59:59.999 of
the day it falls on by the server's clock (`EndOf`). An undated article has no new
subscribers; a dated one has those of its publication only (`NewSubscribers`). Amounts
come from `Fees` in kopecks: `Math.round` of a rational in thousandths, all in integers,
which agrees with the code's doubles for every amount far below 2^53.

`Conversions` models texts as sequences of characters, with one letter for each way
the code treats letters, one character for a tag. `Errors` lets a double be a
thousandth of a kopeck off in either direction. `Listings` walks
`findByPublicationSlug`: two statements per page, offset pagination, `LIMIT` of 50 (2
in the run), rows without a date first and in any order.

## 3. Runs

| Run | Bounds | Shows |
|---|---|---|
| `subscriptions` | 2 users, 1 publication, 1 charge, 2 handlers, 2 rows, 2 deliveries, period 2, faults | `AwaitedRowsFit`, `PaymentsCharged`, `SubscriptionBacked`: what a handler remembers still fits when it commits, and the tables agree; `ImplementsLedger`; `UncancelledEndsByLapse`; `TypeOK`. The checks before the writes fail only where two requests of one kind overlap: `DuplicateNeedsTwins`, `SecondFreeNeedsTwins` |
| `subscriptions_live` | 1 charge, 2 handlers, 2 rows, 2 deliveries, no faults | `GraceResolved`, `ChargeRecorded` |
| `payouts` | 2 authors with a subscription each, charges of 2 against a minimum of 4, 3 payment rows, 1 save, 1 fault | `NeverOverpaid`, `PaidToOwnAccount`, `EarningsPaidOut`, `TypeOK` |
| `email` | 2 readers, 1 fan-out at a time, up to 2 jobs of 2 attempts, 1 event, faults; on its own, 2 pages and 1 save while e-mails leave | `OneDeliveryRow`, `SentWasAccepted`, `ImplementsMailing`; `ShownIsUsed`, `SaveTakesEffect` |
| `readers` | 2 readers, 2 fan-outs at a time, up to 2 jobs of 1 attempt, bounce limit 2, 1 event, 1 change of a subscription, faults | `NobodyForgotten`, `UnsubscribeJustified` |
| `publishing` | 2 publications, 2 slugs, 2 articles, 1 editor, 2 requests, 5 changes, faults | `ShownWasReleased`, `OneDraftPerEditor`, `RenderedUnlessOverlapped` |
| `sessions` | 2 users, one of them registered before the server started, 1 browser, 2 calls, tokens of 1 and 2 units, a link of 1, 1 tick, faults | `ShownUserActs`, `LinkUntilVerified`, `CallSettles` |
| `reports` | prices to 3000 kopecks with each processor; 2 payments, 6 hours of 3-hour days and 2-day months, a server one hour ahead of UTC; texts to 4, 7 and 4 characters; 3 articles in pages of 1 or 2, 3 changes | `PayoutWithinOneKopeck`, `PayoutPositive`, `DearerPaysNoLess`, `AmountSurvives`; `RevenueAddsUp`, `PastNeverGrows`, `ViewsAgree`, `DashboardsAgree`; `SlugsNormal`, `TypedIsRead`, `TeasersStayShort`; `WalkMissesNothing` |

Why the bounds are enough to be interesting. A hazard between two actors needs two
handlers (calls, requests, pages) and one or two rows. Replays need two deliveries;
matching a charge with the wrong row needs two payers. A balance that accumulates needs
a charge below the minimum and two that reach it; the row that appears, fails or is
restored between two reads of the run is a third. In `email`, two attempts are a first
and a last one; in `readers` the one attempt is the last, which books a bounce, so that
the limit of 2 is reached by one event and one bounce of the worker or by two of the
latter, while two fan-outs overlap and a subscription changes; `MaxStalls` is 0, as a
stalled job that comes back is like one that threw, but for the count. In `publishing`,
five changes are a publication, a first save, its publication and two updates that
overlap. In `sessions` the second user needs a sign-out and a sign-in while a call of
the first is under way; one tick expires the access token and the link, but not the
refresh token. Symmetry is used in runs of invariants only. In `reports` six hours are
two days and the beginning of a third and of a second month, and the hour between the
clocks leaves one of every three outside both neighbouring ranges; the invariants hold
as well on a server behind UTC (`Offset = -1`).

`MCReports` and `MCEmailDelivery` put independent parts side by side in one run: each
part only moves while the others are at their start, so the states add up instead of
multiplying.

`CHECK_DEADLOCK FALSE` stands where bounded runs end: `reports` (all prices walked, all
changes made), `email` and `readers` (all jobs done, all events received), `publishing`
(all changes made, and no publication at the address that is watched). All others check
for deadlock.

Runs that are expected to find a violation. Each contrasts one statement of a
document or a comment with the code (`PROJECT.json`, "findings", quotes them):

| Run | The code |
|---|---|
| `payment_misdirected` | a charge activates the newest pending subscription, whoever paid |
| `saved_details_lost` | details saved while a payout is created are shadowed by its older copy |
| `session_dies` | a refresh the server grants, rotating its token, signs the user out |
| `stale_html` | two overlapping updates leave the Markdown of one beside the HTML of the other |

`RenderedUnlessOverlapped` and `HtmlIsRendered` stand on both sides on purpose: the
first says that nothing but an overlap of two updates makes the second false.

### Fairness

- `Subscriptions`: `WF(Tick)`, `WF(checkGracePeriods)`: time passes and the hourly cron
  keeps firing while the process is up (the liveness run has no crashes).
  `WF(Continue(h))`: a started request goes on. `SF(\E h : Deliver(h, e))`: a processor
  goes on sending an event until it is acknowledged or gives up; strong because the
  number of handlers bounds the model, not the server.
- `Payouts`: `WF(MonthTurns)`, `WF(ProcessPayouts)`: months go by, and the run the
  schedule started goes on.
- `EmailDelivery`: `WF(handleSendEmail)`: Bull hands the worker the next job and the
  job's calls return or throw. Nothing is assumed of fan-outs, webhooks and crashes.
- `Sessions`: `WF(Continue(c))` for each call: requests are answered or, by `Lose`,
  fail. Nothing is assumed of people.

## 4. Proofs

All theorems hold for any sets of users, rows, transactions, requests, pages and
texts, any bounds, with or without faults, under the named assumptions on the
constants only. Sets that the code or a bound counts are finite: requests in flight
(`HandlersAssumption`), subscriptions and webhooks of the mailing (`FiniteAssumption`),
tips (`TipsAssumption`), articles of a list (`ArticlesAssumption`).

| Module | Theorems | Inductive invariant and why |
|---|---|---|
| `SubscriptionsProofs` | `InductiveInvariant`, `TypeCorrect`, `AwaitsAreSafe`, `NoPaymentWithoutCharge`, `TablesAgree`, `EndsOnlyByCancelOrLapse` | `IInv`: `TypeOK`, `AwaitedRowsFit`, `PaymentsCharged`, `SubscriptionBacked`. A payment row is written from what a handler chose several steps of others ago, so the last two need the second; it survives because rows are appended and keep their type and transaction |
| | `RowsStayBounded`, `LedgerImplemented` | `RowsBounded`: the rows and those being created fit the bound. The refinement `Spec => Ledger!Spec` needs it, as the abstract table is about subscriptions `1 .. MaxSubs` |
| | `DuplicateNeedsTwinWebhooks`, `DuplicateNeedsTwinSubscribers`, `MisdirectedNeedsRivals`, `OneAtATime` | see below |
| `PayoutsProofs` | `PaidToSavedDetails` | `AInv`: the account a run carries to its `create` was saved by its author (`AccountHeld`). Details are copied from row to row, so each goes back to a row its author saved |
| | `PayoutsTyped`, `NobodyOverpaid` | `PInv`: what the run has read or is about to pay is covered by the highest sum of earnings there was (`WithinPeak`). The sum read misses payments and the balance is old when it is paid, but both err downwards, and only the run adds to what was paid |
| | `DetailsLostOnlyMidRun` | `DetailsInv`: the account the run carries is still that of the newest row |
| `EmailProofs` | `TypeCorrect`, `NoSecondRow`, `SentLeft`, `EverybodyQueued` | `DInv`: the worker's row is of its job's article and reader, there is none yet when it is about to create one, and "sent" is only booked after Resend accepted (`WorkerFits`). `FInv`: jobs are numbered by batches, so `addBulk` never overwrites one (`JobsNumbered`); from its look-up on a fan-out carries every subscription that is active, but those that became so later (`FanOutKnowsAll`) |
| | `MailingSteps` | `MInv`: the job in the worker is active. The initial state and every step of `EmailDelivery` map to one of `ArticleMailing` or to a stutter |
| | `UnsubscribedForCause` | `UInv`: every row that is "bounced" now is in the books (`Booked`), and a webhook's handler goes on to unsubscribe only a reader who has a cause (`HookJustified`). It survives other steps because the books only grow and a row keeps its reader |
| | `ShownIsWhatIsUsed`, `SavesTakeEffect` | `SInv`, of `Settings`: a call that nobody disturbed has read, at each of its steps, what is still so, and is due what its page typed (`CallFits`); the same for pages and e-mails (`ShownFits`, `MailFits`) |
| `PublishingProofs` | `TypeCorrect`, `OnlyReleasedShown`, `HtmlFollowsMarkdown`, `OneDraft` | `OffersReleased`: whatever the table offers now is in `released`. `RInv`: ids are never reused (`IdsSpent`), an article without an overlap has one update under way (`UpdatesAlone`), whose comparison is still what the row says (`UpdatesFresh`). `OInv`: an editor's save is alone, and what it made is known to the editor or on its way (`DraftOf`) |
| `SessionsProofs` | `TypeCorrect`, `LinkKept`, `NobodyActsForAnother` | `IInv`: the header of a browser belongs to the user it shows (`BearerFits`); so do its cookies, unless an answer is half read, whose user they then belong to, or the browser is `mixed` (`JarFits`); of another origin there are no cookies (`JarEmpty`), and what a request carries was its sender's when it was sent (`RequestsFit`). It rests on a refresh that is granted signing the user out, the divergence of `session_dies` |
| `ReportsProofs` | `PayoutIsAccurate`, `PayoutIsPositive`, `PayoutIsMonotone`, `PriceComesBack` | none but the type: arithmetic, from lemmas that bound `Round` by the exact quotient |
| | `EveryKopeckReported`, `ViewsTellTheSame`, `PastIsClosed` | `MoneyInv`: every row is split to the last kopeck and dated in the past. The rest is about sums of such rows: over a range cut in two ranges and the hours between the clocks, over buckets, with one row changed. Both ends of a range move by whole days, whatever the offset |
| | `ReadersCountedOnce` | `AudienceInv`: readers are finitely many, of some publication, and started in the past; each start is within one day |
| | `ReaderMissesNothing` | `ListsInv`: `StayedListed`, `AskedSoFar`, `ListedSoFar`. An article's place in the list is how many are ahead of it (`Rank`); as long as nothing was removed the places of those who stayed only grow, so whoever is ahead of the reader was seen. Walks that a change tore between the two statements of a page are left out |
| `ConversionsProofs` | `AddressesNormal` | the text is a sequence of any characters. Each step of `slugify` and of `transliterateToSlug` leaves what the next one relies on: no runs, no hyphen at an end (`Normal`), which is a fixed point of all of them; both maps write a letter other than short i alike |
| | `WhatIsTypedIsRead`, `CsvOfAnyList` | every character is escaped by itself although the entities are put in one after the other (`EscapedAlone`), so reading undoes it character by character; where the reader of a CSV stands after a field, a row, a list (`ReadField`, `ReadRow`), for any list of subscribers and any characters |
| | `TeasersShort` | `BoundaryIsCut`: the last space within the limit ends a word, since a stripped text begins with none |
| `Tables` | lemmas: `NewestRow`, `RowAdded`, the theory of finite sums, quotients; `TextInduction`, `FoldedStep`, `FlattenStep`, `SpelledConcat` | |

Type correctness is proved for every module with state, as a part of the invariants for
`Settings`, `Reports` and `Listings`.

**When the checks before the writes hold.** `TxRecordedOnce` and `OneLiveFree` are false
of the code when requests overlap. The run `subscriptions` checks, and the theorems
prove, which overlap breaks which: each holds in every behaviour, with any number of
requests, replays and crashes, in which two handlers are never both between the lookup
and the write for one transaction (`NoTwinWebhooks`), or are never both about to create
a free row for one reader (`NoTwinSubscribers`). The invariants (`StillUnpaid`,
`StillUnsubscribed`) say that what a handler found absent still is. `OneAtATime`
follows. In the same way `MisdirectedNeedsRivals` and `DetailsLostOnlyMidRun` confine
the disagreements of the runs `payment_misdirected` and `saved_details_lost`: a charge
goes to its own checkout unless another one is pending when the webhook looks
(`NoRivalCheckouts`), and details that were saved are used unless they were saved while
the run held older ones of that author (`SavesWait`); `RenderedUnlessOverlapped` does so
for `stale_html`. These hypotheses restrict behaviours, not the constants, and the runs
that find the violations are the behaviours they exclude.

**What the theorems on reports and texts are about.** The run `reports` walks prices,
then tables, then texts, then lists; `ReportsSpec` frees the tables from the run's bounds
and small sets (any sequence of payments, any number of readers and e-mails), and
`TextsSpec` the texts (any length, any characters). `RunsAreOfThese` proves that every
behaviour of the run is one of `Spec` of `Fees`, of `ReportsSpec`, of `ListsSpec` and of
`TextsSpec`.

**Sums.** The reports add up columns with the community modules' `SumFunction`, whose
definition is recursive. `Tables` proves of it what the reports need (a sum over disjoint
sets, a changed row, monotonicity, scaling, counting) without induction over data: the
sets of rows for which such a fact fails have a smallest one by the library's
well-foundedness of finite subsets, and its predecessor gives the contradiction.

**Texts.** The loops over a text are the community modules' `FoldLeft` and `FlattenSeq`,
defined with a function that is chosen. `Tables` shows that such a function exists and
that two of them agree, so that a character more means one step more (`FoldedStep`,
`FlattenStep`). The induction over characters is again not one with an operator: a *set*
of texts that has the empty one and, with a text, that text and a character more, has all
of them (`TextInduction`), because the lengths for which it fails would have a smallest.
Each loop of the model is then shown to take the steps of a function
(`RunsReplacedStep`, `EscapingStep`, `CsvReaderStep`, ...), once, as its step is an
operator's argument.

**Only model-checked.** Liveness: `GraceResolved`, `ChargeRecorded`, `EarningsPaidOut`,
`CallSettles` and the fair part of `ImplementsMailing`; fairness and ENABLED are beyond
the prover. Every invariant and every action property of the passing runs is proved.

## 5. What could follow

`paid_enabled` and prices switched while checkouts are pending. Several tabs to a
browser, which share cookies but not the moment they notice. The masked answer of
`getAll` and the sanitizing of HTML.

## 6. Not modelled

- Signatures of webhooks, which are accepted or refused before the models begin, and
  payment URLs: cryptography and formatting. The references a checkout makes are in
  `Conversions`.
- The patterns that sanitize and render Markdown (`articles.utils.ts`): a question of
  regular expressions. The models know which text HTML was made from.
- Names, avatars, descriptions and prices of publications, the masking of keys: data
  without a decision.
- The health probe, the shared types and schemas (which the backend does not import),
  migrations and the seed; the pages that only render answers.
- Tips, referrals, recommendations, administration: empty modules. The sums over tips
  are in `Reports`.

## 7. Disagreements met while modelling

Besides the four runs above, these were met while reading the code for the models.
They need no schedule of steps to show, or are what the models say of two requests at
a time where documents promise more; the models follow the code.

Access. A subscription that is cancelled is `cancelled` from that moment: articles go to
`active` rows, lists and exports to `active` and `grace_period`, and no query or cron
looks at its `expires_at` again, against the comment at `subscriptions.service.ts:190-193`,
`docs/test-scenarios.md:192-198`, `docs/Refinement.md:135-141` and
`docs/Pseudocode.md:661`. `UncancelledEndsByLapse` is
therefore about subscriptions nobody cancelled; how soon a cancelled one should lose
access is not its subject. In a grace period newsletters stop, as they go to `active`
rows only, where `docs/test-scenarios.md:185` keeps full access.

Payments. A renewal, as `docs/test-scenarios.md:181-187` and
`docs/Pseudocode.md:316,659` describe it, is a second charge of one subscription. The
code has no place for it: with no pending row there is nothing to book it on, and with
one it pays for that row, another reader's maybe (`payment_misdirected`). That a charge
is recorded in the end (`ChargeRecorded`) is about charges that find their row. The
platform's fee is rounded where `docs/Pseudocode.md:328-330` has FLOOR and leaves the
rest to the author. The properties of a charge are about the code's rounding: under the
documented formula `PayoutWithinOneKopeck` and `DearerPaysNoLess` would both fail (59
kopecks by CloudPayments would pay 53 where the rates leave 51.625; 19 would pay 18, and
20 only 17). A webhook whose handling throws is acknowledged all the same and never
comes again. Two concurrent deliveries of one success webhook create two payment rows
(`docs/test-scenarios.md:210`, `docs/Refinement.md:14`), and two concurrent requests two
live subscriptions to a publication (`schema.prisma:183`): nothing but that overlap does
so (`DuplicateNeedsTwins`, `SecondFreeNeedsTwins`). The failure of a renewal finds no
payment row and changes nothing, where `docs/test-scenarios.md:182` has a grace period.
`main.ts` does not set `rawBody`, which the signature checks read.

Payouts. An author without bank details is paid to the placeholder `'{}'`, and the balance
is gone, where `docs/test-scenarios.md:293-298` holds the payout and lets the balance
grow.

Articles. The editor's publish button always creates an article, also after a save,
and never calls the publish and schedule routes: `published_at` stays empty, the date
of a scheduled article is dropped, and nothing publishes it when its time comes.
`findBySlug` sends an excerpt of a paid article to everybody, paying subscribers too
(`docs/test-scenarios.md:81`). The list is public, so its `isOwner` is always false and
the author's own list never has drafts (`articles.controller.ts:83`); it asks for 100
articles and gets at most 50. `delete` removes the row, against its comment
(`articles.service.ts:368`). Growth counts every row that was ever started, cancelled
ones too.

E-mail. `sendArticleToSubscribers`, `sendVerificationEmail` and `sendPaymentFailedEmail`
have no callers. A complaint or a bounce is booked on the newest open delivery, whoever
got it, and that reader is unsubscribed, where `docs/test-scenarios.md:246-260` and
`docs/Refinement.md:171-175` mean the one who complained; `UnsubscribeJustified` says
only that no other reader's bookings count. Who becomes active between a fan-out's
look-up and its `email_sent` is not mailed the article, nor is anybody by a later
fan-out. The worker that mails articles uses the key and the sender of the environment
only, while the settings page presents its key as the one for mailing subscribers. The
welcome e-mail does not escape the name of the publication and does not look at Resend's
error. The button of a teaser leads to `/p/<publication>`, where there is no page (the
publication's is `/<publication>`), and a teaser escapes again what the excerpt left
escaped: `generateExcerpt` removes tags and keeps entities, where its comment says
"plain text". A paid article shorter than an excerpt is in its excerpt as a whole.

Addresses and dates. The short i is "j" in addresses of articles and "y" in those of
publications. A publication may take the address of a page of the site. The dates
of a report begin at midnight of UTC and end at 23:59:59 by the server's clock
(`analytics.controller.ts:96-108`), and nothing sets the server's zone: away from UTC the
second day is cut short, so that the hours between the clocks are in neither of two
neighbouring reports, and income is in none of them until somebody asks for a longer
range. West of UTC the end falls on the day before the one asked for, since the date is
still yesterday there. Months and days of other figures are the server's.

Sessions. A verification link works until it is used or the server restarts, where its
e-mail gives it 24 hours (`email.service.ts:242`) and the error speaks of an expired one
(`auth.service.ts:242`). An account whose `create` was committed but threw
never gets a link, and cannot be registered again. Between the cookies of an answer and
its body a request goes out with the cookies of one user while another is shown; the
same after a body was lost or two such answers overlapped. `ShownUserActs` leaves exactly
these requests out.

Frontend. Calls to the API send no credentials to another origin but for the refresh.
A settings page writes back the sender it loaded with every save. The payouts page
reads fields the breakdown does not have, the dashboard and the subscribers page call
routes that do not exist, and the subscribe form sends an address where the route
expects an id.
