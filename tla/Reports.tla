------------------------------- MODULE Reports -------------------------------
(***************************************************************************)
(* What an author is told about the money and the readers: the revenue     *)
(* report and the overview of AnalyticsService, and the revenue breakdown  *)
(* and pending balance of PayoutsService.  The same tables are summed up   *)
(* in several places of the code, in different words.                      *)
(*                                                                         *)
(* The money tables change as the webhooks and the monthly run change      *)
(* them; a report is an operator of their state, here for one author.      *)
(***************************************************************************)
EXTENDS Fees, Sequences, FiniteSetsExt

CONSTANTS
    Tips,           \* completed tips, which only the seed of the database has
    Price,          \* paid_price_monthly of each publication
    HoursPerDay, DaysPerMonth,   \* of a calendar shortened for the runs
    Offset,         \* hours the server's clock is ahead of UTC, or behind
    Weekly, Monthly,             \* days of the two growth figures: 7 and 30
    MINIMUM_PAYOUT,
    MaxHours,       \* bound: hours that pass
    MaxPayments     \* bound: rows of payments

ASSUME TipsAssumption ==
    /\ IsFiniteSet(Tips)
    /\ \A t \in Tips : t.amount \in Nat /\ t.platform_fee \in 0 .. t.amount /\ t.created_at \in Nat
ASSUME PriceAssumption ==
    IsFiniteSet(DOMAIN Price) /\ \A p \in DOMAIN Price : Price[p] \in Nat
ASSUME MinimumAssumption == MINIMUM_PAYOUT \in Nat \ {0}
ASSUME CalendarAssumption ==
    /\ {HoursPerDay, DaysPerMonth, Weekly, Monthly} \subseteq Nat \ {0} /\ Weekly <= Monthly
    /\ Offset \in 1 - HoursPerDay .. HoursPerDay - 1

VARIABLES
    now,        \* hours since the first day began by the server's clock
    payments,   \* rows of table payments
    paidOut,    \* sum of table payouts
    sent,       \* of each recent article, its deliveries, counted by status
    subs        \* rows of table subscriptions

money == <<now, payments, paidOut>>
tables == <<money, sent, subs>>

-----------------------------------------------------------------------------
(* Slips a maintainer could make below, to see that the properties notice. *)

MutRefreshedKeepsDate(row) == [row EXCEPT !.status = "completed"]
MutEndOfNextMidnight(date) == (date + 1) * HoursPerDay + Offset
MutTipNetGross(t) == t.amount
MutDayEndIncluded(article) ==
    {s \in subs : LET day == article.published_at \div HoursPerDay
                  IN  /\ s.publication = article.publication
                      /\ day * HoursPerDay <= s.started /\ s.started <= (day + 1) * HoursPerDay}

-----------------------------------------------------------------------------
(* Dates.  Days begin at midnight of the server's clock; the two dates of  *)
(* a report are read as midnights of UTC, and the second one is then moved *)
(* to the end of the day it falls on by the server's clock.                *)

DayOf(hour) == hour \div HoursPerDay

MonthOf(hour) == hour \div (HoursPerDay * DaysPerMonth)

Midnight(day) == day * HoursPerDay

StartOf(date) == Midnight(date) + Offset

EndOf(date) == Midnight(DayOf(StartOf(date)) + 1) - 1

\* A report from a later day to an earlier one is refused.
Accepted(from, to) == from <= to

Within(hour, from, to) == StartOf(from) <= hour /\ hour <= EndOf(to)

-----------------------------------------------------------------------------
(* The tables change. *)

NewPayment(processor, amount) ==
    [amount |-> amount, platform_fee |-> PlatformFee(amount),
     processor_fee |-> calculateProcessorFee(processor, amount),
     author_payout |-> AuthorPayout(processor, amount),
     paid_at |-> now, status |-> "completed"]

\* What a repeated or late success webhook makes of the row.
Refreshed(row) == [row EXCEPT !.status = "completed", !.paid_at = now]

NothingSent == [s \in {"sent", "opened", "clicked"} |-> 0]

TablesInit ==
    /\ now = 0 /\ payments = <<>> /\ paidOut = 0
    /\ sent = <<NothingSent, NothingSent>> /\ subs = {}

Charge(processor, amount) ==
    /\ Len(payments) < MaxPayments
    /\ payments' = Append(payments, NewPayment(processor, amount))
    /\ UNCHANGED <<now, paidOut, sent, subs>>

ReversePayment(k) ==
    /\ payments' = [payments EXCEPT ![k].status = "failed"]
    /\ UNCHANGED <<now, paidOut, sent, subs>>

RestorePayment(k) ==
    /\ payments' = [payments EXCEPT ![k] = Refreshed(@)]
    /\ UNCHANGED <<now, paidOut, sent, subs>>

HourPasses ==
    /\ now < MaxHours
    /\ now' = now + 1
    /\ UNCHANGED <<payments, paidOut, sent, subs>>

-----------------------------------------------------------------------------
(* Revenue: AnalyticsService.getRevenueAnalytics. *)

Completed == {k \in DOMAIN payments : payments[k].status = "completed"}

\* No processor fee is recorded for a tip.
TipNet(t) == t.amount - t.platform_fee

Totals(ks, tips) ==
    [totalRevenue  |-> SumFunction([k \in ks |-> payments[k].amount])
                         + SumFunction([t \in tips |-> t.amount]),
     platformFees  |-> SumFunction([k \in ks |-> payments[k].platform_fee])
                         + SumFunction([t \in tips |-> t.platform_fee]),
     processorFees |-> SumFunction([k \in ks |-> payments[k].processor_fee]),
     netPayout     |-> SumFunction([k \in ks |-> payments[k].author_payout])
                         + SumFunction([t \in tips |-> TipNet(t)])]

PaymentsWithin(from, to) == {k \in Completed : Within(payments[k].paid_at, from, to)}

TipsWithin(from, to) == {t \in Tips : Within(t.created_at, from, to)}

getRevenueAnalytics(from, to) == Totals(PaymentsWithin(from, to), TipsWithin(from, to))

\* The bucket of one month in the same report.
Bucket(from, to, month) ==
    LET ks   == {k \in PaymentsWithin(from, to) : MonthOf(payments[k].paid_at) = month}
        tips == {t \in TipsWithin(from, to) : MonthOf(t.created_at) = month}
    IN  [revenue |-> Totals(ks, tips).totalRevenue, net |-> Totals(ks, tips).netPayout]

-----------------------------------------------------------------------------
(* Balances: PayoutsService. *)

getPendingBalance ==
    LET earned == SumFunction([k \in Completed |-> payments[k].author_payout])
                    + SumFunction([t \in Tips |-> TipNet(t)])
    IN  Max({0, earned - paidOut})

getRevenueBreakdown ==
    LET gross == SumFunction([t \in Tips |-> t.amount])
        fees  == SumFunction([t \in Tips |-> t.platform_fee])
        net   == SumFunction([k \in Completed |-> payments[k].author_payout]) + gross - fees
    IN  [pendingBalance        |-> Max({0, net - paidOut}),
         lifetimeRevenue       |-> SumFunction([k \in Completed |-> payments[k].amount]) + gross,
         lifetimePlatformFees  |-> SumFunction([k \in Completed |-> payments[k].platform_fee]) + fees,
         lifetimeProcessorFees |-> SumFunction([k \in Completed |-> payments[k].processor_fee]),
         lifetimeNet           |-> net]

PayOut ==
    /\ getPendingBalance >= MINIMUM_PAYOUT
    /\ paidOut' = paidOut + getPendingBalance
    /\ UNCHANGED <<now, payments, sent, subs>>

TablesNext ==
    \/ \E k \in DOMAIN payments : ReversePayment(k) \/ RestorePayment(k)
    \/ HourPasses
    \/ PayOut

-----------------------------------------------------------------------------
(* Readers: the overview and the article report of AnalyticsService, and   *)
(* the export.                                                             *)

Live == {"active", "grace_period"}

\* Math.round(part / whole * 10000) / 100, in hundredths of a percent.
Rate(part, whole) == IF whole > 0 THEN Round(part * 10000, whole) ELSE 0

Opens(a) == sent[a]["opened"] + sent[a]["clicked"]

Deliveries(a) == SumFunction(sent[a])

getArticleAnalytics(a) ==
    [emailDeliveries |-> Deliveries(a), opens |-> Opens(a), clicks |-> sent[a]["clicked"],
     openRate |-> Rate(Opens(a), Deliveries(a)),
     clickRate |-> Rate(sent[a]["clicked"], Deliveries(a))]

Undated == -1

\* Its publication's subscriptions that began on the day an article was published.
NewSubscribers(article) ==
    IF article.published_at = Undated THEN {}
    ELSE LET day == DayOf(article.published_at)
         IN  {s \in subs : /\ s.publication = article.publication
                           /\ Midnight(day) <= s.started /\ s.started < Midnight(day + 1)}

\* Days are counted back from this very hour, and lost subscribers stay counted.
Growth(days) == Cardinality({s \in subs : s.started >= now - days * HoursPerDay})

LivePaid == {s \in subs : s.status \in Live /\ s.type = "paid"}

getOverview ==
    [totalSubscribers |-> Cardinality({s \in subs : s.status \in Live}),
     paidSubscribers  |-> Cardinality(LivePaid),
     mrr              |-> SumFunction([s \in LivePaid |-> Price[s.publication]]),
     emailOpenRate    |-> Rate(SumFunction([a \in DOMAIN sent |-> Opens(a)]),
                               SumFunction([a \in DOMAIN sent |-> Deliveries(a)])),
     growth           |-> [last7d |-> Growth(Weekly), last30d |-> Growth(Monthly)]]

exportSubscribers == {s \in subs : s.status \in {"active", "grace_period"}}

getSubscribersByPublication(p) ==
    {s \in subs : s.publication = p /\ s.status \in {"active", "grace_period"}}

\* Articles are sent, subscriptions come and go.
AudienceChanges(counts, rows) ==
    /\ sent' = counts /\ subs' = rows
    /\ UNCHANGED money

-----------------------------------------------------------------------------
Today == DayOf(now)

Ranges == {r \in (0 .. Today + 1) \X (0 .. Today + 1) : Accepted(r[1], r[2])}

\* Hours between the end of a range and the beginning of the next day's.
Between(hour, date) == EndOf(date) < hour /\ hour < StartOf(date + 1)

LeftOut(date) == Totals({k \in Completed : Between(payments[k].paid_at, date)},
                        {t \in Tips : Between(t.created_at, date)})

(* Every kopeck of a report is somebody's: the gross revenue of any range  *)
(* is the two fees and the author's part, and the months of the report add *)
(* up to its totals, although they are summed up separately.  No income is *)
(* in the reports of two neighbouring ranges, and what is in neither was   *)
(* confirmed in the hours that the two clocks leave between them.          *)
RevenueAddsUp ==
    \A r \in Ranges :
        LET report == getRevenueAnalytics(r[1], r[2])
            months == 0 .. MonthOf(Midnight(r[2] + 1))
        IN  /\ report.totalRevenue
                  = report.platformFees + report.processorFees + report.netPayout
            /\ report.totalRevenue = SumFunction([m \in months |-> Bucket(r[1], r[2], m).revenue])
            /\ report.netPayout = SumFunction([m \in months |-> Bucket(r[1], r[2], m).net])
            /\ \A date \in r[1] .. r[2] - 1 :
                  report.totalRevenue = getRevenueAnalytics(r[1], date).totalRevenue
                                          + LeftOut(date).totalRevenue
                                          + getRevenueAnalytics(date + 1, r[2]).totalRevenue

(* The report of days that are over never grows: whatever webhooks come    *)
(* late, income is booked on the day it is confirmed.                      *)
PastNeverGrows ==
    [][\A r \in Ranges :
          r[2] < Today => getRevenueAnalytics(r[1], r[2])'.totalRevenue
                              <= getRevenueAnalytics(r[1], r[2]).totalRevenue]_tables

(* The analytics page, the payouts page and the monthly run tell an author *)
(* of the same money: everything earned so far is the breakdown's net, and *)
(* the balance shown is the balance the run would pay.  The report is from *)
(* the day before the first to tomorrow: today's is still open behind UTC. *)
ViewsAgree ==
    LET report == getRevenueAnalytics(-1, Today + 1)
        future == {t \in Tips : t.created_at > EndOf(Today + 1)}
        shown  == getRevenueBreakdown
    IN  /\ shown.lifetimeNet = report.netPayout + SumFunction([t \in future |-> TipNet(t)])
        /\ shown.lifetimeRevenue = report.totalRevenue + SumFunction([t \in future |-> t.amount])
        /\ shown.pendingBalance = getPendingBalance

(* The dashboards agree on the readers.  No article is clicked more than   *)
(* opened, and the overview's open rate lies between its articles' rates   *)
(* in spite of the rounding.  Nobody is left out and nobody counted twice: *)
(* the overview counts whom the export and the lists of the publications   *)
(* name, every subscription is new on exactly one day, for the articles of *)
(* its publication, and growth, which looks back by hours, lies between    *)
(* what the days it covers in full and in part would say.                  *)
DashboardsAgree ==
    LET rates == {getArticleAnalytics(a).openRate : a \in DOMAIN sent}
        new(day) == SumFunction([p \in DOMAIN Price |->
                        Cardinality(NewSubscribers([publication |-> p, published_at |-> Midnight(day)]))])
        newSince(day) == SumFunction([d \in day .. Today |-> IF d < 0 THEN 0 ELSE new(d)])
        grown == getOverview.growth
    IN  /\ \A a \in DOMAIN sent :
              getArticleAnalytics(a).clickRate <= getArticleAnalytics(a).openRate
        /\ Min(rates) <= getOverview.emailOpenRate /\ getOverview.emailOpenRate <= Max(rates)
        /\ getOverview.totalSubscribers = Cardinality(exportSubscribers)
        /\ exportSubscribers = UNION {getSubscribersByPublication(p) : p \in DOMAIN Price}
        /\ Cardinality(subs) = newSince(0)
        /\ newSince(Today - Weekly + 1) <= grown.last7d /\ grown.last7d <= newSince(Today - Weekly)
        /\ grown.last7d <= grown.last30d /\ grown.last30d <= newSince(Today - Monthly)
=============================================================================
