------------------------------- MODULE Payouts -------------------------------
(***************************************************************************)
(* PayoutsService: the monthly cron that pays authors what they earned and *)
(* the bank details it pays them to, which live in the payouts table too.  *)
(*                                                                         *)
(* The cron awaits the database for every aggregate it reads, so payments  *)
(* and saved bank details arrive between its steps.  The platform runs one *)
(* server process, hence one cron.                                         *)
(***************************************************************************)
EXTENDS Integers, Sequences, FiniteSetsExt

CONSTANTS
    Authors,         \* users with role author
    Subs, AuthorOf,  \* subscriptions, and the author of each one's publication
    Txs, Net,        \* transactions, and the author_payout of each one's charge
    Accounts,        \* bank details an author may enter
    MINIMUM_PAYOUT,
    MaxPayments,     \* bound: rows of payments
    MaxSaves,        \* bound: times bank details are saved
    MaxFaults        \* bound: database calls that throw, crashes of the process

ASSUME EarningsAssumption ==
    /\ AuthorOf \in [Subs -> Authors]
    /\ Net \in [Txs -> Nat]
    /\ MINIMUM_PAYOUT \in Nat \ {0}
ASSUME BoundsAssumption == {MaxPayments, MaxSaves, MaxFaults} \subseteq Nat

VARIABLES
    payments,   \* rows of table payments
    payouts,    \* rows of table payouts, in order of created_at
    cron,       \* how far processPayouts is
    due,        \* the 1st of a month has come and the cron has not started
    faults,     \* auxiliary: faults so far
    peak        \* auxiliary: the most an author's completed payments ever summed to

vars == <<payments, payouts, cron, due, faults, peak>>

Ledger == INSTANCE PaymentLedger

NoAccount == "{}"       \* the placeholder for bank details never saved

Payout == [author: Authors, amount: Nat, status: {"pending", "completed"},
           account: Accounts \cup {NoAccount}]

Off == [at |-> "off"]

Cron == {Off}
    \cup [at: {"author"}, todo: SUBSET Authors]
    \cup [at: {"earned"}, todo: SUBSET Authors, author: Authors, seen: Nat]
    \cup [at: {"paid"}, todo: SUBSET Authors, author: Authors, earned: Nat]
    \cup [at: {"account"}, todo: SUBSET Authors, author: Authors, balance: Nat]
    \cup [at: {"create"}, todo: SUBSET Authors, author: Authors, balance: Nat,
          account: Accounts \cup {NoAccount}]

TypeOK ==
    /\ payments \in Seq([sub: Subs, tx: Txs, status: {"completed", "failed"}])
    /\ payouts \in Seq(Payout)
    /\ cron \in Cron
    /\ due \in BOOLEAN
    /\ faults \in 0 .. MaxFaults
    /\ peak \in [Authors -> Nat]

Init ==
    /\ Ledger!Init
    /\ payouts = <<>>
    /\ cron = Off
    /\ due = FALSE
    /\ faults = 0
    /\ peak = [a \in Authors |-> 0]

-----------------------------------------------------------------------------
(* Slips a maintainer could make below, to see that the properties notice. *)

MutPendingIgnoresPaid(earned, paid) == earned
MutLastAccountUndefined(a) ==
    LET rows == {k \in DOMAIN payouts : payouts[k].author = a}
    IN  IF rows = {} THEN "undefined" ELSE payouts[Max(rows)].account
MutLastAccountOfAnyone(a) ==
    IF payouts = <<>> THEN NoAccount ELSE payouts[Len(payouts)].account
MutPayableAbove(balance) == balance > MINIMUM_PAYOUT

-----------------------------------------------------------------------------
(* The aggregates the service reads. *)

\* Completed payments, among the rows ks, for author a's publications.
Earning(a, ks) ==
    {k \in ks : AuthorOf[payments[k].sub] = a /\ payments[k].status = "completed"}

NetOf(ks) == SumFunction([k \in ks |-> Net[payments[k].tx]])

Earned(a) == NetOf(Earning(a, DOMAIN payments))

\* Payouts of any status count as paid.
PaidOut(a) ==
    LET rows == {k \in DOMAIN payouts : payouts[k].author = a}
    IN  SumFunction([k \in rows |-> payouts[k].amount])

PendingBalance(earned, paid) == Max({0, earned - paid})

Payable(balance) == balance >= MINIMUM_PAYOUT

LastAccount(a) ==
    LET rows == {k \in DOMAIN payouts : payouts[k].author = a}
    IN  IF rows = {} THEN NoAccount ELSE payouts[Max(rows)].account

-----------------------------------------------------------------------------
(* processPayouts, one author after the other. *)

StartRun ==
    /\ cron = Off /\ due
    /\ cron' = [at |-> "author", todo |-> Authors]
    /\ due' = FALSE
    /\ UNCHANGED <<payments, payouts, faults, peak>>

\* The author, the publications and their subscriptions are read first.
NextAuthor(a) ==
    /\ cron.at = "author" /\ a \in cron.todo
    /\ cron' = [at |-> "earned", todo |-> cron.todo \ {a}, author |-> a, seen |-> Len(payments)]
    /\ UNCHANGED <<payments, payouts, due, faults, peak>>

EndRun ==
    /\ cron.at = "author" /\ cron.todo = {}
    /\ cron' = Off
    /\ UNCHANGED <<payments, payouts, due, faults, peak>>

\* Of payments recorded since then, those of new subscriptions are missed.
ReadEarned ==
    /\ cron.at = "earned"
    /\ \E missed \in SUBSET (cron.seen + 1 .. Len(payments)) :
          cron' = [at |-> "paid", todo |-> cron.todo, author |-> cron.author,
                   earned |-> NetOf(Earning(cron.author, DOMAIN payments \ missed))]
    /\ UNCHANGED <<payments, payouts, due, faults, peak>>

GoOn == [at |-> "author", todo |-> cron.todo]

ReadPaidOut ==
    /\ cron.at = "paid"
    /\ LET balance == PendingBalance(cron.earned, PaidOut(cron.author))
       IN  cron' = IF Payable(balance)
                   THEN [at |-> "account", todo |-> cron.todo, author |-> cron.author,
                         balance |-> balance]
                   ELSE GoOn
    /\ UNCHANGED <<payments, payouts, due, faults, peak>>

ReadAccount ==
    /\ cron.at = "account"
    /\ cron' = [at |-> "create", todo |-> cron.todo, author |-> cron.author,
                balance |-> cron.balance, account |-> LastAccount(cron.author)]
    /\ UNCHANGED <<payments, payouts, due, faults, peak>>

CreatePayout ==
    /\ cron.at = "create"
    /\ payouts' = Append(payouts, [author |-> cron.author, amount |-> cron.balance,
                                   status |-> "pending", account |-> cron.account])
    /\ cron' = GoOn
    /\ UNCHANGED <<payments, due, faults, peak>>

Fault == faults < MaxFaults /\ faults' = faults + 1

\* The error of one author is caught, the loop goes on.
AuthorThrows ==
    /\ Fault /\ cron.at \notin {"off", "author"}
    /\ cron' = GoOn
    /\ UNCHANGED <<payments, payouts, due, peak>>

\* Nothing remembers a run that was under way; so too when its first query throws.
Crash ==
    /\ Fault /\ cron # Off
    /\ cron' = Off
    /\ UNCHANGED <<payments, payouts, due, peak>>

-----------------------------------------------------------------------------
\* A row that pays nothing, completed at once, holds the bank details.
Sentinel(row) == row.amount = 0 /\ row.status = "completed"

saveBankDetails(a, account) ==
    /\ Cardinality({k \in DOMAIN payouts : Sentinel(payouts[k])}) < MaxSaves
    /\ payouts' = Append(payouts, [author |-> a, amount |-> 0,
                                   status |-> "completed", account |-> account])
    /\ UNCHANGED <<payments, cron, due, faults, peak>>

-----------------------------------------------------------------------------
(* The payments table changes, and months pass. *)

RecordPeak == peak' = [a \in Authors |-> Max({peak[a], Earned(a)'})]

RecordPayment(sub, tx) ==
    /\ Len(payments) < MaxPayments
    /\ Ledger!Record(sub, tx)
    /\ RecordPeak
    /\ UNCHANGED <<payouts, cron, due, faults>>

FailPayment(k) ==
    /\ Ledger!Fail(k)
    /\ UNCHANGED <<payouts, cron, due, faults, peak>>

RestorePayment(k) ==
    /\ Ledger!Restore(k)
    /\ RecordPeak
    /\ UNCHANGED <<payouts, cron, due, faults>>

MonthTurns ==
    /\ due' = TRUE
    /\ UNCHANGED <<payments, payouts, cron, faults, peak>>

-----------------------------------------------------------------------------
ProcessPayouts ==
    \/ StartRun
    \/ \E a \in Authors : NextAuthor(a)
    \/ EndRun
    \/ ReadEarned
    \/ ReadPaidOut
    \/ ReadAccount
    \/ CreatePayout

Next ==
    \/ ProcessPayouts
    \/ AuthorThrows \/ Crash
    \/ \E a \in Authors, account \in Accounts : saveBankDetails(a, account)
    \/ \E sub \in Subs, tx \in Txs : RecordPayment(sub, tx)
    \/ \E k \in DOMAIN payments : FailPayment(k) \/ RestorePayment(k)
    \/ MonthTurns

Spec == Init /\ [][Next]_vars

(* Months go by, and a run that was started goes on.                       *)
FairSpec == Spec /\ WF_vars(MonthTurns) /\ WF_vars(ProcessPayouts)

-----------------------------------------------------------------------------
(* No author is ever paid more than the completed payments summed to at    *)
(* some time, although the run reads its aggregates one after the other    *)
(* while payments are recorded, fail and are restored, or it dies halfway. *)
NeverOverpaid == \A a \in Authors : PaidOut(a) <= peak[a]

(* Money goes to bank details its author saved, never to another author's, *)
(* though details are copied from payout to payout.                        *)
PaidToOwnAccount ==
    \A k \in DOMAIN payouts :
        payouts[k].account # NoAccount =>
            \E j \in 1 .. k : /\ Sentinel(payouts[j])
                              /\ payouts[j].author = payouts[k].author
                              /\ payouts[j].account = payouts[k].account

(* docs/Refinement.md, payout below minimum: the balance accumulates and   *)
(* is paid once it reaches the threshold, to an author whose bank details  *)
(* are known.  Nothing is asked for authors without them, see below.       *)
Owed(a) == Earned(a) - PaidOut(a)

EarningsPaidOut ==
    \A a \in Authors :
        LastAccount(a) # NoAccount /\ Owed(a) >= MINIMUM_PAYOUT ~> Owed(a) < MINIMUM_PAYOUT

-----------------------------------------------------------------------------
(* saveBankDetails' comment: subsequent payouts can retrieve the details   *)
(* that were saved last.                                                   *)
SavedDetailsRetrieved ==
    \A a \in Authors :
        LET saves == {k \in DOMAIN payouts : payouts[k].author = a /\ Sentinel(payouts[k])}
        IN  saves # {} => LastAccount(a) = payouts[Max(saves)].account
=============================================================================
