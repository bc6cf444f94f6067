---------------------------- MODULE ReportsProofs ----------------------------
(***************************************************************************)
(* Proofs about the fee split, for every amount and every processor, and   *)
(* about the reports made of the payments that were split: for any number  *)
(* of payments at any prices, any tips, any calendar and any time; and     *)
(* about the list of articles, for any number of articles and changes.     *)
(***************************************************************************)
EXTENDS MCReports, Tables

(* Math.round is within half a unit of the quotient.                       *)
LEMMA PlatformRound ==
    ASSUME NEW n \in Nat
    PROVE  /\ PlatformFee(n) \in Nat
           /\ -500 < 1000 * PlatformFee(n) - 100 * n
           /\ 1000 * PlatformFee(n) - 100 * n <= 500
  BY DEF PlatformFee, Round, PLATFORM_FEE_RATE

LEMMA ProcessorRates ==
    ASSUME NEW p \in Processors
    PROVE  PROCESSOR_FEE_RATES[p] \in {25, 5, 30}
  BY DEF Processors, PROCESSOR_FEE_RATES

LEMMA ProcessorRound ==
    ASSUME NEW p \in Processors, NEW n \in Nat
    PROVE  LET fee == calculateProcessorFee(p, n)
               rate == PROCESSOR_FEE_RATES[p]
           IN  /\ fee \in Nat
               /\ rate = 25 => -500 < 1000 * fee - 25 * n /\ 1000 * fee - 25 * n <= 500
               /\ rate = 5 => -500 < 1000 * fee - 5 * n /\ 1000 * fee - 5 * n <= 500
               /\ rate = 30 => -500 < 1000 * fee - 30 * n /\ 1000 * fee - 30 * n <= 500
<1>1. CASE PROCESSOR_FEE_RATES[p] = 25  BY <1>1 DEF calculateProcessorFee, Round
<1>2. CASE PROCESSOR_FEE_RATES[p] = 5  BY <1>2 DEF calculateProcessorFee, Round
<1>3. CASE PROCESSOR_FEE_RATES[p] = 30  BY <1>3 DEF calculateProcessorFee, Round
<1>. QED  BY <1>1, <1>2, <1>3, ProcessorRates

(* The split leaves the author the exact share to within one kopeck, and   *)
(* never nothing.                                                          *)
LEMMA Split ==
    ASSUME NEW p \in Processors, NEW n \in Nat
    PROVE  /\ AuthorPayout(p, n) \in Int
           /\ -1000 <= 1000 * AuthorPayout(p, n) - n * (900 - PROCESSOR_FEE_RATES[p])
           /\ 1000 * AuthorPayout(p, n) - n * (900 - PROCESSOR_FEE_RATES[p]) <= 1000
           /\ n > 0 => AuthorPayout(p, n) > 0
<1>. DEFINE a == PlatformFee(n)
            b == calculateProcessorFee(p, n)
<1>1. a \in Nat /\ -500 < 1000 * a - 100 * n /\ 1000 * a - 100 * n <= 500
  BY PlatformRound
<1>2. AuthorPayout(p, n) = n - a - b  BY DEF AuthorPayout
<1>3. CASE n = 1
  BY <1>3, ProcessorRates
  DEF AuthorPayout, PlatformFee, calculateProcessorFee, Round, PLATFORM_FEE_RATE
<1>4. CASE n # 1
  <2>. DEFINE rate == PROCESSOR_FEE_RATES[p]
  <2>1. /\ b \in Nat
        /\ rate = 25 => -500 < 1000 * b - 25 * n /\ 1000 * b - 25 * n <= 500
        /\ rate = 5 => -500 < 1000 * b - 5 * n /\ 1000 * b - 5 * n <= 500
        /\ rate = 30 => -500 < 1000 * b - 30 * n /\ 1000 * b - 30 * n <= 500
    BY ProcessorRound
  <2>. HIDE DEF a, b
  <2>2. CASE rate = 25  BY <1>1, <1>2, <1>4, <2>1, <2>2
  <2>3. CASE rate = 5  BY <1>1, <1>2, <1>4, <2>1, <2>3
  <2>4. CASE rate = 30  BY <1>1, <1>2, <1>4, <2>1, <2>4
  <2>. QED  BY <2>2, <2>3, <2>4, ProcessorRates
<1>. QED  BY <1>3, <1>4

(* The platform fee goes up a kopeck where the amount passes a 5 ...       *)
LEMMA PlatformStep ==
    ASSUME NEW n \in Nat
    PROVE  PlatformFee(n + 1) = IF n % 10 = 4 THEN PlatformFee(n) + 1 ELSE PlatformFee(n)
  BY DEF PlatformFee, Round, PLATFORM_FEE_RATE

(* ... and there none of the processor fees does.                          *)
LEMMA ProcessorStep ==
    ASSUME NEW p \in Processors, NEW n \in Nat
    PROVE  /\ calculateProcessorFee(p, n + 1) <= calculateProcessorFee(p, n) + 1
           /\ n % 10 = 4 => calculateProcessorFee(p, n + 1) = calculateProcessorFee(p, n)
<1>. USE DEF calculateProcessorFee, Round
<1>1. CASE PROCESSOR_FEE_RATES[p] = 25  BY <1>1
<1>2. CASE PROCESSOR_FEE_RATES[p] = 5  BY <1>2
<1>3. CASE PROCESSOR_FEE_RATES[p] = 30
  <2>1. calculateProcessorFee(p, n) = (3 * n + 50) \div 100
    BY <1>3
  <2>2. calculateProcessorFee(p, n + 1) = (3 * n + 53) \div 100
    BY <1>3
  <2>3. ASSUME n % 10 = 4
        PROVE  (3 * n + 53) \div 100 = (3 * n + 50) \div 100
    <3>1. PICK m \in Nat : n = 10 * m + 4  BY <2>3
    <3>2. PICK q \in Nat, r \in 0 .. 9 : 3 * m + 6 = 10 * q + r
      <4>. DEFINE q == (3 * m + 6) \div 10
      <4>1. q \in Nat  OBVIOUS
      <4>2. 3 * m + 6 - 10 * q \in 0 .. 9  OBVIOUS
      <4>3. 3 * m + 6 = 10 * q + (3 * m + 6 - 10 * q)  BY <4>1
      <4>. QED  BY <4>1, <4>2, <4>3
    <3>3. 3 * n + 50 = 100 * q + (10 * r + 2)  BY <3>1, <3>2
    <3>4. 3 * n + 53 = 100 * q + (10 * r + 5)  BY <3>1, <3>2
    <3>. QED  BY <3>3, <3>4
  <2>. QED  BY <2>1, <2>2, <2>3
<1>. QED  BY <1>1, <1>2, <1>3, ProcessorRates

(* One kopeck more never pays the author less.                             *)
LEMMA Monotone ==
    ASSUME NEW p \in Processors, NEW n \in Nat
    PROVE  AuthorPayout(p, n + 1) >= AuthorPayout(p, n)
<1>1. n + 1 \in Nat  OBVIOUS
<1>2. PlatformFee(n) \in Nat /\ PlatformFee(n + 1) \in Nat  BY <1>1, PlatformRound
<1>3. calculateProcessorFee(p, n) \in Nat /\ calculateProcessorFee(p, n + 1) \in Nat
  BY <1>1, ProcessorRound
<1>. QED  BY <1>2, <1>3, PlatformStep, ProcessorStep DEF AuthorPayout

-----------------------------------------------------------------------------
AmountInv == processor \in Processors /\ amount \in Nat

LEMMA AmountInvariant == Spec => []AmountInv
<1>1. Init => AmountInv  BY DEF Init, AmountInv
<1>2. AmountInv /\ [Dearer]_vars => AmountInv'  BY DEF AmountInv, Dearer, vars
<1>. QED  BY <1>1, <1>2, PTL DEF Spec

(* The rounding of the two fees never moves more than a kopeck.            *)
THEOREM PayoutIsAccurate == Spec => []PayoutWithinOneKopeck
<1>1. AmountInv => PayoutWithinOneKopeck
  <2>. SUFFICES ASSUME AmountInv PROVE PayoutWithinOneKopeck  OBVIOUS
  <2>. QED  BY Split, ProcessorRates DEF AmountInv, PayoutWithinOneKopeck, PLATFORM_FEE_RATE
<1>. QED  BY <1>1, AmountInvariant, PTL

(* The author is owed something of every charge.                           *)
THEOREM PayoutIsPositive == Spec => []PayoutPositive
<1>1. AmountInv => PayoutPositive  BY Split DEF AmountInv, PayoutPositive
<1>. QED  BY <1>1, AmountInvariant, PTL

(* The author's payout is monotone in the price.                           *)
THEOREM PayoutIsMonotone == Spec => DearerPaysNoLess
<1>1. AmountInv /\ [Dearer]_vars =>
        [AuthorPayout(processor', amount') >= AuthorPayout(processor, amount)]_vars
  BY Monotone DEF AmountInv, Dearer, vars
<1>. QED  BY <1>1, AmountInvariant, PTL DEF Spec, DearerPaysNoLess

-----------------------------------------------------------------------------
(* The tables under charges at any price, any audience of any articles,    *)
(* and any subscriptions begun by now.                                     *)
MoneyNext ==
    \/ \E p \in Processors, n \in Nat : Charge(p, n)
    \/ TablesNext

Delivered == [{"sent", "opened", "clicked"} -> Nat]

Subscription ==
    [publication: DOMAIN Price, type: {"free", "paid"},
     status: {"active", "cancelled", "expired", "grace_period", "pending"}, started: 0 .. now]

AudienceNext ==
    \E n \in Nat \ {0} : \E counts \in [1 .. n -> Delivered], readers \in SUBSET Subscription :
        IsFiniteSet(readers) /\ AudienceChanges(counts, readers)

ReportsSpec == TablesInit /\ [][MoneyNext \/ AudienceNext]_tables

(* A row is split to the last kopeck, and dated.                           *)
Row == [amount: Nat, platform_fee: Nat, processor_fee: Nat, author_payout: Int,
        paid_at: Nat, status: {"completed", "failed"}]

IsSplit(row) == row.amount = row.platform_fee + row.processor_fee + row.author_payout

Books(p, hour) ==
    /\ p \in Seq(Row)
    /\ \A k \in 1 .. Len(p) : IsSplit(p[k]) /\ p[k].paid_at <= hour

MoneyInv == now \in Nat /\ Books(payments, now)

LEMMA MoneyRows ==
    ASSUME MoneyInv
    PROVE  /\ now \in Nat /\ payments \in Seq(Row)
           /\ DOMAIN payments = 1 .. Len(payments) /\ Len(payments) \in Nat
           /\ IsFiniteSet(DOMAIN payments)
           /\ \A k \in DOMAIN payments :
                 payments[k] \in Row /\ IsSplit(payments[k]) /\ payments[k].paid_at <= now
<1>1. DOMAIN payments = 1 .. Len(payments) /\ Len(payments) \in Nat
      /\ \A k \in 1 .. Len(payments) : payments[k] \in Row
  BY DEF MoneyInv, Books
<1>2. IsFiniteSet(DOMAIN payments)  BY <1>1, FS_Interval
<1>. QED  BY <1>1, <1>2 DEF MoneyInv, Books

LEMMA NewPaymentSplit ==
    ASSUME NEW p \in Processors, NEW n \in Nat, now \in Nat
    PROVE  /\ NewPayment(p, n) \in Row /\ IsSplit(NewPayment(p, n))
           /\ NewPayment(p, n).paid_at = now
<1>1. PICK a \in Nat : a = PlatformFee(n)  BY PlatformRound
<1>2. PICK b \in Nat : b = calculateProcessorFee(p, n)  BY ProcessorRound
<1>3. AuthorPayout(p, n) = n - a - b  BY <1>1, <1>2 DEF AuthorPayout
<1>. QED  BY <1>1, <1>2, <1>3 DEF NewPayment, Row, IsSplit

LEMMA RefreshedSplit ==
    ASSUME NEW row \in Row, IsSplit(row), now \in Nat
    PROVE  /\ Refreshed(row) \in Row /\ IsSplit(Refreshed(row))
           /\ Refreshed(row).paid_at = now
<1>1. Refreshed(row) \in Row  BY DEF Refreshed, Row
<1>2. Refreshed(row).paid_at = now  BY DEF Refreshed, Row
<1>3. Refreshed(row).amount = row.amount  BY DEF Refreshed, Row
<1>4. Refreshed(row).platform_fee = row.platform_fee  BY DEF Refreshed, Row
<1>5. Refreshed(row).processor_fee = row.processor_fee  BY DEF Refreshed, Row
<1>6. Refreshed(row).author_payout = row.author_payout  BY DEF Refreshed, Row
<1>. QED  BY <1>1, <1>2, <1>3, <1>4, <1>5, <1>6 DEF IsSplit

LEMMA MoneyStep ==
    ASSUME MoneyInv, [MoneyNext]_money
    PROVE  MoneyInv'
<1>r. /\ now \in Nat /\ payments \in Seq(Row)
      /\ DOMAIN payments = 1 .. Len(payments) /\ Len(payments) \in Nat
      /\ \A k \in DOMAIN payments :
            payments[k] \in Row /\ IsSplit(payments[k]) /\ payments[k].paid_at <= now
  BY MoneyRows
<1>1. ASSUME NEW p \in Processors, NEW n \in Nat, Charge(p, n)
      PROVE  MoneyInv'
  <2>1. PICK row \in Row : row = NewPayment(p, n) /\ IsSplit(row) /\ row.paid_at = now
    BY <1>r, NewPaymentSplit
  <2>2. payments' = Append(payments, row) /\ now' = now  BY <1>1, <2>1 DEF Charge
  <2>3. payments' \in Seq(Row)  BY <1>r, <2>2, AppendTyped
  <2>4. Len(payments') = Len(payments) + 1 /\ payments'[Len(payments) + 1] = row
        /\ \A k \in DOMAIN payments : payments'[k] = payments[k]
    BY <1>r, <2>2, RowAdded
  <2>5. \A k \in 1 .. Len(payments') : IsSplit(payments'[k]) /\ payments'[k].paid_at <= now
    BY <1>r, <2>1, <2>4
  <2>. QED  BY <1>r, <2>2, <2>3, <2>5 DEF MoneyInv, Books
<1>2. ASSUME NEW k \in DOMAIN payments, NEW row \in Row, IsSplit(row), row.paid_at <= now,
             payments' = [payments EXCEPT ![k] = row], now' = now
      PROVE  MoneyInv'
  <2>1. DOMAIN payments' = DOMAIN payments
        /\ \A l \in DOMAIN payments : payments'[l] = IF l = k THEN row ELSE payments[l]
    BY <1>2
  <2>2. \A l \in DOMAIN payments : payments'[l] \in Row /\ IsSplit(payments'[l])
                                   /\ payments'[l].paid_at <= now
    BY <1>r, <1>2, <2>1
  <2>3. payments' = [l \in 1 .. Len(payments) |-> payments'[l]]
    BY <1>r, <1>2
  <2>4. payments' \in Seq(Row) /\ Len(payments') = Len(payments)  BY <1>r, <2>2, <2>3
  <2>. QED  BY <1>r, <1>2, <2>2, <2>4 DEF MoneyInv, Books
<1>3. ASSUME NEW k \in DOMAIN payments, ReversePayment(k)
      PROVE  MoneyInv'
  <2>. DEFINE row == [payments[k] EXCEPT !.status = "failed"]
  <2>1. payments' = [payments EXCEPT ![k] = row] /\ now' = now
    BY <1>3 DEF ReversePayment
  <2>2. row \in Row /\ IsSplit(row) /\ row.paid_at <= now  BY <1>r DEF Row, IsSplit
  <2>. HIDE DEF row
  <2>. QED  BY <1>2, <2>1, <2>2
<1>4. ASSUME NEW k \in DOMAIN payments, RestorePayment(k)
      PROVE  MoneyInv'
  <2>1. PICK old \in Row : old = payments[k] /\ IsSplit(old)  BY <1>r
  <2>2. PICK row \in Row : row = Refreshed(old) /\ row.paid_at = now /\ IsSplit(row)
    BY <1>r, <2>1, RefreshedSplit
  <2>3. payments' = [payments EXCEPT ![k] = row] /\ now' = now
    BY <1>4, <2>1, <2>2 DEF RestorePayment
  <2>4. row.paid_at <= now  BY <1>r, <2>2
  <2>. QED  BY <1>2, <2>2, <2>3, <2>4
<1>5. CASE HourPasses
  <2>1. now' = now + 1 /\ payments' = payments  BY <1>5 DEF HourPasses
  <2>2. \A k \in DOMAIN payments : payments[k].paid_at <= now + 1
    BY <1>r DEF Row
  <2>. QED  BY <1>r, <2>1, <2>2 DEF MoneyInv, Books
<1>6. CASE PayOut \/ UNCHANGED money
  BY <1>6 DEF PayOut, money, MoneyInv, Books
<1>. QED  BY <1>1, <1>3, <1>4, <1>5, <1>6 DEF MoneyNext, TablesNext

-----------------------------------------------------------------------------
(* The sums of a report, said of its columns.                              *)
Amounts(p) == [k \in DOMAIN p |-> p[k].amount]

PlatformFees(p) == [k \in DOMAIN p |-> p[k].platform_fee]

ProcessorFees(p) == [k \in DOMAIN p |-> p[k].processor_fee]

AuthorParts(p) == [k \in DOMAIN p |-> p[k].author_payout]

TipAmounts == [t \in Tips |-> t.amount]

TipFees == [t \in Tips |-> t.platform_fee]

TipNets == [t \in Tips |-> TipNet(t)]

LEMMA ColumnSums ==
    ASSUME NEW p \in Seq(Row), NEW ks \in SUBSET DOMAIN p
    PROVE  /\ IsFiniteSet(ks)
           /\ SumFunction([k \in ks |-> p[k].amount]) = Total(Amounts(p), ks)
           /\ SumFunction([k \in ks |-> p[k].platform_fee]) = Total(PlatformFees(p), ks)
           /\ SumFunction([k \in ks |-> p[k].processor_fee]) = Total(ProcessorFees(p), ks)
           /\ SumFunction([k \in ks |-> p[k].author_payout]) = Total(AuthorParts(p), ks)
<1>1. IsFiniteSet(ks)
  <2>1. DOMAIN p = 1 .. Len(p) /\ Len(p) \in Nat  OBVIOUS
  <2>2. IsFiniteSet(DOMAIN p)  BY <2>1, FS_Interval
  <2>. QED  BY <2>2, FS_Subset
<1>2. ASSUME NEW f, DOMAIN f = ks, NEW col, \A k \in ks : f[k] = col[k]
      PROVE  SumFunction(f) = Total(col, ks)
  BY <1>1, <1>2, SumIsTotal
<1>3. SumFunction([k \in ks |-> p[k].amount]) = Total(Amounts(p), ks)
  BY <1>2 DEF Amounts
<1>4. SumFunction([k \in ks |-> p[k].platform_fee]) = Total(PlatformFees(p), ks)
  BY <1>2 DEF PlatformFees
<1>5. SumFunction([k \in ks |-> p[k].processor_fee]) = Total(ProcessorFees(p), ks)
  BY <1>2 DEF ProcessorFees
<1>6. SumFunction([k \in ks |-> p[k].author_payout]) = Total(AuthorParts(p), ks)
  BY <1>2 DEF AuthorParts
<1>. QED  BY <1>1, <1>3, <1>4, <1>5, <1>6

LEMMA TipSums ==
    ASSUME NEW ts \in SUBSET Tips
    PROVE  /\ IsFiniteSet(ts)
           /\ SumFunction([t \in ts |-> t.amount]) = Total(TipAmounts, ts)
           /\ SumFunction([t \in ts |-> t.platform_fee]) = Total(TipFees, ts)
           /\ SumFunction([t \in ts |-> TipNet(t)]) = Total(TipNets, ts)
<1>1. IsFiniteSet(ts)  BY TipsAssumption, FS_Subset DEF TipsAssumption
<1>2. ASSUME NEW f, DOMAIN f = ts, NEW col, \A t \in ts : f[t] = col[t]
      PROVE  SumFunction(f) = Total(col, ts)
  BY <1>1, <1>2, SumIsTotal
<1>3. SumFunction([t \in ts |-> t.amount]) = Total(TipAmounts, ts)  BY <1>2 DEF TipAmounts
<1>4. SumFunction([t \in ts |-> t.platform_fee]) = Total(TipFees, ts)  BY <1>2 DEF TipFees
<1>5. SumFunction([t \in ts |-> TipNet(t)]) = Total(TipNets, ts)  BY <1>2 DEF TipNets
<1>. QED  BY <1>1, <1>3, <1>4, <1>5

LEMMA ColumnTypes ==
    ASSUME NEW p \in Seq(Row)
    PROVE  \A k \in DOMAIN p : /\ Amounts(p)[k] \in Nat /\ PlatformFees(p)[k] \in Nat
                               /\ ProcessorFees(p)[k] \in Nat /\ AuthorParts(p)[k] \in Int
<1>1. DOMAIN p = 1 .. Len(p) /\ \A k \in 1 .. Len(p) : p[k] \in Row  OBVIOUS
<1>. QED  BY <1>1 DEF Row, Amounts, PlatformFees, ProcessorFees, AuthorParts

LEMMA TipTypes ==
    \A t \in Tips : /\ TipAmounts[t] \in Nat /\ TipFees[t] \in Nat
                    /\ TipNets[t] \in Nat /\ TipNets[t] = TipAmounts[t] - TipFees[t]
<1>. TAKE t \in Tips
<1>1. t.amount \in Nat /\ t.platform_fee \in 0 .. t.amount
  BY TipsAssumption DEF TipsAssumption
<1>. QED  BY <1>1 DEF TipAmounts, TipFees, TipNets, TipNet

(* Each of the four figures of a report, for payments ks and tips ts.      *)
Revenue(ks, ts) == Total(Amounts(payments), ks) + Total(TipAmounts, ts)

NetIncome(ks, ts) == Total(AuthorParts(payments), ks) + Total(TipNets, ts)

LEMMA TotalsAre ==
    ASSUME MoneyInv, NEW ks \in SUBSET DOMAIN payments, NEW ts \in SUBSET Tips
    PROVE  /\ Totals(ks, ts).totalRevenue = Revenue(ks, ts)
           /\ Totals(ks, ts).netPayout = NetIncome(ks, ts)
           /\ Revenue(ks, ts) \in Int /\ NetIncome(ks, ts) \in Int
           /\ Totals(ks, ts).platformFees + Totals(ks, ts).processorFees + NetIncome(ks, ts)
                 = Revenue(ks, ts)
<1>r. payments \in Seq(Row)  BY MoneyRows
<1>f. IsFiniteSet(ks) /\ IsFiniteSet(ts)  BY <1>r, ColumnSums, TipSums
<1>1. /\ Totals(ks, ts).totalRevenue = Revenue(ks, ts)
      /\ Totals(ks, ts).netPayout = NetIncome(ks, ts)
      /\ Totals(ks, ts).platformFees = Total(PlatformFees(payments), ks) + Total(TipFees, ts)
      /\ Totals(ks, ts).processorFees = Total(ProcessorFees(payments), ks)
  BY <1>r, ColumnSums, TipSums DEF Totals, Revenue, NetIncome
<1>. DEFINE A == Amounts(payments)
            B == PlatformFees(payments)
            C == ProcessorFees(payments)
            D == AuthorParts(payments)
            E == [k \in ks |-> B[k] + C[k]]
<1>2. \A k \in ks : A[k] \in Int /\ B[k] \in Int /\ C[k] \in Int /\ D[k] \in Int
                   /\ A[k] = B[k] + C[k] + D[k]
  <2>1. \A k \in ks : /\ A[k] = payments[k].amount /\ B[k] = payments[k].platform_fee
                      /\ C[k] = payments[k].processor_fee /\ D[k] = payments[k].author_payout
    BY DEF Amounts, PlatformFees, ProcessorFees, AuthorParts
  <2>2. \A k \in ks : payments[k] \in Row /\ IsSplit(payments[k])  BY MoneyRows
  <2>. QED  BY <2>1, <2>2 DEF Row, IsSplit
<1>3. \A k \in ks : E[k] = B[k] + C[k]  OBVIOUS
<1>. HIDE DEF A, B, C, D, E
<1>4. /\ Total(A, ks) \in Int /\ Total(B, ks) \in Int /\ Total(C, ks) \in Int
      /\ Total(D, ks) \in Int
  <2>1. \A k \in ks : A[k] \in Int  BY <1>2
  <2>2. \A k \in ks : B[k] \in Int  BY <1>2
  <2>3. \A k \in ks : C[k] \in Int  BY <1>2
  <2>4. \A k \in ks : D[k] \in Int  BY <1>2
  <2>. QED  BY <1>f, <2>1, <2>2, <2>3, <2>4, TotalType
<1>5. Total(E, ks) = Total(B, ks) + Total(C, ks)
  <2>1. \A k \in ks : B[k] \in Int /\ C[k] \in Int /\ E[k] = B[k] + C[k]  BY <1>2, <1>3
  <2>. QED  BY <1>f, <2>1, TotalOfSums
<1>6. Total(A, ks) = Total(E, ks) + Total(D, ks)
  <2>1. \A k \in ks : E[k] \in Int /\ D[k] \in Int /\ A[k] = E[k] + D[k]  BY <1>2, <1>3
  <2>. QED  BY <1>f, <2>1, TotalOfSums
<1>7. /\ Total(TipAmounts, ts) \in Int /\ Total(TipFees, ts) \in Int /\ Total(TipNets, ts) \in Int
      /\ Total(TipNets, ts) = Total(TipAmounts, ts) - Total(TipFees, ts)
  <2>1. \A t \in ts : TipAmounts[t] \in Int /\ TipFees[t] \in Int
                     /\ TipNets[t] = TipAmounts[t] - TipFees[t]
    BY TipTypes
  <2>2. \A t \in ts : TipAmounts[t] \in Int  BY <2>1
  <2>3. \A t \in ts : TipFees[t] \in Int  BY <2>1
  <2>4. \A t \in ts : TipNets[t] \in Int  BY TipTypes
  <2>5. Total(TipNets, ts) = Total(TipAmounts, ts) - Total(TipFees, ts)
    BY <1>f, <2>1, TotalOfDifferences
  <2>. QED  BY <1>f, <2>2, <2>3, <2>4, <2>5, TotalType
<1>8. Revenue(ks, ts) = Total(A, ks) + Total(TipAmounts, ts)
      /\ NetIncome(ks, ts) = Total(D, ks) + Total(TipNets, ts)
  BY DEF Revenue, NetIncome, A, D
<1>9. Totals(ks, ts).platformFees = Total(B, ks) + Total(TipFees, ts)
      /\ Totals(ks, ts).processorFees = Total(C, ks)
  BY <1>1 DEF B, C
<1>. QED  BY <1>1, <1>4, <1>5, <1>6, <1>7, <1>8, <1>9

-----------------------------------------------------------------------------
(* Days and hours.                                                         *)
LEMMA Calendar ==
    /\ HoursPerDay \in Nat \ {0} /\ DaysPerMonth \in Nat \ {0}
    /\ HoursPerDay * DaysPerMonth \in Nat \ {0}
    /\ Offset \in Int /\ 1 - HoursPerDay <= Offset /\ Offset <= HoursPerDay - 1
<1>1. /\ HoursPerDay \in Nat \ {0} /\ DaysPerMonth \in Nat \ {0}
      /\ Offset \in 1 - HoursPerDay .. HoursPerDay - 1
  BY CalendarAssumption DEF CalendarAssumption
<1>2. PICK h \in Nat, d \in Nat : h = HoursPerDay /\ d = DaysPerMonth /\ h >= 1 /\ d >= 1
  BY <1>1
<1>3. 1 * d <= h * d /\ h * d \in Nat  BY <1>2, Product
<1>. QED  BY <1>1, <1>2, <1>3

LEMMA IntegerQuotient ==
    ASSUME NEW a \in Int, NEW c \in Nat \ {0}
    PROVE  /\ a \div c \in Int
           /\ (a \div c) * c <= a /\ a < (a \div c) * c + c
  OBVIOUS

(* The report of a date begins and ends, and the next one's begins later.  *)
LEMMA Days ==
    ASSUME NEW day \in Int
    PROVE  /\ StartOf(day) \in Int /\ EndOf(day) \in Int /\ Midnight(day + 1) \in Int
           /\ StartOf(day) <= EndOf(day)
           /\ EndOf(day) < StartOf(day + 1) /\ EndOf(day) < Midnight(day + 1)
           /\ Midnight(day) - 1 <= EndOf(day)
<1>1. PICK h \in Nat \ {0}, o \in Int :
         h = HoursPerDay /\ o = Offset /\ 1 - h <= o /\ o <= h - 1
  BY Calendar
<1>2. day * h \in Int /\ (day + 1) * h = day * h + 1 * h  BY <1>1, ProductOfIntegers
<1>3. PICK a \in Int : a = day * h  BY <1>2
<1>4. StartOf(day) = a + o /\ StartOf(day + 1) = a + h + o
      /\ Midnight(day) = a /\ Midnight(day + 1) = a + h
  BY <1>1, <1>2, <1>3 DEF StartOf, Midnight
<1>5. PICK q \in Int : q = (a + o) \div h /\ q * h <= a + o /\ a + o < q * h + h
  <2>1. a + o \in Int  BY <1>1, <1>3
  <2>. QED  BY <1>1, <2>1, IntegerQuotient
<1>6. PICK b \in Int : b = q * h  BY <1>1, <1>5, ProductOfIntegers
<1>7. (q + 1) * h = b + h
  <2>1. (q + 1) * h = q * h + 1 * h  BY <1>1, <1>5, ProductOfIntegers
  <2>. QED  BY <1>1, <1>6, <2>1
<1>8. EndOf(day) = b + h - 1
  BY <1>1, <1>4, <1>5, <1>6, <1>7 DEF EndOf, DayOf, Midnight
<1>9. b <= a
  <2>1. day + 1 <= q => (day + 1) * h <= q * h
    <3>1. day + 1 \in Int  OBVIOUS
    <3>. QED  BY <1>1, <1>5, <3>1, ProductOfIntegers
  <2>2. q <= day  BY <1>1, <1>2, <1>3, <1>5, <1>6, <2>1
  <2>3. q * h <= day * h  BY <1>1, <1>5, <2>2, ProductOfIntegers
  <2>. QED  BY <1>3, <1>6, <2>3
<1>10. a <= b + h
  <2>1. q + 2 <= day => (q + 2) * h <= day * h
    <3>1. q + 2 \in Int  BY <1>5
    <3>. QED  BY <1>1, <3>1, ProductOfIntegers
  <2>2. (q + 2) * h = b + h + h
    <3>1. (q + 2) * h = q * h + 2 * h  BY <1>1, <1>5, ProductOfIntegers
    <3>. QED  BY <1>1, <1>6, <3>1
  <2>3. day <= q + 1  BY <1>1, <1>3, <1>5, <1>6, <2>1, <2>2
  <2>4. day * h <= (q + 1) * h
    <3>1. q + 1 \in Int  BY <1>5
    <3>. QED  BY <1>1, <2>3, <3>1, ProductOfIntegers
  <2>. QED  BY <1>3, <1>7, <2>4
<1>. QED  BY <1>1, <1>3, <1>4, <1>5, <1>6, <1>8, <1>9, <1>10

LEMMA LaterDays ==
    ASSUME NEW day \in Int, NEW later \in Int, day <= later
    PROVE  /\ StartOf(day) <= StartOf(later) /\ EndOf(day) <= EndOf(later)
           /\ Midnight(day) <= Midnight(later)
           /\ StartOf(day) \in Int /\ StartOf(later) \in Int
           /\ Midnight(day) \in Int /\ Midnight(later) \in Int
<1>1. PICK h \in Nat, o \in Int : h = HoursPerDay /\ o = Offset  BY Calendar
<1>2. day * h <= later * h /\ day * h \in Int /\ later * h \in Int  BY <1>1, ProductOfIntegers
<1>3. PICK a \in Int, b \in Int : a = day * h /\ b = later * h /\ a <= b  BY <1>2
<1>4. /\ StartOf(day) = a + o /\ StartOf(later) = b + o
      /\ Midnight(day) = a /\ Midnight(later) = b
  BY <1>1, <1>3 DEF StartOf, Midnight
<1>5. EndOf(day) <= EndOf(later)
  <2>1. CASE day = later  BY <2>1, Days
  <2>2. CASE day + 1 <= later
    <3>1. (day + 1) * h <= later * h /\ (day + 1) * h = a + h
      <4>1. day + 1 \in Int /\ (day + 1) * h = day * h + 1 * h  BY <1>1, ProductOfIntegers
      <4>. QED  BY <1>1, <1>3, <2>2, <4>1, ProductOfIntegers
    <3>2. StartOf(day + 1) = a + h + o  BY <1>1, <3>1 DEF StartOf, Midnight
    <3>3. StartOf(day + 1) <= StartOf(later)  BY <1>1, <1>3, <1>4, <3>1, <3>2
    <3>4. EndOf(day) < StartOf(day + 1) /\ StartOf(later) <= EndOf(later)
          /\ EndOf(day) \in Int /\ EndOf(later) \in Int
      BY Days
    <3>. QED  BY <1>1, <1>3, <1>4, <3>2, <3>3, <3>4
  <2>. QED  BY <2>1, <2>2
<1>. QED  BY <1>1, <1>3, <1>4, <1>5

LEMMA ThisDay ==
    ASSUME now \in Nat
    PROVE  /\ Today \in Nat /\ Midnight(Today) <= now /\ now < Midnight(Today) + HoursPerDay
           /\ Midnight(Today) \in Nat /\ now <= EndOf(Today + 1)
<1>1. PICK h \in Nat \ {0} : h = HoursPerDay  BY Calendar
<1>2. PICK t \in Nat : t = Today /\ t * h <= now /\ now < t * h + h
  BY <1>1, Quotient DEF Today, DayOf
<1>3. PICK a \in Nat : a = t * h  BY <1>1, <1>2, Product
<1>4. Midnight(t + 1) = a + h
  <2>1. (t + 1) * h = t * h + h  BY <1>1, <1>2, Product
  <2>. QED  BY <1>1, <1>3, <2>1 DEF Midnight
<1>5. Midnight(t + 1) - 1 <= EndOf(t + 1) /\ EndOf(t + 1) \in Int
  <2>1. t + 1 \in Int  BY <1>2
  <2>. QED  BY <2>1, Days
<1>. QED  BY <1>1, <1>2, <1>3, <1>4, <1>5 DEF Midnight

\* An hour is in the first of two neighbouring ranges, in the second or between.
LEMMA WithinSplit ==
    ASSUME NEW hour \in Nat, NEW from \in Int, NEW to \in Int, NEW day \in from .. to - 1
    PROVE  /\ Within(hour, from, to) <=>
                 Within(hour, from, day) \/ Between(hour, day) \/ Within(hour, day + 1, to)
           /\ ~ (Within(hour, from, day) /\ Between(hour, day))
           /\ ~ (Within(hour, from, day) /\ Within(hour, day + 1, to))
           /\ ~ (Between(hour, day) /\ Within(hour, day + 1, to))
<1>1. /\ day \in Int /\ day + 1 \in Int /\ from <= day /\ day <= to /\ day + 1 <= to
      /\ from <= day + 1
  OBVIOUS
<1>2. StartOf(from) <= StartOf(day) /\ StartOf(from) \in Int /\ StartOf(day) \in Int
  BY <1>1, LaterDays
<1>3. EndOf(day + 1) <= EndOf(to)  BY <1>1, LaterDays
<1>4. /\ EndOf(day) \in Int /\ EndOf(to) \in Int /\ EndOf(day + 1) \in Int
      /\ StartOf(day) <= EndOf(day) /\ EndOf(day) < StartOf(day + 1)
      /\ StartOf(day + 1) <= EndOf(day + 1) /\ StartOf(day + 1) \in Int
  BY <1>1, Days
<1>. QED  BY <1>2, <1>3, <1>4 DEF Within, Between

LEMMA Months ==
    ASSUME NEW hour \in Nat, NEW end \in Nat, hour <= end
    PROVE  MonthOf(hour) \in 0 .. MonthOf(end) /\ MonthOf(end) \in Nat
<1>1. PICK c \in Nat \ {0} : c = HoursPerDay * DaysPerMonth  BY Calendar
<1>2. hour \div c \in Nat /\ end \div c \in Nat /\ hour \div c <= end \div c
  BY Quotient, QuotientGrows
<1>. QED  BY <1>1, <1>2 DEF MonthOf

-----------------------------------------------------------------------------
(* Who is in a report.                                                     *)
LEMMA ReportSums ==
    ASSUME MoneyInv, NEW from, NEW to
    PROVE  /\ PaymentsWithin(from, to) \in SUBSET DOMAIN payments
           /\ TipsWithin(from, to) \in SUBSET Tips
           /\ Completed \in SUBSET DOMAIN payments
           /\ \A k \in PaymentsWithin(from, to) :
                 payments[k].paid_at \in Nat /\ payments[k].paid_at <= EndOf(to)
           /\ \A t \in TipsWithin(from, to) :
                 t.created_at \in Nat /\ t.created_at <= EndOf(to)
<1>1. \A k \in DOMAIN payments : payments[k].paid_at \in Nat  BY MoneyRows DEF Row
<1>2. \A t \in Tips : t.created_at \in Nat  BY TipsAssumption DEF TipsAssumption
<1>. QED  BY <1>1, <1>2 DEF PaymentsWithin, TipsWithin, Completed, Within

(* Who is in a bucket of it.                                               *)
MonthPayments(from, to, m) ==
    {k \in PaymentsWithin(from, to) : MonthOf(payments[k].paid_at) = m}

MonthTips(from, to, m) ==
    {t \in TipsWithin(from, to) : MonthOf(t.created_at) = m}

(* A column of both tables, added up month by month.                       *)
LEMMA MonthsAddUp ==
    ASSUME MoneyInv, NEW from \in Nat, NEW to \in Nat,
           NEW col, \A k \in DOMAIN payments : col[k] \in Int,
           NEW tipcol, \A t \in Tips : tipcol[t] \in Int,
           NEW h, DOMAIN h = 0 .. MonthOf(Midnight(to + 1)),
           \A m \in 0 .. MonthOf(Midnight(to + 1)) :
              h[m] = Total(col, MonthPayments(from, to, m))
                     + Total(tipcol, MonthTips(from, to, m))
    PROVE  SumFunction(h) = Total(col, PaymentsWithin(from, to))
                            + Total(tipcol, TipsWithin(from, to))
<1>1. PICK K : K = 0 .. MonthOf(Midnight(to + 1))  OBVIOUS
<1>2. PICK ks : ks = PaymentsWithin(from, to)  OBVIOUS
<1>3. PICK ts : ts = TipsWithin(from, to)  OBVIOUS
<1>4. Midnight(to + 1) \in Nat /\ EndOf(to) \in Int /\ EndOf(to) < Midnight(to + 1)
  <2>1. to \in Int /\ EndOf(to) \in Int /\ EndOf(to) < Midnight(to + 1)  BY Days
  <2>2. PICK hours \in Nat : hours = HoursPerDay  BY Calendar
  <2>3. (to + 1) * hours \in Nat
    <3>1. to + 1 \in Nat  OBVIOUS
    <3>. QED  BY <2>2, <3>1, Product
  <2>. QED  BY <2>1, <2>2, <2>3 DEF Midnight
<1>5. IsFiniteSet(K)
  <2>1. MonthOf(Midnight(to + 1)) \in Nat  BY <1>4, Months
  <2>. QED  BY <1>1, <2>1, FS_Interval
<1>6. /\ ks \in SUBSET DOMAIN payments /\ ts \in SUBSET Tips
      /\ \A k \in ks : payments[k].paid_at \in Nat /\ payments[k].paid_at <= EndOf(to)
      /\ \A t \in ts : t.created_at \in Nat /\ t.created_at <= EndOf(to)
  BY <1>2, <1>3, ReportSums
<1>7. IsFiniteSet(ks) /\ IsFiniteSet(ts)
  <2>1. payments \in Seq(Row)  BY MoneyRows
  <2>. QED  BY <1>6, <2>1, ColumnSums, TipSums
<1>8. PICK key : key = [k \in ks |-> MonthOf(payments[k].paid_at)]  OBVIOUS
<1>9. PICK tipkey : tipkey = [t \in ts |-> MonthOf(t.created_at)]  OBVIOUS
<1>10. PICK kof : kof = [m \in K |-> {k \in ks : key[k] = m}]  OBVIOUS
<1>11. PICK tof : tof = [m \in K |-> {t \in ts : tipkey[t] = m}]  OBVIOUS
<1>12. PICK f : f = [m \in K |-> Total(col, kof[m])]  OBVIOUS
<1>13. PICK g : g = [m \in K |-> Total(tipcol, tof[m])]  OBVIOUS
<1>14. \A k \in ks : key[k] \in K
  <2>1. \A k \in ks : payments[k].paid_at <= Midnight(to + 1)  BY <1>4, <1>6
  <2>. QED  BY <1>1, <1>4, <1>6, <1>8, <2>1, Months
<1>15. \A t \in ts : tipkey[t] \in K
  <2>1. \A t \in ts : t.created_at <= Midnight(to + 1)  BY <1>4, <1>6
  <2>. QED  BY <1>1, <1>4, <1>6, <1>9, <2>1, Months
<1>16. Total(f, K) = Total(col, ks)
  <2>1. \A k \in ks : col[k] \in Int  BY <1>6
  <2>2. \A m \in K : f[m] = Total(col, kof[m])  BY <1>12
  <2>3. \A m \in K : \A k : k \in kof[m] <=> k \in ks /\ key[k] = m  BY <1>10
  <2>. QED  BY <1>5, <1>7, <1>14, <2>1, <2>2, <2>3, TotalByKey
<1>17. Total(g, K) = Total(tipcol, ts)
  <2>1. \A t \in ts : tipcol[t] \in Int  BY <1>6
  <2>2. \A m \in K : g[m] = Total(tipcol, tof[m])  BY <1>13
  <2>3. \A m \in K : \A t : t \in tof[m] <=> t \in ts /\ tipkey[t] = m  BY <1>11
  <2>4. IsFiniteSet(ts) /\ IsFiniteSet(K)  BY <1>5, <1>7
  <2>. QED  BY <2>4, <1>15, <2>1, <2>2, <2>3, TotalByKey
<1>18. ASSUME NEW m \in K
       PROVE  f[m] \in Int /\ g[m] \in Int /\ h[m] = f[m] + g[m]
  <2>1. PICK km : km = kof[m] /\ km = {k \in ks : key[k] = m}  BY <1>10
  <2>2. PICK tm : tm = tof[m] /\ tm = {t \in ts : tipkey[t] = m}  BY <1>11
  <2>3. km = MonthPayments(from, to, m)
    BY <1>2, <1>8, <2>1 DEF MonthPayments
  <2>4. tm = MonthTips(from, to, m)
    BY <1>3, <1>9, <2>2 DEF MonthTips
  <2>5. h[m] = Total(col, km) + Total(tipcol, tm)
    <3>1. h[m] = Total(col, MonthPayments(from, to, m))
                 + Total(tipcol, MonthTips(from, to, m))
      BY <1>1
    <3>. QED  BY <2>3, <2>4, <3>1
  <2>6. f[m] = Total(col, km) /\ g[m] = Total(tipcol, tm)  BY <1>12, <1>13, <2>1, <2>2
  <2>7. IsFiniteSet(km) /\ \A k \in km : col[k] \in Int  BY <1>6, <1>7, <2>1, FS_Subset
  <2>8. IsFiniteSet(tm) /\ \A t \in tm : tipcol[t] \in Int  BY <1>6, <1>7, <2>2, FS_Subset
  <2>9. Total(col, km) \in Int  BY <2>7, TotalType
  <2>10. Total(tipcol, tm) \in Int  BY <2>8, TotalType
  <2>. QED  BY <2>5, <2>6, <2>9, <2>10
<1>19. Total(h, K) = Total(f, K) + Total(g, K)  BY <1>5, <1>18, TotalOfSums
<1>20. SumFunction(h) = Total(h, K)  BY <1>1, <1>5, SumIsTotal
<1>. QED  BY <1>2, <1>3, <1>16, <1>17, <1>19, <1>20

(* A column added up over three parts of its rows.                         *)
LEMMA ThreeParts ==
    ASSUME NEW S, IsFiniteSet(S), NEW A, NEW B, NEW C, S = (A \cup B) \cup C,
           A \cap B = {}, A \cap C = {}, B \cap C = {},
           NEW g, \A x \in S : g[x] \in Int
    PROVE  /\ Total(g, S) = Total(g, A) + Total(g, B) + Total(g, C)
           /\ Total(g, A) \in Int /\ Total(g, B) \in Int /\ Total(g, C) \in Int
<1>1. PICK AB : AB = A \cup B  OBVIOUS
<1>2. IsFiniteSet(A) /\ IsFiniteSet(B) /\ IsFiniteSet(C) /\ IsFiniteSet(AB)
  <2>1. A \in SUBSET S /\ B \in SUBSET S /\ C \in SUBSET S /\ AB \in SUBSET S  BY <1>1
  <2>. QED  BY <2>1, FS_Subset
<1>3. Total(g, A \cup B) = Total(g, A) + Total(g, B)
  <2>1. \A x \in A \cup B : g[x] \in Int  OBVIOUS
  <2>. QED  BY <1>2, <2>1, TotalSplit
<1>4. Total(g, AB \cup C) = Total(g, AB) + Total(g, C)
  <2>1. (\A x \in AB \cup C : g[x] \in Int) /\ AB \cap C = {}  BY <1>1
  <2>. QED  BY <1>2, <2>1, TotalSplit
<1>5. Total(g, A) \in Int /\ Total(g, B) \in Int /\ Total(g, C) \in Int
  <2>1. \A x \in A : g[x] \in Int  OBVIOUS
  <2>2. \A x \in B : g[x] \in Int  OBVIOUS
  <2>3. \A x \in C : g[x] \in Int  OBVIOUS
  <2>. QED  BY <1>2, <2>1, <2>2, <2>3, TotalType
<1>. QED  BY <1>1, <1>3, <1>4, <1>5

\* Income of the hours between two neighbouring ranges.
PaymentsBetween(date) == {k \in Completed : Between(payments[k].paid_at, date)}

TipsBetween(date) == {t \in Tips : Between(t.created_at, date)}

(* Any report is the sum of the reports of its first days and of the rest, *)
(* and of what came in between the two.                                    *)
LEMMA RangesAddUp ==
    ASSUME MoneyInv, NEW from \in Nat, NEW to \in Nat, NEW day \in from .. to - 1
    PROVE  Revenue(PaymentsWithin(from, to), TipsWithin(from, to))
              = Revenue(PaymentsWithin(from, day), TipsWithin(from, day))
                + Revenue(PaymentsBetween(day), TipsBetween(day))
                + Revenue(PaymentsWithin(day + 1, to), TipsWithin(day + 1, to))
<1>. day \in Nat /\ day + 1 \in Nat  OBVIOUS
<1>r. payments \in Seq(Row)  BY MoneyRows
<1>1. PICK ks : ks = PaymentsWithin(from, to)  OBVIOUS
<1>2. PICK k1 : k1 = PaymentsWithin(from, day)  OBVIOUS
<1>3. PICK k2 : k2 = PaymentsWithin(day + 1, to)  OBVIOUS
<1>4. PICK k3 : k3 = PaymentsBetween(day)  OBVIOUS
<1>5. PICK ts : ts = TipsWithin(from, to)  OBVIOUS
<1>6. PICK t1 : t1 = TipsWithin(from, day)  OBVIOUS
<1>7. PICK t2 : t2 = TipsWithin(day + 1, to)  OBVIOUS
<1>8. PICK t3 : t3 = TipsBetween(day)  OBVIOUS
<1>9. ks \in SUBSET DOMAIN payments /\ ts \in SUBSET Tips  BY <1>1, <1>5, ReportSums
<1>10. ks = (k1 \cup k3) \cup k2 /\ k1 \cap k3 = {} /\ k1 \cap k2 = {} /\ k3 \cap k2 = {}
  <2>1. \A k \in DOMAIN payments : payments[k].paid_at \in Nat  BY MoneyRows DEF Row
  <2>2. \A k \in Completed : payments[k].paid_at \in Nat  BY <2>1 DEF Completed
  <2>3. \A k \in Completed :
           /\ k \in ks <=> k \in k1 \/ k \in k3 \/ k \in k2
           /\ ~ (k \in k1 /\ k \in k3) /\ ~ (k \in k1 /\ k \in k2) /\ ~ (k \in k3 /\ k \in k2)
    <3>. TAKE k \in Completed
    <3>1. PICK hour \in Nat : hour = payments[k].paid_at  BY <2>2
    <3>. QED
      BY <1>1, <1>2, <1>3, <1>4, <3>1, WithinSplit DEF PaymentsWithin, PaymentsBetween
  <2>4. ks \subseteq Completed /\ k1 \subseteq Completed /\ k2 \subseteq Completed /\ k3 \subseteq Completed
    BY <1>1, <1>2, <1>3, <1>4 DEF PaymentsWithin, PaymentsBetween
  <2>. QED  BY <2>3, <2>4
<1>11. ts = (t1 \cup t3) \cup t2 /\ t1 \cap t3 = {} /\ t1 \cap t2 = {} /\ t3 \cap t2 = {}
  <2>1. \A t \in Tips : t.created_at \in Nat  BY TipsAssumption DEF TipsAssumption
  <2>2. \A t \in Tips :
           /\ t \in ts <=> t \in t1 \/ t \in t3 \/ t \in t2
           /\ ~ (t \in t1 /\ t \in t3) /\ ~ (t \in t1 /\ t \in t2) /\ ~ (t \in t3 /\ t \in t2)
    <3>. TAKE t \in Tips
    <3>1. PICK hour \in Nat : hour = t.created_at  BY <2>1
    <3>. QED  BY <1>5, <1>6, <1>7, <1>8, <3>1, WithinSplit DEF TipsWithin, TipsBetween
  <2>3. ts \subseteq Tips /\ t1 \subseteq Tips /\ t2 \subseteq Tips /\ t3 \subseteq Tips
    BY <1>5, <1>6, <1>7, <1>8 DEF TipsWithin, TipsBetween
  <2>. QED  BY <2>2, <2>3
<1>12. PICK A : A = Amounts(payments)  OBVIOUS
<1>13. PICK T : T = TipAmounts  OBVIOUS
<1>14. /\ Total(A, ks) = Total(A, k1) + Total(A, k3) + Total(A, k2)
       /\ Total(A, k1) \in Int /\ Total(A, k3) \in Int /\ Total(A, k2) \in Int
  <2>1. IsFiniteSet(ks)  BY <1>r, <1>9, ColumnSums
  <2>2. \A k \in ks : A[k] \in Int  BY <1>r, <1>9, <1>12, ColumnTypes
  <2>. QED  BY <1>10, <2>1, <2>2, ThreeParts
<1>15. /\ Total(T, ts) = Total(T, t1) + Total(T, t3) + Total(T, t2)
       /\ Total(T, t1) \in Int /\ Total(T, t3) \in Int /\ Total(T, t2) \in Int
  <2>1. IsFiniteSet(ts)  BY <1>9, TipSums
  <2>2. \A t \in ts : T[t] \in Int  BY <1>9, <1>13, TipTypes
  <2>. QED  BY <1>11, <2>1, <2>2, ThreeParts
<1>16. /\ Revenue(ks, ts) = Total(A, ks) + Total(T, ts)
       /\ Revenue(k1, t1) = Total(A, k1) + Total(T, t1)
       /\ Revenue(k3, t3) = Total(A, k3) + Total(T, t3)
       /\ Revenue(k2, t2) = Total(A, k2) + Total(T, t2)
  BY <1>12, <1>13 DEF Revenue
<1>17. Revenue(ks, ts) = Revenue(k1, t1) + Revenue(k3, t3) + Revenue(k2, t2)
  BY <1>14, <1>15, <1>16
<1>. QED  BY <1>1, <1>2, <1>3, <1>4, <1>5, <1>6, <1>7, <1>8, <1>17

LEMMA MoneySteps ==
    ASSUME [MoneyNext \/ AudienceNext]_tables
    PROVE  [MoneyNext]_money
  BY DEF AudienceNext, AudienceChanges, tables

LEMMA MoneyInvariant == ReportsSpec => []MoneyInv
<1>1. TablesInit => MoneyInv
  <2>. SUFFICES ASSUME TablesInit PROVE MoneyInv  OBVIOUS
  <2>1. now = 0 /\ payments = <<>>  BY DEF TablesInit
  <2>2. payments \in Seq(Row) /\ Len(payments) = 0  BY <2>1
  <2>. QED  BY <2>1, <2>2 DEF MoneyInv, Books
<1>2. MoneyInv /\ [MoneyNext \/ AudienceNext]_tables => MoneyInv'  BY MoneySteps, MoneyStep
<1>. QED  BY <1>1, <1>2, PTL DEF ReportsSpec

(* The bucket of a month, by its columns.                                  *)
LEMMA BucketIs ==
    ASSUME MoneyInv, NEW from \in Nat, NEW to \in Nat, NEW m
    PROVE  /\ Bucket(from, to, m).revenue
                 = Total(Amounts(payments), MonthPayments(from, to, m))
                   + Total(TipAmounts, MonthTips(from, to, m))
           /\ Bucket(from, to, m).net
                 = Total(AuthorParts(payments), MonthPayments(from, to, m))
                   + Total(TipNets, MonthTips(from, to, m))
<1>. DEFINE ks == MonthPayments(from, to, m)
            ts == MonthTips(from, to, m)
<1>1. ks \in SUBSET DOMAIN payments /\ ts \in SUBSET Tips
  BY ReportSums DEF MonthPayments, MonthTips
<1>2. Bucket(from, to, m) = [revenue |-> Totals(ks, ts).totalRevenue, net |-> Totals(ks, ts).netPayout]
  BY DEF Bucket, MonthPayments, MonthTips
<1>. HIDE DEF ks, ts
<1>3. Totals(ks, ts).totalRevenue = Revenue(ks, ts) /\ Totals(ks, ts).netPayout = NetIncome(ks, ts)
  BY <1>1, TotalsAre
<1>4. Bucket(from, to, m).revenue = Revenue(ks, ts) /\ Bucket(from, to, m).net = NetIncome(ks, ts)
  BY <1>2, <1>3
<1>5. /\ Bucket(from, to, m).revenue = Total(Amounts(payments), ks) + Total(TipAmounts, ts)
      /\ Bucket(from, to, m).net = Total(AuthorParts(payments), ks) + Total(TipNets, ts)
  BY <1>4 DEF Revenue, NetIncome
<1>. QED  BY <1>5 DEF ks, ts

(* Nothing is lost between the columns and the months of a report, nothing *)
(* is in two neighbouring reports, and what is in neither came in the      *)
(* hours that the server's clock and UTC leave between them.               *)
THEOREM EveryKopeckReported == ReportsSpec => []RevenueAddsUp
<1>1. ASSUME MoneyInv, NEW from \in Nat, NEW to \in Nat
      PROVE  LET report == getRevenueAnalytics(from, to)
                 months == 0 .. MonthOf(Midnight(to + 1))
             IN  /\ report.totalRevenue
                       = report.platformFees + report.processorFees + report.netPayout
                 /\ report.totalRevenue = SumFunction([m \in months |-> Bucket(from, to, m).revenue])
                 /\ report.netPayout = SumFunction([m \in months |-> Bucket(from, to, m).net])
                 /\ \A date \in from .. to - 1 :
                       report.totalRevenue = getRevenueAnalytics(from, date).totalRevenue
                                               + LeftOut(date).totalRevenue
                                               + getRevenueAnalytics(date + 1, to).totalRevenue
  <2>. DEFINE report == getRevenueAnalytics(from, to)
              months == 0 .. MonthOf(Midnight(to + 1))
  <2>1. ASSUME NEW f \in Nat, NEW t \in Nat
        PROVE  LET ks == PaymentsWithin(f, t)
                   ts == TipsWithin(f, t)
                   rep == getRevenueAnalytics(f, t)
               IN  /\ rep.totalRevenue = Revenue(ks, ts) /\ rep.netPayout = NetIncome(ks, ts)
                   /\ rep.platformFees + rep.processorFees + NetIncome(ks, ts) = Revenue(ks, ts)
    <3>1. PaymentsWithin(f, t) \in SUBSET DOMAIN payments /\ TipsWithin(f, t) \in SUBSET Tips
      BY <1>1, ReportSums
    <3>. QED  BY <1>1, <3>1, TotalsAre DEF getRevenueAnalytics
  <2>2. report.totalRevenue = report.platformFees + report.processorFees + report.netPayout
    BY <1>1, <2>1
  <2>3. payments \in Seq(Row)  BY <1>1, MoneyRows
  <2>4. SumFunction([m \in months |-> Bucket(from, to, m).revenue])
          = Revenue(PaymentsWithin(from, to), TipsWithin(from, to))
    <3>1. PICK A : A = Amounts(payments) /\ \A k \in DOMAIN payments : A[k] \in Int
      BY <2>3, ColumnTypes
    <3>2. PICK T : T = TipAmounts /\ \A t \in Tips : T[t] \in Int  BY TipTypes
    <3>3. PICK h : h = [m \in months |-> Bucket(from, to, m).revenue]  OBVIOUS
    <3>4. DOMAIN h = 0 .. MonthOf(Midnight(to + 1))  BY <3>3
    <3>5. \A m \in 0 .. MonthOf(Midnight(to + 1)) :
            h[m] = Total(A, MonthPayments(from, to, m))
                   + Total(T, MonthTips(from, to, m))
      BY <1>1, <3>1, <3>2, <3>3, BucketIs
    <3>6. SumFunction(h) = Total(A, PaymentsWithin(from, to)) + Total(T, TipsWithin(from, to))
      BY <1>1, <3>1, <3>2, <3>4, <3>5, MonthsAddUp
    <3>. QED  BY <3>1, <3>2, <3>3, <3>6 DEF Revenue
  <2>5. SumFunction([m \in months |-> Bucket(from, to, m).net])
          = NetIncome(PaymentsWithin(from, to), TipsWithin(from, to))
    <3>1. PICK A : A = AuthorParts(payments) /\ \A k \in DOMAIN payments : A[k] \in Int
      BY <2>3, ColumnTypes
    <3>2. PICK T : T = TipNets /\ \A t \in Tips : T[t] \in Int  BY TipTypes
    <3>3. PICK h : h = [m \in months |-> Bucket(from, to, m).net]  OBVIOUS
    <3>4. DOMAIN h = 0 .. MonthOf(Midnight(to + 1))  BY <3>3
    <3>5. \A m \in 0 .. MonthOf(Midnight(to + 1)) :
            h[m] = Total(A, MonthPayments(from, to, m))
                   + Total(T, MonthTips(from, to, m))
      BY <1>1, <3>1, <3>2, <3>3, BucketIs
    <3>6. SumFunction(h) = Total(A, PaymentsWithin(from, to)) + Total(T, TipsWithin(from, to))
      BY <1>1, <3>1, <3>2, <3>4, <3>5, MonthsAddUp
    <3>. QED  BY <3>1, <3>2, <3>3, <3>6 DEF NetIncome
  <2>6. ASSUME NEW date \in from .. to - 1
        PROVE  report.totalRevenue = getRevenueAnalytics(from, date).totalRevenue
                                       + LeftOut(date).totalRevenue
                                       + getRevenueAnalytics(date + 1, to).totalRevenue
    <3>1. date \in Nat /\ date + 1 \in Nat  OBVIOUS
    <3>2. LeftOut(date).totalRevenue = Revenue(PaymentsBetween(date), TipsBetween(date))
      <4>1. PaymentsBetween(date) \in SUBSET DOMAIN payments /\ TipsBetween(date) \in SUBSET Tips
        BY DEF PaymentsBetween, TipsBetween, Completed
      <4>2. LeftOut(date) = Totals(PaymentsBetween(date), TipsBetween(date))
        BY DEF LeftOut, PaymentsBetween, TipsBetween
      <4>. QED  BY <1>1, <4>1, <4>2, TotalsAre
    <3>. QED  BY <1>1, <2>1, <3>1, <3>2, RangesAddUp
  <2>. QED  BY <1>1, <2>1, <2>2, <2>4, <2>5, <2>6
<1>2. MoneyInv => RevenueAddsUp
  <2>. SUFFICES ASSUME MoneyInv, NEW r \in Ranges
                PROVE  LET report == getRevenueAnalytics(r[1], r[2])
                           months == 0 .. MonthOf(Midnight(r[2] + 1))
                       IN  /\ report.totalRevenue
                                 = report.platformFees + report.processorFees + report.netPayout
                           /\ report.totalRevenue = SumFunction([m \in months |-> Bucket(r[1], r[2], m).revenue])
                           /\ report.netPayout = SumFunction([m \in months |-> Bucket(r[1], r[2], m).net])
                           /\ \A date \in r[1] .. r[2] - 1 :
                                 report.totalRevenue = getRevenueAnalytics(r[1], date).totalRevenue
                                                         + LeftOut(date).totalRevenue
                                                         + getRevenueAnalytics(date + 1, r[2]).totalRevenue
    BY DEF RevenueAddsUp
  <2>1. r[1] \in Nat /\ r[2] \in Nat  BY ThisDay DEF Ranges, MoneyInv
  <2>. QED  BY <1>1, <2>1
<1>. QED  BY <1>2, MoneyInvariant, PTL

(* The pages that tell of the same money agree.                            *)
THEOREM ViewsTellTheSame == ReportsSpec => []ViewsAgree
<1>1. ASSUME MoneyInv PROVE ViewsAgree
  <2>. DEFINE shown == getRevenueBreakdown
              report == getRevenueAnalytics(-1, Today + 1)
              future == {t \in Tips : t.created_at > EndOf(Today + 1)}
  <2>r. payments \in Seq(Row) /\ now \in Nat  BY <1>1, MoneyRows
  <2>d. /\ StartOf(-1) \in Int /\ StartOf(-1) < 0
        /\ now <= EndOf(Today + 1) /\ EndOf(Today + 1) \in Int
    <3>1. PICK h \in Nat, o \in Int : h = HoursPerDay /\ o = Offset /\ o <= h - 1  BY Calendar
    <3>2. StartOf(-1) = o - h  BY <3>1 DEF StartOf, Midnight
    <3>3. Today + 1 \in Int  BY <2>r, ThisDay
    <3>4. EndOf(Today + 1) \in Int  BY <3>3, Days
    <3>. QED  BY <2>r, <3>1, <3>2, <3>4, ThisDay
  <2>1. PICK ks : ks = Completed /\ ks \in SUBSET DOMAIN payments  BY <1>1, ReportSums
  <2>2. PICK past : past = TipsWithin(-1, Today + 1) /\ past \in SUBSET Tips  BY <1>1, ReportSums
  <2>3. PaymentsWithin(-1, Today + 1) = ks
    <3>1. \A k \in DOMAIN payments : payments[k].paid_at \in Nat /\ payments[k].paid_at <= now
      BY <1>1, MoneyRows DEF Row
    <3>. QED  BY <2>1, <2>d, <2>r, <3>1 DEF PaymentsWithin, Completed, Within
  <2>4. PICK later : later = future  OBVIOUS
  <2>5. later \in SUBSET Tips /\ past \cup later = Tips /\ past \cap later = {}
    <3>1. \A t \in Tips : t.created_at \in Nat  BY TipsAssumption DEF TipsAssumption
    <3>. QED  BY <2>2, <2>4, <2>d, <3>1 DEF TipsWithin, Within
  <2>6. PICK A : A = Total(Amounts(payments), ks)  OBVIOUS
  <2>7. PICK D : D = Total(AuthorParts(payments), ks)  OBVIOUS
  <2>8. A \in Int /\ D \in Int
    <3>1. IsFiniteSet(ks)  BY <2>1, <2>r, ColumnSums
    <3>2. \A k \in ks : Amounts(payments)[k] \in Int  BY <2>1, <2>r, ColumnTypes
    <3>3. \A k \in ks : AuthorParts(payments)[k] \in Int  BY <2>1, <2>r, ColumnTypes
    <3>. QED  BY <2>6, <2>7, <3>1, <3>2, <3>3, TotalType
  <2>9. /\ Total(TipAmounts, Tips) = Total(TipAmounts, past) + Total(TipAmounts, later)
        /\ Total(TipNets, Tips) = Total(TipNets, past) + Total(TipNets, later)
        /\ Total(TipNets, Tips) = Total(TipAmounts, Tips) - Total(TipFees, Tips)
        /\ Total(TipAmounts, past) \in Int /\ Total(TipAmounts, later) \in Int
        /\ Total(TipNets, past) \in Int /\ Total(TipNets, later) \in Int
        /\ Total(TipFees, Tips) \in Int
    <3>1. IsFiniteSet(past) /\ IsFiniteSet(later) /\ IsFiniteSet(Tips)
      BY <2>2, <2>5, TipSums
    <3>2. PICK T : T = TipAmounts  OBVIOUS
    <3>3. PICK N : N = TipNets  OBVIOUS
    <3>4. PICK F : F = TipFees  OBVIOUS
    <3>5. \A t \in Tips : T[t] \in Int /\ F[t] \in Int /\ N[t] = T[t] - F[t]
      BY <3>2, <3>3, <3>4, TipTypes
    <3>6. \A t \in Tips : T[t] \in Int  BY <3>5
    <3>7. \A t \in Tips : N[t] \in Int  BY <3>3, TipTypes
    <3>8. \A t \in Tips : F[t] \in Int  BY <3>5
    <3>9. Total(N, Tips) = Total(T, Tips) - Total(F, Tips)
      BY <3>1, <3>5, TotalOfDifferences
    <3>10. Total(T, past \cup later) = Total(T, past) + Total(T, later)
      <4>1. \A t \in past \cup later : T[t] \in Int  BY <2>5, <3>6
      <4>. QED  BY <2>5, <3>1, <4>1, TotalSplit
    <3>11. Total(N, past \cup later) = Total(N, past) + Total(N, later)
      <4>1. \A t \in past \cup later : N[t] \in Int  BY <2>5, <3>7
      <4>. QED  BY <2>5, <3>1, <4>1, TotalSplit
    <3>12. Total(T, past) \in Int /\ Total(N, past) \in Int
      <4>1. \A t \in past : T[t] \in Int  BY <2>2, <3>6
      <4>2. \A t \in past : N[t] \in Int  BY <2>2, <3>7
      <4>. QED  BY <3>1, <4>1, <4>2, TotalType
    <3>13. Total(T, later) \in Int /\ Total(N, later) \in Int
      <4>1. \A t \in later : T[t] \in Int  BY <2>5, <3>6
      <4>2. \A t \in later : N[t] \in Int  BY <2>5, <3>7
      <4>. QED  BY <3>1, <4>1, <4>2, TotalType
    <3>14. Total(F, Tips) \in Int  BY <3>1, <3>8, TotalType
    <3>. QED  BY <2>5, <3>2, <3>3, <3>4, <3>9, <3>10, <3>11, <3>12, <3>13, <3>14
  <2>10. report.totalRevenue = A + Total(TipAmounts, past) /\ report.netPayout = D + Total(TipNets, past)
    BY <1>1, <2>1, <2>2, <2>3, <2>6, <2>7, TotalsAre DEF getRevenueAnalytics, Revenue, NetIncome
  <2>11. /\ SumFunction([k \in Completed |-> payments[k].amount]) = A
         /\ SumFunction([k \in Completed |-> payments[k].author_payout]) = D
    BY <2>1, <2>6, <2>7, <2>r, ColumnSums
  <2>12. /\ SumFunction([t \in Tips |-> t.amount]) = Total(TipAmounts, Tips)
         /\ SumFunction([t \in Tips |-> t.platform_fee]) = Total(TipFees, Tips)
         /\ SumFunction([t \in Tips |-> TipNet(t)]) = Total(TipNets, Tips)
    BY TipSums
  <2>13. /\ shown.lifetimeNet = D + Total(TipAmounts, Tips) - Total(TipFees, Tips)
         /\ shown.lifetimeRevenue = A + Total(TipAmounts, Tips)
         /\ shown.pendingBalance = Max({0, shown.lifetimeNet - paidOut})
    BY <2>11, <2>12 DEF getRevenueBreakdown
  <2>14. getPendingBalance = Max({0, (D + Total(TipNets, Tips)) - paidOut})
    BY <2>11, <2>12 DEF getPendingBalance
  <2>15. /\ SumFunction([t \in future |-> TipNet(t)]) = Total(TipNets, later)
         /\ SumFunction([t \in future |-> t.amount]) = Total(TipAmounts, later)
    BY <2>4, <2>5, TipSums
  <2>. HIDE DEF shown, report, future
  <2>16. shown.lifetimeNet = D + Total(TipNets, Tips)  BY <2>8, <2>9, <2>13
  <2>17. shown.pendingBalance = getPendingBalance  BY <2>13, <2>14, <2>16
  <2>18. shown.lifetimeNet = report.netPayout + SumFunction([t \in future |-> TipNet(t)])
    BY <2>8, <2>9, <2>10, <2>15, <2>16
  <2>19. shown.lifetimeRevenue = report.totalRevenue + SumFunction([t \in future |-> t.amount])
    BY <2>8, <2>9, <2>10, <2>13, <2>15
  <2>. QED  BY <2>17, <2>18, <2>19 DEF ViewsAgree, shown, report, future
<1>. QED  BY <1>1, MoneyInvariant, PTL

-----------------------------------------------------------------------------
(* The rows of a table that a report of some days takes in.                *)
RowsWithin(p, from, to) ==
    {k \in DOMAIN p : p[k].status = "completed" /\ Within(p[k].paid_at, from, to)}

(* A table that has no new row within those days, and the old ones at most.*)
LEMMA FewerRows ==
    ASSUME NEW p \in Seq(Row), NEW q \in Seq(Row), NEW from, NEW to,
           \A k \in RowsWithin(q, from, to) :
              k \in RowsWithin(p, from, to) /\ q[k].amount = p[k].amount
    PROVE  Total(Amounts(q), RowsWithin(q, from, to)) <= Total(Amounts(p), RowsWithin(p, from, to))
<1>1. PICK more : more = RowsWithin(p, from, to)  OBVIOUS
<1>2. PICK less : less = RowsWithin(q, from, to)  OBVIOUS
<1>3. less \in SUBSET more /\ more \in SUBSET DOMAIN p /\ less \in SUBSET DOMAIN q
  BY <1>1, <1>2 DEF RowsWithin
<1>4. IsFiniteSet(more) /\ IsFiniteSet(less)  BY <1>3, ColumnSums
<1>5. PICK A : A = Amounts(p)  OBVIOUS
<1>6. PICK B : B = Amounts(q)  OBVIOUS
<1>7. \A k \in more : A[k] \in Nat  BY <1>3, <1>5, ColumnTypes
<1>8. \A k \in less : B[k] = A[k]
  <2>. TAKE k \in less
  <2>1. k \in DOMAIN p /\ k \in DOMAIN q /\ q[k].amount = p[k].amount  BY <1>2, <1>3
  <2>. QED  BY <1>5, <1>6, <2>1 DEF Amounts
<1>9. Total(B, less) = Total(A, less)  BY <1>4, <1>8, TotalSame
<1>10. Total(A, less) <= Total(A, more)  BY <1>3, <1>4, <1>7, TotalWithin
<1>. QED  BY <1>1, <1>2, <1>5, <1>6, <1>9, <1>10

(* No step adds a row to days that are over.                               *)
LEMMA OverIsOver ==
    ASSUME MoneyInv, [MoneyNext]_money, NEW from \in Nat, NEW to \in Nat, to < Today
    PROVE  \A k \in RowsWithin(payments', from, to) :
              k \in RowsWithin(payments, from, to) /\ payments'[k].amount = payments[k].amount
<1>r. /\ now \in Nat /\ payments \in Seq(Row)
      /\ DOMAIN payments = 1 .. Len(payments) /\ Len(payments) \in Nat
      /\ \A k \in DOMAIN payments :
            payments[k] \in Row /\ IsSplit(payments[k]) /\ payments[k].paid_at <= now
  BY MoneyRows
<1>d. ~ Within(now, from, to)
  <2>1. Today \in Nat /\ Midnight(Today) <= now  BY <1>r, ThisDay
  <2>2. to + 1 \in Int /\ to + 1 <= Today  BY <2>1
  <2>3. Midnight(to + 1) <= Midnight(Today) /\ Midnight(to + 1) \in Int /\ Midnight(Today) \in Int
    BY <2>1, <2>2, LaterDays
  <2>4. EndOf(to) \in Int /\ EndOf(to) < Midnight(to + 1)  BY Days
  <2>. QED  BY <1>r, <2>1, <2>3, <2>4 DEF Within
<1>1. ASSUME NEW p \in Processors, NEW n \in Nat, Charge(p, n)
      PROVE  \A k \in RowsWithin(payments', from, to) :
                k \in RowsWithin(payments, from, to) /\ payments'[k].amount = payments[k].amount
  <2>1. PICK row \in Row : row = NewPayment(p, n) /\ row.paid_at = now
    BY <1>r, NewPaymentSplit
  <2>2. payments' = Append(payments, row)  BY <1>1, <2>1 DEF Charge
  <2>3. payments' \in Seq(Row)  BY <1>r, <2>2, AppendTyped
  <2>4. Len(payments') = Len(payments) + 1 /\ payments'[Len(payments) + 1] = row
        /\ \A k \in DOMAIN payments : payments'[k] = payments[k]
    BY <1>r, <2>2, RowAdded
  <2>. QED  BY <1>d, <1>r, <2>1, <2>3, <2>4 DEF RowsWithin
<1>2. ASSUME NEW k \in DOMAIN payments, ReversePayment(k)
      PROVE  \A l \in RowsWithin(payments', from, to) :
                l \in RowsWithin(payments, from, to) /\ payments'[l].amount = payments[l].amount
  <2>1. PICK row : row = [payments[k] EXCEPT !.status = "failed"]  OBVIOUS
  <2>2. row.status = "failed"  BY <1>r, <2>1 DEF Row
  <2>3. payments' = [payments EXCEPT ![k] = row]  BY <1>2, <2>1 DEF ReversePayment
  <2>4. DOMAIN payments' = DOMAIN payments /\ payments'[k] = row
        /\ \A l \in DOMAIN payments : l # k => payments'[l] = payments[l]
    BY <2>3
  <2>. QED  BY <2>2, <2>4 DEF RowsWithin
<1>3. ASSUME NEW k \in DOMAIN payments, RestorePayment(k)
      PROVE  \A l \in RowsWithin(payments', from, to) :
                l \in RowsWithin(payments, from, to) /\ payments'[l].amount = payments[l].amount
  <2>1. PICK old \in Row : old = payments[k] /\ IsSplit(old)  BY <1>r
  <2>2. PICK row \in Row : row = Refreshed(old) /\ row.paid_at = now
    BY <1>r, <2>1, RefreshedSplit
  <2>3. payments' = [payments EXCEPT ![k] = row]  BY <1>3, <2>1, <2>2 DEF RestorePayment
  <2>4. DOMAIN payments' = DOMAIN payments /\ payments'[k] = row
        /\ \A l \in DOMAIN payments : l # k => payments'[l] = payments[l]
    BY <2>3
  <2>. QED  BY <1>d, <2>2, <2>4 DEF RowsWithin
<1>4. CASE payments' = payments  BY <1>4
<1>. QED
  BY <1>1, <1>2, <1>3, <1>4 DEF MoneyNext, TablesNext, HourPasses, PayOut, money

(* Late webhooks book no income on days that are over.                     *)
THEOREM PastIsClosed == ReportsSpec => PastNeverGrows
<1>1. ASSUME MoneyInv, MoneyInv', [MoneyNext]_money, NEW r \in Ranges, r[2] < Today
      PROVE  getRevenueAnalytics(r[1], r[2])'.totalRevenue
                <= getRevenueAnalytics(r[1], r[2]).totalRevenue
  <2>1. now \in Nat /\ payments \in Seq(Row)  BY <1>1, MoneyRows
  <2>2. payments' \in Seq(Row)  BY <1>1 DEF MoneyInv, Books
  <2>3. PICK from \in Nat, to \in Nat : from = r[1] /\ to = r[2]
    BY <2>1, ThisDay DEF Ranges
  <2>4. PaymentsWithin(from, to) = RowsWithin(payments, from, to)
        /\ PaymentsWithin(from, to)' = RowsWithin(payments', from, to)
    BY DEF PaymentsWithin, Completed, RowsWithin, Within, StartOf, EndOf, Midnight, DayOf
  <2>5. PICK ks : ks = RowsWithin(payments, from, to) /\ ks \in SUBSET DOMAIN payments
    BY DEF RowsWithin
  <2>6. PICK ls : ls = RowsWithin(payments', from, to) /\ ls \in SUBSET DOMAIN payments'
    BY DEF RowsWithin
  <2>7. PICK ts : ts = TipsWithin(from, to) /\ ts \in SUBSET Tips  BY DEF TipsWithin
  <2>8. TipsWithin(from, to)' = ts  BY <2>7 DEF TipsWithin, Within, StartOf, EndOf, Midnight, DayOf
  <2>9. PICK tips : tips = SumFunction([t \in ts |-> t.amount]) /\ tips \in Int
    <3>1. \A t \in ts : TipAmounts[t] \in Int  BY <2>7, TipTypes
    <3>2. IsFiniteSet(ts)  BY <2>7, TipSums
    <3>3. Total(TipAmounts, ts) \in Int  BY <3>1, <3>2, TotalType
    <3>. QED  BY <2>7, <3>3, TipSums
  <2>10. getRevenueAnalytics(from, to).totalRevenue = Total(Amounts(payments), ks) + tips
    <3>1. getRevenueAnalytics(from, to).totalRevenue = SumFunction([k \in ks |-> payments[k].amount]) + tips
      BY <2>4, <2>5, <2>7, <2>9 DEF getRevenueAnalytics, Totals
    <3>. QED  BY <2>1, <2>5, <3>1, ColumnSums
  <2>11. getRevenueAnalytics(from, to)'.totalRevenue = Total(Amounts(payments'), ls) + tips
    <3>1. getRevenueAnalytics(from, to)'.totalRevenue = SumFunction([k \in ls |-> payments'[k].amount]) + tips
      BY <2>4, <2>6, <2>8, <2>9 DEF getRevenueAnalytics, Totals
    <3>. QED  BY <2>2, <2>6, <3>1, ColumnSums
  <2>12. Total(Amounts(payments'), ls) <= Total(Amounts(payments), ks)
    <3>1. \A k \in RowsWithin(payments', from, to) :
            k \in RowsWithin(payments, from, to) /\ payments'[k].amount = payments[k].amount
      BY <1>1, <2>3, OverIsOver
    <3>. QED  BY <2>1, <2>2, <2>5, <2>6, <3>1, FewerRows
  <2>13. Total(Amounts(payments'), ls) \in Int /\ Total(Amounts(payments), ks) \in Int
    <3>1. IsFiniteSet(ks) /\ IsFiniteSet(ls)  BY <2>1, <2>2, <2>5, <2>6, ColumnSums
    <3>2. \A k \in ks : Amounts(payments)[k] \in Int  BY <2>1, <2>5, ColumnTypes
    <3>3. \A k \in ls : Amounts(payments')[k] \in Int  BY <2>2, <2>6, ColumnTypes
    <3>. QED  BY <3>1, <3>2, <3>3, TotalType
  <2>. QED  BY <2>3, <2>9, <2>10, <2>11, <2>12, <2>13
<1>2. MoneyInv /\ MoneyInv' /\ [MoneyNext \/ AudienceNext]_tables
        => [\A r \in Ranges :
               r[2] < Today => getRevenueAnalytics(r[1], r[2])'.totalRevenue
                                   <= getRevenueAnalytics(r[1], r[2]).totalRevenue]_tables
  BY <1>1, MoneySteps
<1>. QED  BY <1>2, MoneyInvariant, PTL DEF ReportsSpec, PastNeverGrows

-----------------------------------------------------------------------------
(* The readers.                                                            *)
AudienceTyped ==
    /\ \E n \in Nat \ {0} : sent \in [1 .. n -> Delivered]
    /\ IsFiniteSet(subs)
    /\ \A s \in subs : s.publication \in DOMAIN Price /\ s.started \in 0 .. now

AudienceInv == now \in Nat /\ AudienceTyped

LEMMA AudienceStep ==
    ASSUME AudienceInv, [MoneyNext \/ AudienceNext]_tables
    PROVE  AudienceInv'
<1>1. CASE AudienceNext
  <2>0. PICK n \in Nat \ {0} : \E counts \in [1 .. n -> Delivered], readers \in SUBSET Subscription :
           IsFiniteSet(readers) /\ AudienceChanges(counts, readers)
    BY <1>1 DEF AudienceNext
  <2>1. PICK counts \in [1 .. n -> Delivered], readers \in SUBSET Subscription :
           IsFiniteSet(readers) /\ AudienceChanges(counts, readers)
    BY <2>0
  <2>2. sent' = counts /\ subs' = readers /\ now' = now  BY <2>1 DEF AudienceChanges, money
  <2>3. \A s \in readers : s.publication \in DOMAIN Price /\ s.started \in 0 .. now
    BY <2>1 DEF Subscription
  <2>. QED  BY <2>1, <2>2, <2>3 DEF AudienceInv, AudienceTyped
<1>2. CASE HourPasses
  BY <1>2 DEF HourPasses, AudienceInv, AudienceTyped
<1>3. CASE sent' = sent /\ subs' = subs /\ now' = now
  BY <1>3 DEF AudienceInv, AudienceTyped
<1>. QED
  BY <1>1, <1>2, <1>3
  DEF MoneyNext, TablesNext, Charge, ReversePayment, RestorePayment, PayOut, tables, money

LEMMA AudienceInvariant == ReportsSpec => []AudienceInv
<1>1. TablesInit => AudienceInv
  <2>. SUFFICES ASSUME TablesInit PROVE AudienceInv  OBVIOUS
  <2>1. now = 0 /\ subs = {} /\ sent = <<NothingSent, NothingSent>>  BY DEF TablesInit
  <2>2. NothingSent \in Delivered  BY DEF NothingSent, Delivered
  <2>3. sent \in [1 .. 2 -> Delivered]  BY <2>1, <2>2
  <2>. QED  BY <2>1, <2>3, FS_EmptySet DEF AudienceInv, AudienceTyped
<1>2. AudienceInv /\ [MoneyNext \/ AudienceNext]_tables => AudienceInv'  BY AudienceStep
<1>. QED  BY <1>1, <1>2, PTL DEF ReportsSpec

LEMMA SentRows ==
    ASSUME AudienceInv
    PROVE  /\ IsFiniteSet(DOMAIN sent) /\ DOMAIN sent # {}
           /\ \A a \in DOMAIN sent :
                 /\ sent[a]["clicked"] \in Nat /\ Opens(a) \in Nat /\ Deliveries(a) \in Nat
                 /\ sent[a]["clicked"] <= Opens(a) /\ Opens(a) <= Deliveries(a)
<1>1. PICK n \in Nat \ {0} : sent \in [1 .. n -> Delivered]  BY DEF AudienceInv, AudienceTyped
<1>2. IsFiniteSet(1 .. n)  BY FS_Interval
<1>3. 1 \in DOMAIN sent  BY <1>1
<1>4. ASSUME NEW a \in DOMAIN sent
      PROVE  /\ sent[a]["clicked"] \in Nat /\ Opens(a) \in Nat /\ Deliveries(a) \in Nat
             /\ sent[a]["clicked"] <= Opens(a) /\ Opens(a) <= Deliveries(a)
  <2>1. PICK f : f = sent[a]  OBVIOUS
  <2>2. PICK st : st = {"sent", "opened", "clicked"}  OBVIOUS
  <2>3. f \in [st -> Nat]  BY <1>1, <1>4, <2>1, <2>2 DEF Delivered
  <2>4. DOMAIN f = st /\ \A x \in st : f[x] \in Int  BY <2>3
  <2>5. IsFiniteSet({"clicked"}) /\ Total(f, {"clicked"}) = f["clicked"]
    <3>1. PICK none : none = {}  OBVIOUS
    <3>2. IsFiniteSet(none) /\ Total(f, none) = 0  BY <3>1, FS_EmptySet, TotalOfNone, Zenon
    <3>3. "clicked" \notin none /\ \A x \in none \cup {"clicked"} : f[x] \in Int
      BY <2>2, <2>4, <3>1
    <3>4. IsFiniteSet(none \cup {"clicked"}) /\ Total(f, none \cup {"clicked"}) = f["clicked"] + Total(f, none)
      BY <3>2, <3>3, TotalWith
    <3>5. none \cup {"clicked"} = {"clicked"}  BY <3>1
    <3>6. f["clicked"] \in Int  BY <2>2, <2>4
    <3>7. Total(f, none \cup {"clicked"}) = f["clicked"]  BY <3>2, <3>4, <3>6
    <3>. QED  BY <3>4, <3>5, <3>7, Zenon
  <2>6. PICK two : two = {"clicked"} \cup {"opened"}  OBVIOUS
  <2>7. IsFiniteSet(two) /\ Total(f, two) = f["opened"] + f["clicked"]
    <3>1. "opened" \notin {"clicked"} /\ \A x \in {"clicked"} \cup {"opened"} : f[x] \in Int
      BY <2>2, <2>4
    <3>2. IsFiniteSet({"clicked"} \cup {"opened"})
          /\ Total(f, {"clicked"} \cup {"opened"}) = f["opened"] + Total(f, {"clicked"})
      BY <2>5, <3>1, TotalWith
    <3>. QED  BY <2>5, <2>6, <3>2
  <2>8. IsFiniteSet(two \cup {"sent"}) /\ Total(f, two \cup {"sent"}) = f["sent"] + Total(f, two)
    <3>1. "sent" \notin two /\ \A x \in two \cup {"sent"} : f[x] \in Int
      BY <2>2, <2>4, <2>6
    <3>. QED  BY <2>7, <3>1, TotalWith
  <2>9. two \cup {"sent"} = st  BY <2>2, <2>6
  <2>10. SumFunction(f) = Total(f, st)
    <3>1. IsFiniteSet(st) /\ DOMAIN f = st /\ \A x \in st : f[x] = f[x]  BY <2>4, <2>8, <2>9
    <3>. QED  BY <3>1, SumIsTotal
  <2>11. Deliveries(a) = f["sent"] + (f["opened"] + f["clicked"])
    BY <2>1, <2>7, <2>8, <2>9, <2>10 DEF Deliveries
  <2>12. Opens(a) = f["opened"] + f["clicked"]  BY <2>1 DEF Opens
  <2>13. f["sent"] \in Nat /\ f["opened"] \in Nat /\ f["clicked"] \in Nat  BY <2>2, <2>3
  <2>. QED  BY <2>1, <2>11, <2>12, <2>13
<1>. QED  BY <1>1, <1>2, <1>3, <1>4

(* A rate, rounded, compared without a division.                           *)
LEMMA RateBounds ==
    ASSUME NEW p \in Nat, NEW w \in Nat, w > 0, NEW q \in Nat
    PROVE  /\ Rate(p, w) \in Nat
           /\ Rate(p, w) <= q <=> 20000 * p + w < (2 * q + 2) * w
           /\ q <= Rate(p, w) <=> (2 * q) * w <= 20000 * p + w
<1>1. PICK n \in Nat, c \in Nat \ {0} : n = 20000 * p + w /\ c = 2 * w  OBVIOUS
<1>2. Rate(p, w) = n \div c
  <2>1. 2 * (p * 10000) + w = n  BY <1>1
  <2>. QED  BY <1>1, <2>1 DEF Rate, Round
<1>3. PICK r \in Nat : r = Rate(p, w) /\ r * c <= n /\ n < r * c + c
  BY <1>1, <1>2, Quotient
<1>4. (2 * q + 2) * w = (q + 1) * c /\ (2 * q) * w = q * c
  BY <1>1
<1>5. /\ (r + 1) * c = r * c + c /\ r * c \in Nat /\ q * c \in Nat /\ (q + 1) * c \in Nat
      /\ r + 1 <= q + 1 => (r + 1) * c <= (q + 1) * c
      /\ q + 1 <= r => (q + 1) * c <= r * c
      /\ q <= r => q * c <= r * c
      /\ r + 1 <= q => (r + 1) * c <= q * c
  <2>1. q + 1 \in Nat /\ r + 1 \in Nat  OBVIOUS
  <2>. QED  BY <2>1, Product
<1>6. PICK a \in Nat, b \in Nat, d \in Nat : a = r * c /\ b = q * c /\ d = (q + 1) * c
  BY <1>5
<1>7. r <= q <=> n < d
  <2>1. r <= q => a + c <= d  BY <1>5, <1>6
  <2>2. ~ (r <= q) => d <= a  BY <1>5, <1>6
  <2>. QED  BY <1>3, <1>6, <2>1, <2>2
<1>8. q <= r <=> b <= n
  <2>1. q <= r => b <= a  BY <1>5, <1>6
  <2>2. ~ (q <= r) => a + c <= b  BY <1>5, <1>6
  <2>. QED  BY <1>3, <1>6, <2>1, <2>2
<1>. QED  BY <1>1, <1>3, <1>4, <1>6, <1>7, <1>8

LEMMA NoRate == \A p : Rate(p, 0) = 0
  BY DEF Rate

LEMMA RateGrows ==
    ASSUME NEW p \in Nat, NEW q \in Nat, p <= q, NEW w \in Nat
    PROVE  Rate(p, w) <= Rate(q, w)
<1>1. CASE w = 0  BY <1>1, NoRate
<1>2. CASE w > 0
  <2>1. PICK r \in Nat : r = Rate(q, w)  BY <1>2, RateBounds
  <2>2. 20000 * q + w < (2 * r + 2) * w  BY <1>2, <2>1, RateBounds
  <2>3. (2 * r + 2) * w \in Nat
    <3>1. 2 * r + 2 \in Nat  OBVIOUS
    <3>. QED  BY <3>1, Product
  <2>4. 20000 * p + w < (2 * r + 2) * w  BY <2>2, <2>3
  <2>. QED  BY <1>2, <2>1, <2>4, RateBounds
<1>. QED  BY <1>1, <1>2

(* The rate of all the articles together is between the rates of each.     *)
LEMMA RateBetween ==
    ASSUME NEW S, IsFiniteSet(S), NEW O, NEW D,
           \A a \in S : O[a] \in Nat /\ D[a] \in Nat /\ O[a] <= D[a],
           NEW low \in Nat, NEW high \in Nat,
           \A a \in S : low <= Rate(O[a], D[a]) /\ Rate(O[a], D[a]) <= high,
           S # {}
    PROVE  low <= Rate(Total(O, S), Total(D, S)) /\ Rate(Total(O, S), Total(D, S)) <= high
<1>1. /\ Total(O, S) \in Nat /\ Total(D, S) \in Nat
      /\ \A a \in S : D[a] <= Total(D, S)
  <2>1. S \in SUBSET S  OBVIOUS
  <2>2. \A a \in S : O[a] \in Nat  OBVIOUS
  <2>3. \A a \in S : D[a] \in Nat  OBVIOUS
  <2>4. Total(O, S) \in Nat  BY <2>1, <2>2, TotalWithin
  <2>5. Total(D, S) \in Nat  BY <2>1, <2>3, TotalWithin
  <2>6. ASSUME NEW a \in S PROVE D[a] <= Total(D, S)
    <3>1. \A x \in S : D[x] \in Int  BY <2>3
    <3>2. PICK T : T = S \ {a} /\ T \in SUBSET S  OBVIOUS
    <3>3. Total(D, S) = D[a] + Total(D, T)  BY <3>1, <3>2, TotalWithout
    <3>4. Total(D, T) \in Nat  BY <2>3, <3>2, TotalWithin
    <3>5. PICK d \in Nat, n \in Nat : d = D[a] /\ n = Total(D, T)  BY <2>3, <3>4
    <3>. QED  BY <3>3, <3>5
  <2>. QED  BY <2>4, <2>5, <2>6
<1>2. PICK os \in Nat, ds \in Nat : os = Total(O, S) /\ ds = Total(D, S)  BY <1>1
<1>3. CASE ds = 0
  <2>1. PICK a \in S : TRUE  OBVIOUS
  <2>2. D[a] = 0  BY <1>1, <1>2, <1>3, <2>1
  <2>3. Rate(O[a], D[a]) = 0 /\ Rate(os, ds) = 0  BY <1>3, <2>2, NoRate
  <2>4. low <= 0 /\ 0 <= high  BY <2>1, <2>3
  <2>. QED  BY <1>2, <2>3, <2>4
<1>4. CASE ds > 0
  <2>0. PICK many \in Nat : many = 20000  OBVIOUS
  <2>1. PICK h : h = [a \in S |-> many * O[a]]  OBVIOUS
  <2>2. PICK f : f = [a \in S |-> h[a] + D[a]]  OBVIOUS
  <2>3. PICK g : g = [a \in S |-> (2 * high + 2) * D[a]]  OBVIOUS
  <2>4. PICK e : e = [a \in S |-> (2 * low) * D[a]]  OBVIOUS
  <2>5. ASSUME NEW a \in S
        PROVE  /\ h[a] = 20000 * O[a] /\ f[a] = h[a] + D[a]
               /\ g[a] = (2 * high + 2) * D[a] /\ e[a] = (2 * low) * D[a]
               /\ h[a] \in Int /\ f[a] \in Int /\ g[a] \in Int /\ e[a] \in Int
    <3>1. PICK o \in Nat, d \in Nat : o = O[a] /\ d = D[a]  OBVIOUS
    <3>2. h[a] = 20000 * o /\ f[a] = h[a] + d /\ g[a] = (2 * high + 2) * d /\ e[a] = (2 * low) * d
      BY <2>0, <2>1, <2>2, <2>3, <2>4, <3>1
    <3>3. (2 * high + 2) * d \in Int /\ (2 * low) * d \in Int
      <4>1. 2 * high + 2 \in Int /\ 2 * low \in Int  OBVIOUS
      <4>. QED  BY <4>1, Distributes
    <3>. QED  BY <3>1, <3>2, <3>3
  <2>6. /\ Total(h, S) = 20000 * os
        /\ Total(g, S) = (2 * high + 2) * ds
        /\ Total(e, S) = (2 * low) * ds
    <3>1. 20000 \in Int /\ 2 * high + 2 \in Int /\ 2 * low \in Int  OBVIOUS
    <3>2. \A a \in S : O[a] \in Int /\ h[a] = 20000 * O[a]  BY <2>5
    <3>3. \A a \in S : D[a] \in Int /\ g[a] = (2 * high + 2) * D[a]  BY <2>5
    <3>4. \A a \in S : D[a] \in Int /\ e[a] = (2 * low) * D[a]  BY <2>5
    <3>5. Total(h, S) = 20000 * Total(O, S)  BY <3>1, <3>2, TotalScaled
    <3>6. Total(g, S) = (2 * high + 2) * Total(D, S)  BY <3>1, <3>3, TotalScaled
    <3>7. Total(e, S) = (2 * low) * Total(D, S)  BY <3>1, <3>4, TotalScaled
    <3>. QED  BY <1>2, <3>5, <3>6, <3>7
  <2>7. Total(f, S) = 20000 * os + ds
    <3>1. \A a \in S : h[a] \in Int /\ D[a] \in Int /\ f[a] = h[a] + D[a]  BY <2>5
    <3>2. Total(f, S) = Total(h, S) + Total(D, S)  BY <3>1, TotalOfSums
    <3>. QED  BY <1>2, <2>6, <3>2
  <2>8. ASSUME NEW a \in S
        PROVE  e[a] <= f[a] /\ f[a] <= g[a] /\ (D[a] # 0 => f[a] < g[a])
    <3>1. PICK o \in Nat, d \in Nat : o = O[a] /\ d = D[a] /\ o <= d  OBVIOUS
    <3>2. f[a] = 20000 * o + d /\ g[a] = (2 * high + 2) * d /\ e[a] = (2 * low) * d
      BY <2>5, <3>1
    <3>3. CASE d = 0
      <4>1. o = 0 /\ (2 * high + 2) * d = 0 /\ (2 * low) * d = 0  BY <3>1, <3>3
      <4>. QED  BY <3>1, <3>2, <3>3, <4>1
    <3>4. CASE d > 0
      <4>1. low <= Rate(o, d) /\ Rate(o, d) <= high  BY <3>1
      <4>2. Rate(o, d) <= high <=> 20000 * o + d < (2 * high + 2) * d  BY <3>4, RateBounds
      <4>3. 20000 * o + d < (2 * high + 2) * d  BY <4>1, <4>2
      <4>4. (2 * low) * d <= 20000 * o + d  BY <3>4, <4>1, RateBounds
      <4>. QED  BY <2>5, <3>2, <4>3, <4>4
    <3>. QED  BY <3>1, <3>3, <3>4
  <2>9. \E a \in S : D[a] # 0
    <3>1. ASSUME \A a \in S : D[a] = 0 PROVE FALSE
      <4>1. PICK z : z = [a \in S |-> 0 * D[a]]  OBVIOUS
      <4>2. \A a \in S : D[a] \in Int /\ z[a] = 0 * D[a]  BY <4>1
      <4>3. Total(z, S) = 0 * Total(D, S)  BY <4>2, TotalScaled
      <4>4. \A a \in S : z[a] = D[a]  BY <3>1, <4>1
      <4>5. Total(z, S) = Total(D, S)  BY <4>4, TotalSame
      <4>. QED  BY <1>2, <1>4, <4>3, <4>5
    <3>. QED  BY <3>1
  <2>10. Total(f, S) < Total(g, S)
    <3>1. \A a \in S : f[a] \in Int /\ g[a] \in Int /\ f[a] <= g[a]  BY <2>5, <2>8
    <3>2. \E a \in S : f[a] < g[a]  BY <2>8, <2>9
    <3>. QED  BY <3>1, <3>2, TotalOrdered
  <2>11. Total(e, S) <= Total(f, S)
    <3>1. \A a \in S : e[a] \in Int /\ f[a] \in Int /\ e[a] <= f[a]  BY <2>5, <2>8
    <3>. QED  BY <3>1, TotalOrdered
  <2>12. 20000 * os + ds < (2 * high + 2) * ds /\ (2 * low) * ds <= 20000 * os + ds
    BY <2>6, <2>7, <2>10, <2>11
  <2>. QED  BY <1>2, <1>4, <2>12, RateBounds
<1>. QED  BY <1>2, <1>3, <1>4

(* The day an hour is on.                                                  *)
LEMMA OnDay ==
    ASSUME NEW hour \in Nat
    PROVE  /\ DayOf(hour) \in Nat
           /\ Midnight(DayOf(hour)) <= hour /\ hour < Midnight(DayOf(hour)) + HoursPerDay
           /\ \A day \in Nat : Midnight(day) <= hour /\ hour < Midnight(day + 1) <=> DayOf(hour) = day
<1>1. PICK h \in Nat \ {0} : h = HoursPerDay  BY Calendar
<1>2. PICK r \in Nat : r = DayOf(hour) /\ r * h <= hour /\ hour < r * h + h
  BY <1>1, Quotient DEF DayOf
<1>3. PICK a \in Nat : a = r * h  BY <1>2, Product
<1>4. ASSUME NEW day \in Nat
      PROVE  Midnight(day) <= hour /\ hour < Midnight(day + 1) <=> r = day
  <2>1. (day + 1) * h = day * h + h /\ day * h \in Nat /\ (r + 1) * h = r * h + h  BY Product
  <2>2. PICK b \in Nat : b = day * h  BY <2>1
  <2>3. Midnight(day) = b /\ Midnight(day + 1) = b + h  BY <1>1, <2>1, <2>2 DEF Midnight
  <2>4. r + 1 <= day => a + h <= b
    <3>1. r + 1 <= day => (r + 1) * h <= day * h  BY Product
    <3>. QED  BY <1>3, <2>1, <2>2, <3>1
  <2>5. day + 1 <= r => b + h <= a
    <3>1. day + 1 <= r => (day + 1) * h <= r * h  BY Product
    <3>. QED  BY <1>3, <2>1, <2>2, <3>1
  <2>6. r = day => a = b  BY <1>3, <2>2
  <2>7. a <= hour /\ hour < a + h  BY <1>2, <1>3
  <2>. QED  BY <2>3, <2>4, <2>5, <2>6, <2>7
<1>. QED  BY <1>1, <1>2, <1>4 DEF Midnight

LEMMA SubscriberRows ==
    ASSUME AudienceInv
    PROVE  /\ now \in Nat /\ Today \in Nat /\ IsFiniteSet(subs)
           /\ \A s \in subs : /\ s.started \in Nat /\ s.started <= now
                             /\ DayOf(s.started) \in Nat /\ DayOf(s.started) <= Today
<1>1. now \in Nat /\ IsFiniteSet(subs) /\ \A s \in subs : s.started \in Nat /\ s.started <= now
  BY DEF AudienceInv, AudienceTyped
<1>2. Today \in Nat  BY <1>1, ThisDay
<1>3. ASSUME NEW s \in subs
      PROVE  DayOf(s.started) \in Nat /\ DayOf(s.started) <= Today
  <2>1. PICK hour \in Nat : hour = s.started /\ hour <= now  BY <1>1
  <2>2. PICK h \in Nat \ {0} : h = HoursPerDay  BY Calendar
  <2>3. hour \div h <= now \div h  BY <1>1, <2>1, <2>2, QuotientGrows
  <2>4. DayOf(hour) \in Nat  BY OnDay
  <2>. QED  BY <2>1, <2>2, <2>3, <2>4 DEF DayOf, Today
<1>. QED  BY <1>1, <1>2, <1>3

(* The subscribers of one day, and of all days since one.                  *)
Since(day) == {s \in subs : day <= DayOf(s.started)}

NewTo(p, day) == NewSubscribers([publication |-> p, published_at |-> Midnight(day)])

NewOn(day) == SumFunction([p \in DOMAIN Price |-> Cardinality(NewTo(p, day))])

LEMMA NewToIs ==
    ASSUME AudienceInv, NEW day \in Nat, NEW p
    PROVE  NewTo(p, day) = {s \in subs : s.publication = p /\ DayOf(s.started) = day}
<1>1. Midnight(day) \in Nat /\ DayOf(Midnight(day)) = day
  <2>1. PICK h \in Nat \ {0} : h = HoursPerDay  BY Calendar
  <2>2. PICK first \in Nat : first = day * h /\ (day + 1) * h = first + h  BY <2>1, Product
  <2>3. Midnight(day) = first /\ Midnight(day + 1) = first + h  BY <2>1, <2>2 DEF Midnight
  <2>4. Midnight(day) <= first /\ first < Midnight(day + 1)  BY <2>1, <2>3
  <2>5. DayOf(first) = day  BY <2>4, OnDay
  <2>. QED  BY <2>3, <2>5
<1>2. PICK article : article = [publication |-> p, published_at |-> Midnight(day)]  OBVIOUS
<1>3. article.publication = p /\ article.published_at = Midnight(day)  BY <1>2
<1>4. article.published_at # Undated  BY <1>1, <1>3 DEF Undated
<1>5. NewSubscribers(article)
         = {s \in subs : s.publication = p /\ Midnight(day) <= s.started /\ s.started < Midnight(day + 1)}
  BY <1>1, <1>3, <1>4 DEF NewSubscribers
<1>6. \A s \in subs : s.started \in Nat  BY SubscriberRows
<1>7. \A s \in subs : Midnight(day) <= s.started /\ s.started < Midnight(day + 1)
                         <=> DayOf(s.started) = day
  BY <1>6, OnDay
<1>. QED  BY <1>2, <1>5, <1>7 DEF NewTo

LEMMA NewOnDay ==
    ASSUME AudienceInv, NEW day \in Nat
    PROVE  NewOn(day) = Cardinality({s \in subs : DayOf(s.started) = day})
<1>1. PICK S : S = {s \in subs : DayOf(s.started) = day}  OBVIOUS
<1>2. IsFiniteSet(S)
  <2>1. S \in SUBSET subs /\ IsFiniteSet(subs)  BY <1>1, SubscriberRows
  <2>. QED  BY <2>1, FS_Subset
<1>3. PICK K : K = DOMAIN Price /\ IsFiniteSet(K)  BY PriceAssumption DEF PriceAssumption
<1>4. PICK one : one = [s \in S |-> 1]  OBVIOUS
<1>5. PICK key : key = [s \in S |-> s.publication]  OBVIOUS
<1>6. PICK by : by = [p \in K |-> {s \in S : key[s] = p}]  OBVIOUS
<1>7. PICK h : h = [p \in DOMAIN Price |-> Cardinality(NewTo(p, day))]  OBVIOUS
<1>8. \A s \in S : key[s] \in K  BY <1>1, <1>3, <1>5 DEF AudienceInv, AudienceTyped
<1>9. ASSUME NEW p \in K
      PROVE  h[p] = Total(one, by[p])
  <2>1. PICK T : T = by[p] /\ T = {s \in S : key[s] = p}  BY <1>6
  <2>2. IsFiniteSet(T) /\ \A s \in T : one[s] = 1  BY <1>2, <1>4, <2>1, FS_Subset
  <2>3. Total(one, T) = Cardinality(T)  BY <2>2, TotalCounts
  <2>4. T = {s \in subs : s.publication = p /\ DayOf(s.started) = day}  BY <1>1, <1>5, <2>1
  <2>5. NewTo(p, day) = T  BY <2>4, NewToIs
  <2>. QED  BY <1>3, <1>7, <2>1, <2>3, <2>5
<1>10. Total(h, K) = Total(one, S)
  <2>1. \A s \in S : one[s] \in Int  BY <1>4
  <2>2. \A p \in K : \A s : s \in by[p] <=> s \in S /\ key[s] = p  BY <1>6
  <2>. QED  BY <1>2, <1>3, <1>8, <1>9, <2>1, <2>2, TotalByKey
<1>11. Total(one, S) = Cardinality(S)
  <2>1. \A s \in S : one[s] = 1  BY <1>4
  <2>. QED  BY <1>2, <2>1, TotalCounts
<1>12. SumFunction(h) = Total(h, K)
  <2>1. DOMAIN h = K /\ \A p \in K : h[p] = h[p]  BY <1>3, <1>7
  <2>. QED  BY <1>3, <2>1, SumIsTotal
<1>. QED  BY <1>1, <1>7, <1>10, <1>11, <1>12 DEF NewOn

LEMMA CountedByDay ==
    ASSUME AudienceInv, NEW day \in Int
    PROVE  SumFunction([d \in day .. Today |-> IF d < 0 THEN 0 ELSE NewOn(d)])
              = Cardinality(Since(day))
<1>r. /\ Today \in Nat /\ IsFiniteSet(subs)
      /\ \A s \in subs : DayOf(s.started) \in Nat /\ DayOf(s.started) <= Today
  BY SubscriberRows
<1>1. PICK S : S = Since(day)  OBVIOUS
<1>2. PICK K : K = day .. Today  OBVIOUS
<1>3. S \in SUBSET subs /\ IsFiniteSet(S)
  <2>1. S \in SUBSET subs  BY <1>1 DEF Since
  <2>. QED  BY <1>r, <2>1, FS_Subset
<1>4. IsFiniteSet(K)  BY <1>r, <1>2, FS_Interval
<1>5. PICK one : one = [s \in S |-> 1]  OBVIOUS
<1>6. PICK key : key = [s \in S |-> DayOf(s.started)]  OBVIOUS
<1>7. PICK by : by = [d \in K |-> {s \in S : key[s] = d}]  OBVIOUS
<1>8. PICK h : h = [d \in day .. Today |-> IF d < 0 THEN 0 ELSE NewOn(d)]
  OBVIOUS
<1>9. \A s \in S : key[s] \in K  BY <1>r, <1>1, <1>2, <1>6 DEF Since
<1>10. \A d \in K : \A s : s \in by[d] <=> s \in S /\ key[s] = d  BY <1>7
<1>11. ASSUME NEW d \in K
       PROVE  h[d] = Total(one, by[d])
  <2>1. PICK T : T = by[d] /\ T = {s \in S : key[s] = d}  BY <1>7
  <2>2. IsFiniteSet(T) /\ \A s \in T : one[s] = 1  BY <1>3, <1>5, <2>1, FS_Subset
  <2>3. Total(one, T) = Cardinality(T)  BY <2>2, TotalCounts
  <2>4. CASE d < 0
    <3>1. \A s \in S : key[s] # d  BY <1>r, <1>1, <1>6, <2>4 DEF Since
    <3>2. T = {}  BY <2>1, <3>1
    <3>3. Cardinality(T) = 0  BY <3>2, FS_EmptySet
    <3>4. h[d] = 0  BY <1>2, <1>8, <2>4
    <3>. QED  BY <2>1, <2>3, <3>3, <3>4
  <2>5. CASE ~ (d < 0)
    <3>1. d \in Nat /\ day <= d  BY <1>r, <1>2, <2>5
    <3>2. NewOn(d) = Cardinality({s \in subs : DayOf(s.started) = d})  BY <3>1, NewOnDay
    <3>3. T = {s \in subs : DayOf(s.started) = d}  BY <1>1, <1>6, <2>1, <3>1 DEF Since
    <3>4. h[d] = NewOn(d)  BY <1>2, <1>8, <2>5
    <3>5. NewOn(d) = Cardinality(T)  BY <3>2, <3>3
    <3>. QED  BY <2>1, <2>3, <3>4, <3>5
  <2>. QED  BY <2>4, <2>5
<1>12. Total(h, K) = Total(one, S)
  <2>1. \A s \in S : one[s] \in Int  BY <1>5
  <2>2. \A d \in K : h[d] = Total(one, by[d])  BY <1>11
  <2>. QED  BY <1>3, <1>4, <1>9, <1>10, <2>1, <2>2, TotalByKey
<1>13. Total(one, S) = Cardinality(S)
  <2>1. \A s \in S : one[s] = 1  BY <1>5
  <2>. QED  BY <1>3, <2>1, TotalCounts
<1>14. SumFunction(h) = Total(h, K)
  <2>1. DOMAIN h = K /\ \A d \in K : h[d] = h[d]  BY <1>2, <1>8
  <2>. QED  BY <1>4, <2>1, SumIsTotal
<1>. QED  BY <1>1, <1>8, <1>12, <1>13, <1>14

(* Counting back by hours takes in the days it covers in full, and none    *)
(* before those it covers in part.                                         *)
LEMMA GrowthBetween ==
    ASSUME AudienceInv, NEW days \in Nat
    PROVE  Cardinality(Since(Today - days + 1)) <= Growth(days)
           /\ Growth(days) <= Cardinality(Since(Today - days))
<1>r. /\ now \in Nat /\ Today \in Nat /\ IsFiniteSet(subs)
      /\ \A s \in subs : s.started \in Nat /\ DayOf(s.started) \in Nat
  BY SubscriberRows
<1>1. PICK h \in Nat \ {0} : h = HoursPerDay  BY Calendar
<1>2. PICK grown : grown = {s \in subs : s.started >= now - days * HoursPerDay}  OBVIOUS
<1>3. PICK back \in Nat : back = days * h  BY Product
<1>4. PICK start \in Nat : start = Today * h /\ start <= now /\ now < start + h
  <2>1. now \div h = Today  BY <1>1 DEF Today, DayOf
  <2>. QED  BY <1>r, <2>1, Quotient, Product
<1>5. ASSUME NEW s \in subs
      PROVE  /\ Today - days + 1 <= DayOf(s.started) => s \in grown
             /\ s \in grown => Today - days <= DayOf(s.started)
  <2>1. PICK hour \in Nat, d \in Nat : hour = s.started /\ d = DayOf(hour)  BY <1>r
  <2>2. PICK a \in Nat : a = d * h /\ a <= hour /\ hour < a + h
    <3>1. d * h <= hour /\ hour < d * h + h  BY <1>1, <2>1, OnDay DEF Midnight
    <3>. QED  BY <3>1, Product
  <2>3. s \in grown <=> hour >= now - back  BY <1>1, <1>2, <1>3, <2>1
  <2>4. Today - days <= d - 1 => start - back <= a - h
    <3>1. PICK t \in Int : t = Today  BY <1>r
    <3>2. t <= (d - 1) + days => t * h <= ((d - 1) + days) * h
      <4>1. (d - 1) + days \in Int  OBVIOUS
      <4>. QED  BY <3>1, <4>1, ProductOfIntegers
    <3>3. ((d - 1) + days) * h = (d - 1) * h + days * h
      <4>1. d - 1 \in Int /\ days \in Int  OBVIOUS
      <4>. QED  BY <4>1, ProductOfIntegers
    <3>4. (d - 1) * h = a - h
      <4>1. d - 1 \in Int /\ 1 \in Int /\ (d - 1) + 1 = d  OBVIOUS
      <4>2. ((d - 1) + 1) * h = (d - 1) * h + 1 * h /\ (d - 1) * h \in Int
        BY <4>1, ProductOfIntegers
      <4>3. 1 * h = h  OBVIOUS
      <4>. QED  BY <2>2, <4>1, <4>2, <4>3
    <3>. QED  BY <1>3, <1>4, <3>1, <3>2, <3>3, <3>4
  <2>5. d + 1 <= Today - days => a + h <= start - back
    <3>1. (d + 1) + days \in Int /\ d + 1 \in Int /\ days \in Int /\ Today \in Int  BY <1>r
    <3>2. (d + 1) + days <= Today => ((d + 1) + days) * h <= Today * h  BY <3>1, ProductOfIntegers
    <3>3. ((d + 1) + days) * h = (d + 1) * h + days * h  BY <3>1, ProductOfIntegers
    <3>4. (d + 1) * h = d * h + h  BY Product
    <3>. QED  BY <1>r, <1>3, <1>4, <2>2, <3>2, <3>3, <3>4
  <2>6. Today - days + 1 <= d => hour >= now - back  BY <1>r, <1>4, <2>2, <2>4
  <2>7. hour >= now - back => Today - days <= d  BY <1>r, <1>4, <2>2, <2>5
  <2>. QED  BY <2>1, <2>3, <2>6, <2>7
<1>6. Growth(days) = Cardinality(grown)  BY <1>2 DEF Growth
<1>7. Since(Today - days + 1) \in SUBSET grown  BY <1>5 DEF Since
<1>8. grown \in SUBSET Since(Today - days)  BY <1>2, <1>5 DEF Since
<1>9. IsFiniteSet(grown) /\ IsFiniteSet(Since(Today - days))
  <2>1. grown \in SUBSET subs /\ Since(Today - days) \in SUBSET subs  BY <1>2 DEF Since
  <2>. QED  BY <1>r, <2>1, FS_Subset
<1>. QED  BY <1>6, <1>7, <1>8, <1>9, FS_Subset

(* The dashboards agree on the readers, whatever audience the tables hold. *)
THEOREM ReadersCountedOnce == ReportsSpec => []DashboardsAgree
<1>1. ASSUME AudienceInv PROVE DashboardsAgree
  <2>. DEFINE rates == {getArticleAnalytics(a).openRate : a \in DOMAIN sent}
              new(day) == SumFunction([p \in DOMAIN Price |->
                        Cardinality(NewSubscribers([publication |-> p, published_at |-> Midnight(day)]))])
              newSince(day) == SumFunction([d \in day .. Today |-> IF d < 0 THEN 0 ELSE new(d)])
  <2>1. ASSUME NEW a \in DOMAIN sent
        PROVE  getArticleAnalytics(a).clickRate <= getArticleAnalytics(a).openRate
    <3>1. PICK c \in Nat, o \in Nat, d \in Nat :
             c = sent[a]["clicked"] /\ o = Opens(a) /\ d = Deliveries(a) /\ c <= o
      BY <1>1, SentRows
    <3>2. Rate(c, d) <= Rate(o, d)  BY <3>1, RateGrows
    <3>. QED  BY <3>1, <3>2 DEF getArticleAnalytics
  <2>2. Min(rates) <= getOverview.emailOpenRate /\ getOverview.emailOpenRate <= Max(rates)
    <3>1. PICK S : S = DOMAIN sent  OBVIOUS
    <3>2. PICK O : O = [a \in S |-> Opens(a)]  OBVIOUS
    <3>3. PICK D : D = [a \in S |-> Deliveries(a)]  OBVIOUS
    <3>4. IsFiniteSet(S) /\ S # {} /\ \A a \in S : O[a] \in Nat /\ D[a] \in Nat /\ O[a] <= D[a]
      BY <1>1, <3>1, <3>2, <3>3, SentRows
    <3>5. PICK R : R = {Rate(O[a], D[a]) : a \in S}  OBVIOUS
    <3>6. rates = R
      <4>1. \A a \in S : getArticleAnalytics(a).openRate = Rate(O[a], D[a])
        BY <3>2, <3>3 DEF getArticleAnalytics
      <4>. QED  BY <3>1, <3>5, <4>1
    <3>7. IsFiniteSet(R)
      <4>1. PICK f : f = [a \in S |-> Rate(O[a], D[a])]  OBVIOUS
      <4>2. f \in Surjection(S, R)  BY <3>5, <4>1 DEF Surjection
      <4>. QED  BY <3>4, <4>2, FS_Surjection
    <3>8. R # {} /\ \A r \in R : r \in Nat
      <4>1. \A a \in S : Rate(O[a], D[a]) \in Nat
        <5>. TAKE a \in S
        <5>1. PICK o \in Nat, d \in Nat : o = O[a] /\ d = D[a]  BY <3>4
        <5>2. CASE d = 0  BY <5>1, <5>2, NoRate
        <5>3. CASE d > 0  BY <5>1, <5>3, RateBounds
        <5>. QED  BY <5>1, <5>2, <5>3
      <4>. QED  BY <3>4, <3>5, <4>1
    <3>9. PICK low \in Nat, high \in Nat :
             low = Min(R) /\ high = Max(R) /\ \A r \in R : low <= r /\ r <= high
      <4>1. \A r \in R : r \in Int  BY <3>8
      <4>. QED  BY <3>7, <3>8, <4>1, Extremes
    <3>10. \A a \in S : low <= Rate(O[a], D[a]) /\ Rate(O[a], D[a]) <= high  BY <3>5, <3>9
    <3>11. low <= Rate(Total(O, S), Total(D, S)) /\ Rate(Total(O, S), Total(D, S)) <= high
      BY <3>4, <3>10, RateBetween
    <3>12. SumFunction(O) = Total(O, S) /\ SumFunction(D) = Total(D, S)
      <4>1. DOMAIN O = S /\ \A a \in S : O[a] = O[a]  BY <3>2
      <4>2. DOMAIN D = S /\ \A a \in S : D[a] = D[a]  BY <3>3
      <4>. QED  BY <3>4, <4>1, <4>2, SumIsTotal
    <3>13. getOverview.emailOpenRate = Rate(SumFunction(O), SumFunction(D))
      BY <3>1, <3>2, <3>3 DEF getOverview
    <3>. QED  BY <3>6, <3>9, <3>11, <3>12, <3>13
  <2>3. getOverview.totalSubscribers = Cardinality(exportSubscribers)
    <3>1. {s \in subs : s.status \in Live} = exportSubscribers  BY DEF exportSubscribers, Live
    <3>. QED  BY <3>1 DEF getOverview
  <2>4. exportSubscribers = UNION {getSubscribersByPublication(p) : p \in DOMAIN Price}
    <3>1. \A s \in subs : s.publication \in DOMAIN Price  BY <1>1 DEF AudienceInv, AudienceTyped
    <3>. QED  BY <3>1 DEF exportSubscribers, getSubscribersByPublication
  <2>5. PICK today \in Nat, w \in Nat, m \in Nat :
           today = Today /\ w = Weekly /\ m = Monthly /\ w <= m
    BY <1>1, SubscriberRows, CalendarAssumption DEF CalendarAssumption
  <2>6. \A day \in Int : newSince(day) = Cardinality(Since(day))
    BY <1>1, CountedByDay DEF NewOn, NewTo
  <2>7. Cardinality(subs) = newSince(0)
    <3>1. Since(0) = subs
      <4>1. \A s \in subs : DayOf(s.started) \in Nat  BY <1>1, SubscriberRows
      <4>. QED  BY <4>1 DEF Since
    <3>2. newSince(0) = Cardinality(Since(0))  BY <2>6
    <3>. QED  BY <3>1, <3>2
  <2>8. Growth(w) <= Growth(m)
    <3>1. PICK h \in Nat \ {0} : h = HoursPerDay  BY Calendar
    <3>2. PICK a \in Nat, b \in Nat : a = w * h /\ b = m * h /\ a <= b  BY <2>5, Product
    <3>3. PICK less : less = {s \in subs : s.started >= now - w * HoursPerDay}  OBVIOUS
    <3>4. PICK more : more = {s \in subs : s.started >= now - m * HoursPerDay}  OBVIOUS
    <3>5. now \in Nat /\ IsFiniteSet(subs) /\ \A s \in subs : s.started \in Nat
      BY <1>1, SubscriberRows
    <3>6. less \in SUBSET more
      <4>1. less = {s \in subs : s.started >= now - a} /\ more = {s \in subs : s.started >= now - b}
        BY <3>1, <3>2, <3>3, <3>4
      <4>. QED  BY <3>2, <3>5, <4>1
    <3>7. more \in SUBSET subs  BY <3>4
    <3>8. Cardinality(less) <= Cardinality(more)  BY <3>5, <3>6, <3>7, FS_Subset
    <3>. QED  BY <3>3, <3>4, <3>8 DEF Growth
  <2>9. getOverview.growth.last7d = Growth(w) /\ getOverview.growth.last30d = Growth(m)
    BY <2>5 DEF getOverview
  <2>10. /\ newSince(today - w + 1) <= Growth(w) /\ Growth(w) <= newSince(today - w)
         /\ Growth(m) <= newSince(today - m)
    <3>1. today - w + 1 \in Int /\ today - w \in Int /\ today - m \in Int  OBVIOUS
    <3>2. /\ Cardinality(Since(today - w + 1)) <= Growth(w)
          /\ Growth(w) <= Cardinality(Since(today - w))
          /\ Growth(m) <= Cardinality(Since(today - m))
      BY <1>1, <2>5, GrowthBetween
    <3>. HIDE DEF newSince
    <3>. QED  BY <2>6, <3>1, <3>2
  <2>. HIDE DEF rates, newSince
  <2>11. /\ \A a \in DOMAIN sent :
                getArticleAnalytics(a).clickRate <= getArticleAnalytics(a).openRate
         /\ Min(rates) <= getOverview.emailOpenRate /\ getOverview.emailOpenRate <= Max(rates)
         /\ getOverview.totalSubscribers = Cardinality(exportSubscribers)
         /\ exportSubscribers = UNION {getSubscribersByPublication(p) : p \in DOMAIN Price}
         /\ Cardinality(subs) = newSince(0)
         /\ newSince(Today - Weekly + 1) <= getOverview.growth.last7d
         /\ getOverview.growth.last7d <= newSince(Today - Weekly)
         /\ getOverview.growth.last7d <= getOverview.growth.last30d
         /\ getOverview.growth.last30d <= newSince(Today - Monthly)
    BY <2>1, <2>2, <2>3, <2>4, <2>5, <2>7, <2>8, <2>9, <2>10
  <2>. QED  BY <2>11, Zenon DEF DashboardsAgree, rates, newSince, new
<1>. QED  BY <1>1, AudienceInvariant, PTL

-----------------------------------------------------------------------------
(* The list of Listings, for any number of articles, any size of a page    *)
(* and any number of changes between the pages.                            *)
Statuses == {"none", "draft", "published"}

ListRow == [status: Statuses, published_at: Nat]

Walking == [at: {"ask", "done"}, page: Nat \ {0}, limit: Nat \ {0}, all: BOOLEAN,
            items: Seq(Articles), total: Nat, missing: SUBSET {"items", "total"},
            seen: Seq(Articles), stayed: SUBSET Articles,
            dated: BOOLEAN, removed: BOOLEAN, torn: BOOLEAN]

ListsTyped ==
    /\ rows \in [Articles -> ListRow] /\ clock \in Nat
    /\ \A a \in Articles : rows[a].published_at <= clock
    /\ walk \in Walking \cup {[at |-> "idle"]}

(* The articles ahead of one in any order, how many they are, and how many *)
(* the pages before the reader's and up to it hold.                        *)
Ahead(a) == {b \in Listed \ {a} : NotAfter(b, a)}

Rank(a) == Cardinality(Ahead(a))

Begun == Skip(walk.page, walk.limit)

Covered == Begun + walk.limit

Undisturbed == walk.dated /\ ~ walk.removed /\ ~ walk.torn

(* The first n articles of the list, or all of them, in their order.       *)
LeadsList(s, n) ==
    /\ Len(s) = Min({n, Cardinality(Listed)})
    /\ \A i \in 1 .. Len(s) : s[i] \in Listed /\ Rank(s[i]) = i - 1

(* Who stayed is still listed.                                             *)
StayedListed ==
    /\ walk.stayed \subseteq Listed
    /\ walk.dated => Dated

(* Between two pages, and between the two statements of a page: who stayed *)
(* and is ahead of the reader was seen, and a number that says there is    *)
(* nothing more is right about those who stayed.                           *)
AskedSoFar ==
    /\ \A a \in walk.stayed : Rank(a) < Begun => a \in Range(walk.seen)
    /\ "items" \notin walk.missing =>
          \A a \in walk.stayed : Rank(a) < Covered => a \in Range(walk.seen \o walk.items)
    /\ walk.missing = {"items"} => walk.total = Cardinality(Listed)
    /\ walk.missing = {} /\ walk.total <= Covered => walk.stayed \subseteq Range(walk.seen \o walk.items)

(* As long as nothing changed, the reader has the beginning of the list.   *)
ListedSoFar ==
    /\ LeadsList(walk.seen, Begun)
    /\ walk.at = "ask" /\ "items" \notin walk.missing => LeadsList(walk.seen \o walk.items, Covered)

WalkInv ==
    walk.at # "idle" =>
        /\ StayedListed
        /\ walk.at = "ask" /\ Undisturbed => AskedSoFar
        /\ walk.at = "done" => walk.page > 1
        /\ walk.at = "done" /\ walk.all /\ Undisturbed => walk.stayed \subseteq Range(walk.seen)
        /\ Undisturbed /\ walk.stayed = Listed => ListedSoFar

ListsInv == ListsTyped /\ WalkInv

-----------------------------------------------------------------------------
(* The order of dated articles: one only, and a place in it for each.      *)
LEMMA ListedRows ==
    ASSUME ListsTyped
    PROVE  /\ Listed \subseteq Articles /\ IsFiniteSet(Listed) /\ Cardinality(Listed) \in Nat
           /\ \A a \in Articles : rows[a].published_at \in Nat
<1>1. Listed \subseteq Articles  BY DEF Listed
<1>2. IsFiniteSet(Listed)  BY <1>1, ArticlesAssumption, FS_Subset DEF ArticlesAssumption
<1>3. \A a \in Articles : rows[a].published_at \in Nat  BY DEF ListsTyped, ListRow
<1>. QED  BY <1>1, <1>2, <1>3, FS_CardinalityType

(* Dated articles are in one order only.                                   *)
LEMMA OneBefore ==
    ASSUME ListsTyped, Dated, NEW a \in Listed, NEW b \in Listed, a # b
    PROVE  /\ NotAfter(a, b) \/ NotAfter(b, a)
           /\ ~ (NotAfter(a, b) /\ NotAfter(b, a))
           /\ \A c \in Listed : NotAfter(c, a) /\ NotAfter(a, b) => NotAfter(c, b)
<1>1. a \in Articles /\ b \in Articles /\ \A c \in Listed : c \in Articles  BY ListedRows
<1>2. rows[a].published_at # rows[b].published_at  BY DEF Dated
<1>3. \A c \in Articles : rows[c].published_at \in Nat  BY ListedRows
<1>. QED  BY <1>1, <1>2, <1>3 DEF NotAfter

LEMMA RankOf ==
    ASSUME ListsTyped, NEW a \in Listed
    PROVE  /\ IsFiniteSet(Ahead(a)) /\ Rank(a) \in Nat
           /\ Rank(a) < Cardinality(Listed)
<1>1. IsFiniteSet(Listed) /\ Cardinality(Listed) \in Nat  BY ListedRows
<1>2. PICK others : others = Listed \ {a}  OBVIOUS
<1>3. IsFiniteSet(others) /\ Cardinality(others) = Cardinality(Listed) - 1
  BY <1>1, <1>2, FS_RemoveElement
<1>4. Ahead(a) \in SUBSET others  BY <1>2 DEF Ahead
<1>5. IsFiniteSet(Ahead(a)) /\ Cardinality(Ahead(a)) <= Cardinality(others)
  BY <1>3, <1>4, FS_Subset
<1>6. Rank(a) \in Nat  BY <1>5, FS_CardinalityType DEF Rank
<1>. QED  BY <1>1, <1>3, <1>5, <1>6 DEF Rank

LEMMA RankGrows ==
    ASSUME ListsTyped, Dated, NEW a \in Listed, NEW b \in Listed, a # b, NotAfter(a, b)
    PROVE  Rank(a) < Rank(b)
<1>1. IsFiniteSet(Ahead(b)) /\ Rank(a) \in Nat /\ Rank(b) \in Nat  BY RankOf
<1>2. Ahead(a) \in SUBSET Ahead(b)
  <2>. SUFFICES ASSUME NEW c \in Ahead(a) PROVE c \in Ahead(b)  OBVIOUS
  <2>1. c \in Listed /\ NotAfter(c, a)  BY DEF Ahead
  <2>2. c # b /\ NotAfter(c, b)  BY <2>1, OneBefore
  <2>. QED  BY <2>1, <2>2 DEF Ahead
<1>3. a \in Ahead(b) /\ a \notin Ahead(a)  BY DEF Ahead
<1>4. Cardinality(Ahead(a)) <= Cardinality(Ahead(b))
      /\ (Cardinality(Ahead(b)) = Cardinality(Ahead(a)) => Ahead(b) = Ahead(a))
  BY <1>1, <1>2, FS_Subset
<1>5. Rank(a) <= Rank(b) /\ Rank(a) # Rank(b)  BY <1>3, <1>4 DEF Rank
<1>. QED  BY <1>1, <1>5

LEMMA RankTells ==
    ASSUME ListsTyped, Dated, NEW a \in Listed, NEW b \in Listed
    PROVE  /\ Rank(a) = Rank(b) => a = b
           /\ Rank(a) < Rank(b) => NotAfter(a, b)
<1>1. CASE a = b
  <2>1. Rank(a) \in Nat /\ Rank(a) = Rank(b)  BY <1>1, RankOf
  <2>. QED  BY <1>1, <2>1
<1>2. CASE a # b
  <2>1. Rank(a) \in Nat /\ Rank(b) \in Nat  BY RankOf
  <2>2. CASE NotAfter(a, b)
    <3>1. Rank(a) < Rank(b)  BY <1>2, <2>2, RankGrows
    <3>. QED  BY <2>1, <2>2, <3>1
  <2>3. CASE NotAfter(b, a)
    <3>1. Rank(b) < Rank(a)  BY <1>2, <2>3, RankGrows
    <3>. QED  BY <2>1, <3>1
  <2>. QED  BY <1>2, <2>2, <2>3, OneBefore
<1>. QED  BY <1>1, <1>2

(* What the database returns, in its order.                                *)
LEMMA OrderIs ==
    ASSUME ListsTyped, NEW order \in Orders(Listed)
    PROVE  /\ order \in Seq(Articles) /\ Len(order) = Cardinality(Listed)
           /\ DOMAIN order = 1 .. Cardinality(Listed)
           /\ order \in Injection(1 .. Cardinality(Listed), Listed)
           /\ \A a \in Listed : \E i \in DOMAIN order : order[i] = a
           /\ \A i, j \in DOMAIN order : i < j => NotAfter(order[i], order[j])
<1>1. PICK n \in Nat : n = Cardinality(Listed) /\ IsFiniteSet(Listed) /\ Listed \subseteq Articles
  BY ListedRows
<1>2. /\ order \in [1 .. n -> Listed]
      /\ \A i, j \in 1 .. n : i # j => order[i] # order[j]
      /\ \A i, j \in DOMAIN order : i < j => NotAfter(order[i], order[j])
  BY <1>1 DEF Orders, SetToSeqs
<1>3. order \in Injection(1 .. n, Listed)  BY <1>2 DEF Injection, IsInjective
<1>4. Cardinality(1 .. n) = n /\ IsFiniteSet(1 .. n)  BY FS_Interval
<1>5. order \in Surjection(1 .. n, Listed)  BY <1>1, <1>3, <1>4, FS_Injection
<1>6. order \in Seq(Articles) /\ Len(order) = n  BY <1>1, <1>2
<1>. QED  BY <1>1, <1>2, <1>3, <1>5, <1>6 DEF Surjection

LEMMA OrderedByRank ==
    ASSUME ListsTyped, Dated, NEW order \in Orders(Listed), NEW i \in DOMAIN order
    PROVE  order[i] \in Listed /\ Rank(order[i]) = i - 1
<1>1. PICK n \in Nat : n = Cardinality(Listed)  BY ListedRows
<1>2. /\ DOMAIN order = 1 .. n /\ order \in Injection(1 .. n, Listed)
      /\ \A a \in Listed : \E j \in DOMAIN order : order[j] = a
      /\ \A j, k \in DOMAIN order : j < k => NotAfter(order[j], order[k])
  BY <1>1, OrderIs
<1>3. /\ order \in [1 .. n -> Listed]
      /\ \A j, k \in 1 .. n : order[j] = order[k] => j = k
  BY <1>2 DEF Injection, IsInjective
<1>4. PICK a \in Listed : a = order[i]  BY <1>2, <1>3
<1>5. PICK before : before = [j \in 1 .. i - 1 |-> order[j]]  OBVIOUS
<1>6. \A b \in Ahead(a) : \E j \in 1 .. i - 1 : before[j] = b
  <2>. TAKE b \in Ahead(a)
  <2>1. b \in Listed /\ b # a /\ NotAfter(b, a)  BY DEF Ahead
  <2>2. PICK j \in 1 .. n : order[j] = b  BY <1>2, <2>1
  <2>3. j # i /\ ~ (i < j)  BY <1>2, <1>4, <2>1, <2>2, OneBefore
  <2>4. j \in 1 .. i - 1  BY <1>2, <2>3
  <2>. QED  BY <1>5, <2>2, <2>4
<1>7. \A j \in 1 .. i - 1 : before[j] \in Ahead(a)
  <2>. TAKE j \in 1 .. i - 1
  <2>1. j \in 1 .. n /\ j < i /\ before[j] = order[j]  BY <1>2, <1>5
  <2>2. order[j] \in Listed /\ order[j] # a /\ NotAfter(order[j], a)  BY <1>2, <1>3, <1>4, <2>1
  <2>. QED  BY <2>1, <2>2 DEF Ahead
<1>8. before \in Surjection(1 .. i - 1, Ahead(a))
  BY <1>5, <1>6, <1>7 DEF Surjection
<1>9. before \in Injection(1 .. i - 1, Ahead(a))
  <2>1. \A j, k \in 1 .. i - 1 : before[j] = before[k] => j = k  BY <1>2, <1>3, <1>5
  <2>. QED  BY <1>5, <1>7, <2>1 DEF Injection, IsInjective
<1>10. IsFiniteSet(1 .. i - 1) /\ Cardinality(1 .. i - 1) = i - 1
  <2>1. i \in 1 .. n /\ 1 \in Int /\ i - 1 \in Int  BY <1>2
  <2>2. IsFiniteSet(1 .. i - 1) /\ Cardinality(1 .. i - 1) = IF 1 > i - 1 THEN 0 ELSE (i - 1) - 1 + 1
    BY <2>1, FS_Interval
  <2>. QED  BY <2>1, <2>2
<1>11. Cardinality(Ahead(a)) = i - 1  BY <1>8, <1>9, <1>10, FS_Surjection
<1>. QED  BY <1>4, <1>11 DEF Rank

LEMMA OrderExists ==
    ASSUME ListsTyped, Dated
    PROVE  \E order \in Orders(Listed) : TRUE
<1>1. PICK n \in Nat : n = Cardinality(Listed) /\ IsFiniteSet(Listed)  BY ListedRows
<1>2. PICK place : place = [a \in Listed |-> Rank(a) + 1]  OBVIOUS
<1>3. IsFiniteSet(1 .. n) /\ Cardinality(1 .. n) = n  BY FS_Interval
<1>4. \A a \in Listed : Rank(a) \in Nat /\ place[a] = Rank(a) + 1 /\ place[a] \in 1 .. n
  <2>. TAKE a \in Listed
  <2>1. Rank(a) \in Nat /\ Rank(a) < n  BY <1>1, RankOf
  <2>2. place[a] = Rank(a) + 1  BY <1>2
  <2>. QED  BY <2>1, <2>2
<1>5. \A a, b \in Listed : place[a] = place[b] => a = b
  <2>. TAKE a \in Listed, b \in Listed
  <2>1. place[a] = place[b] => Rank(a) = Rank(b)  BY <1>4
  <2>. QED  BY <2>1, RankTells
<1>6. place \in Injection(Listed, 1 .. n)  BY <1>2, <1>4, <1>5 DEF Injection, IsInjective
<1>7. place \in Surjection(Listed, 1 .. n)  BY <1>1, <1>3, <1>6, FS_Injection
<1>8. \A i \in 1 .. n : \E a \in Listed : place[a] = i  BY <1>7 DEF Surjection
<1>9. PICK order : order = [i \in 1 .. n |-> CHOOSE a \in Listed : place[a] = i]  OBVIOUS
<1>10. \A i \in 1 .. n : order[i] \in Listed /\ place[order[i]] = i  BY <1>8, <1>9
<1>11. \A i, j \in 1 .. n : i # j => order[i] # order[j]  BY <1>10
<1>12. \A i, j \in 1 .. n : i < j => NotAfter(order[i], order[j])
  <2>. SUFFICES ASSUME NEW i \in 1 .. n, NEW j \in 1 .. n, i < j
                PROVE  NotAfter(order[i], order[j])
    OBVIOUS
  <2>1. PICK a \in Listed, b \in Listed : a = order[i] /\ b = order[j]  BY <1>10
  <2>2. Rank(a) < Rank(b)  BY <1>4, <1>10, <2>1
  <2>. QED  BY <2>1, <2>2, RankTells
<1>13. order \in [1 .. n -> Listed] /\ DOMAIN order = 1 .. n  BY <1>9, <1>10
<1>14. order \in SetToSeqs(Listed)  BY <1>1, <1>11, <1>13 DEF SetToSeqs
<1>15. order \in Orders(Listed)  BY <1>12, <1>13, <1>14 DEF Orders
<1>. QED  BY <1>15

(* Who has read the first articles has read the beginning of that order.   *)
LEMMA LeadsTheOrder ==
    ASSUME ListsTyped, Dated, NEW s \in Seq(Articles), NEW n \in Nat, LeadsList(s, n)
    PROVE  \E order \in Orders(Listed) : IsPrefix(s, order)
<1>1. PICK order \in Orders(Listed) : TRUE  BY OrderExists
<1>2. PICK m \in Nat : m = Cardinality(Listed)  BY ListedRows
<1>3. order \in Seq(Articles) /\ Len(order) = m /\ DOMAIN order = 1 .. m  BY <1>2, OrderIs
<1>4. PICK k \in Nat : k = Len(s) /\ k <= m
  <2>1. Min({n, m}) \in {n, m} /\ Min({n, m}) <= m  BY MinOfTwo
  <2>. QED  BY <1>2, <2>1 DEF LeadsList
<1>5. \A i \in 1 .. k : s[i] = order[i]
  <2>. TAKE i \in 1 .. k
  <2>1. i \in DOMAIN order  BY <1>3, <1>4
  <2>2. PICK a \in Listed : a = s[i] /\ Rank(a) = i - 1  BY <1>4 DEF LeadsList
  <2>3. PICK b \in Listed : b = order[i] /\ Rank(b) = i - 1  BY <2>1, OrderedByRank
  <2>. QED  BY <2>2, <2>3, RankTells
<1>6. SubSeq(s, 1, k) = SubSeq(order, 1, k)
  <2>1. /\ SubSeq(s, 1, k) \in Seq(Articles) /\ Len(SubSeq(s, 1, k)) = k
        /\ \A i \in 1 .. k : SubSeq(s, 1, k)[i] = s[i]
    BY <1>4
  <2>2. /\ SubSeq(order, 1, k) \in Seq(Articles) /\ Len(SubSeq(order, 1, k)) = k
        /\ \A i \in 1 .. k : SubSeq(order, 1, k)[i] = order[i]
    BY <1>3, <1>4
  <2>. QED  BY <1>5, <2>1, <2>2
<1>7. IsPrefix(s, order)  BY <1>3, <1>4, <1>6 DEF IsPrefix
<1>. QED  BY <1>7

-----------------------------------------------------------------------------
(* Where a reader is.                                                      *)
LEMMA Turns ==
    ASSUME NEW p \in Nat \ {0}, NEW l \in Nat \ {0}
    PROVE  /\ Skip(p, l) \in Nat /\ Skip(p + 1, l) = Skip(p, l) + l
           /\ Skip(1, l) = 0
           /\ p > 1 => Skip(p, l) >= 1
<1>1. PICK q \in Nat : q = p - 1 /\ p = q + 1  OBVIOUS
<1>2. q * l \in Nat /\ (q + 1) * l = q * l + l  BY Product
<1>3. Skip(p, l) = q * l /\ Skip(p + 1, l) = (q + 1) * l
  BY <1>1 DEF Skip
<1>4. Skip(1, l) = 0
  <2>1. 0 * l = 0  OBVIOUS
  <2>. QED  BY <2>1 DEF Skip
<1>5. p > 1 => 1 * l <= q * l
  <2>1. p > 1 => 1 <= q  BY <1>1
  <2>. QED  BY <2>1, Product
<1>6. 1 * l = l  OBVIOUS
<1>. QED  BY <1>2, <1>3, <1>4, <1>5, <1>6

LEMMA LastPage ==
    ASSUME NEW p \in Nat \ {0}, NEW l \in Nat \ {0}, NEW total \in Nat,
           ~ (p < TotalPages(total, l))
    PROVE  total <= Skip(p, l) + l
<1>1. PICK n \in Nat : n = total + l - 1  OBVIOUS
<1>2. PICK q \in Nat : q = n \div l /\ n < q * l + l  BY Quotient
<1>3. q <= p  BY <1>1, <1>2 DEF TotalPages
<1>4. q * l <= p * l /\ p * l \in Nat /\ q * l \in Nat  BY <1>3, Product
<1>5. PICK a \in Nat : a = p - 1 /\ p = a + 1  OBVIOUS
<1>6. Skip(p, l) + l = p * l /\ a * l \in Nat
  <2>1. (a + 1) * l = a * l + l /\ a * l \in Nat  BY Product
  <2>. QED  BY <1>5, <2>1 DEF Skip
<1>7. PICK x \in Nat, y \in Nat : x = q * l /\ y = p * l  BY <1>4
<1>. QED  BY <1>1, <1>2, <1>4, <1>6, <1>7

(* What is read so far, and the page read after it.                        *)
LEMMA Together ==
    ASSUME NEW s \in Seq(Articles), NEW t \in Seq(Articles)
    PROVE  /\ s \o t \in Seq(Articles) /\ Len(s \o t) = Len(s) + Len(t)
           /\ \A i \in 1 .. Len(s) : (s \o t)[i] = s[i]
           /\ \A i \in 1 .. Len(t) : (s \o t)[Len(s) + i] = t[i]
           /\ \A x : x \in Range(s) \/ x \in Range(t) => x \in Range(s \o t)
<1>1. s \o t \in Seq(Articles) /\ Len(s \o t) = Len(s) + Len(t)  OBVIOUS
<1>2. Len(s) \in Nat /\ Len(t) \in Nat  OBVIOUS
<1>3. \A i \in 1 .. Len(s) : (s \o t)[i] = s[i]  OBVIOUS
<1>4. \A i \in 1 .. Len(t) : (s \o t)[Len(s) + i] = t[i]  OBVIOUS
<1>5. PICK u \in Seq(Articles) : u = s \o t  BY <1>1
<1>6. DOMAIN s = 1 .. Len(s) /\ DOMAIN t = 1 .. Len(t) /\ DOMAIN u = 1 .. Len(u)  BY <1>5
<1>7. \A x : x \in Range(s) => x \in Range(u)
  <2>. SUFFICES ASSUME NEW i \in DOMAIN s PROVE s[i] \in Range(u)  BY DEF Range
  <2>1. i \in DOMAIN u /\ u[i] = s[i]  BY <1>1, <1>2, <1>3, <1>5, <1>6
  <2>. QED  BY <2>1 DEF Range
<1>8. \A x : x \in Range(t) => x \in Range(u)
  <2>. SUFFICES ASSUME NEW i \in DOMAIN t PROVE t[i] \in Range(u)  BY DEF Range
  <2>1. PICK j \in Nat : j = Len(s) + i  BY <1>2, <1>6
  <2>2. j \in DOMAIN u /\ u[j] = t[i]  BY <1>1, <1>2, <1>4, <1>5, <1>6, <2>1
  <2>. QED  BY <2>2 DEF Range
<1>. QED  BY <1>1, <1>3, <1>4, <1>5, <1>7, <1>8

(* A page is the next piece of the order.                                  *)
LEMMA PageTyped ==
    ASSUME ListsTyped, walk \in Walking, NEW order \in Orders(Listed)
    PROVE  /\ PageOf(order) \in Seq(Articles) /\ Begun \in Nat /\ Covered \in Nat /\ Begun < Covered
           /\ Len(PageOf(order)) = IF Cardinality(Listed) <= Begun THEN 0
                                   ELSE Min({Covered, Cardinality(Listed)}) - Begun
           /\ \A i \in 1 .. Len(PageOf(order)) :
                 Begun + i \in DOMAIN order /\ PageOf(order)[i] = order[Begun + i]
<1>1. PICK m \in Nat : m = Cardinality(Listed)  BY ListedRows
<1>2. order \in Seq(Articles) /\ Len(order) = m /\ DOMAIN order = 1 .. m  BY <1>1, OrderIs
<1>3. walk.page \in Nat \ {0} /\ walk.limit \in Nat \ {0}  BY DEF Walking
<1>4. PICK b \in Nat : b = Begun  BY <1>3, Turns DEF Begun
<1>5. PICK c \in Nat : c = Covered /\ c = b + walk.limit /\ b < c  BY <1>3, <1>4 DEF Covered
<1>6. PICK e : e = Min({m, c})  OBVIOUS
<1>7. e <= m /\ e <= c /\ e \in {m, c}  BY <1>6, MinOfTwo
<1>8. PICK d : d = Min({c, m})  OBVIOUS
<1>9. d <= m /\ d <= c /\ d \in {m, c}  BY <1>8, MinOfTwo
<1>10. e = d  BY <1>7, <1>9
<1>11. PageOf(order) = SubSeq(order, b + 1, e)  BY <1>2, <1>4, <1>5, <1>6 DEF PageOf, Begun, Covered
<1>12. PICK page : page = SubSeq(order, b + 1, e)  OBVIOUS
<1>13. page \in Seq(Articles)  BY <1>2, <1>7, <1>12
<1>14. Len(page) = IF m <= b THEN 0 ELSE e - b  BY <1>2, <1>5, <1>7, <1>12
<1>15. \A i \in 1 .. Len(page) : b + i \in 1 .. m /\ page[i] = order[b + i]
  <2>. TAKE i \in 1 .. Len(page)
  <2>1. b + i \in 1 .. m /\ i \in 1 .. e - b  BY <1>7, <1>14
  <2>2. page[i] = order[(b + 1) + i - 1]  BY <1>2, <1>7, <1>12, <2>1
  <2>. QED  BY <2>1, <2>2
<1>. QED  BY <1>1, <1>2, <1>4, <1>5, <1>8, <1>10, <1>11, <1>12, <1>13, <1>14, <1>15

LEMMA PageByRank ==
    ASSUME ListsTyped, walk \in Walking, Dated, NEW order \in Orders(Listed)
    PROVE  /\ \A i \in 1 .. Len(PageOf(order)) :
                 PageOf(order)[i] \in Listed /\ Rank(PageOf(order)[i]) = Begun + i - 1
           /\ \A a \in Listed : Begun <= Rank(a) /\ Rank(a) < Covered => a \in Range(PageOf(order))
<1>1. PICK m \in Nat : m = Cardinality(Listed)  BY ListedRows
<1>2. DOMAIN order = 1 .. m  BY <1>1, OrderIs
<1>3. PICK page : page = PageOf(order)  OBVIOUS
<1>4. PICK b \in Nat, c \in Nat : b = Begun /\ c = Covered /\ b < c  BY PageTyped
<1>5. /\ Len(page) = IF m <= b THEN 0 ELSE Min({c, m}) - b
      /\ \A i \in 1 .. Len(page) : b + i \in DOMAIN order /\ page[i] = order[b + i]
  BY <1>1, <1>3, <1>4, PageTyped
<1>6. \A i \in 1 .. Len(page) : page[i] \in Listed /\ Rank(page[i]) = b + i - 1
  <2>. TAKE i \in 1 .. Len(page)
  <2>1. PICK j \in DOMAIN order : j = b + i  BY <1>5
  <2>2. PICK a : a = order[j]  OBVIOUS
  <2>3. a \in Listed /\ Rank(a) = j - 1  BY <2>2, OrderedByRank
  <2>4. a = page[i]  BY <1>5, <2>1, <2>2
  <2>. QED  BY <2>1, <2>3, <2>4
<1>7. \A a \in Listed : b <= Rank(a) /\ Rank(a) < c => a \in Range(page)
  <2>. SUFFICES ASSUME NEW a \in Listed, b <= Rank(a), Rank(a) < c PROVE a \in Range(page)  OBVIOUS
  <2>1. PICK j \in DOMAIN order : order[j] = a  BY OrderIs
  <2>2. Rank(a) = j - 1 /\ j \in 1 .. m  BY <1>2, <2>1, OrderedByRank
  <2>3. PICK i \in Nat : i = j - b /\ j = b + i /\ i >= 1  BY <1>4, <2>2
  <2>4. Min({c, m}) \in {c, m}  BY MinOfTwo
  <2>5. i \in 1 .. Len(page)  BY <1>4, <1>5, <2>2, <2>3, <2>4
  <2>6. page \in Seq(Articles)  BY <1>3, PageTyped
  <2>7. page[i] = a /\ i \in DOMAIN page  BY <1>5, <2>1, <2>3, <2>5, <2>6
  <2>. QED  BY <2>7 DEF Range
<1>. QED  BY <1>3, <1>4, <1>6, <1>7


-----------------------------------------------------------------------------
LEMMA ListsBegin ==
    ASSUME ListsInit
    PROVE  ListsInv
<1>1. \A a \in Articles : rows[a] \in ListRow /\ rows[a].published_at = 0
  BY DEF ListsInit, Absent, Draft, ListRow, Statuses
<1>2. rows \in [Articles -> ListRow]  BY <1>1 DEF ListsInit
<1>3. ListsTyped  BY <1>1, <1>2 DEF ListsInit, ListsTyped
<1>4. WalkInv  BY DEF ListsInit, WalkInv
<1>. QED  BY <1>3, <1>4 DEF ListsInv

(* Nothing about the table changes when a statement only reads it.         *)
LEMMA OnlyRead ==
    ASSUME rows' = rows
    PROVE  /\ Listed' = Listed /\ (Dated' <=> Dated)
           /\ \A a : Rank(a)' = Rank(a)
<1>1. Listed' = Listed  BY DEF Listed
<1>2. Dated' <=> Dated  BY <1>1 DEF Dated
<1>3. \A a : Ahead(a)' = Ahead(a)  BY <1>1 DEF Ahead, NotAfter
<1>4. \A a : Rank(a)' = Rank(a)  BY <1>3 DEF Rank
<1>. QED  BY <1>1, <1>2, <1>4

LEMMA StillTyped ==
    ASSUME ListsTyped, rows' = rows, clock' = clock, walk' \in Walking
    PROVE  ListsTyped'
  BY DEF ListsTyped

LEMMA ListOpened ==
    ASSUME ListsInv, NEW limit \in Nat \ {0}, NEW all \in BOOLEAN, OpenList(limit, all)
    PROVE  ListsInv'
<1>1. ListsTyped /\ rows' = rows /\ clock' = clock  BY DEF ListsInv, OpenList
<1>2. PICK l : l = safeLimit(limit)  OBVIOUS
<1>3. l \in Nat \ {0}
  <2>1. limit \in Int /\ MaxLimit \in Int /\ MaxLimit # 0 /\ limit # 0 /\ MaxLimit \in Nat /\ limit \in Nat
    BY LimitsAssumption DEF LimitsAssumption
  <2>2. l \in {limit, MaxLimit}  BY <1>2, <2>1, MinOfTwo DEF safeLimit
  <2>. QED  BY <2>1, <2>2
<1>4. PICK there : there = Listed  OBVIOUS
<1>5. PICK dated \in BOOLEAN : dated = Dated  BY DEF Dated
<1>6. walk' = [at |-> "ask", page |-> 1, limit |-> l, all |-> all,
               items |-> <<>>, total |-> 0, missing |-> {"items", "total"}, seen |-> <<>>,
               stayed |-> there, dated |-> dated, removed |-> FALSE, torn |-> FALSE]
  BY <1>2, <1>4, <1>5 DEF OpenList
<1>7. /\ walk'.at = "ask" /\ walk'.page = 1 /\ walk'.limit = l /\ walk'.seen = <<>>
      /\ walk'.missing = {"items", "total"} /\ walk'.stayed = there /\ walk'.dated = dated
  BY <1>6
<1>8. there \in SUBSET Articles  BY <1>1, <1>4, ListedRows
<1>9. walk' \in Walking  BY <1>3, <1>6, <1>8 DEF Walking
<1>10. ListsTyped'  BY <1>1, <1>9, StillTyped
<1>11. Listed' = there /\ (Dated' <=> dated)  BY <1>1, <1>4, <1>5, OnlyRead
<1>12. StayedListed'  BY <1>7, <1>11 DEF StayedListed
<1>13. Begun' = 0  BY <1>3, <1>7, Turns DEF Begun
<1>14. AskedSoFar'
  <2>1. \A a \in there : ~ (Rank(a)' < Begun')
    <3>. TAKE a \in there
    <3>1. Rank(a)' = Rank(a) /\ Rank(a) \in Nat  BY <1>1, <1>4, OnlyRead, RankOf
    <3>. QED  BY <1>13, <3>1
  <2>2. "items" \in walk'.missing /\ walk'.missing # {"items"} /\ walk'.missing # {}  BY <1>7
  <2>. QED  BY <1>7, <2>1, <2>2 DEF AskedSoFar
<1>15. ListedSoFar'
  <2>1. Len(walk'.seen) = 0  BY <1>7
  <2>2. PICK m \in Nat : m = Cardinality(Listed')  BY <1>1, <1>4, <1>11, ListedRows
  <2>3. Min({0, m}) = 0  BY MinOfTwo
  <2>4. LeadsList(walk.seen, Begun)'  BY <1>13, <2>1, <2>2, <2>3 DEF LeadsList
  <2>. QED  BY <1>7, <2>4 DEF ListedSoFar
<1>16. WalkInv'  BY <1>7, <1>12, <1>14, <1>15 DEF WalkInv
<1>. QED  BY <1>10, <1>16 DEF ListsInv


(* The page that the statement found belongs to what was read before.      *)
LEMMA ItemsFound ==
    ASSUME ListsInv, FindItems
    PROVE  ListsInv'
<1>1. ListsTyped /\ WalkInv /\ rows' = rows /\ clock' = clock  BY DEF ListsInv, FindItems
<1>2. PICK order \in Orders(Listed) :
         walk' = [walk EXCEPT !.items = PageOf(order), !.missing = @ \ {"items"}]
  BY DEF FindItems
<1>3. walk.at = "ask" /\ "items" \in walk.missing  BY DEF FindItems
<1>4. walk \in Walking
  <2>1. walk # [at |-> "idle"]  BY <1>3
  <2>. QED  BY <1>1, <2>1 DEF ListsTyped
<1>5. PICK page : page = PageOf(order)  OBVIOUS
<1>6. page \in Seq(Articles) /\ walk.seen \in Seq(Articles)
  <2>1. page \in Seq(Articles)  BY <1>1, <1>4, <1>5, PageTyped
  <2>. QED  BY <1>4, <2>1 DEF Walking
<1>7. PICK left : left = walk.missing \ {"items"}  OBVIOUS
<1>8. walk' = [walk EXCEPT !.items = page, !.missing = left]  BY <1>2, <1>5, <1>7
<1>9. walk' \in Walking
  <2>1. left \in SUBSET {"items", "total"}  BY <1>4, <1>7 DEF Walking
  <2>. QED  BY <1>4, <1>6, <1>8, <2>1 DEF Walking
<1>10. /\ walk'.at = "ask" /\ walk'.page = walk.page /\ walk'.limit = walk.limit /\ walk'.seen = walk.seen
       /\ walk'.items = page /\ walk'.missing = left /\ walk'.stayed = walk.stayed /\ walk'.total = walk.total
       /\ walk'.dated = walk.dated /\ walk'.removed = walk.removed /\ walk'.torn = walk.torn
  BY <1>3, <1>4, <1>8 DEF Walking
<1>11. ListsTyped'  BY <1>1, <1>9, StillTyped
<1>12. Listed' = Listed /\ (Dated' <=> Dated) /\ \A a : Rank(a)' = Rank(a)  BY <1>1, OnlyRead
<1>13. StayedListed  BY <1>1, <1>3 DEF WalkInv
<1>14. StayedListed'  BY <1>10, <1>12, <1>13 DEF StayedListed
<1>15. Begun' = Begun /\ Covered' = Covered  BY <1>10 DEF Begun, Covered
<1>16. Undisturbed' <=> Undisturbed  BY <1>10 DEF Undisturbed
<1>17. PICK b \in Nat, c \in Nat : b = Begun /\ c = Covered /\ b < c  BY <1>1, <1>4, PageTyped
<1>18. PICK m \in Nat : m = Cardinality(Listed)  BY <1>1, ListedRows
<1>19. ASSUME Undisturbed PROVE AskedSoFar'
  <2>1. Dated /\ walk.stayed \subseteq Listed  BY <1>13, <1>19 DEF Undisturbed, StayedListed
  <2>2. AskedSoFar  BY <1>1, <1>3, <1>19 DEF WalkInv
  <2>3. \A a \in walk.stayed : Rank(a) < Begun => a \in Range(walk.seen)  BY <2>2 DEF AskedSoFar
  <2>4. \A a \in walk.stayed : Rank(a) < c => a \in Range(walk.seen \o page)
    <3>. SUFFICES ASSUME NEW a \in walk.stayed, Rank(a) < c PROVE a \in Range(walk.seen \o page)
      OBVIOUS
    <3>1. a \in Listed /\ Rank(a) \in Nat  BY <1>1, <2>1, RankOf
    <3>2. CASE Rank(a) < b  BY <1>6, <1>17, <2>3, <3>2, Together
    <3>3. CASE b <= Rank(a)
      <4>1. a \in Range(page)  BY <1>1, <1>4, <1>5, <1>17, <2>1, <3>1, <3>3, PageByRank
      <4>. QED  BY <1>6, <4>1, Together
    <3>. QED  BY <1>17, <3>1, <3>2, <3>3
  <2>5. left = {} => walk.total = m
    <3>1. left = {} => walk.missing = {"items"}  BY <1>3, <1>7
    <3>. QED  BY <1>18, <2>2, <3>1 DEF AskedSoFar
  <2>6. left = {} /\ walk.total <= c => walk.stayed \subseteq Range(walk.seen \o page)
    <3>. SUFFICES ASSUME left = {}, walk.total <= c, NEW a \in walk.stayed
                  PROVE  a \in Range(walk.seen \o page)
      OBVIOUS
    <3>1. Rank(a) \in Nat /\ Rank(a) < m  BY <1>1, <1>18, <2>1, RankOf
    <3>. QED  BY <1>17, <1>18, <2>4, <2>5, <3>1
  <2>7. left # {"items"}  BY <1>7
  <2>. QED  BY <1>10, <1>12, <1>15, <1>17, <2>3, <2>4, <2>6, <2>7 DEF AskedSoFar
<1>20. ASSUME Undisturbed, walk.stayed = Listed PROVE ListedSoFar'
  <2>1. Dated  BY <1>13, <1>20 DEF Undisturbed, StayedListed
  <2>2. LeadsList(walk.seen, Begun)  BY <1>1, <1>3, <1>20 DEF WalkInv, ListedSoFar
  <2>3. PICK k \in Nat : k = Len(walk.seen)  BY <1>6
  <2>4. PICK n \in Nat : n = Len(page)  BY <1>6
  <2>5. /\ k = Min({b, m})
        /\ \A i \in 1 .. k : walk.seen[i] \in Listed /\ Rank(walk.seen[i]) = i - 1
    BY <1>17, <1>18, <2>2, <2>3 DEF LeadsList
  <2>6. n = IF m <= b THEN 0 ELSE Min({c, m}) - b  BY <1>1, <1>4, <1>5, <1>17, <1>18, <2>4, PageTyped
  <2>7. \A i \in 1 .. n : page[i] \in Listed /\ Rank(page[i]) = b + i - 1
    BY <1>1, <1>4, <1>5, <1>17, <2>1, <2>4, PageByRank
  <2>8. PICK s : s = walk.seen \o page  OBVIOUS
  <2>9. /\ s \in Seq(Articles) /\ Len(s) = k + n
        /\ \A i \in 1 .. k : s[i] = walk.seen[i]
        /\ \A i \in 1 .. n : s[k + i] = page[i]
    BY <1>6, <2>3, <2>4, <2>8, Together
  <2>10. k \in {b, m} /\ k <= b /\ k <= m  BY <2>5, MinOfTwo
  <2>11. PICK d : d = Min({c, m})  OBVIOUS
  <2>12. d \in {c, m} /\ d <= c /\ d <= m  BY <1>17, <1>18, <2>11, MinOfTwo
  <2>13. Len(s) = d  BY <1>17, <1>18, <2>3, <2>4, <2>6, <2>9, <2>10, <2>11, <2>12
  <2>14. \A i \in 1 .. Len(s) : s[i] \in Listed /\ Rank(s[i]) = i - 1
    <3>. TAKE i \in 1 .. Len(s)
    <3>1. CASE i <= k
      <4>1. i \in 1 .. k  BY <2>3, <2>4, <2>9, <3>1
      <4>2. s[i] = walk.seen[i]  BY <2>9, <4>1
      <4>. QED  BY <2>5, <4>1, <4>2
    <3>2. CASE k < i
      <4>1. PICK j \in 1 .. n : j = i - k /\ i = k + j  BY <2>9, <3>2
      <4>2. k = b  BY <2>6, <2>10, <4>1
      <4>3. s[i] = page[j]  BY <2>9, <4>1
      <4>. QED  BY <1>17, <2>7, <4>1, <4>2, <4>3
    <3>. QED  BY <2>3, <2>4, <2>9, <3>1, <3>2
  <2>15. LeadsList(s, c)  BY <1>18, <2>11, <2>13, <2>14 DEF LeadsList
  <2>16. LeadsList(walk.seen \o page, Covered)  BY <1>17, <2>8, <2>15
  <2>17. LeadsList(walk.seen, Begun)'
    BY <1>10, <1>12, <1>15, <2>2 DEF LeadsList
  <2>18. LeadsList(walk.seen \o walk.items, Covered)'
    BY <1>10, <1>12, <1>15, <2>16 DEF LeadsList
  <2>. QED  BY <2>17, <2>18 DEF ListedSoFar
<1>21. WalkInv'  BY <1>10, <1>12, <1>14, <1>16, <1>19, <1>20 DEF WalkInv
<1>. QED  BY <1>11, <1>21 DEF ListsInv

LEMMA TotalCountedNow ==
    ASSUME ListsInv, CountTotal
    PROVE  ListsInv'
<1>1. ListsTyped /\ WalkInv /\ rows' = rows /\ clock' = clock  BY DEF ListsInv, CountTotal
<1>2. PICK m \in Nat : m = Cardinality(Listed)  BY <1>1, ListedRows
<1>3. walk' = [walk EXCEPT !.total = Cardinality(Listed), !.missing = @ \ {"total"}]
  BY DEF CountTotal
<1>4. walk.at = "ask" /\ "total" \in walk.missing  BY DEF CountTotal
<1>5. walk \in Walking
  <2>1. walk # [at |-> "idle"]  BY <1>4
  <2>. QED  BY <1>1, <2>1 DEF ListsTyped
<1>6. PICK left : left = walk.missing \ {"total"}  OBVIOUS
<1>7. walk' = [walk EXCEPT !.total = m, !.missing = left]  BY <1>2, <1>3, <1>6
<1>8. walk' \in Walking
  <2>1. left \in SUBSET {"items", "total"}  BY <1>5, <1>6 DEF Walking
  <2>. QED  BY <1>2, <1>5, <1>7, <2>1 DEF Walking
<1>9. /\ walk'.at = "ask" /\ walk'.page = walk.page /\ walk'.limit = walk.limit /\ walk'.seen = walk.seen
      /\ walk'.items = walk.items /\ walk'.missing = left /\ walk'.stayed = walk.stayed /\ walk'.total = m
      /\ walk'.dated = walk.dated /\ walk'.removed = walk.removed /\ walk'.torn = walk.torn
  BY <1>4, <1>5, <1>7 DEF Walking
<1>10. ListsTyped'  BY <1>1, <1>8, StillTyped
<1>11. Listed' = Listed /\ (Dated' <=> Dated) /\ \A a : Rank(a)' = Rank(a)  BY <1>1, OnlyRead
<1>12. StayedListed  BY <1>1, <1>4 DEF WalkInv
<1>13. StayedListed'  BY <1>9, <1>11, <1>12 DEF StayedListed
<1>14. Begun' = Begun /\ Covered' = Covered  BY <1>9 DEF Begun, Covered
<1>15. Undisturbed' <=> Undisturbed  BY <1>9 DEF Undisturbed
<1>16. "items" \notin left => "items" \notin walk.missing  BY <1>6
<1>17. PICK c \in Nat : c = Covered
  <2>1. walk.page \in Nat \ {0} /\ walk.limit \in Nat \ {0}  BY <1>5 DEF Walking
  <2>2. Begun \in Nat  BY <2>1, Turns DEF Begun
  <2>. QED  BY <2>1, <2>2 DEF Covered
<1>18. ASSUME Undisturbed PROVE AskedSoFar'
  <2>1. AskedSoFar  BY <1>1, <1>4, <1>18 DEF WalkInv
  <2>2. walk.stayed \subseteq Listed  BY <1>12 DEF StayedListed
  <2>3. left = {} /\ m <= c => walk.stayed \subseteq Range(walk.seen \o walk.items)
    <3>. SUFFICES ASSUME left = {}, m <= c, NEW a \in walk.stayed
                  PROVE  a \in Range(walk.seen \o walk.items)
      OBVIOUS
    <3>1. Rank(a) \in Nat /\ Rank(a) < m  BY <1>1, <1>2, <2>2, RankOf
    <3>2. "items" \notin walk.missing  BY <1>16
    <3>3. Rank(a) < Covered  BY <1>2, <1>17, <3>1
    <3>. QED  BY <2>1, <3>2, <3>3 DEF AskedSoFar
  <2>4. \A a \in walk.stayed : Rank(a) < Begun => a \in Range(walk.seen)  BY <2>1 DEF AskedSoFar
  <2>5. "items" \notin left =>
           \A a \in walk.stayed : Rank(a) < Covered => a \in Range(walk.seen \o walk.items)
    BY <1>16, <2>1 DEF AskedSoFar
  <2>. QED  BY <1>2, <1>9, <1>11, <1>14, <1>17, <2>3, <2>4, <2>5 DEF AskedSoFar
<1>19. ASSUME Undisturbed, walk.stayed = Listed PROVE ListedSoFar'
  <2>1. ListedSoFar  BY <1>1, <1>4, <1>19 DEF WalkInv
  <2>2. LeadsList(walk.seen, Begun)  BY <2>1 DEF ListedSoFar
  <2>3. "items" \notin left => LeadsList(walk.seen \o walk.items, Covered)
    BY <1>4, <1>16, <2>1 DEF ListedSoFar
  <2>4. LeadsList(walk.seen, Begun)'  BY <1>9, <1>11, <1>14, <2>2 DEF LeadsList
  <2>5. "items" \notin left => LeadsList(walk.seen \o walk.items, Covered)'
    BY <1>9, <1>11, <1>14, <2>3 DEF LeadsList
  <2>. QED  BY <1>9, <2>4, <2>5 DEF ListedSoFar
<1>20. WalkInv'  BY <1>9, <1>11, <1>13, <1>15, <1>18, <1>19 DEF WalkInv
<1>. QED  BY <1>10, <1>20 DEF ListsInv

(* The page is taken, and the reader asks for the next one or has them all.*)
LEMMA PageTaken ==
    ASSUME ListsInv, Page
    PROVE  ListsInv'
<1>1. ListsTyped /\ WalkInv /\ rows' = rows /\ clock' = clock  BY DEF ListsInv, Page
<1>2. walk.at = "ask" /\ walk.missing = {}  BY DEF Page
<1>3. walk \in Walking
  <2>1. walk # [at |-> "idle"]  BY <1>2
  <2>. QED  BY <1>1, <2>1 DEF ListsTyped
<1>4. PICK s : s = walk.seen \o walk.items  OBVIOUS
<1>5. PICK more \in BOOLEAN : more <=> walk.all /\ walk.page < TotalPages(walk.total, walk.limit)
  OBVIOUS
<1>6. PICK next : next = IF more THEN "ask" ELSE "done"  OBVIOUS
<1>7. PICK p \in Nat \ {0} : p = walk.page + 1 /\ p > 1  BY <1>3 DEF Walking
<1>8. walk' = [walk EXCEPT !.seen = s, !.page = p, !.missing = {"items", "total"}, !.at = next]
  BY <1>4, <1>5, <1>6, <1>7 DEF Page
<1>9. s \in Seq(Articles)
  <2>1. walk.seen \in Seq(Articles) /\ walk.items \in Seq(Articles)  BY <1>3 DEF Walking
  <2>. QED  BY <1>4, <2>1, Together
<1>10. walk' \in Walking
  <2>1. next \in {"ask", "done"}  BY <1>6
  <2>. QED  BY <1>3, <1>7, <1>8, <1>9, <2>1 DEF Walking
<1>11. /\ walk'.at = next /\ walk'.page = p /\ walk'.limit = walk.limit /\ walk'.seen = s
       /\ walk'.all = walk.all /\ walk'.missing = {"items", "total"} /\ walk'.stayed = walk.stayed
       /\ walk'.dated = walk.dated /\ walk'.removed = walk.removed /\ walk'.torn = walk.torn
  BY <1>3, <1>8 DEF Walking
<1>12. ListsTyped'  BY <1>1, <1>10, StillTyped
<1>13. Listed' = Listed /\ (Dated' <=> Dated) /\ \A a : Rank(a)' = Rank(a)  BY <1>1, OnlyRead
<1>14. StayedListed  BY <1>1, <1>2 DEF WalkInv
<1>15. StayedListed'  BY <1>11, <1>13, <1>14 DEF StayedListed
<1>16. walk.page \in Nat \ {0} /\ walk.limit \in Nat \ {0} /\ walk.total \in Nat  BY <1>3 DEF Walking
<1>17. Begun' = Covered
  <2>1. Skip(walk.page + 1, walk.limit) = Skip(walk.page, walk.limit) + walk.limit  BY <1>16, Turns
  <2>. QED  BY <1>7, <1>11, <2>1 DEF Begun, Covered
<1>18. Undisturbed' <=> Undisturbed  BY <1>11 DEF Undisturbed
<1>19. "items" \notin walk.missing /\ "items" \in walk'.missing /\ walk'.missing # {"items"} /\ walk'.missing # {}
  BY <1>2, <1>11
<1>20. ASSUME Undisturbed PROVE AskedSoFar'
  <2>1. AskedSoFar  BY <1>1, <1>2, <1>20 DEF WalkInv
  <2>2. \A a \in walk.stayed : Rank(a) < Covered => a \in Range(s)
    BY <1>4, <1>19, <2>1 DEF AskedSoFar
  <2>. QED  BY <1>11, <1>13, <1>17, <1>19, <2>2 DEF AskedSoFar
<1>21. ASSUME Undisturbed, walk.all, ~ more PROVE walk.stayed \subseteq Range(s)
  <2>1. AskedSoFar  BY <1>1, <1>2, <1>21 DEF WalkInv
  <2>2. walk.total <= Covered  BY <1>5, <1>16, <1>21, LastPage DEF Begun, Covered
  <2>. QED  BY <1>2, <1>4, <2>1, <2>2 DEF AskedSoFar
<1>22. ASSUME Undisturbed, walk.stayed = Listed PROVE ListedSoFar'
  <2>1. ListedSoFar  BY <1>1, <1>2, <1>22 DEF WalkInv
  <2>2. LeadsList(s, Covered)  BY <1>2, <1>4, <1>19, <2>1 DEF ListedSoFar
  <2>3. LeadsList(walk.seen, Begun)'  BY <1>11, <1>13, <1>17, <2>2 DEF LeadsList
  <2>. QED  BY <1>19, <2>3 DEF ListedSoFar
<1>23. next = "done" => ~ more  BY <1>6
<1>24. WalkInv'
  BY <1>7, <1>11, <1>13, <1>15, <1>18, <1>20, <1>21, <1>22, <1>23 DEF WalkInv
<1>. QED  BY <1>12, <1>24 DEF ListsInv

(* Somebody else's change.  Who stays can only be pushed back, so nothing  *)
(* ahead of the reader moves to where the reader has been.                 *)
LEMMA RowChanged ==
    ASSUME ListsInv, NEW a \in Articles, NEW row \in ListRow, SetRow(a, row),
           row.published_at <= clock + 1,
           rows[a].status = "published" /\ row.status = "published" =>
               row.published_at \in {rows[a].published_at, clock + 1}
    PROVE  ListsInv'
<1>1. ListsTyped /\ WalkInv  BY DEF ListsInv
<1>2. rows \in [Articles -> ListRow] /\ clock \in Nat /\ \A b \in Articles : rows[b].published_at <= clock
  BY <1>1 DEF ListsTyped
<1>3. clock' = clock + 1 /\ rows' = [rows EXCEPT ![a] = row] /\ walk.at # "done"  BY DEF SetRow
<1>4. rows' \in [Articles -> ListRow] /\ rows'[a] = row /\ \A b \in Articles \ {a} : rows'[b] = rows[b]
  BY <1>2, <1>3
<1>5. \A b \in Articles : rows[b].published_at \in Nat /\ rows'[b].published_at \in Nat
  BY <1>2, <1>4 DEF ListRow
<1>6. \A b \in Articles : rows'[b].published_at <= clock'
  <2>. TAKE b \in Articles
  <2>1. CASE b = a  BY <1>3, <1>4, <2>1
  <2>2. CASE b # a
    <3>1. rows'[b] = rows[b]  BY <1>4, <2>2
    <3>. QED  BY <1>2, <1>3, <1>5, <3>1
  <2>. QED  BY <2>1, <2>2
<1>7. clock' \in Nat  BY <1>2, <1>3
<1>8. CASE walk.at = "idle"
  <2>1. walk' = walk  BY <1>8 DEF SetRow
  <2>2. walk \in Walking \cup {[at |-> "idle"]}  BY <1>1 DEF ListsTyped
  <2>3. ListsTyped'  BY <1>4, <1>6, <1>7, <2>1, <2>2 DEF ListsTyped
  <2>4. WalkInv'  BY <1>8, <2>1 DEF WalkInv
  <2>. QED  BY <2>3, <2>4 DEF ListsInv
<1>9. CASE walk.at # "idle"
  <2>1. walk \in Walking
    <3>1. walk # [at |-> "idle"]  BY <1>9
    <3>. QED  BY <1>1, <3>1 DEF ListsTyped
  <2>2. walk.at = "ask"  BY <1>3, <1>9, <2>1 DEF Walking
  <2>3. PICK stayed : stayed = walk.stayed \ {a}  OBVIOUS
  <2>4. PICK dated \in BOOLEAN : dated <=> walk.dated /\ Dated'  OBVIOUS
  <2>5. PICK removed \in BOOLEAN :
           removed <=> walk.removed \/ (rows[a].status = "published" /\ row.status # "published")
    OBVIOUS
  <2>6. PICK torn \in BOOLEAN : torn <=> walk.torn \/ Cardinality(walk.missing) = 1  OBVIOUS
  <2>7. /\ walk.dated \in BOOLEAN /\ walk.removed \in BOOLEAN /\ walk.torn \in BOOLEAN
        /\ walk.stayed \subseteq Articles
    BY <2>1 DEF Walking
  <2>8. walk' = [walk EXCEPT !.stayed = @ \ {a},
                             !.dated = @ /\ Dated',
                             !.removed = @ \/ (rows[a].status = "published" /\ row.status # "published"),
                             !.torn = @ \/ Cardinality(walk.missing) = 1]
    BY <1>9 DEF SetRow
  <2>9. walk' = [walk EXCEPT !.stayed = stayed, !.dated = dated, !.removed = removed, !.torn = torn]
    <3>1. dated = (walk.dated /\ Dated')  BY <2>4
    <3>2. removed = (walk.removed \/ (rows[a].status = "published" /\ row.status # "published"))  BY <2>5
    <3>3. torn = (walk.torn \/ Cardinality(walk.missing) = 1)  BY <2>6
    <3>. QED  BY <2>3, <2>8, <3>1, <3>2, <3>3
  <2>10. walk' \in Walking  BY <2>1, <2>3, <2>7, <2>9 DEF Walking
  <2>11. /\ walk'.at = "ask" /\ walk'.page = walk.page /\ walk'.limit = walk.limit /\ walk'.seen = walk.seen
         /\ walk'.items = walk.items /\ walk'.missing = walk.missing /\ walk'.total = walk.total
         /\ walk'.stayed = stayed /\ walk'.dated = dated /\ walk'.removed = removed /\ walk'.torn = torn
    BY <2>1, <2>2, <2>9 DEF Walking
  <2>12. ListsTyped'  BY <1>4, <1>6, <1>7, <2>10 DEF ListsTyped
  <2>13. StayedListed  BY <1>1, <1>9 DEF WalkInv
  <2>14. \A b \in Articles \ {a} : b \in Listed' <=> b \in Listed  BY <1>4 DEF Listed
  <2>15. stayed \subseteq Listed' /\ stayed \subseteq Listed
    BY <2>3, <2>7, <2>13, <2>14 DEF StayedListed
  <2>16. StayedListed'  BY <2>4, <2>11, <2>15 DEF StayedListed
  <2>17. Begun' = Begun /\ Covered' = Covered  BY <2>11 DEF Begun, Covered
  <2>18. PICK b \in Nat, c \in Nat : b = Begun /\ c = Covered
    <3>1. walk.page \in Nat \ {0} /\ walk.limit \in Nat \ {0}  BY <2>1 DEF Walking
    <3>2. Begun \in Nat  BY <3>1, Turns DEF Begun
    <3>3. Covered \in Nat  BY <3>1, <3>2 DEF Covered
    <3>. QED  BY <3>2, <3>3
  <2>19. ASSUME Undisturbed' PROVE AskedSoFar'
    <3>1. dated /\ ~ removed /\ ~ torn  BY <2>11, <2>19 DEF Undisturbed
    <3>2. Undisturbed /\ Cardinality(walk.missing) # 1  BY <2>4, <2>5, <2>6, <3>1 DEF Undisturbed
    <3>3. Dated  BY <2>13, <3>2 DEF StayedListed, Undisturbed
    <3>4. AskedSoFar  BY <1>1, <1>9, <2>2, <3>2 DEF WalkInv
    <3>5. \A s \in stayed : Rank(s) <= Rank(s)' /\ Rank(s) \in Nat /\ Rank(s)' \in Nat
      <4>. TAKE s \in stayed
      <4>1. s \in Listed /\ s \in Listed' /\ s # a /\ s \in Articles  BY <2>3, <2>7, <2>15
      <4>2. Ahead(s) \in SUBSET (Ahead(s)')
        <5>. SUFFICES ASSUME NEW o \in Ahead(s) PROVE o \in Ahead(s)'  OBVIOUS
        <5>1. o \in Listed /\ o # s /\ NotAfter(o, s) /\ o \in Articles  BY DEF Ahead, Listed
        <5>2. rows'[s] = rows[s]  BY <1>4, <4>1
        <5>3. CASE o # a
          <6>1. o \in Listed'  BY <2>14, <5>1, <5>3
          <6>2. rows'[o] = rows[o]  BY <1>4, <5>1, <5>3
          <6>3. NotAfter(o, s)'  BY <5>1, <5>2, <6>2 DEF NotAfter
          <6>. QED  BY <5>1, <6>1, <6>3 DEF Ahead
        <5>4. CASE o = a
          <6>1. rows[a].status = "published"  BY <5>1, <5>4 DEF Listed
          <6>2. row.status = "published"  BY <2>5, <3>1, <6>1
          <6>3. o \in Listed'  BY <1>4, <5>4, <6>2 DEF Listed
          <6>4. row.published_at \in {rows[a].published_at, clock + 1}  BY <6>1, <6>2
          <6>5. rows[a].published_at # rows[s].published_at
            BY <3>3, <4>1, <5>1, <5>4 DEF Dated
          <6>6. \/ rows[a].published_at = 0
                \/ rows[s].published_at # 0 /\ rows[a].published_at >= rows[s].published_at
            BY <5>1, <5>4 DEF NotAfter
          <6>7. \/ row.published_at = 0
                \/ rows[s].published_at # 0 /\ row.published_at >= rows[s].published_at
            <7>1. PICK x \in Nat, y \in Nat : x = rows[a].published_at /\ y = rows[s].published_at
              BY <1>5, <4>1
            <7>2. y <= clock /\ x # y /\ (x = 0 \/ (y # 0 /\ x >= y))  BY <1>2, <4>1, <6>5, <6>6, <7>1
            <7>3. row.published_at \in {x, clock + 1}  BY <6>4, <7>1
            <7>. QED  BY <1>2, <7>1, <7>2, <7>3
          <6>8. NotAfter(o, s)'  BY <1>4, <5>2, <5>4, <6>7 DEF NotAfter
          <6>. QED  BY <5>1, <6>3, <6>8 DEF Ahead
        <5>. QED  BY <5>3, <5>4
      <4>3. IsFiniteSet(Ahead(s)) /\ Rank(s) \in Nat  BY <1>1, <4>1, RankOf
      <4>4. IsFiniteSet(Ahead(s)')
        <5>1. Ahead(s)' \in SUBSET Articles  BY DEF Ahead, Listed
        <5>. QED  BY <5>1, ArticlesAssumption, FS_Subset DEF ArticlesAssumption
      <4>5. Cardinality(Ahead(s)) <= Cardinality(Ahead(s)')  BY <4>2, <4>4, FS_Subset
      <4>6. Cardinality(Ahead(s)') \in Nat  BY <4>4, FS_CardinalityType
      <4>. QED  BY <4>3, <4>5, <4>6 DEF Rank
    <3>6. \A s \in stayed : Rank(s)' < b => s \in Range(walk.seen)
      <4>. SUFFICES ASSUME NEW s \in stayed, Rank(s)' < b PROVE s \in Range(walk.seen)  OBVIOUS
      <4>1. Rank(s) < b  BY <2>18, <3>5
      <4>. QED  BY <2>3, <2>18, <3>4, <4>1 DEF AskedSoFar
    <3>7. "items" \notin walk.missing =>
             \A s \in stayed : Rank(s)' < c => s \in Range(walk.seen \o walk.items)
      <4>. SUFFICES ASSUME "items" \notin walk.missing, NEW s \in stayed, Rank(s)' < c
                    PROVE  s \in Range(walk.seen \o walk.items)
        OBVIOUS
      <4>1. Rank(s) < c  BY <2>18, <3>5
      <4>. QED  BY <2>3, <2>18, <3>4, <4>1 DEF AskedSoFar
    <3>8. walk.missing # {"items"}
      <4>1. Cardinality({"items"}) = 1  BY FS_Singleton
      <4>. QED  BY <3>2, <4>1
    <3>9. walk.missing = {} /\ walk.total <= Covered => stayed \subseteq Range(walk.seen \o walk.items)
      BY <2>3, <3>4 DEF AskedSoFar
    <3>. QED  BY <2>11, <2>17, <2>18, <3>6, <3>7, <3>8, <3>9 DEF AskedSoFar
  <2>20. ASSUME Undisturbed', walk'.stayed = Listed' PROVE ListedSoFar'
    <3>1. dated /\ ~ removed /\ ~ torn  BY <2>11, <2>20 DEF Undisturbed
    <3>2. Undisturbed  BY <2>4, <2>5, <2>6, <3>1 DEF Undisturbed
    <3>3. a \notin Listed'  BY <2>3, <2>11, <2>20
    <3>4. row.status # "published"  BY <1>4, <3>3 DEF Listed
    <3>5. a \notin Listed  BY <2>5, <3>1, <3>4 DEF Listed
    <3>6. Listed \subseteq Articles /\ Listed' \subseteq Articles  BY DEF Listed
    <3>7. Listed' = Listed  BY <2>14, <3>3, <3>5, <3>6
    <3>8. walk.stayed = Listed  BY <2>3, <2>11, <2>13, <2>20, <3>7 DEF StayedListed
    <3>9. \A s \in Listed : Rank(s)' = Rank(s)
      <4>. TAKE s \in Listed
      <4>1. \A o \in Listed : rows'[o] = rows[o]  BY <1>4, <3>5, <3>6
      <4>2. Ahead(s)' = Ahead(s)  BY <3>7, <4>1 DEF Ahead, NotAfter
      <4>. QED  BY <4>2 DEF Rank
    <3>10. ListedSoFar  BY <1>1, <1>9, <3>2, <3>8 DEF WalkInv
    <3>11. LeadsList(walk.seen, Begun)  BY <3>10 DEF ListedSoFar
    <3>12. "items" \notin walk.missing => LeadsList(walk.seen \o walk.items, Covered)
      BY <2>2, <3>10 DEF ListedSoFar
    <3>13. LeadsList(walk.seen, Begun)'  BY <2>11, <2>17, <3>7, <3>9, <3>11 DEF LeadsList
    <3>14. "items" \notin walk.missing => LeadsList(walk.seen \o walk.items, Covered)'
      BY <2>11, <2>17, <3>7, <3>9, <3>12 DEF LeadsList
    <3>. QED  BY <2>11, <3>13, <3>14 DEF ListedSoFar
  <2>21. WalkInv'  BY <2>11, <2>16, <2>19, <2>20 DEF WalkInv
  <2>. QED  BY <2>12, <2>21 DEF ListsInv
<1>. QED  BY <1>8, <1>9

LEMMA ListsKept ==
    ASSUME ListsInv, [ListsNext]_lists
    PROVE  ListsInv'
<1>1. ListsTyped /\ clock \in Nat /\ \A a \in Articles : rows[a] \in ListRow /\ rows[a].published_at <= clock
  BY DEF ListsInv, ListsTyped
<1>2. \A a \in Articles : rows[a].published_at \in Nat /\ rows[a].status \in Statuses  BY <1>1 DEF ListRow
<1>3. Absent \in ListRow /\ Absent.published_at = 0 /\ Absent.status # "published"
  BY DEF Absent, ListRow, Statuses
<1>4. ASSUME getArticles PROVE ListsInv'
  <2>1. MaxLimit \in Nat \ {0} /\ OpenList(MaxLimit, FALSE)
    BY <1>4, LimitsAssumption DEF LimitsAssumption, getArticles
  <2>. QED  BY <2>1, ListOpened
<1>5. ASSUME loadArticles PROVE ListsInv'
  <2>1. PICK limit : limit = 2 * MaxLimit  OBVIOUS
  <2>2. limit \in Nat \ {0}  BY <2>1, LimitsAssumption DEF LimitsAssumption
  <2>3. OpenList(limit, FALSE)  BY <1>5, <2>1 DEF loadArticles
  <2>. QED  BY <2>2, <2>3, ListOpened
<1>6. ASSUME NEW limit \in Limits, list(limit) PROVE ListsInv'
  <2>1. limit \in Nat \ {0} /\ OpenList(limit, TRUE)
    BY <1>6, LimitsAssumption DEF LimitsAssumption, list
  <2>. QED  BY <2>1, ListOpened
<1>7. ASSUME NEW a \in Articles, NEW status \in {"draft", "published"}, Create(a, status) PROVE ListsInv'
  <2>1. PICK row : row = [status |-> status, published_at |-> 0]  OBVIOUS
  <2>2. row \in ListRow /\ row.published_at = 0  BY <2>1 DEF ListRow, Statuses
  <2>3. rows[a] = Absent /\ SetRow(a, row)  BY <1>7, <2>1 DEF Create
  <2>4. row.published_at <= clock + 1 /\ rows[a].status # "published"  BY <1>1, <1>3, <2>2, <2>3
  <2>. QED  BY <2>2, <2>3, <2>4, RowChanged
<1>8. ASSUME NEW a \in Articles, NEW status \in {"draft", "published"}, Update(a, status) PROVE ListsInv'
  <2>1. PICK row : row = [rows[a] EXCEPT !.status = status]  OBVIOUS
  <2>2. PICK was \in ListRow : was = rows[a]  BY <1>1
  <2>3. row \in ListRow /\ row.published_at = rows[a].published_at  BY <2>1, <2>2 DEF ListRow, Statuses
  <2>4. SetRow(a, row)  BY <1>8, <2>1 DEF Update
  <2>5. row.published_at <= clock + 1  BY <1>1, <1>2, <2>3
  <2>. QED  BY <2>3, <2>4, <2>5, RowChanged
<1>9. ASSUME NEW a \in Articles, publish(a) PROVE ListsInv'
  <2>1. PICK row : row = [status |-> "published", published_at |-> clock + 1]  OBVIOUS
  <2>2. row \in ListRow /\ row.published_at = clock + 1  BY <1>1, <2>1 DEF ListRow, Statuses
  <2>3. SetRow(a, row)  BY <1>9, <2>1 DEF publish
  <2>4. row.published_at <= clock + 1  BY <1>1, <2>2
  <2>. QED  BY <2>2, <2>3, <2>4, RowChanged
<1>10. ASSUME NEW a \in Articles, delete(a) PROVE ListsInv'
  <2>1. rows[a] # Absent /\ SetRow(a, Absent)  BY <1>10 DEF delete
  <2>2. Absent.published_at <= clock + 1  BY <1>1, <1>3
  <2>. QED  BY <1>3, <2>1, <2>2, RowChanged
<1>11. ASSUME UNCHANGED lists PROVE ListsInv'
  <2>1. rows' = rows /\ clock' = clock /\ walk' = walk  BY <1>11 DEF lists
  <2>2. Listed' = Listed /\ (Dated' <=> Dated) /\ \A a : Rank(a)' = Rank(a)  BY <2>1, OnlyRead
  <2>3. ListsTyped'  BY <1>1, <2>1 DEF ListsTyped
  <2>4. StayedListed' <=> StayedListed  BY <2>1, <2>2 DEF StayedListed
  <2>5. Begun' = Begun /\ Covered' = Covered  BY <2>1 DEF Begun, Covered
  <2>6. AskedSoFar' <=> AskedSoFar  BY <2>1, <2>2, <2>5 DEF AskedSoFar
  <2>7. ListedSoFar' <=> ListedSoFar  BY <2>1, <2>2, <2>5 DEF ListedSoFar, LeadsList
  <2>8. Undisturbed' <=> Undisturbed  BY <2>1 DEF Undisturbed
  <2>9. WalkInv'  BY <2>1, <2>2, <2>4, <2>6, <2>7, <2>8 DEF ListsInv, WalkInv
  <2>. QED  BY <2>3, <2>9 DEF ListsInv
<1>. QED
  BY <1>4, <1>5, <1>6, <1>7, <1>8, <1>9, <1>10, <1>11, ItemsFound, TotalCountedNow, PageTaken
  DEF ListsNext

(* What that means for a reader who is done.                               *)
LEMMA NothingMissed ==
    ASSUME ListsInv
    PROVE  WalkMissesNothing
<1>. SUFFICES ASSUME walk.at = "done", walk.dated, ~ walk.removed, ~ walk.torn
              PROVE  /\ walk.all => walk.stayed \subseteq {walk.seen[k] : k \in DOMAIN walk.seen}
                     /\ walk.stayed = Listed =>
                           /\ \E order \in Orders(Listed) : IsPrefix(walk.seen, order)
                           /\ walk.seen = <<>> => Listed = {}
  BY DEF WalkMissesNothing
<1>1. ListsTyped /\ WalkInv /\ walk.at # "idle" /\ Undisturbed  BY DEF ListsInv, Undisturbed
<1>2. walk \in Walking
  <2>1. walk # [at |-> "idle"]  BY <1>1
  <2>. QED  BY <1>1, <2>1 DEF ListsTyped
<1>3. walk.all => walk.stayed \subseteq {walk.seen[k] : k \in DOMAIN walk.seen}
  <2>1. walk.all => walk.stayed \subseteq Range(walk.seen)  BY <1>1 DEF WalkInv
  <2>. QED  BY <2>1 DEF Range
<1>4. ASSUME walk.stayed = Listed
      PROVE  (\E order \in Orders(Listed) : IsPrefix(walk.seen, order)) /\ (walk.seen = <<>> => Listed = {})
  <2>1. LeadsList(walk.seen, Begun) /\ Dated /\ walk.page > 1
    BY <1>1, <1>4 DEF WalkInv, ListedSoFar, StayedListed
  <2>2. walk.page \in Nat \ {0} /\ walk.limit \in Nat \ {0} /\ walk.seen \in Seq(Articles)
    BY <1>2 DEF Walking
  <2>3. Begun \in Nat /\ Begun >= 1  BY <2>1, <2>2, Turns DEF Begun
  <2>4. \E order \in Orders(Listed) : IsPrefix(walk.seen, order)
    BY <1>1, <2>1, <2>2, <2>3, LeadsTheOrder
  <2>5. ASSUME walk.seen = <<>> PROVE Listed = {}
    <3>1. PICK n \in Nat, m \in Nat : n = Begun /\ m = Cardinality(Listed) /\ n >= 1
      BY <1>1, <2>3, ListedRows
    <3>2. PICK d : d = Min({n, m})  OBVIOUS
    <3>3. d = 0  BY <2>1, <2>5, <3>1, <3>2 DEF LeadsList
    <3>4. d \in {n, m}  BY <3>1, <3>2, MinOfTwo
    <3>5. m = 0  BY <3>1, <3>3, <3>4
    <3>. QED  BY <1>1, <3>1, <3>5, ListedRows, FS_EmptySet
  <2>. QED  BY <2>4, <2>5
<1>. QED  BY <1>3, <1>4

(* Whoever goes through all pages that findByPublicationSlug cuts out of   *)
(* dated articles sees every article that stayed, however many there are,  *)
(* whatever the size of a page, and however much is published between the  *)
(* pages; if nothing changed, pages begin with the newest.                 *)
THEOREM ReaderMissesNothing == ListsSpec => []WalkMissesNothing
<1>1. ListsInit => ListsInv  BY ListsBegin
<1>2. ListsInv /\ [ListsNext]_lists => ListsInv'  BY ListsKept
<1>3. ListsInv => WalkMissesNothing  BY NothingMissed
<1>. QED  BY <1>1, <1>2, <1>3, PTL DEF ListsSpec

-----------------------------------------------------------------------------
(* The runs of MCReports take steps of these specifications only, so what  *)
(* is proved of the specifications holds in every run.                     *)
LEMMA RunSteps ==
    ASSUME AmountInv, [MCNext]_<<vars, tables, text, lists>>
    PROVE  /\ [Dearer]_vars /\ [MoneyNext \/ AudienceNext]_tables
           /\ [ListsNext]_lists /\ [TypeCharacter]_text
<1>1. CASE Walk  BY <1>1 DEF Walk
<1>2. CASE Write  BY <1>2 DEF Write
<1>3. CASE Browse  BY <1>3 DEF Browse
<1>4. CASE Record
  <2>1. Charge(processor, amount) /\ UNCHANGED <<vars, text, lists>>  BY <1>4 DEF Record
  <2>2. MoneyNext  BY <2>1 DEF MoneyNext, AmountInv
  <2>. QED  BY <2>1, <2>2
<1>5. CASE Audience
  <2>1. UNCHANGED <<vars, text, lists>>  BY <1>5 DEF Audience
  <2>2. AudienceNext
    <3>1. ASSUME NEW counts \in [1 .. 2 -> Delivered], NEW readers \in SUBSET Subscription,
                 IsFiniteSet(readers), AudienceChanges(counts, readers)
          PROVE  AudienceNext
      <4>1. \E c \in [1 .. 2 -> Delivered], r \in SUBSET Subscription :
               IsFiniteSet(r) /\ AudienceChanges(c, r)
        BY <3>1
      <4>2. 2 \in Nat \ {0}  OBVIOUS
      <4>. QED  BY <4>1, <4>2 DEF AudienceNext
    <3>2. ASSUME NEW a \in Counts, NEW b \in Counts PROVE <<a, b>> \in [1 .. 2 -> Delivered]
      <4>1. a \in Delivered /\ b \in Delivered  BY DEF Counts, Delivered
      <4>. QED  BY <4>1
    <3>3. NothingSent \in Delivered  BY DEF NothingSent, Delivered
    <3>4. <<NothingSent, NothingSent>> \in [1 .. 2 -> Delivered]  BY <3>3
    <3>5. ASSUME NEW a \in Counts, NEW b \in Counts, AudienceChanges(<<a, b>>, {})
          PROVE  AudienceNext
      <4>1. {} \in SUBSET Subscription /\ IsFiniteSet({})  BY FS_EmptySet
      <4>. QED  BY <3>1, <3>2, <3>5, <4>1
    <3>6. ASSUME NEW s \in Rows, NEW t \in Rows,
                 AudienceChanges(<<NothingSent, NothingSent>>, {s, t})
          PROVE  AudienceNext
      <4>1. s \in Subscription /\ t \in Subscription  BY DEF Rows, Subscription
      <4>2. {s, t} \in SUBSET Subscription  BY <4>1
      <4>3. IsFiniteSet({s, t})
        <5>1. IsFiniteSet({s})  BY FS_Singleton
        <5>2. IsFiniteSet({s} \cup {t})  BY <5>1, FS_AddElement
        <5>3. {s} \cup {t} = {s, t}  OBVIOUS
        <5>. QED  BY <5>2, <5>3
      <4>. QED  BY <3>1, <3>4, <3>6, <4>2, <4>3
    <3>. QED  BY <1>5, <3>5, <3>6 DEF Audience
  <2>. QED  BY <2>1, <2>2
<1>6. CASE Go
  <2>1. TablesNext /\ UNCHANGED <<vars, text, lists>>  BY <1>6 DEF Go
  <2>. QED  BY <2>1 DEF MoneyNext
<1>7. CASE UNCHANGED <<vars, tables, text, lists>>  BY <1>7
<1>. QED  BY <1>1, <1>2, <1>3, <1>4, <1>5, <1>6, <1>7 DEF MCNext

LEMMA RunsKeepAmount == MCSpec => []AmountInv
<1>1. MCInit => AmountInv  BY DEF MCInit, Init, AmountInv
<1>2. AmountInv /\ [MCNext]_<<vars, tables, text, lists>> => AmountInv'
  <2>1. AmountInv /\ [Dearer]_vars => AmountInv'  BY DEF AmountInv, Dearer, vars
  <2>. QED  BY <2>1, RunSteps
<1>. QED  BY <1>1, <1>2, PTL DEF MCSpec

AnyCharacter == Titles \cup Pages \cup Fields

(* The texts of the runs are texts in some characters.                     *)
LEMMA TypesAny == TypeCharacter => Types(AnyCharacter)
<1>. SUFFICES ASSUME TypeCharacter PROVE Types(AnyCharacter)  OBVIOUS
<1>1. PICK kind \in DOMAIN Kinds : \E c \in Kinds[kind] : text' = Append(text, c)
  BY DEF TypeCharacter
<1>2. PICK c \in Kinds[kind] : text' = Append(text, c)  BY <1>1
<1>3. Kinds[kind] \in {Titles, Pages, Fields}  BY DEF Kinds
<1>4. c \in AnyCharacter  BY <1>3 DEF AnyCharacter
<1>. QED  BY <1>2, <1>4 DEF Types

(* Every run is one of prices, of reports, of lists and of texts, each as  *)
(* proved here and, the texts, in ConversionsProofs.                       *)
THEOREM RunsAreOfThese == MCSpec => Spec /\ ReportsSpec /\ ListsSpec /\ TextsSpec(AnyCharacter)
<1>1. MCInit => Init /\ TablesInit /\ ListsInit /\ text = <<>>  BY DEF MCInit
<1>2. AmountInv /\ [MCNext]_<<vars, tables, text, lists>>
        => /\ [Dearer]_vars /\ [MoneyNext \/ AudienceNext]_tables
           /\ [ListsNext]_lists /\ [Types(AnyCharacter)]_text
  BY RunSteps, TypesAny
<1>. QED  BY <1>1, <1>2, RunsKeepAmount, PTL DEF MCSpec, Spec, ReportsSpec, ListsSpec, TextsSpec

-----------------------------------------------------------------------------
(* Prices in rubles.                                                       *)
LEMMA Nearest ==
    ASSUME NEW n \in Nat, NEW error \in Errors, n = 0 => error = 0
    PROVE  Round(1000 * n + error, 1000) = n
<1>1. error \in {-1, 0, 1}  BY DEF Errors
<1>2. PICK x \in Nat : x = 2 * (1000 * n + error) + 1000
  BY <1>1
<1>3. x \div 2000 = n  BY <1>1, <1>2
<1>. QED  BY <1>2, <1>3 DEF Round

(* What an author asks is what is written into the payments table, for any *)
(* price and any processor: amountKopecks gets back every kopeck of it from*)
(* the rubles that the widget of CloudPayments was told, and that the      *)
(* webhooks of CloudPayments and YooKassa report as a double.              *)
THEOREM PriceComesBack == MCSpec => []AmountSurvives
<1>1. ASSUME AmountInv PROVE AmountSurvives
  <2>. SUFFICES ASSUME NEW error \in IF amount = 0 THEN {0} ELSE Errors
                PROVE  /\ amountKopecks(processor, Reported(processor, amount), error) = amount
                       /\ processor = "cloudpayments" =>
                             amountKopecks(processor, Session(processor, amount, "u", "r").amount, error) = amount
    BY DEF AmountSurvives
  <2>1. amount \in Nat /\ error \in Errors /\ (amount = 0 => error = 0)
    BY <1>1 DEF AmountInv, Errors
  <2>2. PICK r \in Nat, k \in 0 .. 99 : r = amount \div 100 /\ k = amount % 100 /\ amount = 100 * r + k
    <3>1. PICK r, k : r = amount \div 100 /\ k = amount % 100  OBVIOUS
    <3>2. r \in Nat /\ k \in 0 .. 99 /\ amount = 100 * r + k  BY <2>1, <3>1
    <3>. QED  BY <3>1, <3>2
  <2>3. Round(1000 * (100 * r + k) + error, 1000) = amount
    <3>1. PICK n \in Nat : n = 100 * r + k /\ n = amount  BY <2>2
    <3>2. Round(1000 * n + error, 1000) = n  BY <2>1, <3>1, Nearest
    <3>. QED  BY <3>1, <3>2
  <2>4. amountKopecks(processor, Reported(processor, amount), error) = amount
    <3>1. CASE processor = "sbp"  BY <3>1 DEF amountKopecks, Reported
    <3>2. CASE processor # "sbp"  BY <2>2, <2>3, <3>2 DEF amountKopecks, Reported
    <3>. QED  BY <3>1, <3>2
  <2>5. processor = "cloudpayments" =>
           amountKopecks(processor, Session(processor, amount, "u", "r").amount, error) = amount
    <3>1. ASSUME processor = "cloudpayments"
          PROVE  amountKopecks(processor, Session(processor, amount, "u", "r").amount, error)
                     = Round(1000 * (100 * r + k) + error, 1000)
      <4>1. PICK told : told = Session(processor, amount, "u", "r")  OBVIOUS
      <4>2. told.amount = [rubles |-> r, kopecks |-> k]  BY <2>2, <3>1, <4>1 DEF Session
      <4>. QED  BY <3>1, <4>1, <4>2 DEF amountKopecks
    <3>. QED  BY <2>3, <3>1
  <2>. QED  BY <2>4, <2>5
<1>. QED  BY <1>1, RunsKeepAmount, PTL
=============================================================================
