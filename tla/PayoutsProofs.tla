---------------------------- MODULE PayoutsProofs ----------------------------
(***************************************************************************)
(* Proofs about Payouts, for any number of authors, payments, saves and    *)
(* faults, any charges and any minimum.                                    *)
(***************************************************************************)
EXTENDS Payouts, Tables

(* The account the run holds on to was saved by the author it pays.        *)
SavedBy(a, account, n) ==
    \E j \in 1 .. n : /\ Sentinel(payouts[j])
                      /\ payouts[j].author = a /\ payouts[j].account = account

AccountHeld ==
    cron.at = "create" /\ cron.account # NoAccount
        => SavedBy(cron.author, cron.account, Len(payouts))

IsTable == \E S : payouts \in Seq(S)

AInv == IsTable /\ AccountHeld /\ PaidToOwnAccount

\* What is copied from the newest row was saved by the author, too.
LEMMA CopiedWasSaved ==
    ASSUME IsTable, PaidToOwnAccount, NEW a, LastAccount(a) # NoAccount
    PROVE  SavedBy(a, LastAccount(a), Len(payouts))
<1>. DEFINE rows == {k \in DOMAIN payouts : payouts[k].author = a}
<1>1. Len(payouts) \in Nat /\ DOMAIN payouts = 1 .. Len(payouts)  BY DEF IsTable
<1>2. rows # {}  BY DEF LastAccount
<1>3. Max(rows) \in rows  BY <1>1, <1>2, NewestRow
<1>4. LastAccount(a) = payouts[Max(rows)].account  BY <1>2 DEF LastAccount
<1>. HIDE DEF rows
<1>5. PICK k \in 1 .. Len(payouts) : payouts[k].author = a /\ LastAccount(a) = payouts[k].account
  BY <1>1, <1>3, <1>4 DEF rows
<1>6. PICK j \in 1 .. k : /\ Sentinel(payouts[j])
                          /\ payouts[j].author = payouts[k].author
                          /\ payouts[j].account = payouts[k].account
  BY <1>1, <1>5 DEF PaidToOwnAccount
<1>7. j \in 1 .. Len(payouts)  BY <1>1, <1>6
<1>. QED  BY <1>5, <1>6, <1>7 DEF SavedBy

\* A row is added whose account was saved by its author, or that saves it.
LEMMA RowKeeps ==
    ASSUME AInv, NEW row, payouts' = Append(payouts, row),
           \/ row.account = NoAccount \/ Sentinel(row)
           \/ SavedBy(row.author, row.account, Len(payouts))
    PROVE  IsTable' /\ PaidToOwnAccount'
           /\ \A a, account : SavedBy(a, account, Len(payouts)) => SavedBy(a, account, Len(payouts))'
<1>. DEFINE n == Len(payouts)
<1>1. /\ IsTable'
      /\ n \in Nat /\ DOMAIN payouts = 1 .. n /\ DOMAIN payouts' = 1 .. n + 1
      /\ payouts'[n + 1] = row /\ \A k \in 1 .. n : payouts'[k] = payouts[k]
      /\ Len(payouts') = n + 1
  <2>1. PICK S : payouts \in Seq(S)  BY DEF AInv, IsTable
  <2>2. payouts' \in Seq(S \cup {row})  BY <2>1, RowAdded
  <2>. QED  BY <2>1, <2>2, RowAdded DEF IsTable
<1>. HIDE DEF n
<1>2. ASSUME NEW k \in 1 .. n + 1, payouts'[k].account # NoAccount
      PROVE  \E j \in 1 .. k : /\ Sentinel(payouts'[j])
                               /\ payouts'[j].author = payouts'[k].author
                               /\ payouts'[j].account = payouts'[k].account
  <2>1. CASE k \in 1 .. n
    <3>1. PICK j \in 1 .. k : /\ Sentinel(payouts[j])
                              /\ payouts[j].author = payouts[k].author
                              /\ payouts[j].account = payouts[k].account
      BY <1>1, <1>2, <2>1 DEF AInv, PaidToOwnAccount
    <3>2. j \in 1 .. n  BY <1>1, <2>1, <3>1
    <3>. QED  BY <1>1, <2>1, <3>1, <3>2
  <2>2. CASE k = n + 1 /\ Sentinel(row)
    BY <1>1, <2>2
  <2>3. CASE k = n + 1 /\ SavedBy(row.author, row.account, n)
    <3>1. PICK j \in 1 .. n : /\ Sentinel(payouts[j])
                              /\ payouts[j].author = row.author
                              /\ payouts[j].account = row.account
      BY <2>3 DEF SavedBy
    <3>2. j \in 1 .. k  BY <1>1, <2>3
    <3>. QED  BY <1>1, <2>3, <3>1, <3>2
  <2>. QED  BY <1>1, <1>2, <2>1, <2>2, <2>3 DEF n
<1>3. PaidToOwnAccount'  BY <1>1, <1>2 DEF PaidToOwnAccount
<1>4. ASSUME NEW a, NEW account, SavedBy(a, account, Len(payouts))
      PROVE  SavedBy(a, account, Len(payouts))'
  <2>1. PICK j \in 1 .. n : /\ Sentinel(payouts[j])
                            /\ payouts[j].author = a /\ payouts[j].account = account
    BY <1>4 DEF SavedBy, n
  <2>2. j \in 1 .. n + 1 /\ payouts'[j] = payouts[j]  BY <1>1, <2>1
  <2>3. \E i \in 1 .. Len(payouts') : /\ Sentinel(payouts'[i])
                                      /\ payouts'[i].author = a /\ payouts'[i].account = account
    BY <1>1, <2>1, <2>2
  <2>. QED  BY <2>3 DEF SavedBy, Sentinel
<1>. QED  BY <1>1, <1>3, <1>4

LEMMA AccountStep ==
    ASSUME AInv, [Next]_vars
    PROVE  AInv'
<1>1. ASSUME UNCHANGED payouts, cron'.at # "create" \/ UNCHANGED cron
      PROVE  AInv'
  BY <1>1 DEF AInv, IsTable, AccountHeld, PaidToOwnAccount, SavedBy
<1>2. CASE StartRun \/ EndRun \/ ReadEarned \/ ReadPaidOut \/ \E a \in Authors : NextAuthor(a)
  <2>1. ReadEarned => UNCHANGED payouts /\ cron'.at = "paid"  BY DEF ReadEarned
  <2>2. ReadPaidOut => UNCHANGED payouts /\ cron'.at \in {"account", "author"}
    BY DEF ReadPaidOut, GoOn
  <2>3. StartRun \/ EndRun \/ (\E a \in Authors : NextAuthor(a))
           => UNCHANGED payouts /\ cron'.at # "create"
    BY DEF StartRun, EndRun, NextAuthor, Off
  <2>. QED  BY <1>1, <1>2, <2>1, <2>2, <2>3
<1>3. CASE AuthorThrows \/ Crash
  BY <1>1, <1>3 DEF AuthorThrows, Crash, GoOn, Off
<1>4. CASE ReadAccount
  <2>1. cron'.author = cron.author /\ cron'.account = LastAccount(cron.author)
        /\ UNCHANGED payouts
    BY <1>4 DEF ReadAccount
  <2>2. AccountHeld'
    BY <2>1, CopiedWasSaved DEF AInv, AccountHeld, SavedBy
  <2>. QED  BY <2>1, <2>2 DEF AInv, IsTable, PaidToOwnAccount
<1>5. CASE CreatePayout
  <2>. DEFINE row == [author |-> cron.author, amount |-> cron.balance,
                      status |-> "pending", account |-> cron.account]
  <2>1. payouts' = Append(payouts, row) /\ cron'.at = "author"  BY <1>5 DEF CreatePayout, GoOn
  <2>2. row.account = NoAccount \/ SavedBy(row.author, row.account, Len(payouts))
    BY <1>5 DEF CreatePayout, AInv, AccountHeld
  <2>. HIDE DEF row
  <2>3. IsTable' /\ PaidToOwnAccount'  BY <2>1, <2>2, RowKeeps
  <2>. QED  BY <2>1, <2>3 DEF AInv, AccountHeld
<1>6. ASSUME NEW a \in Authors, NEW account \in Accounts, saveBankDetails(a, account)
      PROVE  AInv'
  <2>. DEFINE row == [author |-> a, amount |-> 0, status |-> "completed", account |-> account]
  <2>1. payouts' = Append(payouts, row) /\ UNCHANGED cron  BY <1>6 DEF saveBankDetails
  <2>2. Sentinel(row)  BY DEF Sentinel
  <2>. HIDE DEF row
  <2>3. /\ IsTable' /\ PaidToOwnAccount'
        /\ \A b, c : SavedBy(b, c, Len(payouts)) => SavedBy(b, c, Len(payouts))'
    BY <2>1, <2>2, RowKeeps
  <2>. QED  BY <2>1, <2>3 DEF AInv, AccountHeld
<1>7. CASE \/ \E sub \in Subs, tx \in Txs : RecordPayment(sub, tx)
           \/ \E k \in DOMAIN payments : FailPayment(k) \/ RestorePayment(k)
           \/ MonthTurns \/ UNCHANGED vars
  BY <1>1, <1>7 DEF RecordPayment, FailPayment, RestorePayment, MonthTurns, vars
<1>. QED  BY <1>2, <1>3, <1>4, <1>5, <1>6, <1>7 DEF Next, ProcessPayouts

(* Whatever payments arrive, months pass and faults happen while the run   *)
(* copies bank details from payout to payout, money only goes to details   *)
(* that its author saved.                                                  *)
THEOREM PaidToSavedDetails == Spec => []PaidToOwnAccount
<1>1. Init => AInv
  BY DEF Init, AInv, IsTable, AccountHeld, PaidToOwnAccount, Off
<1>2. AInv /\ [Next]_vars => AInv'
  BY AccountStep
<1>. QED  BY <1>1, <1>2, PTL DEF Spec, AInv

-----------------------------------------------------------------------------
(* What a payments table p earns its authors, and what a payouts table q   *)
(* paid them: the model's sums, said of any table.                         *)
PaymentRow == [sub: Subs, tx: Txs, status: {"completed", "failed"}]

NetIn(p, ks) == Total([k \in DOMAIN p |-> Net[p[k].tx]], ks)

EarningIn(p, a) == {k \in DOMAIN p : AuthorOf[p[k].sub] = a /\ p[k].status = "completed"}

RowsOf(q, a) == {k \in DOMAIN q : q[k].author = a}

PaidIn(q, a) == Total([k \in DOMAIN q |-> q[k].amount], RowsOf(q, a))

LEMMA RowsFinite ==
    ASSUME NEW S, NEW p \in Seq(S), NEW ks \in SUBSET DOMAIN p
    PROVE  IsFiniteSet(ks) /\ DOMAIN p = 1 .. Len(p) /\ Len(p) \in Nat
<1>1. DOMAIN p = 1 .. Len(p) /\ Len(p) \in Nat  OBVIOUS
<1>2. IsFiniteSet(DOMAIN p)  BY <1>1, FS_Interval
<1>. QED  BY <1>1, <1>2, FS_Subset

LEMMA NetType ==
    ASSUME NEW p \in Seq(PaymentRow), NEW ks \in SUBSET DOMAIN p, NEW ls \in SUBSET ks
    PROVE  NetIn(p, ks) \in Nat /\ NetIn(p, ls) \in Nat /\ NetIn(p, ls) <= NetIn(p, ks)
<1>. DEFINE col == [k \in DOMAIN p |-> Net[p[k].tx]]
<1>1. \A k \in ks : col[k] \in Nat
  <2>. TAKE k \in ks
  <2>0. DOMAIN p = 1 .. Len(p) /\ \A i \in 1 .. Len(p) : p[i] \in PaymentRow  OBVIOUS
  <2>1. k \in DOMAIN p /\ p[k].tx \in Txs  BY <2>0 DEF PaymentRow
  <2>. QED  BY <2>1, EarningsAssumption DEF EarningsAssumption
<1>2. IsFiniteSet(ks)  BY RowsFinite
<1>3. NetIn(p, ks) = Total(col, ks) /\ NetIn(p, ls) = Total(col, ls)  BY DEF NetIn
<1>. HIDE DEF col
<1>4. Total(col, ks) \in Nat
  <2>1. ks \in SUBSET ks  OBVIOUS
  <2>. QED  BY <1>1, <1>2, <2>1, TotalWithin
<1>5. Total(col, ls) \in Nat /\ Total(col, ls) <= Total(col, ks)
  BY <1>1, <1>2, TotalWithin
<1>. QED  BY <1>3, <1>4, <1>5

LEMMA NetSum ==
    ASSUME NEW p \in Seq(PaymentRow), NEW ks \in SUBSET DOMAIN p
    PROVE  SumFunction([k \in ks |-> Net[p[k].tx]]) = NetIn(p, ks)
<1>. DEFINE col == [k \in DOMAIN p |-> Net[p[k].tx]]
            part == [k \in ks |-> Net[p[k].tx]]
<1>1. IsFiniteSet(ks)  BY RowsFinite
<1>2. DOMAIN part = ks /\ \A k \in ks : part[k] = col[k]  OBVIOUS
<1>3. NetIn(p, ks) = Total(col, ks)  BY DEF NetIn
<1>. HIDE DEF col, part
<1>4. SumFunction(part) = Total(col, ks)  BY <1>1, <1>2, SumIsTotal
<1>. QED  BY <1>3, <1>4 DEF part

LEMMA NetOfIs ==
    ASSUME payments \in Seq(PaymentRow)
    PROVE  \A ks \in SUBSET DOMAIN payments : NetOf(ks) = NetIn(payments, ks)
  BY NetSum DEF NetOf

LEMMA EarnedIs ==
    ASSUME payments \in Seq(PaymentRow), NEW a
    PROVE  Earned(a) = NetIn(payments, EarningIn(payments, a)) /\ Earned(a) \in Nat
<1>1. Earning(a, DOMAIN payments) = EarningIn(payments, a)  BY DEF Earning, EarningIn
<1>2. EarningIn(payments, a) \in SUBSET DOMAIN payments  BY DEF EarningIn
<1>3. Earned(a) = NetIn(payments, EarningIn(payments, a))
  BY <1>1, <1>2, NetOfIs DEF Earned
<1>. QED  BY <1>2, <1>3, NetType

LEMMA EarnedNext ==
    ASSUME (payments \in Seq(PaymentRow))', NEW a
    PROVE  Earned(a)' = NetIn(payments', EarningIn(payments', a)) /\ Earned(a)' \in Nat
<1>. DEFINE ks == EarningIn(payments', a)
<1>0. payments' \in Seq(PaymentRow)  BY DEF PaymentRow
<1>1. ks \in SUBSET DOMAIN payments' /\ ks = Earning(a, DOMAIN payments)'
  BY DEF EarningIn, Earning
<1>2. Earned(a)' = SumFunction([k \in ks |-> Net[payments'[k].tx]])
  BY <1>1 DEF Earned, NetOf
<1>3. SumFunction([k \in ks |-> Net[payments'[k].tx]]) = NetIn(payments', ks)
  <2>. HIDE DEF ks
  <2>. QED  BY <1>0, <1>1, NetSum
<1>4. NetIn(payments', ks) \in Nat
  <2>. HIDE DEF ks
  <2>. QED  BY <1>0, <1>1, NetType
<1>. QED  BY <1>2, <1>3, <1>4

LEMMA PaidOutIs ==
    ASSUME NEW S, NEW q \in Seq(S), NEW a
    PROVE  SumFunction([k \in RowsOf(q, a) |-> q[k].amount]) = PaidIn(q, a)
<1>. DEFINE ks == RowsOf(q, a)
            col == [k \in DOMAIN q |-> q[k].amount]
            part == [k \in ks |-> q[k].amount]
<1>0. ks \in SUBSET DOMAIN q  BY DEF RowsOf
<1>1. IsFiniteSet(ks)
  <2>. HIDE DEF ks
  <2>. QED  BY <1>0, RowsFinite
<1>2. DOMAIN part = ks /\ \A k \in ks : part[k] = col[k]  BY <1>0
<1>3. PaidIn(q, a) = Total(col, ks)  BY DEF PaidIn
<1>4. SumFunction(part) = Total(col, ks)
  <2>. HIDE DEF col, part, ks
  <2>. QED  BY <1>1, <1>2, SumIsTotal
<1>. QED  BY <1>3, <1>4

LEMMA PaidType ==
    ASSUME NEW q \in Seq(Payout), NEW a
    PROVE  IsFiniteSet(RowsOf(q, a)) /\ RowsOf(q, a) \in SUBSET DOMAIN q /\ PaidIn(q, a) \in Nat
<1>. DEFINE ks == RowsOf(q, a)
            col == [k \in DOMAIN q |-> q[k].amount]
<1>1. ks \in SUBSET DOMAIN q  BY DEF RowsOf
<1>2. \A k \in ks : col[k] \in Nat
  <2>1. DOMAIN q = 1 .. Len(q) /\ \A k \in 1 .. Len(q) : q[k] \in Payout  OBVIOUS
  <2>. QED  BY <1>1, <2>1 DEF Payout
<1>3. PaidIn(q, a) = Total(col, ks)  BY DEF PaidIn
<1>. HIDE DEF ks, col
<1>4. IsFiniteSet(ks)  BY <1>1, RowsFinite
<1>5. Total(col, ks) \in Nat
  <2>1. ks \in SUBSET ks  OBVIOUS
  <2>. QED  BY <1>2, <1>4, <2>1, TotalWithin
<1>. QED  BY <1>1, <1>3, <1>4, <1>5 DEF ks

\* A new payout counts for its author, and for nobody else.
LEMMA PaidAdds ==
    ASSUME NEW q \in Seq(Payout), NEW row \in Payout, NEW a
    PROVE  PaidIn(Append(q, row), a)
              = IF row.author = a THEN PaidIn(q, a) + row.amount ELSE PaidIn(q, a)
<1>. DEFINE n == Len(q) + 1
            r == Append(q, row)
            old == [k \in DOMAIN q |-> q[k].amount]
            new == [k \in DOMAIN r |-> r[k].amount]
            ks == RowsOf(q, a)
<1>1. /\ Len(q) \in Nat /\ DOMAIN q = 1 .. Len(q) /\ DOMAIN r = 1 .. n
      /\ r[n] = row /\ \A k \in DOMAIN q : r[k] = q[k]
  BY RowAdded
<1>2. ks \in SUBSET DOMAIN q /\ n \notin ks /\ IsFiniteSet(ks) /\ PaidIn(q, a) \in Nat
  <2>1. ks \in SUBSET DOMAIN q /\ IsFiniteSet(ks) /\ PaidIn(q, a) \in Nat  BY PaidType
  <2>. HIDE DEF ks
  <2>. QED  BY <1>1, <2>1
<1>4. \A k \in ks : new[k] = old[k] /\ old[k] \in Nat
  <2>1. \A k \in 1 .. Len(q) : q[k] \in Payout  OBVIOUS
  <2>. QED  BY <1>1, <1>2, <2>1 DEF Payout
<1>5. new[n] = row.amount /\ row.amount \in Nat  BY <1>1 DEF Payout
<1>6. RowsOf(r, a) = IF row.author = a THEN ks \cup {n} ELSE ks
  <2>1. \A k \in DOMAIN r : k \in DOMAIN q \/ k = n  BY <1>1
  <2>2. \A k \in DOMAIN q : k \in DOMAIN r /\ k # n  BY <1>1
  <2>3. n \in DOMAIN r  BY <1>1
  <2>. HIDE DEF n, r
  <2>. QED  BY <1>1, <2>1, <2>2, <2>3 DEF RowsOf
<1>7. PaidIn(q, a) = Total(old, ks) /\ PaidIn(r, a) = Total(new, RowsOf(r, a))  BY DEF PaidIn
<1>. HIDE DEF n, r, old, new, ks
<1>8. Total(new, ks) = Total(old, ks)  BY <1>2, <1>4, TotalSame
<1>9. Total(new, ks \cup {n}) = row.amount + Total(new, ks)
  <2>1. \A k \in ks \cup {n} : new[k] \in Int  BY <1>4, <1>5
  <2>. QED  BY <1>2, <1>5, <2>1, TotalWith
<1>10. PaidIn(r, a) = IF row.author = a THEN PaidIn(q, a) + row.amount ELSE PaidIn(q, a)
  <2>1. CASE row.author = a  BY <1>2, <1>5, <1>6, <1>7, <1>8, <1>9, <2>1
  <2>2. CASE row.author # a  BY <1>6, <1>7, <1>8, <2>2
  <2>. QED  BY <2>1, <2>2
<1>. QED  BY <1>10 DEF r

LEMMA PaidOutAdds ==
    ASSUME TypeOK, NEW a
    PROVE  /\ PaidOut(a) \in Nat
           /\ \A row \in Payout :
                 payouts' = Append(payouts, row)
                    => PaidOut(a)' = IF row.author = a THEN PaidOut(a) + row.amount ELSE PaidOut(a)
<1>1. payouts \in Seq(Payout)  BY DEF TypeOK
<1>2. PaidOut(a) = PaidIn(payouts, a)
  BY <1>1, PaidOutIs DEF PaidOut, RowsOf
<1>3. ASSUME NEW row \in Payout, payouts' = Append(payouts, row)
      PROVE  PaidOut(a)' = IF row.author = a THEN PaidOut(a) + row.amount ELSE PaidOut(a)
  <2>1. payouts' \in Seq(Payout)  BY <1>1, <1>3
  <2>2. PaidOut(a)' = SumFunction([k \in RowsOf(payouts', a) |-> payouts'[k].amount])
    BY DEF PaidOut, RowsOf
  <2>3. PaidOut(a)' = PaidIn(payouts', a)  BY <2>1, <2>2, PaidOutIs
  <2>. QED  BY <1>1, <1>2, <1>3, <2>3, PaidAdds
<1>4. PaidIn(payouts, a) \in Nat  BY <1>1, PaidType
<1>. QED  BY <1>2, <1>3, <1>4

-----------------------------------------------------------------------------
(* Types.                                                                  *)
LEMMA CronFields ==
    ASSUME TypeOK
    PROVE  /\ cron # Off => cron.at # "off" /\ cron.todo \in SUBSET Authors
           /\ cron.at \in {"earned", "paid", "account", "create"} => cron.author \in Authors
           /\ cron.at = "paid" => cron.earned \in Nat
           /\ cron.at \in {"account", "create"} => cron.balance \in Nat
           /\ cron.at = "create" => cron.account \in Accounts \cup {NoAccount}
  BY DEF TypeOK, Cron, Off

LEMMA PayoutsInit == Init => TypeOK
<1>1. Init => 0 \in 0 .. MaxFaults /\ cron \in Cron
  BY BoundsAssumption DEF Init, Cron, BoundsAssumption
<1>2. Init => payments \in Seq([sub: Subs, tx: Txs, status: {"completed", "failed"}])
  <2>1. Init => payments = <<>>  BY DEF Init, Ledger!Init
  <2>. QED  BY <2>1
<1>3. Init => payouts \in Seq(Payout)  BY DEF Init
<1>4. Init => due \in BOOLEAN /\ faults \in 0 .. MaxFaults
  BY <1>1 DEF Init
<1>5. Init => peak \in [Authors -> Nat]
  <2>1. [a \in Authors |-> 0] \in [Authors -> Nat]  OBVIOUS
  <2>. QED  BY <2>1 DEF Init
<1>. QED  BY <1>1, <1>2, <1>3, <1>4, <1>5 DEF TypeOK

\* The ledger's rows keep the columns they were recorded with.
LEMMA LedgerStep ==
    ASSUME TypeOK
    PROVE  /\ \A sub \in Subs, tx \in Txs : RecordPayment(sub, tx) => payments' \in Seq(PaymentRow)
           /\ \A k \in DOMAIN payments :
                 FailPayment(k) \/ RestorePayment(k)
                    => /\ payments' \in Seq(PaymentRow) /\ DOMAIN payments' = DOMAIN payments
                       /\ \A l \in DOMAIN payments :
                             /\ payments'[l].sub = payments[l].sub
                             /\ payments'[l].tx = payments[l].tx
           /\ \A k, l \in DOMAIN payments :
                 FailPayment(k) => payments'[l].status \in {payments[l].status, "failed"}
<1>1. payments \in Seq(PaymentRow)  BY DEF TypeOK, PaymentRow
<1>2. ASSUME NEW sub \in Subs, NEW tx \in Txs, RecordPayment(sub, tx)
      PROVE  payments' \in Seq(PaymentRow)
  BY <1>1, <1>2 DEF RecordPayment, Ledger!Record, PaymentRow
<1>3. ASSUME NEW k \in DOMAIN payments, NEW s \in {"completed", "failed"},
             payments' = [payments EXCEPT ![k].status = s]
      PROVE  /\ payments' \in Seq(PaymentRow) /\ DOMAIN payments' = DOMAIN payments
             /\ \A l \in DOMAIN payments :
                   /\ payments'[l].sub = payments[l].sub
                   /\ payments'[l].tx = payments[l].tx
                   /\ payments'[l].status = IF l = k THEN s ELSE payments[l].status
  <2>1. DOMAIN payments = 1 .. Len(payments) /\ Len(payments) \in Nat
        /\ \A l \in 1 .. Len(payments) : payments[l] \in PaymentRow
    BY <1>1
  <2>2. DOMAIN payments' = DOMAIN payments
        /\ \A l \in DOMAIN payments : payments'[l] = IF l = k THEN [payments[k] EXCEPT !.status = s]
                                                    ELSE payments[l]
    BY <1>3
  <2>3. \A l \in 1 .. Len(payments) : payments'[l] \in PaymentRow  BY <1>3, <2>1, <2>2 DEF PaymentRow
  <2>4. payments' = [l \in 1 .. Len(payments) |-> payments'[l]]  BY <1>3, <2>1
  <2>5. payments' \in Seq(PaymentRow)  BY <2>1, <2>3, <2>4
  <2>6. ASSUME NEW l \in DOMAIN payments
        PROVE  /\ payments'[l].sub = payments[l].sub
               /\ payments'[l].tx = payments[l].tx
               /\ payments'[l].status = IF l = k THEN s ELSE payments[l].status
    BY <2>1, <2>2 DEF PaymentRow
  <2>. QED  BY <2>2, <2>5, <2>6
<1>. QED
  BY <1>2, <1>3 DEF FailPayment, RestorePayment, Ledger!Fail, Ledger!Restore

LEMMA LastAccountType ==
    ASSUME TypeOK, NEW a
    PROVE  LastAccount(a) \in Accounts \cup {NoAccount}
<1>. DEFINE rows == {k \in DOMAIN payouts : payouts[k].author = a}
<1>1. /\ payouts \in Seq(Payout) /\ DOMAIN payouts = 1 .. Len(payouts) /\ Len(payouts) \in Nat
      /\ \A k \in 1 .. Len(payouts) : payouts[k] \in Payout
  BY DEF TypeOK
<1>2. rows # {} => Max(rows) \in rows  BY <1>1, NewestRow
<1>3. LastAccount(a) = IF rows = {} THEN NoAccount ELSE payouts[Max(rows)].account
  BY DEF LastAccount
<1>4. rows # {} => payouts[Max(rows)].account \in Accounts \cup {NoAccount}
  BY <1>1, <1>2 DEF Payout
<1>. HIDE DEF rows
<1>. QED  BY <1>3, <1>4

LEMMA Balance ==
    ASSUME NEW earned \in Nat, NEW paid \in Nat
    PROVE  /\ PendingBalance(earned, paid) \in Nat
           /\ Payable(PendingBalance(earned, paid))
                 => paid + PendingBalance(earned, paid) = earned
<1>1. PendingBalance(earned, paid) \in {0, earned - paid}
      /\ PendingBalance(earned, paid) >= 0
  BY MaxOfTwo DEF PendingBalance
<1>2. MINIMUM_PAYOUT \in Nat \ {0}  BY EarningsAssumption DEF EarningsAssumption
<1>. QED  BY <1>1, <1>2 DEF Payable

\* What the run reads of a ledger that grew under its hands.
LEMMA ReadEarnedTypes ==
    ASSUME TypeOK, ReadEarned
    PROVE  /\ cron' = [at |-> "paid", todo |-> cron.todo, author |-> cron.author,
                       earned |-> cron'.earned]
           /\ cron'.earned \in Nat /\ cron'.earned <= Earned(cron.author)
<1>1. PICK missed \in SUBSET (cron.seen + 1 .. Len(payments)) :
         cron' = [at |-> "paid", todo |-> cron.todo, author |-> cron.author,
                  earned |-> NetOf(Earning(cron.author, DOMAIN payments \ missed))]
  BY DEF ReadEarned
<1>2. payments \in Seq(PaymentRow)  BY DEF TypeOK, PaymentRow
<1>. DEFINE a == cron.author
            ks == Earning(a, DOMAIN payments \ missed)
            all == EarningIn(payments, a)
<1>3. ks \in SUBSET all /\ all \in SUBSET DOMAIN payments  BY DEF Earning, EarningIn
<1>4. NetOf(ks) = NetIn(payments, ks)
  <2>. HIDE DEF ks, all
  <2>. QED  BY <1>2, <1>3, NetOfIs
<1>5. NetIn(payments, ks) \in Nat /\ NetIn(payments, ks) <= NetIn(payments, all)
  <2>. HIDE DEF ks, all
  <2>. QED  BY <1>2, <1>3, NetType
<1>6. Earned(a) = NetIn(payments, all)  BY <1>2, EarnedIs
<1>. HIDE DEF ks, all
<1>. QED  BY <1>1, <1>4, <1>5, <1>6 DEF ks

LEMMA CronStep ==
    ASSUME TypeOK, ProcessPayouts \/ AuthorThrows \/ Crash
    PROVE  cron' \in Cron /\ faults' \in 0 .. MaxFaults /\ due' \in BOOLEAN
<1>1. faults \in Nat /\ faults \in 0 .. MaxFaults /\ MaxFaults \in Nat
  BY BoundsAssumption DEF TypeOK, BoundsAssumption
<1>2. CASE StartRun  BY <1>1, <1>2 DEF StartRun, Cron, TypeOK
<1>3. CASE \E a \in Authors : NextAuthor(a)
  <2>1. PICK a \in Authors : NextAuthor(a)  BY <1>3
  <2>2. cron # Off  BY <2>1 DEF NextAuthor, Off
  <2>3. Len(payments) \in Nat  BY DEF TypeOK
  <2>4. cron.todo \ {a} \in SUBSET Authors  BY <2>2, CronFields
  <2>5. cron' \in Cron  BY <2>1, <2>3, <2>4 DEF NextAuthor, Cron
  <2>. QED  BY <1>1, <2>1, <2>5 DEF NextAuthor, TypeOK
<1>4. CASE EndRun  BY <1>1, <1>4 DEF EndRun, Cron, TypeOK
<1>5. CASE ReadEarned
  <2>1. cron # Off /\ cron.at = "earned"  BY <1>5 DEF ReadEarned, Off
  <2>2. cron.todo \in SUBSET Authors /\ cron.author \in Authors  BY <2>1, CronFields
  <2>3. cron' \in Cron  BY <1>5, <2>2, ReadEarnedTypes DEF Cron
  <2>. QED  BY <1>1, <1>5, <2>3 DEF ReadEarned, TypeOK
<1>6. ASSUME cron # Off
      PROVE  GoOn \in Cron
  BY <1>6, CronFields DEF GoOn, Cron
<1>7. CASE ReadPaidOut
  <2>. DEFINE balance == PendingBalance(cron.earned, PaidOut(cron.author))
  <2>1. cron # Off /\ cron.at = "paid"  BY <1>7 DEF ReadPaidOut, Off
  <2>2. cron.todo \in SUBSET Authors /\ cron.author \in Authors /\ cron.earned \in Nat
    BY <2>1, CronFields
  <2>3. balance \in Nat  BY <2>2, Balance, PaidOutAdds
  <2>4. cron' \in {GoOn, [at |-> "account", todo |-> cron.todo, author |-> cron.author,
                          balance |-> balance]}
    BY <1>7 DEF ReadPaidOut
  <2>. HIDE DEF balance
  <2>5. cron' \in Cron  BY <1>6, <2>1, <2>2, <2>3, <2>4 DEF Cron
  <2>. QED  BY <1>1, <1>7, <2>5 DEF ReadPaidOut, TypeOK
<1>8. CASE ReadAccount
  <2>1. cron # Off /\ cron.at = "account"  BY <1>8 DEF ReadAccount, Off
  <2>2. cron.todo \in SUBSET Authors /\ cron.author \in Authors /\ cron.balance \in Nat
    BY <2>1, CronFields
  <2>3. LastAccount(cron.author) \in Accounts \cup {NoAccount}  BY LastAccountType
  <2>4. cron' \in Cron  BY <1>8, <2>2, <2>3 DEF ReadAccount, Cron
  <2>. QED  BY <1>1, <1>8, <2>4 DEF ReadAccount, TypeOK
<1>9. CASE CreatePayout
  <2>1. cron # Off  BY <1>9 DEF CreatePayout, Off
  <2>. QED  BY <1>1, <1>6, <1>9, <2>1 DEF CreatePayout, TypeOK
<1>10. CASE AuthorThrows
  <2>1. cron # Off  BY <1>10 DEF AuthorThrows, Off
  <2>. QED  BY <1>1, <1>6, <1>10, <2>1 DEF AuthorThrows, Fault, TypeOK
<1>11. CASE Crash  BY <1>1, <1>11 DEF Crash, Fault, Cron, TypeOK
<1>. QED
  BY <1>2, <1>3, <1>4, <1>5, <1>7, <1>8, <1>9, <1>10, <1>11 DEF ProcessPayouts

\* The rows that are added to payouts.
NewRow == [author |-> cron.author, amount |-> cron.balance,
           status |-> "pending", account |-> cron.account]

SavedRow(a, account) == [author |-> a, amount |-> 0, status |-> "completed", account |-> account]

LEMMA NewRows ==
    ASSUME TypeOK
    PROVE  /\ CreatePayout => NewRow \in Payout /\ payouts' = Append(payouts, NewRow)
           /\ \A a \in Authors, account \in Accounts :
                 saveBankDetails(a, account) =>
                    /\ SavedRow(a, account) \in Payout
                    /\ payouts' = Append(payouts, SavedRow(a, account))
<1>1. CreatePayout => NewRow \in Payout /\ payouts' = Append(payouts, NewRow)
  BY CronFields DEF CreatePayout, NewRow, Payout
<1>2. \A a \in Authors, account \in Accounts :
         saveBankDetails(a, account) =>
            /\ SavedRow(a, account) \in Payout
            /\ payouts' = Append(payouts, SavedRow(a, account))
  BY DEF saveBankDetails, SavedRow, Payout
<1>. QED  BY <1>1, <1>2

LEMMA PeakKept ==
    ASSUME TypeOK, (payments \in Seq(PaymentRow))', RecordPeak
    PROVE  /\ peak' \in [Authors -> Nat]
           /\ \A a \in Authors : peak'[a] >= peak[a] /\ peak'[a] >= Earned(a)'
<1>1. ASSUME NEW a \in Authors
      PROVE  peak'[a] \in Nat /\ peak'[a] >= peak[a] /\ peak'[a] >= Earned(a)'
  <2>1. PICK earned : earned = Earned(a)'  OBVIOUS
  <2>2. earned \in Nat  BY <2>1, EarnedNext
  <2>3. peak'[a] = Max({peak[a], earned})  BY <2>1 DEF RecordPeak
  <2>4. PICK top \in Nat : top = peak[a]  BY DEF TypeOK
  <2>5. Max({top, earned}) \in {top, earned} /\ Max({top, earned}) >= top
        /\ Max({top, earned}) >= earned
    <3>1. top \in Int /\ earned \in Int  BY <2>2
    <3>. QED  BY <3>1, MaxOfTwo
  <2>. QED  BY <2>1, <2>2, <2>3, <2>4, <2>5
<1>2. peak' = [a \in Authors |-> peak'[a]]  BY DEF RecordPeak
<1>. QED  BY <1>1, <1>2

\* The run writes payouts, and only in one step.
LEMMA RunKeeps ==
    ASSUME ProcessPayouts \/ AuthorThrows \/ Crash
    PROVE  UNCHANGED <<payments, peak>> /\ (UNCHANGED payouts \/ CreatePayout)
<1>1. StartRun \/ EndRun \/ (\E a \in Authors : NextAuthor(a))
         => UNCHANGED <<payments, payouts, peak>>
  BY DEF StartRun, EndRun, NextAuthor
<1>2. ReadEarned \/ ReadPaidOut \/ ReadAccount => UNCHANGED <<payments, payouts, peak>>
  <2>1. ReadEarned => UNCHANGED <<payments, payouts, peak>>  BY DEF ReadEarned
  <2>2. ReadPaidOut => UNCHANGED <<payments, payouts, peak>>  BY DEF ReadPaidOut
  <2>3. ReadAccount => UNCHANGED <<payments, payouts, peak>>  BY DEF ReadAccount
  <2>. QED  BY <2>1, <2>2, <2>3
<1>3. AuthorThrows \/ Crash => UNCHANGED <<payments, payouts, peak>>
  BY DEF AuthorThrows, Crash
<1>4. CreatePayout => UNCHANGED <<payments, peak>>  BY DEF CreatePayout
<1>. QED  BY <1>1, <1>2, <1>3, <1>4 DEF ProcessPayouts

LEMMA PayoutsTypes == TypeOK /\ [Next]_vars => TypeOK'
<1>. SUFFICES ASSUME TypeOK, [Next]_vars PROVE TypeOK'
  OBVIOUS
<1>1. CASE ProcessPayouts \/ AuthorThrows \/ Crash
  <2>1. UNCHANGED <<payments, peak>> /\ (UNCHANGED payouts \/ CreatePayout)
    BY <1>1, RunKeeps
  <2>2. payouts \in Seq(Payout)  BY DEF TypeOK
  <2>3. payouts' \in Seq(Payout)
    <3>1. CASE CreatePayout
      <4>1. NewRow \in Payout /\ payouts' = Append(payouts, NewRow)  BY <3>1, NewRows
      <4>. QED  BY <2>2, <4>1, AppendTyped
    <3>. QED  BY <2>1, <2>2, <3>1
  <2>4. cron' \in Cron /\ faults' \in 0 .. MaxFaults /\ due' \in BOOLEAN  BY <1>1, CronStep
  <2>. QED  BY <2>1, <2>3, <2>4 DEF TypeOK
<1>2. ASSUME NEW a \in Authors, NEW account \in Accounts, saveBankDetails(a, account)
      PROVE  TypeOK'
  <2>1. payouts' \in Seq(Payout)
    <3>1. SavedRow(a, account) \in Payout /\ payouts' = Append(payouts, SavedRow(a, account))
      BY <1>2, NewRows
    <3>. QED  BY <3>1, AppendTyped DEF TypeOK
  <2>. QED  BY <1>2, <2>1 DEF saveBankDetails, TypeOK
<1>3. ASSUME NEW sub \in Subs, NEW tx \in Txs, RecordPayment(sub, tx)
      PROVE  TypeOK'
  <2>1. payments' \in Seq(PaymentRow)  BY <1>3, LedgerStep
  <2>2. peak' \in [Authors -> Nat]  BY <1>3, <2>1, PeakKept DEF RecordPayment, PaymentRow
  <2>. QED  BY <1>3, <2>1, <2>2 DEF RecordPayment, TypeOK, PaymentRow
<1>4. ASSUME NEW k \in DOMAIN payments, FailPayment(k)
      PROVE  TypeOK'
  <2>1. payments' \in Seq(PaymentRow)  BY <1>4, LedgerStep
  <2>. QED  BY <1>4, <2>1 DEF FailPayment, TypeOK, PaymentRow
<1>5. ASSUME NEW k \in DOMAIN payments, RestorePayment(k)
      PROVE  TypeOK'
  <2>1. payments' \in Seq(PaymentRow)  BY <1>5, LedgerStep
  <2>2. peak' \in [Authors -> Nat]  BY <1>5, <2>1, PeakKept DEF RestorePayment, PaymentRow
  <2>. QED  BY <1>5, <2>1, <2>2 DEF RestorePayment, TypeOK, PaymentRow
<1>6. CASE MonthTurns \/ UNCHANGED vars
  BY <1>6 DEF MonthTurns, vars, TypeOK
<1>. QED  BY <1>1, <1>2, <1>3, <1>4, <1>5, <1>6 DEF Next

(* Every table and every step of the monthly run keep their types; above   *)
(* all the amounts, which are sums, stay natural numbers.                  *)
THEOREM PayoutsTyped == Spec => []TypeOK
  BY PayoutsInit, PayoutsTypes, PTL DEF Spec

-----------------------------------------------------------------------------
(* Nobody is paid too much.  What the run read as earned was earned at     *)
(* that time, and what it is about to pay leaves room for it: nothing else *)
(* pays this author meanwhile, saved bank details pay nothing.             *)
WithinPeak ==
    /\ \A a \in Authors : Earned(a) <= peak[a]
    /\ cron.at = "paid" => cron.earned <= peak[cron.author]
    /\ cron.at \in {"account", "create"} =>
          PaidOut(cron.author) + cron.balance <= peak[cron.author]

PInv == TypeOK /\ WithinPeak /\ NeverOverpaid

\* The payments move, the run and the payouts wait.
LEMMA PeakGrows ==
    ASSUME PInv, TypeOK', UNCHANGED <<payouts, cron>>,
           \A a \in Authors : peak'[a] >= peak[a] /\ Earned(a)' <= peak'[a]
    PROVE  PInv'
<1>. USE DEF PInv
<1>1. \A a \in Authors : peak[a] \in Nat /\ peak'[a] \in Nat  BY DEF TypeOK
<1>2. \A a \in Authors : PaidOut(a)' = PaidOut(a) /\ PaidOut(a) \in Nat
  BY PaidOutAdds DEF PaidOut
<1>3. NeverOverpaid'  BY <1>1, <1>2 DEF NeverOverpaid
<1>4. cron.at = "paid" => cron.earned <= peak'[cron.author]
  BY <1>1, CronFields DEF WithinPeak
<1>5. cron.at \in {"account", "create"} =>
         PaidOut(cron.author) + cron.balance <= peak'[cron.author]
  BY <1>1, <1>2, CronFields DEF WithinPeak
<1>6. cron.at \in {"account", "create"} =>
         PaidOut(cron.author)' + cron.balance <= peak'[cron.author]
  BY <1>5 DEF PaidOut
<1>. QED  BY <1>3, <1>4, <1>6 DEF WithinPeak

\* The run goes on, and the payouts wait.
LEMMA RunMoves ==
    ASSUME PInv, TypeOK', UNCHANGED <<payments, payouts, peak>>,
           cron'.at = "paid" => cron'.earned <= peak[cron'.author],
           cron'.at \in {"account", "create"} =>
              PaidOut(cron'.author) + cron'.balance <= peak[cron'.author]
    PROVE  PInv'
<1>1. (\A a \in Authors : Earned(a) <= peak[a])'
  BY DEF PInv, WithinPeak, Earned, Earning, NetOf
<1>2. NeverOverpaid'  BY DEF PInv, NeverOverpaid, PaidOut
<1>3. PaidOut(cron.author)' = PaidOut(cron'.author)  BY DEF PaidOut
<1>. QED  BY <1>1, <1>2, <1>3 DEF PInv, WithinPeak

\* An author is paid, or saves bank details.
LEMMA PayoutMoves ==
    ASSUME PInv, TypeOK', UNCHANGED <<payments, peak>>,
           NEW row \in Payout, payouts' = Append(payouts, row),
           PaidOut(row.author) + row.amount <= peak[row.author],
           cron'.at # "paid" \/ UNCHANGED cron,
           cron'.at \notin {"account", "create"} \/ (UNCHANGED cron /\ row.amount = 0)
    PROVE  PInv'
<1>. USE DEF PInv
<1>1. (\A a \in Authors : Earned(a) <= peak[a])'
  BY DEF WithinPeak, Earned, Earning, NetOf
<1>2. ASSUME NEW a \in Authors
      PROVE  PaidOut(a)' = IF row.author = a THEN PaidOut(a) + row.amount ELSE PaidOut(a)
  BY PaidOutAdds
<1>3. NeverOverpaid'
  <2>1. ASSUME NEW a \in Authors
        PROVE  PaidOut(a)' <= peak[a]
    BY <1>2 DEF NeverOverpaid
  <2>. QED  BY <2>1 DEF NeverOverpaid
<1>4. cron'.at = "paid" => cron'.earned <= peak'[cron'.author]
  BY DEF WithinPeak
<1>5. ASSUME cron'.at \in {"account", "create"}
      PROVE  PaidOut(cron.author)' + cron'.balance <= peak'[cron'.author]
  <2>1. UNCHANGED cron /\ row.amount = 0  BY <1>5
  <2>2. cron.author \in Authors  BY <1>5, <2>1, CronFields
  <2>3. PaidOut(cron.author) \in Nat  BY PaidOutAdds
  <2>4. PICK a \in Authors : a = cron.author  BY <2>2
  <2>5. PaidOut(a)' = PaidOut(a)  BY <1>2, <2>1, <2>3, <2>4
  <2>6. PaidOut(cron.author)' = PaidOut(a)'  BY <2>1, <2>4 DEF PaidOut
  <2>. QED  BY <1>5, <2>1, <2>4, <2>5, <2>6 DEF WithinPeak
<1>. QED  BY <1>1, <1>3, <1>4, <1>5 DEF WithinPeak

LEMMA OverpaidStep ==
    ASSUME PInv, [Next]_vars
    PROVE  PInv'
<1>. USE DEF PInv
<1>t. TypeOK'  BY PayoutsTypes
<1>p. \A a \in Authors : peak[a] \in Nat /\ PaidOut(a) \in Nat  BY PaidOutAdds DEF TypeOK
<1>1. CASE StartRun \/ EndRun \/ (\E a \in Authors : NextAuthor(a)) \/ AuthorThrows \/ Crash
  <2>1. /\ cron'.at \notin {"paid", "account", "create"}
        /\ UNCHANGED <<payments, payouts, peak>>
    BY <1>1 DEF StartRun, EndRun, NextAuthor, AuthorThrows, Crash, GoOn, Off
  <2>. QED  BY <1>t, <2>1, RunMoves
<1>2. CASE ReadEarned
  <2>1. cron' = [at |-> "paid", todo |-> cron.todo, author |-> cron.author,
                 earned |-> cron'.earned]
        /\ cron'.earned \in Nat /\ cron'.earned <= Earned(cron.author)
        /\ UNCHANGED <<payments, payouts, peak>>
    BY <1>2, ReadEarnedTypes DEF ReadEarned
  <2>2. cron.author \in Authors  BY <1>2, CronFields DEF ReadEarned
  <2>3. payments \in Seq(PaymentRow)  BY DEF TypeOK, PaymentRow
  <2>4. Earned(cron.author) \in Nat /\ Earned(cron.author) <= peak[cron.author]
    BY <2>2, <2>3, EarnedIs DEF WithinPeak
  <2>5. cron'.earned <= peak[cron.author]  BY <1>p, <2>1, <2>2, <2>4
  <2>. QED  BY <1>t, <2>1, <2>5, RunMoves
<1>3. CASE ReadPaidOut
  <2>. DEFINE paid == PaidOut(cron.author)
              balance == PendingBalance(cron.earned, paid)
  <2>1. cron.at = "paid" /\ UNCHANGED <<payments, payouts, peak>>  BY <1>3 DEF ReadPaidOut
  <2>2. cron.author \in Authors /\ cron.earned \in Nat /\ cron.earned <= peak[cron.author]
    BY <2>1, CronFields DEF WithinPeak
  <2>3. paid \in Nat  BY <1>p, <2>2
  <2>4. Payable(balance) => paid + balance = cron.earned
    <3>. HIDE DEF paid
    <3>. QED  BY <2>2, <2>3, Balance
  <2>5. cron' = IF Payable(balance)
                THEN [at |-> "account", todo |-> cron.todo, author |-> cron.author,
                      balance |-> balance]
                ELSE GoOn
    BY <1>3 DEF ReadPaidOut
  <2>6. cron'.at # "paid"  BY <2>5 DEF GoOn
  <2>7. ASSUME cron'.at \in {"account", "create"}
        PROVE  PaidOut(cron'.author) + cron'.balance <= peak[cron'.author]
    <3>1. Payable(balance)  BY <2>5, <2>7 DEF GoOn
    <3>2. cron'.author = cron.author /\ cron'.balance = balance  BY <2>5, <3>1
    <3>. HIDE DEF balance
    <3>. QED  BY <2>2, <2>4, <3>1, <3>2
  <2>. QED  BY <1>t, <2>1, <2>6, <2>7, RunMoves
<1>4. CASE ReadAccount
  <2>1. cron.at = "account" /\ cron'.at = "create" /\ cron'.author = cron.author
        /\ cron'.balance = cron.balance /\ UNCHANGED <<payments, payouts, peak>>
    BY <1>4 DEF ReadAccount
  <2>2. PaidOut(cron.author) + cron.balance <= peak[cron.author]  BY <2>1 DEF WithinPeak
  <2>. QED  BY <1>t, <2>1, <2>2, RunMoves
<1>5. CASE CreatePayout
  <2>1. NewRow \in Payout /\ payouts' = Append(payouts, NewRow)  BY <1>5, NewRows
  <2>2. cron.at = "create" /\ cron'.at = "author" /\ UNCHANGED <<payments, peak>>
    BY <1>5 DEF CreatePayout, GoOn
  <2>3. NewRow.author = cron.author /\ NewRow.amount = cron.balance  BY DEF NewRow
  <2>4. PaidOut(cron.author) + cron.balance <= peak[cron.author]  BY <2>2 DEF WithinPeak
  <2>5. PaidOut(NewRow.author) + NewRow.amount <= peak[NewRow.author]  BY <2>3, <2>4
  <2>. QED  BY <1>t, <2>1, <2>2, <2>5, PayoutMoves
<1>6. ASSUME NEW a \in Authors, NEW account \in Accounts, saveBankDetails(a, account)
      PROVE  PInv'
  <2>1. PICK row \in Payout : row = SavedRow(a, account) /\ payouts' = Append(payouts, row)
    BY <1>6, NewRows
  <2>2. UNCHANGED <<payments, peak, cron>>  BY <1>6 DEF saveBankDetails
  <2>3. row.author = a /\ row.amount = 0  BY <2>1 DEF SavedRow
  <2>4. PaidOut(row.author) + row.amount <= peak[row.author]
    BY <1>p, <2>3 DEF NeverOverpaid
  <2>. QED  BY <1>t, <2>1, <2>2, <2>3, <2>4, PayoutMoves
<1>7. ASSUME \/ \E sub \in Subs, tx \in Txs : RecordPayment(sub, tx)
             \/ \E k \in DOMAIN payments : RestorePayment(k)
      PROVE  PInv'
  <2>1. RecordPeak /\ UNCHANGED <<payouts, cron>>
    BY <1>7 DEF RecordPayment, RestorePayment
  <2>2. (payments \in Seq(PaymentRow))'  BY <1>t DEF TypeOK, PaymentRow
  <2>3. \A a \in Authors : peak'[a] >= peak[a] /\ peak'[a] >= Earned(a)'
    BY <2>1, <2>2, PeakKept
  <2>4. \A a \in Authors : peak'[a] \in Nat /\ Earned(a)' \in Nat
    BY <1>t, <2>2, EarnedNext DEF TypeOK
  <2>5. ASSUME NEW a \in Authors
        PROVE  peak'[a] >= peak[a] /\ Earned(a)' <= peak'[a]
    BY <2>3, <2>4
  <2>. QED  BY <1>t, <2>1, <2>5, PeakGrows
<1>8. ASSUME NEW k \in DOMAIN payments, FailPayment(k)
      PROVE  PInv'
  <2>0. UNCHANGED <<payouts, cron, peak>>  BY <1>8 DEF FailPayment
  <2>1. payments \in Seq(PaymentRow) /\ (payments \in Seq(PaymentRow))'
    BY <1>t DEF TypeOK, PaymentRow
  <2>2. /\ payments' \in Seq(PaymentRow) /\ DOMAIN payments' = DOMAIN payments
        /\ \A l \in DOMAIN payments : /\ payments'[l].sub = payments[l].sub
                                      /\ payments'[l].tx = payments[l].tx
                                      /\ payments'[l].status \in {payments[l].status, "failed"}
    BY <1>8, LedgerStep
  <2>3. ASSUME NEW a \in Authors
        PROVE  Earned(a)' <= Earned(a)
    <3>1. EarningIn(payments', a) \in SUBSET EarningIn(payments, a)
      BY <2>2 DEF EarningIn
    <3>2. EarningIn(payments, a) \in SUBSET DOMAIN payments  BY DEF EarningIn
    <3>3. NetIn(payments', EarningIn(payments', a)) = NetIn(payments, EarningIn(payments', a))
      <4>1. [l \in DOMAIN payments' |-> Net[payments'[l].tx]]
               = [l \in DOMAIN payments |-> Net[payments[l].tx]]
        BY <2>2
      <4>. QED  BY <4>1 DEF NetIn
    <3>4. PICK ks \in SUBSET DOMAIN payments : ks = EarningIn(payments, a)  BY <3>2
    <3>5. PICK ls \in SUBSET ks : ls = EarningIn(payments', a)  BY <3>1, <3>4
    <3>6. NetIn(payments, ls) <= NetIn(payments, ks)  BY <2>1, NetType
    <3>7. Earned(a)' = NetIn(payments', EarningIn(payments', a))  BY <2>1, EarnedNext
    <3>8. Earned(a) = NetIn(payments, ks)  BY <2>1, <3>4, EarnedIs
    <3>. QED  BY <3>3, <3>5, <3>6, <3>7, <3>8
  <2>4. ASSUME NEW a \in Authors
        PROVE  peak'[a] >= peak[a] /\ Earned(a)' <= peak'[a]
    <3>1. Earned(a)' \in Nat /\ Earned(a) \in Nat  BY <2>1, EarnedNext, EarnedIs
    <3>2. Earned(a) <= peak[a] /\ peak'[a] = peak[a]  BY <2>0 DEF WithinPeak
    <3>. QED  BY <1>p, <2>3, <3>1, <3>2
  <2>. QED  BY <1>t, <2>0, <2>4, PeakGrows
<1>9. CASE MonthTurns \/ UNCHANGED vars
  <2>1. UNCHANGED <<payments, payouts, cron, peak>>  BY <1>9 DEF MonthTurns, vars
  <2>2. cron.at = "paid" => cron.earned <= peak[cron.author]  BY DEF WithinPeak
  <2>3. cron.at \in {"account", "create"} =>
           PaidOut(cron.author) + cron.balance <= peak[cron.author]
    BY DEF WithinPeak
  <2>. QED  BY <1>t, <2>1, <2>2, <2>3, RunMoves
<1>. QED
  BY <1>1, <1>2, <1>3, <1>4, <1>5, <1>6, <1>7, <1>8, <1>9 DEF Next, ProcessPayouts

(* Whatever payments are recorded, fail and are restored between the       *)
(* aggregates that the run reads one after the other, whenever it fails or *)
(* dies: no author's payouts exceed what was once earned.                  *)
THEOREM NobodyOverpaid == Spec => []NeverOverpaid
<1>1. Init => PInv
  <2>. SUFFICES ASSUME Init PROVE PInv
    OBVIOUS
  <2>1. TypeOK  BY PayoutsInit
  <2>2. payments \in Seq(PaymentRow) /\ payouts \in Seq(Payout)  BY <2>1 DEF TypeOK, PaymentRow
  <2>3. payments = <<>> /\ payouts = <<>> /\ cron = Off /\ peak = [a \in Authors |-> 0]
    BY DEF Init, Ledger!Init
  <2>4. ASSUME NEW a \in Authors
        PROVE  Earned(a) = 0 /\ PaidOut(a) = 0
    <3>1. EarningIn(payments, a) = {} /\ RowsOf(payouts, a) = {}
      BY <2>3 DEF EarningIn, RowsOf
    <3>2. Earned(a) = NetIn(payments, {})  BY <2>2, <3>1, EarnedIs
    <3>3. PaidOut(a) = PaidIn(payouts, a)  BY <2>2, PaidOutIs DEF PaidOut, RowsOf
    <3>4. NetIn(payments, {}) = 0 /\ PaidIn(payouts, a) = 0
      BY <3>1, TotalOfNone DEF NetIn, PaidIn
    <3>. QED  BY <3>2, <3>3, <3>4
  <2>5. NeverOverpaid /\ \A a \in Authors : Earned(a) <= peak[a]
    BY <2>3, <2>4 DEF NeverOverpaid
  <2>. QED  BY <2>1, <2>3, <2>5 DEF PInv, WithinPeak, Off
<1>2. PInv /\ [Next]_vars => PInv'
  BY OverpaidStep
<1>. QED  BY <1>1, <1>2, PTL DEF Spec, PInv

-----------------------------------------------------------------------------
(* Details that were saved are what payouts go to from then on, unless     *)
(* they are saved while the run holds older ones of this author.           *)
SavesWait ==
    [][\A a \in Authors, account \in Accounts :
          saveBankDetails(a, account) => ~ (cron.at = "create" /\ cron.author = a)]_vars

RowsBy(a) == {k \in DOMAIN payouts : payouts[k].author = a}

SavesBy(a) == {k \in DOMAIN payouts : payouts[k].author = a /\ Sentinel(payouts[k])}

DetailsInv ==
    /\ IsTable
    /\ cron.at = "create" => cron.account = LastAccount(cron.author)
    /\ SavedDetailsRetrieved

\* The newest row is the one that was added.
LEMMA NewestIsAdded ==
    ASSUME NEW n \in Nat, NEW rows \in SUBSET (1 .. n), NEW more, more = rows \cup {n + 1}
    PROVE  Max(more) = n + 1 /\ more # {}
<1>1. more \in SUBSET (1 .. n + 1) /\ n + 1 \in more  OBVIOUS
<1>2. Max(more) \in more /\ n + 1 <= Max(more)  BY <1>1, NewestRow
<1>3. Max(more) \in 1 .. n + 1  BY <1>1, <1>2
<1>. QED  BY <1>1, <1>2, <1>3

LEMMA AccountAdded ==
    ASSUME IsTable, NEW row, payouts' = Append(payouts, row), NEW a
    PROVE  /\ IsTable'
           /\ row.author = a => LastAccount(a)' = row.account
           /\ row.author # a => LastAccount(a)' = LastAccount(a)
           /\ SavesBy(a) \in SUBSET (1 .. Len(payouts)) /\ Len(payouts) \in Nat
           /\ row.author = a /\ Sentinel(row) =>
                 SavesBy(a)' # {} /\ Max(SavesBy(a)') = Len(payouts) + 1
           /\ row.author # a \/ ~ Sentinel(row) => SavesBy(a)' = SavesBy(a)
           /\ payouts'[Len(payouts) + 1] = row
           /\ \A k \in 1 .. Len(payouts) : payouts'[k] = payouts[k]
<1>. DEFINE n == Len(payouts)
<1>1. /\ IsTable'
      /\ n \in Nat /\ DOMAIN payouts = 1 .. n /\ DOMAIN payouts' = 1 .. n + 1
      /\ payouts'[n + 1] = row /\ \A k \in 1 .. n : payouts'[k] = payouts[k]
  <2>1. PICK S : payouts \in Seq(S)  BY DEF IsTable
  <2>2. payouts' \in Seq(S \cup {row})  BY <2>1, RowAdded
  <2>. QED  BY <2>1, <2>2, RowAdded DEF IsTable
<1>. HIDE DEF n
<1>2. RowsBy(a) \in SUBSET (1 .. n) /\ SavesBy(a) \in SUBSET (1 .. n)  BY <1>1 DEF RowsBy, SavesBy
<1>3. ASSUME row.author = a PROVE LastAccount(a)' = row.account
  <2>1. RowsBy(a)' = RowsBy(a) \cup {n + 1}  BY <1>1, <1>3 DEF RowsBy
  <2>2. Max(RowsBy(a)') = n + 1 /\ RowsBy(a)' # {}  BY <1>1, <1>2, <2>1, NewestIsAdded
  <2>. QED  BY <1>1, <2>2 DEF LastAccount, RowsBy
<1>4. ASSUME row.author # a PROVE LastAccount(a)' = LastAccount(a)
  <2>1. RowsBy(a)' = RowsBy(a)  BY <1>1, <1>4 DEF RowsBy
  <2>2. RowsBy(a) # {} => Max(RowsBy(a)) \in 1 .. n  BY <1>1, <1>2, NewestRow
  <2>3. LastAccount(a)' = IF RowsBy(a)' = {} THEN NoAccount ELSE payouts'[Max(RowsBy(a)')].account
    BY DEF LastAccount, RowsBy
  <2>4. LastAccount(a) = IF RowsBy(a) = {} THEN NoAccount ELSE payouts[Max(RowsBy(a))].account
    BY DEF LastAccount, RowsBy
  <2>. QED  BY <1>1, <2>1, <2>2, <2>3, <2>4
<1>5. ASSUME row.author = a, Sentinel(row) PROVE SavesBy(a)' # {} /\ Max(SavesBy(a)') = n + 1
  <2>1. SavesBy(a)' = SavesBy(a) \cup {n + 1}  BY <1>1, <1>5 DEF SavesBy, Sentinel
  <2>. QED  BY <1>1, <1>2, <2>1, NewestIsAdded
<1>6. ASSUME row.author # a \/ ~ Sentinel(row) PROVE SavesBy(a)' = SavesBy(a)
  BY <1>1, <1>6 DEF SavesBy, Sentinel
<1>. QED  BY <1>1, <1>2, <1>3, <1>4, <1>5, <1>6 DEF n

LEMMA DetailsStep ==
    ASSUME DetailsInv, [Next]_vars,
           [\A a \in Authors, account \in Accounts :
               saveBankDetails(a, account) => ~ (cron.at = "create" /\ cron.author = a)]_vars
    PROVE  DetailsInv'
<1>1. ASSUME UNCHANGED payouts,
             cron'.at = "create" => cron'.account = LastAccount(cron'.author)
      PROVE  DetailsInv'
  <2>1. IsTable' /\ SavedDetailsRetrieved'
    BY <1>1 DEF DetailsInv, IsTable, SavedDetailsRetrieved, LastAccount, Sentinel
  <2>2. \A a : LastAccount(a)' = LastAccount(a)  BY <1>1 DEF LastAccount
  <2>. QED  BY <1>1, <2>1, <2>2 DEF DetailsInv
<1>2. ASSUME UNCHANGED payouts, cron'.at # "create" \/ UNCHANGED cron
      PROVE  DetailsInv'
  <2>1. ASSUME UNCHANGED cron, cron.at = "create"
        PROVE  cron'.account = LastAccount(cron'.author)
    BY <2>1 DEF DetailsInv
  <2>. QED  BY <1>1, <1>2, <2>1
<1>3. CASE StartRun \/ EndRun \/ ReadEarned \/ ReadPaidOut \/ \E a \in Authors : NextAuthor(a)
  <2>1. ReadEarned => UNCHANGED payouts /\ cron'.at = "paid"  BY DEF ReadEarned
  <2>2. ReadPaidOut => UNCHANGED payouts /\ cron'.at \in {"account", "author"}
    BY DEF ReadPaidOut, GoOn
  <2>3. StartRun \/ EndRun \/ (\E a \in Authors : NextAuthor(a))
           => UNCHANGED payouts /\ cron'.at # "create"
    BY DEF StartRun, EndRun, NextAuthor, Off
  <2>. QED  BY <1>2, <1>3, <2>1, <2>2, <2>3
<1>4. CASE AuthorThrows \/ Crash
  BY <1>2, <1>4 DEF AuthorThrows, Crash, GoOn, Off
<1>5. CASE ReadAccount
  <2>1. cron'.author = cron.author /\ cron'.account = LastAccount(cron.author) /\ UNCHANGED payouts
    BY <1>5 DEF ReadAccount
  <2>. QED  BY <1>1, <2>1
<1>6. CASE CreatePayout
  <2>. DEFINE row == [author |-> cron.author, amount |-> cron.balance,
                      status |-> "pending", account |-> cron.account]
  <2>1. payouts' = Append(payouts, row) /\ cron'.at = "author"  BY <1>6 DEF CreatePayout, GoOn
  <2>2. row.author = cron.author /\ row.account = LastAccount(cron.author) /\ ~ Sentinel(row)
    BY <1>6 DEF CreatePayout, DetailsInv, Sentinel
  <2>. HIDE DEF row
  <2>3. IsTable  BY DEF DetailsInv
  <2>4. IsTable'  BY <2>1, <2>3, AccountAdded
  <2>5. ASSUME NEW a \in Authors, SavesBy(a)' # {}
        PROVE  LastAccount(a)' = payouts'[Max(SavesBy(a)')].account
    <3>1. LastAccount(a)' = LastAccount(a) /\ SavesBy(a)' = SavesBy(a)
      BY <2>1, <2>2, <2>3, AccountAdded
    <3>2. Len(payouts) \in Nat /\ SavesBy(a) \in SUBSET (1 .. Len(payouts)) /\ SavesBy(a) # {}
          /\ \A k \in 1 .. Len(payouts) : payouts'[k] = payouts[k]
      BY <2>1, <2>3, <2>5, <3>1, AccountAdded
    <3>3. Max(SavesBy(a)) \in 1 .. Len(payouts)  BY <3>2, NewestRow
    <3>4. LastAccount(a) = payouts[Max(SavesBy(a))].account
      BY <3>2 DEF DetailsInv, SavedDetailsRetrieved, SavesBy
    <3>. QED  BY <3>1, <3>2, <3>3, <3>4
  <2>. QED  BY <2>1, <2>4, <2>5 DEF DetailsInv, SavedDetailsRetrieved, SavesBy
<1>7. ASSUME NEW b \in Authors, NEW account \in Accounts, saveBankDetails(b, account)
      PROVE  DetailsInv'
  <2>. DEFINE row == [author |-> b, amount |-> 0, status |-> "completed", account |-> account]
  <2>1. payouts' = Append(payouts, row) /\ UNCHANGED cron
    BY <1>7 DEF saveBankDetails
  <2>2. row.author = b /\ row.account = account /\ Sentinel(row)  BY DEF Sentinel
  <2>. HIDE DEF row
  <2>3. IsTable  BY DEF DetailsInv
  <2>4. IsTable'  BY <2>1, <2>3, AccountAdded
  <2>5. ASSUME cron'.at = "create" PROVE cron'.account = LastAccount(cron.author)'
    <3>1. cron.author # b
      <4>1. CASE UNCHANGED vars
        <5>1. Len(payouts') # Len(payouts)
          <6>1. PICK S : payouts \in Seq(S)  BY <2>3 DEF IsTable
          <6>. QED  BY <2>1, <6>1, RowAdded
        <5>. QED  BY <4>1, <5>1 DEF vars
      <4>. QED  BY <1>7, <2>1, <2>5, <4>1
    <3>2. LastAccount(cron.author)' = LastAccount(cron.author)
      <4>1. PICK a : a = cron.author  OBVIOUS
      <4>2. row.author # a  BY <2>2, <3>1, <4>1
      <4>3. LastAccount(a)' = LastAccount(a)  BY <2>1, <2>3, <4>2, AccountAdded
      <4>. QED  BY <2>1, <4>1, <4>3
    <3>. QED  BY <2>1, <2>5, <3>2 DEF DetailsInv
  <2>6. ASSUME NEW a \in Authors, SavesBy(a)' # {}
        PROVE  LastAccount(a)' = payouts'[Max(SavesBy(a)')].account
    <3>1. CASE a = b
      BY <2>1, <2>2, <2>3, <3>1, AccountAdded
    <3>2. CASE a # b
      <4>1. LastAccount(a)' = LastAccount(a) /\ SavesBy(a)' = SavesBy(a)
        BY <2>1, <2>2, <2>3, <3>2, AccountAdded
      <4>2. Len(payouts) \in Nat /\ SavesBy(a) \in SUBSET (1 .. Len(payouts)) /\ SavesBy(a) # {}
            /\ \A k \in 1 .. Len(payouts) : payouts'[k] = payouts[k]
        BY <2>1, <2>3, <2>6, <4>1, AccountAdded
      <4>3. Max(SavesBy(a)) \in 1 .. Len(payouts)  BY <4>2, NewestRow
      <4>4. LastAccount(a) = payouts[Max(SavesBy(a))].account
        BY <4>2 DEF DetailsInv, SavedDetailsRetrieved, SavesBy
      <4>. QED  BY <4>1, <4>2, <4>3, <4>4
    <3>. QED  BY <3>1, <3>2
  <2>. QED  BY <2>4, <2>5, <2>6 DEF DetailsInv, SavedDetailsRetrieved, SavesBy
<1>8. CASE (\E sub \in Subs, tx \in Txs : RecordPayment(sub, tx))
           \/ (\E k \in DOMAIN payments : FailPayment(k) \/ RestorePayment(k))
           \/ MonthTurns \/ UNCHANGED vars
  BY <1>2, <1>8 DEF RecordPayment, FailPayment, RestorePayment, MonthTurns, vars
<1>. QED
  BY <1>3, <1>4, <1>5, <1>6, <1>7, <1>8 DEF Next, ProcessPayouts

(* What payouts go to is what the author saved last, for as long as nobody *)
(* saves details while the run holds the older ones of the same author:    *)
(* the one window the comment of saveBankDetails overlooks.                *)
THEOREM DetailsLostOnlyMidRun == Spec /\ SavesWait => []SavedDetailsRetrieved
<1>1. Init => DetailsInv
  <2>. SUFFICES ASSUME Init PROVE DetailsInv
    OBVIOUS
  <2>1. payouts = <<>> /\ cron = Off  BY DEF Init
  <2>2. IsTable  BY <2>1 DEF IsTable
  <2>. QED  BY <2>1, <2>2 DEF DetailsInv, SavedDetailsRetrieved, Off
<1>2. DetailsInv /\ [Next]_vars
      /\ [\A a \in Authors, account \in Accounts :
             saveBankDetails(a, account) => ~ (cron.at = "create" /\ cron.author = a)]_vars
         => DetailsInv'
  BY DetailsStep
<1>3. DetailsInv => SavedDetailsRetrieved  BY DEF DetailsInv
<1>. QED  BY <1>1, <1>2, <1>3, PTL DEF Spec, SavesWait
=============================================================================
