SPECIFICATION FairSpec
CONSTANTS
    a1 = a1
    a2 = a2
    s1 = s1
    s2 = s2
    t1 = t1
    t2 = t2
    Authors = {a1, a2}
    Subs = {s1, s2}
    AuthorOf <- MCAuthorOf
    Txs = {t1}
    Net <- MCNet
    Accounts = {b1}
    MINIMUM_PAYOUT = 4
    MaxPayments = 3
    MaxSaves = 1
    MaxFaults = 1
INVARIANTS TypeOK NeverOverpaid PaidToOwnAccount
PROPERTY EarningsPaidOut
