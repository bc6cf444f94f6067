SPECIFICATION Spec
CONSTANTS
    a1 = a1
    a2 = a2
    s1 = s1
    s2 = s2
    t1 = t1
    t2 = t2
    Authors = {a1}
    Subs = {s1}
    AuthorOf <- MCAuthorOf1
    Txs = {t1, t2}
    Net <- MCNet2
    Accounts = {b1}
    MINIMUM_PAYOUT = 3
    MaxPayments = 1
    MaxSaves = 1
    MaxFaults = 0
INVARIANT SavedDetailsRetrieved
