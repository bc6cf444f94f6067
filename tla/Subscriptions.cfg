SPECIFICATION Spec
CONSTANTS
    Users = {u1, u2}
    Pubs = {p1}
    Txs = {t1}
    Handlers = {h1, h2}
    Period = 2
    Grace = 1
    MaxSubs = 2
    MaxDeliveries = 2
    Faulty = TRUE
INVARIANTS TypeOK AwaitedRowsFit PaymentsCharged SubscriptionBacked
PROPERTIES DuplicateNeedsTwins SecondFreeNeedsTwins ImplementsLedger UncancelledEndsByLapse
