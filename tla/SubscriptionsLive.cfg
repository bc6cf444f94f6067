SPECIFICATION FairSpec
CONSTANTS
    Users = {u1}
    Pubs = {p1}
    Txs = {t1}
    Handlers = {h1, h2}
    Period = 1
    Grace = 1
    MaxSubs = 2
    MaxDeliveries = 2
    Faulty = FALSE
PROPERTIES GraceResolved ChargeRecorded
