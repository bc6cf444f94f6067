SPECIFICATION Spec
CONSTANTS
    Users = {u1, u2}
    Pubs = {p1}
    Txs = {t1}
    Handlers = {h1}
    Period = 1
    Grace = 1
    MaxSubs = 2
    MaxDeliveries = 1
    Faulty = FALSE
INVARIANT PaymentCreditsItsCheckout
