SPECIFICATION Spec

CONSTANTS
    User = {u1}
    Admin = {}
    Tx = {t1, t2}
    Handler = {h1, h2}
    Scanner = {}
    NoUser = NoUser
    NoTx = NoTx
    Trial = 1
    Packs = {2}
    Batch = 2
    Modes = {"live"}
    MaxRestarts = 0

INVARIANT PurchasedIsTheSum
CHECK_DEADLOCK FALSE
