SPECIFICATION Spec

CONSTANTS
    User = {u1, u2}
    Admin = {u2}
    Tx = {t1, t2}
    Handler = {h1, h2}
    Scanner = {s1, s2}
    NoUser = NoUser
    NoTx = NoTx
    Trial = 1
    Packs = {2}
    Batch = 2
    Modes = {"live"}
    MaxRestarts = 1

SYMMETRY Symmetry
INVARIANT TypeOK
INVARIANT PaidMeansIssuedOnce
INVARIANT NoMinting
PROPERTY PaidIsFinal
PROPERTY ImplementsOrders
