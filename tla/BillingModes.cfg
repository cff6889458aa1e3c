SPECIFICATION FairSpec

CONSTANTS
    User = {u1}
    Admin = {}
    Tx = {t1, t2}
    Handler = {h1, h2}
    Scanner = {}
    NoUser = NoUser
    NoTx = NoTx
    Trial = 1
    Packs = {2}
    Batch = 2
    Modes = {"live", "sandbox", "off"}
    MaxRestarts = 2

INVARIANT BalanceIsExact
PROPERTY ProviderOrderNeedsMoney
PROPERTY SettledIsCredited
CHECK_DEADLOCK FALSE
