SPECIFICATION ThreeSpec

CONSTANTS
    c1 = c1
    c2 = c2
    d1 = d1
    h1 = h1
    h2 = h2
    h3 = h3
    s1 = s1
    s2 = s2
    de = de
    Posting = {c1, d1, c2}
    Hash = {h1, h2, h3}
    Land = {de}
    HashOf <- Spelled
    LandOf <- OneWithout
    Alike <- Likeness
    Direct = {d1}
    Wealth <- Lengths
    Posted <- OneMinute
    NoRow = NoRow
    NoLink = NoLink
    NoLand = NoLand
    Scanner = {s1, s2}
    MaxBatch = 2
    BulkMin = 2
    PerRun = 1
    MaxFailures = 1
    Sent = {}
    MaxAges = 1
    MaxClosings = 1
    MaxOutages = 1
    MaxRestarts = 1
    MaxEvents = 1

INVARIANT TypeOK
PROPERTY RepostsSkipped
PROPERTY RowsOnlyImprove
PROPERTY SuppressedStays
PROPERTY KeptUnlessExposed
