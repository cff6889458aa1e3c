SPECIFICATION Spec

CONSTANTS
    c1 = c1
    c2 = c2
    d1 = d1
    h1 = h1
    h2 = h2
    h3 = h3
    s1 = s1
    s2 = s2
    de = de
    Posting = {c1, d1, c2}
    Hash = {h1, h3}
    Land = {de}
    HashOf <- SpelledAlike
    LandOf <- OneLand
    Alike = {}
    Direct = {d1}
    Wealth <- Lengths
    Posted <- OneMinute
    NoRow = NoRow
    NoLink = NoLink
    NoLand = NoLand
    Scanner = {s1}
    MaxBatch = 2
    BulkMin = 2
    PerRun = 0
    MaxFailures = 1
    Sent = {}
    MaxAges = 0
    MaxClosings = 0
    MaxOutages = 0
    MaxRestarts = 0
    MaxEvents = 0

PROPERTY GenuineIsStored
