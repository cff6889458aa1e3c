SPECIFICATION BothFairSpec

CONSTANTS
    Job = {j1}
    acme = acme
    Company = {acme}
    Employer <- OneEmployer
    Text = {1}
    NoProfile = NoProfile
    Scan = {}
    Filler = {"backfill", "idle"}
    Threshold = 1
    MaxEdits = 1
    MaxFlips = 1
    MaxRestarts = 0
    c1 = c1
    d1 = d1
    h1 = h1
    h2 = h2
    de = de
    NoVacancy = NoVacancy
    NoLink = NoLink
    NoLand = NoLand

PROPERTY ScoresDrain
PROPERTY LinksFollow
