SPECIFICATION Spec

CONSTANTS
    Job = {j1}
    acme = acme
    Company = {acme}
    Employer <- OneEmployer
    Text = {1}
    NoProfile = NoProfile
    Scan = {"hourly", "watchlist"}
    Filler = {"backfill"}
    Threshold = 1
    MaxEdits = 1
    MaxFlips = 1
    MaxRestarts = 1

INVARIANT TypeOK
INVARIANT PushedOnce
