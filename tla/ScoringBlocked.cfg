SPECIFICATION Spec

CONSTANTS
    Job = {j1, j2}
    acme = acme
    Company = {acme}
    Employer <- OneEmployer
    Text = {1}
    NoProfile = NoProfile
    Scan = {"hourly"}
    Filler = {}
    Threshold = 1
    MaxEdits = 1
    MaxFlips = 1
    MaxRestarts = 0

INVARIANT ValidMeansScored
