\* An extension to permanent meets a scan that awaits rmu.
CONSTANTS
    Links = {l1}
    NoLink = NoLink
    Requests = {r1}
    Scans = {s1}
    Rounds = {}
    Retries = 0
    MaxTime = 3
    MaxAhead = 2
    MaxHours = 1
    Failing = {}
    MaxRevokes = 1
    MaxExtends = 1
    MaxFaults = 0
SPECIFICATION Spec
PROPERTIES PermanentNeverExpires
