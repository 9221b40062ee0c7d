\* One link under the fairness of the timers: two overlapping reconcile rounds with
\* stale snapshots, a scan, a request, two faults.
CONSTANTS
    Links = {l1}
    NoLink = NoLink
    Requests = {r1}
    Scans = {s1}
    Rounds = {c1, c2}
    Retries = 0
    MaxTime = 3
    MaxAhead = 1
    MaxHours = 1
    Failing = {}
    MaxRevokes = 3
    MaxExtends = 1
    MaxFaults = 2
SPECIFICATION FairSpec
PROPERTIES Converges
