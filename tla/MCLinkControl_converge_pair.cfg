\* Two links, one of which xray fails every call for: it may not keep a scan or a
\* round from the other.  One fault more, e.g. a restart of xray that loses both.
CONSTANTS
    Links = {l1, l2}
    NoLink = NoLink
    Requests = {r1}
    Scans = {s1}
    Rounds = {c1}
    Retries = 0
    MaxTime = 3
    MaxAhead = 1
    MaxHours = 1
    Failing = {l2}
    MaxExtends = 0
    MaxRevokes = 0
    MaxFaults = 1
SPECIFICATION FairSpec
PROPERTIES Converges DueLinksLeave
