\* One link, two overlapping requests, an expire scan, a reconcile round, two faults.
CONSTANTS
    Links = {l1}
    NoLink = NoLink
    Requests = {r1, r2}
    Scans = {s1}
    Rounds = {c1}
    Retries = 1
    MaxTime = 3
    MaxAhead = 2
    MaxHours = 1
    Failing = {}
    MaxRevokes = 3
    MaxExtends = 1
    MaxFaults = 2
SPECIFICATION Spec
SYMMETRY Symmetry
INVARIANTS TypeOK RevokeExclusive StampedIffRevoked AuditCoversLedger
PROPERTIES ImplementsLifecycle EvictionJustified
