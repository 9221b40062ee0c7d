\* Two links in the same answers, two overlapping pulls with a retry each, two faults,
\* under the fairness of the ledger timer.
CONSTANTS
    Links = {l1, l2}
    Chunks = {c1, c2}
    Pulls = {p1, p2}
    Retries = 1
    MaxFaults = 2
SPECIFICATION FairSpec
INVARIANTS TypeOK NeverTwice SamplesWithinBooks CreditedToOwner
PROPERTIES LossesAreFaults BooksSettle
