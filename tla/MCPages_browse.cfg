\* Pages of one row, up to three rows with two timestamps, a search that one of two hosts
\* matches, four requests.  The operator may stop, so a behaviour may end.
CONSTANTS
    h1 = h1
    h2 = h2
    w1 = w1
    Hosts = {h1, h2}
    Words = {w1}
    Matches <- MatchesDef
    NoWord = NoWord
    Ranges = {day, week}
    NoPoints = NoPoints
    PAGE = 1
    MAX_SAFE_INTEGER = 1000
    Times = {1, 2}
    MaxRows = 3
    MaxRuns = 4
SPECIFICATION Spec
INVARIANTS TypeOK ShownIsAsked WalkMissesNothing
CHECK_DEADLOCK FALSE
