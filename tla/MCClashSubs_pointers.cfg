\* Three links with clashing names, one subscription, a clock that goes past its
\* end and, within its life, past an end of a link that extend may move either way.
CONSTANTS
    l1 = l1
    l2 = l2
    l3 = l3
    a = a
    b = b
    x = x
    y = y
    z = z
    Words = {a, b, x, y, z}
    Links = {l1, l2, l3}
    Label <- MCLabel
    Tokens = {t1}
    NoToken = NoToken
    MaxLinks = 3
    TTL = 2
    Lifetimes = {0, 2, 3}
    MaxTime = 3
SPECIFICATION Spec
INVARIANTS TypeOK NamesDiffer
PROPERTIES ImplementsTimedSubs
