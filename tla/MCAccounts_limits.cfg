\* Two browsers with a session each, two addresses, two windows long.
CONSTANTS
    Browsers = {b1, b2}
    Addresses = {a1, a2}
    Tokens = {t1, t2}
    NoToken = NoToken
    Passwords = {p1, p2}
    NoPassword = NoPassword
    TTL = 2
    Window = 3
    MaxFailures = 2
    MaxTime = 6
SPECIFICATION Spec
SYMMETRY Symmetry
INVARIANTS TypeOK ValidIffRecentlyUsed BlockedForCause GuessesBounded
PROPERTIES EndedStaysEnded
