\* Two links, two requests of the operator and a login after them, with every request
\* that follows from an answer.  The operator may stop, so a behaviour may end.
CONSTANTS
    Links = {k1, k2}
    None = None
    MaxClicks = 2
SPECIFICATION Spec
INVARIANTS TypeOK OwnRevocationsShown NoOrphanWait
CHECK_DEADLOCK FALSE
