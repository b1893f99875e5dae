\* Two requests for a link and two POSTs of one at a time, beside the purge.
CONSTANTS
    r1 = r1
    r2 = r2
    b1 = b1
    b2 = b2
    MaxTokens = 3
    MaxTime = 5
    Requesters = {r1, r2}
    Visitors = {b1, b2}
    THROTTLE_WINDOW = 2
    THROTTLE_LIMIT = 1
    Ttls = {2, 3}
SPECIFICATION Spec
SYMMETRY Symmetry
INVARIANTS
    SingleUse
    
\* The clock is bounded.
CHECK_DEADLOCK FALSE
