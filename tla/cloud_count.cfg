\* One turn is enough for its two saves to overlap.
CONSTANTS
    MaxTurns = 2
    Every = 2
    MaxHistory = 3
    Unread = Unread
SPECIFICATION Spec
INVARIANT CountIsCumulative
CHECK_DEADLOCK FALSE
