\* Two turns, histories of three messages, a summary every two.
CONSTANTS
    MaxTurns = 2
    Every = 2
    MaxHistory = 3
    Unread = Unread
SPECIFICATION FairSpec
INVARIANTS TypeOK HistoryMatchesCount SavedAtMostOnce CountNeverAhead ExactUnlessOverlapped
 
CHECK_DEADLOCK FALSE
