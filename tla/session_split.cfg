\* Two turns, nothing else: the answer of the first has a line longer than the buffer.
CONSTANTS
    MaxMsgs = 2
    MaxTurns = 2
    MaxCommands = 0
    MaxResets = 0
    MaxShorts = 0
    ToolTurns = {}
SPECIFICATION Spec
INVARIANT HistoryIsMessages
CHECK_DEADLOCK FALSE
