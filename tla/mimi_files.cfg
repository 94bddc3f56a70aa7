\* Three turns into a ring of two messages, the second of which may write the memory;
\* two console commands, one reset, one line cut short.
CONSTANTS
    MaxMsgs = 2
    MaxTurns = 3
    MaxCommands = 2
    MaxResets = 1
    MaxShorts = 1
    ToolTurns = {2}
SPECIFICATION Spec
INVARIANTS HistoryIsTheLatest CutsLoseFew MemoryAsWritten
CHECK_DEADLOCK FALSE
