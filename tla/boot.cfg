\* Both devices, three console commands beside the boot, three Wi-Fi events at a time.
CONSTANTS
    MaxEvents = 3
    MaxCommands = 3
SPECIFICATION FairSpec
INVARIANTS OnlyNoMemoryStrands
PROPERTY ConnectionSettles
CHECK_DEADLOCK FALSE
