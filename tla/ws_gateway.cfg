\* Two slots, two sockets, four connections one after another or side by side.
CONSTANTS
    QueueLen = 1
    MaxClients = 2
    MaxFd = 2
    MaxConns = 4
    MaxFrames = 2
    Names = {alice}
SPECIFICATION Spec
INVARIANTS OnlySharedIdsMisdeliver MissedForAReason
CHECK_DEADLOCK FALSE
