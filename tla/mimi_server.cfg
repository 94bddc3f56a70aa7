\* One-place queues and three text updates, so that the poller, the agent and the
\* dispatcher hold a message each while both queues are full; two rounds and two
\* chunks.  Fair tasks.
CONSTANTS
    QueueLen = 1
    MaxUpdates = 3
    NoText = {}
    MaxIter = 2
    MaxChunks = 2
    NoMsg = NoMsg
SPECIFICATION FairSpec
INVARIANTS TypeOK OnlyFailedPushesLeak PiecesInOrder ConfirmedWereTaken
PROPERTY EveryUpdateLeaves
