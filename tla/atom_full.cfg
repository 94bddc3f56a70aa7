\* One-place queues and five posts, so that three tasks hold a message each while
\* both queues are full.  Fair tasks; no symmetry, which liveness does not allow.
CONSTANTS
    QueueLen = 1
    Requests = {r1, r2, r3, r4, r5}
    DiscordPosts = {r1, r2, r3}
    LinePosts = {r4, r5}
    LongTokens = {r5}
    CutToken = CutToken
    NoMsg = NoMsg
SPECIFICATION FairSpec
INVARIANT HeapBound
PROPERTIES EveryPostSettles EveryPostReplied
