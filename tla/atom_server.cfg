\* Two-place queues, so that order can go wrong, and a post whose token does not
\* fit.
CONSTANTS
    QueueLen = 2
    Requests = {r1, r2, r3, r4}
    DiscordPosts = {r1, r2, r3, r4}
    LinePosts = {r1, r2, r3, r4}
    LongTokens = {r4}
    CutToken = CutToken
    NoMsg = NoMsg
SPECIFICATION Spec
INVARIANTS TypeOK Ownership NoMisdirected
PROPERTIES DeferredFirst RefinesReplyService
