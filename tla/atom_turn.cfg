\* Three users for two slots, rings of three messages, two read locally.  A fair
\* agent; the console may clear sessions for ever.
CONSTANTS
    Users = {u1, u2, u3}
    Texts = {t1, Apology}
    Apology = Apology
    Blank = Blank
    MaxUsers = 2
    MaxMsgs = 3
    RecentMsgs = 2
    MaxIter = 2
    MaxCalls = 1
SPECIFICATION FairSpec
INVARIANTS TypeOK OneSlotEach ConversationWellFormed NoOtherUsersWords
PROPERTIES KeepsLastMessages EveryTurnEnds
