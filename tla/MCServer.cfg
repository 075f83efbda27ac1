\* One io thread, one or two descriptors, two clients that may pipeline.
CONSTANTS
    Connections = {c1, c2}
    Messages <- MCMessages
    NThreads = 1
    MaxOpen = 2
    MaxUnread = 2
SPECIFICATION FairSpec
INVARIANT TypeOK
PROPERTIES AnsweredOrExplained SuccessIsLast AnswersEnd SessionsEnd ClientsAccepted
\* The clients leave in the end, and nothing is left to do.
CHECK_DEADLOCK FALSE
