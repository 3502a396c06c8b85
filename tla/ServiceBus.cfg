CONSTANTS
    c1 = c1
    None = None
    Queues <- MCQueues
    Topics <- MCTopics
    Subscriptions <- MCSubscriptions
    Limits = {1, 2}
    Receivers = {c1}
    MaxMessages = 2
    MaxReceives = 2
SPECIFICATION Spec
INVARIANT KeptUntilCompleted
INVARIANT MessagesHaveQueue
PROPERTY PeekLock
CHECK_DEADLOCK FALSE
