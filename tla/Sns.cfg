SPECIFICATION Spec
CONSTANTS
    None = None
    t = t
    u = u
    q = q
    dlq = dlq
    SnsClients = {c1, c2}
    Topics = {t, u}
    FifoTopics = {t}
    Queues = {q, dlq}
    Endpoints = {q}
    Redrives = {None}
    SnsAttrs = {a, b}
    MaxTopics = 2
    MaxSubs = 2
    MaxMessages = 2
    EventQueue = dlq
    EventTopic = u
SYMMETRY Clients
INVARIANTS
    OfferedToAll
    PublishedInOrder
    EventsDelivered
PROPERTIES
    TopicsKept
CHECK_DEADLOCK FALSE
