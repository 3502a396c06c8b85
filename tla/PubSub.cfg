CONSTANTS
    s1 = s1  s2 = s2  t1 = t1
    None = None
    Topics = {t1}
    Subscriptions = {s1, s2}
    DeadlineInputs = {None, 0, 1, 2}
    DEFAULT_ACK_DEADLINE = 1
    MAX_ACK_DEADLINE = 1
    Limits = {1, 2}
    Batches = {1, 2}
    MaxMessages = 2
    MaxAttempts = 2
SPECIFICATION Spec
SYMMETRY SubscriptionSymmetry
INVARIANTS
    SubscriptionHolds
PROPERTIES
    AtLeastOnce
CHECK_DEADLOCK FALSE
