CONSTANTS
    c1 = c1  c2 = c2  g1 = g1  g2 = g2  d1 = d1  d2 = d2  d3 = d3  b1 = b1
    stdq = stdq  deadq = deadq  fifoq = fifoq  fdeadq = fdeadq
    None = None  Keep = Keep
    FifoNames = {fifoq, fdeadq}
    QueueNames = {stdq, deadq, fifoq, fdeadq}
    DefaultAttrs <- MCDefaultAttrs
    Clients = {c1}
    CreateRequests <- FifoCreates
    Updates = {}
    Tags = {}
    SendInputs <- PairInputs
    ReceiveOptions <- BatchOptions
    Timeouts = {2}
    DEDUP_WINDOW = 9
    MaxTags = 1
    Operations = {"create", "send", "receive", "ack", "change"}
    MaxQueues = 2
    MaxMessages = 2
    MaxReceipts = 3
    MaxTime = 3
SPECIFICATION Spec
INVARIANTS
    GroupHeldByOneReceive
PROPERTIES
    GroupOrder
CHECK_DEADLOCK FALSE
