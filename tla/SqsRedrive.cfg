CONSTANTS
    c1 = c1  c2 = c2  g1 = g1  g2 = g2  d1 = d1  d2 = d2  d3 = d3  b1 = b1
    stdq = stdq  deadq = deadq  fifoq = fifoq  fdeadq = fdeadq
    None = None  Keep = Keep
    FifoNames = {fifoq, fdeadq}
    QueueNames = {stdq, deadq, fifoq, fdeadq}
    DefaultAttrs <- MCDefaultAttrs
    Clients = {c1, c2}
    CreateRequests <- RedriveCreates
    Updates = {}
    Tags = {}
    SendInputs <- PlainInputs
    ReceiveOptions <- RedriveOptions
    Timeouts = {2}
    DEDUP_WINDOW = 2
    MaxTags = 1
    Operations = {"create", "send", "receive", "ack", "change"}
    MaxQueues = 2
    MaxMessages = 1
    MaxReceipts = 4
    MaxTime = 3
SPECIFICATION Spec
SYMMETRY ClientSymmetry
INVARIANTS
    InFlightExclusive
    AckedIsGone
    DeadLetterLimit
PROPERTIES
    LossExplained
CHECK_DEADLOCK FALSE
