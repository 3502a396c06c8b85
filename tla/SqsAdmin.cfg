CONSTANTS
    c1 = c1  c2 = c2  g1 = g1  g2 = g2  d1 = d1  d2 = d2  d3 = d3  b1 = b1
    stdq = stdq  deadq = deadq  fifoq = fifoq  fdeadq = fdeadq
    None = None  Keep = Keep
    FifoNames = {fifoq, fdeadq}
    QueueNames = {stdq, deadq, fifoq, fdeadq}
    DefaultAttrs <- MCDefaultAttrs
    Clients = {c1, c2}
    CreateRequests <- AdminCreates
    Updates <- AdminUpdates
    Tags = {}
    SendInputs <- AdminInputs
    ReceiveOptions <- OneAtATime
    Timeouts = {2}
    DEDUP_WINDOW = 1
    MaxTags = 1
    Operations = {"create", "delete", "purge", "getattrs", "setattrs", "send", "receive", "ack", "restart"}
    MaxQueues = 1
    MaxMessages = 2
    MaxReceipts = 1
    MaxTime = 3
SPECIFICATION Spec
SYMMETRY ClientSymmetry
INVARIANT DedupWindow
INVARIANT TablesSound
PROPERTY LossExplained
CHECK_DEADLOCK FALSE
