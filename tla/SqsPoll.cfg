CONSTANTS
    c1 = c1  c2 = c2  g1 = g1  g2 = g2  d1 = d1  d2 = d2  d3 = d3  b1 = b1
    stdq = stdq  deadq = deadq  fifoq = fifoq  fdeadq = fdeadq
    None = None  Keep = Keep
    FifoNames = {fifoq, fdeadq}
    QueueNames = {stdq, deadq, fifoq, fdeadq}
    DefaultAttrs <- MCDefaultAttrs
    Clients = {c1, c2}
    CreateRequests <- StandardCreates
    Updates = {}
    Tags = {g1, g2}
    SendInputs <- PlainInputs
    ReceiveOptions <- WaitOptions
    Timeouts = {2}
    DEDUP_WINDOW = 2
    MaxTags = 1
    Operations = {"create", "delete", "tag", "send", "receive"}
    MaxQueues = 2
    MaxMessages = 1
    MaxReceipts = 3
    MaxTime = 3
SPECIFICATION FairSpec
PROPERTY PollReturns
CHECK_DEADLOCK FALSE
