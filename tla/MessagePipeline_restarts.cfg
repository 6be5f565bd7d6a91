SPECIFICATION FairSpec
CONSTANTS
    order = order
    chat1 = chat1
    chat2 = chat2
    beat = beat
    Messages = {order, chat1, chat2, beat}
    Unidentified = {beat}
    PriorityOf <- MCPriority
    MaxQueue = 2
    MaxSeen = 2
    TTL = 1
    Workers = {w1, w2}
    WorkerCount = 2
    Callers = {c1}
    NoMessage = NoMessage
INVARIANTS UnfinishedCounts StopShutsDown
PROPERTIES RepeatNeedsReason StopEnds JoinEnds
