\* One slot with three requests and two workers: redelivery, late replies,
\* restarts of the workers, the broker and the connections. Only the threads of
\* the slots are fair.
CONSTANTS
    s1 = s1
    s2 = s2
    w1 = w1
    w2 = w2
    Slots <- OneSlot
    Workers <- TwoWorkers
    MaxRequests = 3
    None = None
SPECIFICATION FairSpec
INVARIANTS
    OneReplyPerRequest
    RequestConserved
PROPERTIES
    ChannelSpec
    RequestEnds
