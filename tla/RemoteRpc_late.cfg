\* A reply that comes after the timeout of its request.
CONSTANTS
    s1 = s1
    s2 = s2
    w1 = w1
    w2 = w2
    Slots <- OneSlot
    Workers <- OneWorker
    MaxRequests = 3
    None = None
SPECIFICATION Spec
INVARIANT ReplyIsOwn
