\* A delivery, its redelivery and a forged one through the whole server.
CONSTANTS
    j1 = j1
    j2 = j2
    j3 = j3
    d1 = d1
    h1 = h1
    pr = pr
    NoKey = NoKey
    NoPull = NoPull
    Jobs <- MCJobs
    KindOf <- MCKindOf
    DeliveryOf <- MCDeliveryOf
    HeadOf <- MCHeadOf
    PullOf <- MCPullOf
    KeyOf <- MCKeyOf
    MaxConcurrent = 1
    QueueDepth = 1
SPECIFICATION AppFairSpec
INVARIANTS
    PoolOutlivesRequests
    GracefulExit
PROPERTIES
    ScansConclude
    SignalEnds
