\* Safety: four submissions over two keys and the empty key, two channel
\* slots and two semaphore slots.
CONSTANTS
    j1 = j1
    j2 = j2
    j3 = j3
    j4 = j4
    k1 = k1
    k2 = k2
    NoKey = NoKey
    Jobs <- MCJobs
    KeyOf <- MCKeyOf
    MaxConcurrent = 2
    QueueDepth = 2
SPECIFICATION Spec
INVARIANTS
    DrainedMeansIdle
    IInv
PROPERTY ImplementsService
