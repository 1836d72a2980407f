\* All three entrypoints, with batches of up to two.
SPECIFICATION FairSpec
CONSTANTS
    Kind <- AllKinds
    Item = {i1, i2}
INVARIANTS
    TypeOK
    ResourcesOutliveTask
    LoopOutlivesErrors
PROPERTIES
    StopIsObeyed
    
