SPECIFICATION FairSpec
CONSTANTS
    ConsumerContexts = {x1, x2, x3, x4, x5}
    Concurrency = 2
    MaxFailures = 3
    NoConsumerContext = NoConsumerContext
INVARIANTS
    ControllerIInv
    AtMostConcurrency
    AtMostOneEscapes
PROPERTIES
    ClosedContextLeaves
    ConsumersRunAgain
CHECK_DEADLOCK FALSE
