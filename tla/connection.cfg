SPECIFICATION FairSpec
CONSTANTS
    Producers = {1, 2}
    Volatile <- mcVolatile
    MaxSends = 4
    ProducerOf <- mcProducerOf
    Size <- mcSize
    MaxInFlight = 2
    Limits <- mcLimits
    ChannelCap = 2
    High = 2
    Low = 1
    MaxDelivered = 2
    MaxTicks = 1
    MaxFaults = 1
INVARIANT EachSendAnsweredOnce
 
INVARIANT WriteQueueNeverWaits
PROPERTY ReadingResumes
PROPERTY DeadPeerFoundOut
CHECK_DEADLOCK FALSE
