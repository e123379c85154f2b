SPECIFICATION FairSpec
CONSTANTS
    MaxStarts = 3
    MaxFaults = 2
INVARIANTS FirstTryRight ConeNotSymmetric
PROPERTY ResultReported
CHECK_DEADLOCK FALSE
