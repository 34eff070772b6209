SPECIFICATION FairSpec
CONSTANTS
    Samples <- MCRos2
    Faults = FALSE
    MaxEvents = 0
    MaxSignals = 1
PROPERTIES
    SignalEndsApp
CHECK_DEADLOCK FALSE
