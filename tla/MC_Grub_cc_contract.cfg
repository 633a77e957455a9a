\* GrubStateFromRTMRLog against the contract of spec 4.E.4, over every CC
\* log of at most 4 events.
CONSTANTS
    Events <- MCEvents
    MaxEvents = 4
    LogKind = "CC"
SPECIFICATION Spec
CHECK_DEADLOCK FALSE
PROPERTY Refinement
