\* EfiState and EfiDriverState over every log of at most 5 events, with the
\* register indices of RTMRRegisterConfig (CC indices 2, 2, 1).
CONSTANTS
    Events <- MCEvents
    MaxEvents = 5
    EFIAppIdx = 2
    ExitBootServicesIdx = 2
    FirmwareDriverIdx = 1
SPECIFICATION Spec
\* EfiState returns: the loops stop.
CHECK_DEADLOCK FALSE
INVARIANT EfiResultCorrect
