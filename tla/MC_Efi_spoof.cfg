\* EfiState and EfiDriverState over every log of at most 4 events, with the
\* register indices of TPMRegisterConfig (PCR4, PCR5, PCR2).
CONSTANTS
    Events <- MCEvents
    MaxEvents = 4
    EFIAppIdx = 4
    ExitBootServicesIdx = 5
    FirmwareDriverIdx = 2
SPECIFICATION Spec
\* EfiState returns: the loops stop.
CHECK_DEADLOCK FALSE
INVARIANT SeparatorSpoofRejected
