\* PlatformState over every log of at most 4 events.
CONSTANTS
    Events <- MCAllEvents
    MaxEvents = 4
    UintWidth = 16
SPECIFICATION Spec
\* PlatformState returns: the loop stops.
CHECK_DEADLOCK FALSE
INVARIANT TypeOK
INVARIANT PlatformStateCorrect
INVARIANT VersionRoundTrip
