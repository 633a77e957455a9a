\* Every version string of at most 6 bytes of 'G', '+', '-', '0', '1' and
\* NUL: the prefix stand-in and up to two UCS-2 characters.
CONSTANTS
    UintWidth = 16
    VersionBytes = {0, 43, 45, 48, 49, 71}
    MaxVersionLen = 6
SPECIFICATION Spec
INVARIANT VersionParseCanonical
