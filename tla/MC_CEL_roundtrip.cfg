\* Encode then decode a log built by AppendEvent.
CONSTANTS
    SHA1 = SHA1
    SHA256 = SHA256
    SHA384 = SHA384
    C1 = C1
    C2 = C2
    Hashes <- MCHashes
    ROTHashes <- MCROTHashes
    Contents <- MCContents
    NumIdxs = 2
    MRIndexes <- MCInRangeIndexes
    BankAlgSets <- MCDisciplinedAlgSets
    LogTypes = {1, 108}
    ForeignContents = {}
    BankSelections <- MCSelections
    MaxRecs = 2
    MaxChain = 2
SPECIFICATION Spec
INVARIANT RoundTrip
