\* Callers that name only banks the root of trust has and indices it has,
\* with no measurement outside the log: the log stays in lockstep.
CONSTANTS
    SHA1 = SHA1
    SHA256 = SHA256
    SHA384 = SHA384
    C1 = C1
    C2 = C2
    Hashes <- MCHashes
    ROTHashes <- MCROTHashes
    Contents <- MCContents
    NumIdxs = 2
    MRIndexes <- MCInRangeIndexes
    BankAlgSets <- MCDisciplinedAlgSets
    LogTypes = {0, 1, 108}
    ForeignContents = {}
    BankSelections <- MCSelections
    MaxRecs = 3
    MaxChain = 3
SPECIFICATION Spec
INVARIANT LogInSync
PROPERTY AppendLockstep
