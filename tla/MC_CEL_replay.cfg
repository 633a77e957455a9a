\* Replay against banks read from a root of trust that is also extended
\* outside the log and by appends that fail half way.
CONSTANTS
    SHA1 = SHA1
    SHA256 = SHA256
    SHA384 = SHA384
    C1 = C1
    C2 = C2
    Hashes <- MCHashes
    ROTHashes <- MCROTHashes
    Contents <- MCContents
    NumIdxs = 2
    MRIndexes <- MCMRIndexes
    BankAlgSets <- MCAnyAlgSets
    LogTypes = {1, 0}
    ForeignContents = {C1}
    BankSelections <- MCSelections
    MaxRecs = 3
    MaxChain = 2
SPECIFICATION Spec
INVARIANT TypeOK
INVARIANT ReplayCorrect
INVARIANT DecodePreservesReplay
