\* Callers that break the root of trust's discipline: an append may name a
\* bank the root of trust lacks, or register 257 of a 258-register root of
\* trust.
CONSTANTS
    SHA1 = SHA1
    SHA256 = SHA256
    SHA384 = SHA384
    C1 = C1
    C2 = C2
    Hashes <- MCHashes
    ROTHashes <- MCROTHashes
    Contents <- MCContents
    NumIdxs = 258
    MRIndexes <- MCWideIndexes
    BankAlgSets <- MCAnyAlgSets
    LogTypes = {1}
    ForeignContents = {}
    BankSelections <- MCWideSelections
    MaxRecs = 2
    MaxChain = 2
SPECIFICATION Spec
INVARIANT LogInSync
