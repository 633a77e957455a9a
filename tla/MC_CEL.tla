------------------------------- MODULE MC_CEL -------------------------------
(* Small instances of CEL for TLC: three hash algorithms of which the fake *)
(* root of trust allocates two, two contents, and mrIndex arguments that   *)
(* include the rejected -1 and, in one run, 257 = 1 (mod 2^8).             *)
EXTENDS CEL

CONSTANTS SHA1, SHA256, SHA384, C1, C2

MCHashes == {SHA1, SHA256, SHA384}
MCROTHashes == {SHA1, SHA256}
MCContents == {C1, C2}

\* Callers that only name banks the root of trust has.
MCDisciplinedAlgSets == {{SHA1}, {SHA1, SHA256}}
\* Callers that may also name a bank the root of trust lacks.
MCAnyAlgSets == {{}, {SHA256}, {SHA1, SHA256}, {SHA1, SHA384}}

MCMRIndexes == {-1, 0, 1, 2}
MCSelections == {{0, 1}, {0}}
MCWideSelections == {{1, 257}}
MCInRangeIndexes == {-1, 0, 1}
MCWideIndexes == {1, 257}
=============================================================================
