-------------------------------- MODULE CEL --------------------------------
(***************************************************************************)
(* The Canonical Event Log of package cel (src/unnamed/part_001) and the   *)
(* fake root of trust it is measured into (register.FakeROT, FakeMRBank,   *)
(* src/ccel/cceventlog_test.go and src/register/fake_mr.go).               *)
(*                                                                         *)
(* Hashes are abstracted by collision freedom: the digest a Content        *)
(* produces under hash h is the pair <<c, h>>, and a measurement register  *)
(* holds the sequence of digests extended into it since it was zeroed, so *)
(* H(old || d) is Append(old, d) and the zero register is <<>>.            *)
(***************************************************************************)
EXTENDS Integers, Sequences, FiniteSets

CONSTANTS
    Hashes,          \* the crypto.Hash values callers name
    ROTHashes,       \* the banks CreateFakeRot(hashes, numIdxs) allocates
    NumIdxs,         \* numIdxs of CreateFakeRot: indices 0..NumIdxs-1
    Contents,        \* the Content values events carry
    MRIndexes,       \* the mrIndex arguments callers pass to AppendEvent
    BankAlgSets,     \* the bankAlgos arguments callers pass to AppendEvent
    LogTypes,        \* the MRType an eventLog may be created with
    ForeignContents, \* contents measured by FakeROT.ExtendMR outside the CEL
    BankSelections,  \* the mrSelection arguments of FakeROT.ReadMRs
    MaxRecs,         \* bound: records in the log
    MaxChain         \* bound: extends of one register

\* MRType constants of the CEL spec (part_001 lines 27-32).
PCRType == 1
CCMRType == 108

\* uint8(mrIndex) keeps the index modulo 2^8.
IndexMod == 256

RegIdx == 0..NumIdxs - 1

ASSUME CELAssumption ==
    /\ ROTHashes \subseteq Hashes
    /\ ROTHashes # {}
    /\ NumIdxs \in Nat \ {0}
    /\ MRIndexes \subseteq Int
    /\ BankAlgSets \subseteq SUBSET Hashes
    /\ LogTypes \subseteq 0..255
    /\ ForeignContents \subseteq Contents
    /\ BankSelections \subseteq SUBSET RegIdx
    /\ MaxRecs \in Nat
    /\ MaxChain \in Nat

VARIABLES
    rot,      \* FakeROT.fakeMRBanks: hash -> index -> register value
    recs,     \* eventLog.Recs
    logType,  \* eventLog.Type
    wire,     \* the buffer last written by EncodeCEL
    wireSrc,  \* the log EncodeCEL encoded into wire (history)
    decoded   \* the last DecodeToCEL: [src |-> log encoded, res |-> log decoded]

vars == <<rot, recs, logType, wire, wireSrc, decoded>>

-----------------------------------------------------------------------------
(* Data.                                                                   *)

Digest(c, h) == <<c, h>>

DigestSet == Contents \X Hashes

DigestMaps == UNION {[S -> DigestSet] : S \in SUBSET Hashes}

Record == [RecNum : Nat, Index : 0..255, IndexType : 0..255,
           Digests : DigestMaps, Content : Contents]

\* A record on the wire: the RecNum TLV, the index TLV <<type, value>>, the
\* digests TLV as its set of inner <<algorithm, digest>> TLVs, the content.
WireRecord == [recnum : Nat, index : (0..255) \X (0..255),
               digests : SUBSET (Hashes \X DigestSet), content : Contents]

Log == [recs : Seq(Record), type : 0..255]

-----------------------------------------------------------------------------
(* Operations of the fake root of trust.                                   *)

\* FakeROT.ExtendMR fails unless the bank and the index exist.
ExtendOK(h, i) == h \in ROTHashes /\ i \in RegIdx

\* Faulty variant: only one of the banks in S is extended.
ExtendBanksFirstOnly(r, S, i, dm) ==
    [h \in ROTHashes |-> IF h \in S /\ h = (CHOOSE x \in S : TRUE)
                         THEN [r[h] EXCEPT ![i] = Append(@, dm[h])]
                         ELSE r[h]]

\* Extend index i of every bank in S with that bank's digest in dm.
ExtendBanks(r, S, i, dm) ==
    [h \in ROTHashes |-> IF h \in S THEN [r[h] EXCEPT ![i] = Append(@, dm[h])]
                                    ELSE r[h]]

\* FakeROT.ReadMRs(hash, mrSelection) as the registers map Replay builds.
ReadMRs(h, sel) == [i \in sel |-> rot[h][i]]

-----------------------------------------------------------------------------
(* Helpers of package cel.                                                 *)

supportedMRType(t) == t \in {PCRType, CCMRType}

generateDigestMap(algs, c) == [h \in algs |-> Digest(c, h)]

\* The digests TLV: one inner TLV per entry of the digest map.
createDigestField(dm) == {<<h, dm[h]>> : h \in DOMAIN dm}

EncodeCELR(r) ==
    [recnum  |-> r.RecNum,
     index   |-> <<r.IndexType, r.Index>>,
     digests |-> createDigestField(r.Digests),
     content |-> r.Content]

EncodeCEL(log) == [k \in 1..Len(log) |-> EncodeCELR(log[k])]

\* unmarshalIndex accepts only the PCR and CCMR index types.
unmarshalIndex(w) == supportedMRType(w.index[1])

unmarshalDigests(ds) == [h \in {d[1] : d \in ds} |-> CHOOSE d \in DigestSet : <<h, d>> \in ds]

\* Faulty variant: the index TLV's type and value read the wrong way round.
decodeToCELRSwapped(w) ==
    [RecNum |-> w.recnum, IndexType |-> w.index[2], Index |-> w.index[1],
     Digests |-> unmarshalDigests(w.digests), Content |-> w.content]

decodeToCELR(w) ==
    [RecNum |-> w.recnum, IndexType |-> w.index[1], Index |-> w.index[2],
     Digests |-> unmarshalDigests(w.digests), Content |-> w.content]

\* DecodeToCEL: records in order; the type check and the Type assignment
\* only happen when there is more than one record.
DecodeToCEL(w) ==
    LET rs == [k \in 1..Len(w) |-> decodeToCELR(w[k])]
    IN  IF \E k \in 1..Len(w) : ~unmarshalIndex(w[k])
        THEN [recs |-> <<>>, type |-> 0]
        ELSE IF Len(rs) > 1
             THEN IF \E k \in 1..Len(rs) : rs[k].IndexType # rs[1].IndexType
                  THEN [recs |-> <<>>, type |-> 0]
                  ELSE [recs |-> rs, type |-> rs[1].IndexType]
             ELSE [recs |-> rs, type |-> 0]

\* Faulty variant: the accumulator is zeroed for every record, not only
\* when its index is first met.
replayExtendNoCarry(acc, r, h) ==
    [i \in DOMAIN acc \cup {r.Index} |->
        IF i = r.Index THEN <<r.Digests[h]>> ELSE acc[i]]

\* One step of the extend loop of Replay: the accumulator of the record's
\* index, created zeroed when the index is first met, extended by its digest.
replayExtend(acc, r, h) ==
    [i \in DOMAIN acc \cup {r.Index} |->
        IF i = r.Index
        THEN Append(IF i \in DOMAIN acc THEN acc[i] ELSE <<>>, r.Digests[h])
        ELSE acc[i]]

\* The extend loop of Replay; a record without the bank's digest stops it.
ReplayFold(log, h) ==
    LET F[k \in 0..Len(log)] ==
          IF k = 0 THEN [err |-> FALSE, acc |-> [i \in {} |-> <<>>]]
          ELSE IF F[k - 1].err \/ h \notin DOMAIN log[k].Digests
               THEN [err |-> TRUE, acc |-> F[k - 1].acc]
               ELSE [err |-> FALSE, acc |-> replayExtend(F[k - 1].acc, log[k], h)]
    IN  F[Len(log)]

\* eventLog.Replay against a bank of hash h given as its registers map.
Replay(log, h, bank) ==
    LET st == ReplayFold(log, h)
        failed == {i \in DOMAIN st.acc : i \in DOMAIN bank /\ bank[i] # st.acc[i]}
    IN  IF st.err THEN [kind |-> "NoDigest", regs |-> {}]
        ELSE IF ~(DOMAIN st.acc \subseteq DOMAIN bank)
             THEN [kind |-> "MissingRegister", regs |-> {}]
             ELSE IF failed = {} THEN [kind |-> "OK", regs |-> {}]
             ELSE [kind |-> "ReplayMismatch", regs |-> failed]

-----------------------------------------------------------------------------
(* Operations.                                                             *)

\* Faulty variant: the record number counts from one.
celRecordFromOne(log, t, mrIndex, dm, event) ==
    [RecNum |-> Len(log) - 1, Index |-> mrIndex % IndexMod, IndexType |-> t,
     Digests |-> dm, Content |-> event]

\* The record AppendEvent appends to log.
celRecord(log, t, mrIndex, dm, event) ==
    [RecNum |-> Len(log), Index |-> mrIndex % IndexMod, IndexType |-> t,
     Digests |-> dm, Content |-> event]

\* eventLog.AppendEvent(event, bankAlgos, mrIndex, fakeRotExtender(rot)).
\* The digest map is ranged over in Go map order and the first failing
\* extend returns, so the banks extended before it are any subset of the
\* banks that can be extended. Early returns change nothing.
AppendEvent(event, bankAlgos, mrIndex) ==
    LET dm == generateDigestMap(bankAlgos, event)
        ok == {h \in bankAlgos : ExtendOK(h, mrIndex)}
    IN  /\ Len(recs) < MaxRecs
        /\ bankAlgos # {}
        /\ mrIndex >= 0
        /\ supportedMRType(logType)
        /\ \A h \in ok : Len(rot[h][mrIndex]) < MaxChain
        /\ \/ /\ ok = bankAlgos
              /\ rot' = ExtendBanks(rot, bankAlgos, mrIndex, dm)
              /\ recs' = Append(recs, celRecord(recs, logType, mrIndex, dm, event))
           \/ /\ ok # bankAlgos
              /\ \E done \in SUBSET ok : rot' = ExtendBanks(rot, done, mrIndex, dm)
              /\ UNCHANGED recs
        /\ UNCHANGED <<logType, wire, wireSrc, decoded>>

\* FakeROT.ExtendMR called directly: a measurement the CEL does not record.
ExtendMR(h, i, c) ==
    /\ Len(rot[h][i]) < MaxChain
    /\ rot' = [rot EXCEPT ![h][i] = Append(@, Digest(c, h))]
    /\ UNCHANGED <<recs, logType, wire, wireSrc, decoded>>

\* eventLog.EncodeCEL into a fresh buffer.
Encode ==
    /\ wire' = EncodeCEL(recs)
    /\ wireSrc' = [recs |-> recs, type |-> logType]
    /\ UNCHANGED <<rot, recs, logType, decoded>>

\* DecodeToCEL on the buffer EncodeCEL last wrote.
Decode ==
    /\ decoded' = [src |-> wireSrc, res |-> DecodeToCEL(wire)]
    /\ UNCHANGED <<rot, recs, logType, wire, wireSrc>>

-----------------------------------------------------------------------------

\* CreateFakeRot zeroes every register; the log is an eventLog{Type: t}.
Init ==
    /\ rot = [h \in ROTHashes |-> [i \in RegIdx |-> <<>>]]
    /\ recs = <<>>
    /\ logType \in LogTypes
    /\ wire = <<>>
    /\ wireSrc = [recs |-> <<>>, type |-> logType]
    /\ decoded = [src |-> wireSrc, res |-> DecodeToCEL(<<>>)]

Next ==
    \/ \E c \in Contents, algs \in BankAlgSets, i \in MRIndexes : AppendEvent(c, algs, i)
    \/ \E h \in ROTHashes, i \in RegIdx, c \in ForeignContents : ExtendMR(h, i, c)
    \/ Encode
    \/ Decode

Spec == Init /\ [][Next]_vars

-----------------------------------------------------------------------------
(* Properties.                                                             *)

\* The callers the lockstep of log and root of trust depends on: every bank
\* they name exists, every index they pass that AppendEvent does not reject
\* is a register of the root of trust that uint8 keeps, and nothing is
\* measured into the root of trust outside the log.
DisciplinedCallers ==
    /\ \A S \in BankAlgSets : S \subseteq ROTHashes
    /\ \A i \in MRIndexes : i >= 0 => i \in RegIdx /\ i < IndexMod
    /\ ForeignContents = {}

TypeOK ==
    /\ rot \in [ROTHashes -> [RegIdx -> Seq(DigestSet)]]
    /\ recs \in Seq(Record)
    /\ logType \in LogTypes
    /\ wire \in Seq(WireRecord)
    /\ wireSrc \in Log
    /\ decoded \in [src : Log, res : Log]

\* The positions of the records of log at index i that carry hash h.
ChainPositions(log, h, i) ==
    {k \in 1..Len(log) : log[k].Index = i /\ h \in DOMAIN log[k].Digests}

\* c is the chain of the digests for hash h of the records of log at index
\* i, in log order: some increasing map from the positions of c onto
\* ChainPositions(log, h, i) picks, for each digest of c, its record.
IsLogChain(log, h, i, c) ==
    \E f \in [1..Len(c) -> ChainPositions(log, h, i)] :
        /\ \A a, b \in 1..Len(c) : a < b => f[a] < f[b]
        /\ \A n \in ChainPositions(log, h, i) : \E a \in 1..Len(c) : f[a] = n
        /\ \A a \in 1..Len(c) : c[a] = log[f[a]].Digests[h]

LogIndexes(log) == {log[k].Index : k \in 1..Len(log)}

\* AppendEvent keeps the CEL and the root of trust in lockstep: every
\* register of every bank holds exactly the chain of the digests the log
\* records for it, in log order.
LogInSync ==
    \A h \in ROTHashes, i \in RegIdx : IsLogChain(recs, h, i, rot[h][i])

\* One step of the log and the root of trust: either neither changes, or
\* the log gains one record, numbered by its position, and the registers
\* extended are exactly the one the record names in the banks it carries,
\* each by the record's digest for it.
LockstepStep ==
    IF recs' = recs THEN rot' = rot
    ELSE LET r == recs'[Len(recs')]
         IN  /\ Len(recs') = Len(recs) + 1
             /\ \A n \in 1..Len(recs) : recs'[n] = recs[n]
             /\ r.RecNum = Len(recs)
             /\ \A h \in ROTHashes, i \in RegIdx :
                   rot'[h][i] = IF r.Index = i /\ h \in DOMAIN r.Digests
                                THEN Append(rot[h][i], r.Digests[h]) ELSE rot[h][i]

\* Every AppendEvent that changes the root of trust logs one record for the
\* change, and a logged record is never rewritten or renumbered.
AppendLockstep == [][LockstepStep]_vars

\* Replay against a bank read from the root of trust accepts the log exactly
\* when every record carries the bank's digest, the bank holds every index
\* the log touches and each such register holds the log's chain; when it
\* rejects for a mismatch it names exactly the registers that differ.
ReplayCorrect ==
    \A h \in ROTHashes, sel \in BankSelections :
        LET res == Replay(recs, h, ReadMRs(h, sel))
            carries == \A k \in 1..Len(recs) : h \in DOMAIN recs[k].Digests
            bad == {i \in LogIndexes(recs) \cap sel : ~IsLogChain(recs, h, i, rot[h][i])}
        IN  /\ (res.kind = "NoDigest") <=> ~carries
            /\ (res.kind = "MissingRegister") <=> (carries /\ ~(LogIndexes(recs) \subseteq sel))
            /\ res.kind = "OK" => bad = {}
            /\ res.kind = "ReplayMismatch" => res.regs = bad /\ bad # {}

\* Decoding the encoding of a log gives a log that replays exactly as the
\* original against every bank of the root of trust.
DecodePreservesReplay ==
    \A h \in ROTHashes, sel \in BankSelections :
        Replay(decoded.res.recs, h, ReadMRs(h, sel)) = Replay(decoded.src.recs, h, ReadMRs(h, sel))

\* DecodeToCEL(EncodeCEL(log)) gives back the log, its MRType included, for
\* every non-empty log (spec section 8, property 7).
RoundTrip ==
    decoded.src.recs # <<>> => decoded.res = decoded.src
=============================================================================
