----------------------------- MODULE CEL_proofs -----------------------------
(***************************************************************************)
(* Proofs about the CEL module, for every value of its constants.          *)
(***************************************************************************)
EXTENDS CEL, TLAPS

\* A digest map generateDigestMap builds is a map of the Record type.
LEMMA DigestMapType ==
    ASSUME NEW S \in SUBSET Hashes, NEW c \in Contents
    PROVE  generateDigestMap(S, c) \in DigestMaps
<1>1. generateDigestMap(S, c) \in [S -> DigestSet]
    BY DEF generateDigestMap, Digest, DigestSet
<1>. QED  BY <1>1 DEF DigestMaps

\* The record AppendEvent appends is a Record.
LEMMA CelRecordType ==
    ASSUME NEW log \in Seq(Record), NEW t \in 0..255, NEW i \in Int,
           NEW dm \in DigestMaps, NEW c \in Contents
    PROVE  celRecord(log, t, i, dm, c) \in Record
<1>1. i % IndexMod \in 0..255
    BY DEF IndexMod
<1>. QED  BY <1>1 DEF celRecord, Record

\* Extending some banks of a well-typed root of trust keeps it well typed.
LEMMA ExtendBanksType ==
    ASSUME NEW r \in [ROTHashes -> [RegIdx -> Seq(DigestSet)]],
           NEW S \in SUBSET ROTHashes, NEW i, S # {} => i \in RegIdx,
           NEW dm, \A h \in S : dm[h] \in DigestSet
    PROVE  ExtendBanks(r, S, i, dm) \in [ROTHashes -> [RegIdx -> Seq(DigestSet)]]
BY DEF ExtendBanks

\* EncodeCEL writes a sequence of well-formed wire records.
LEMMA EncodeType ==
    ASSUME NEW log \in Seq(Record)
    PROVE  EncodeCEL(log) \in Seq(WireRecord)
<1>1. ASSUME NEW r \in Record
      PROVE  EncodeCELR(r) \in WireRecord
    <2>1. PICK S \in SUBSET Hashes : r.Digests \in [S -> DigestSet]
        BY DEF Record, DigestMaps
    <2>2. createDigestField(r.Digests) \in SUBSET (Hashes \X DigestSet)
        BY <2>1 DEF createDigestField
    <2>. QED  BY <2>2 DEF EncodeCELR, WireRecord, Record
<1>. QED  BY <1>1 DEF EncodeCEL

\* DecodeToCEL of a well-formed buffer is a log of well-formed records.
LEMMA DecodeType ==
    ASSUME NEW w \in Seq(WireRecord)
    PROVE  DecodeToCEL(w) \in Log
<1>1. ASSUME NEW x \in WireRecord
      PROVE  decodeToCELR(x) \in Record
    <2>1. ASSUME NEW h \in {d[1] : d \in x.digests}
          PROVE  (CHOOSE d \in DigestSet : <<h, d>> \in x.digests) \in DigestSet
        <3>1. \E d \in DigestSet : <<h, d>> \in x.digests
            BY DEF WireRecord
        <3>. QED  BY <3>1
    <2>2. unmarshalDigests(x.digests) \in DigestMaps
        <3>1. {d[1] : d \in x.digests} \in SUBSET Hashes
            BY DEF WireRecord
        <3>2. unmarshalDigests(x.digests) \in [{d[1] : d \in x.digests} -> DigestSet]
            BY <2>1 DEF unmarshalDigests
        <3>. QED  BY <3>1, <3>2 DEF DigestMaps
    <2>3. x.recnum \in Nat /\ x.index[1] \in 0..255 /\ x.index[2] \in 0..255
          /\ x.content \in Contents
        BY DEF WireRecord
    <2>. QED  BY <2>2, <2>3 DEF decodeToCELR, Record
<1>. DEFINE rs == [k \in 1..Len(w) |-> decodeToCELR(w[k])]
<1>2. rs \in Seq(Record)
    BY <1>1
<1>3. Len(rs) > 1 => rs[1].IndexType \in 0..255
    BY <1>2 DEF Record
<1>4. <<>> \in Seq(Record)
    OBVIOUS
<1>5. [recs |-> <<>>, type |-> 0] \in Log
    BY <1>4 DEF Log
<1>6. [recs |-> rs, type |-> 0] \in Log
    BY <1>2 DEF Log
<1>7. Len(rs) > 1 => [recs |-> rs, type |-> rs[1].IndexType] \in Log
    BY <1>2, <1>3 DEF Log
<1>. QED  BY <1>5, <1>6, <1>7 DEF DecodeToCEL

\* The empty buffer decodes to the empty log of type 0.
LEMMA DecodeEmpty == DecodeToCEL(<<>>) \in Log
<1>1. <<>> \in Seq(WireRecord)
    OBVIOUS
<1>. QED  BY <1>1, DecodeType

-----------------------------------------------------------------------------

LEMMA InitTypeOK == Init => TypeOK
<1> SUFFICES ASSUME Init PROVE TypeOK
    OBVIOUS
<1>1. logType \in 0..255
    BY CELAssumption DEF Init
<1>2. wireSrc \in Log
    BY <1>1 DEF Init, Log
<1>. QED  BY <1>2, DecodeEmpty DEF Init, TypeOK

LEMMA NextTypeOK == TypeOK /\ [Next]_vars => TypeOK'
<1> SUFFICES ASSUME TypeOK, [Next]_vars PROVE TypeOK'
    OBVIOUS
<1> USE CELAssumption
<1>1. ASSUME NEW c \in Contents, NEW algs \in BankAlgSets, NEW i \in MRIndexes,
             AppendEvent(c, algs, i)
      PROVE  TypeOK'
    <2>. DEFINE dm == generateDigestMap(algs, c)
                ok == {h \in algs : ExtendOK(h, i)}
    <2>1. ok \in SUBSET ROTHashes /\ \A h \in ok : i \in RegIdx
        BY DEF ExtendOK
    <2>2. dm \in [algs -> DigestSet]
        BY DEF generateDigestMap, Digest, DigestSet
    <2>3. rot' \in [ROTHashes -> [RegIdx -> Seq(DigestSet)]]
        <3>1. PICK done \in SUBSET ok : rot' = ExtendBanks(rot, done, i, dm)
            <4>1. CASE ok = algs
                BY <1>1, <4>1 DEF AppendEvent
            <4>2. CASE ok # algs
                BY <1>1, <4>2 DEF AppendEvent
            <4>. QED  BY <4>1, <4>2
        <3>2. done # {} => i \in RegIdx
            BY <2>1
        <3>3. \A h \in done : dm[h] \in DigestSet
            BY <2>2
        <3>. QED  BY <2>1, <3>1, <3>2, <3>3, ExtendBanksType DEF TypeOK
    <2>4. recs' \in Seq(Record)
        <3>1. algs \in SUBSET Hashes
            OBVIOUS
        <3>2. dm \in DigestMaps
            BY <3>1, DigestMapType
        <3>3. logType \in 0..255
            BY DEF TypeOK
        <3>4. celRecord(recs, logType, i, dm, c) \in Record
            BY <3>2, <3>3, CelRecordType DEF TypeOK
        <3>5. CASE ok = algs
            <4>1. recs' = Append(recs, celRecord(recs, logType, i, dm, c))
                BY <1>1, <3>5 DEF AppendEvent
            <4>. QED  BY <3>4, <4>1 DEF TypeOK
        <3>6. CASE ok # algs
            BY <1>1, <3>6 DEF AppendEvent, TypeOK
        <3>. QED  BY <3>5, <3>6
    <2>5. UNCHANGED <<logType, wire, wireSrc, decoded>>
        BY <1>1 DEF AppendEvent
    <2>. QED  BY <2>3, <2>4, <2>5 DEF TypeOK
<1>2. ASSUME NEW h \in ROTHashes, NEW i \in RegIdx, NEW c \in ForeignContents,
             ExtendMR(h, i, c)
      PROVE  TypeOK'
    BY <1>2 DEF ExtendMR, TypeOK, Digest, DigestSet
<1>3. CASE Encode
    <2>1. wire' \in Seq(WireRecord)
        BY <1>3, EncodeType DEF Encode, TypeOK
    <2>2. wireSrc' \in Log
        BY <1>3 DEF Encode, TypeOK, Log
    <2>. QED  BY <1>3, <2>1, <2>2 DEF Encode, TypeOK
<1>4. CASE Decode
    BY <1>4, DecodeType DEF Decode, TypeOK
<1>5. CASE UNCHANGED vars
    BY <1>5 DEF vars, TypeOK
<1>. QED  BY <1>1, <1>2, <1>3, <1>4, <1>5 DEF Next

\* The type invariant holds in every reachable state of the CEL and the
\* root of trust, whatever appends, foreign extends, encodes and decodes
\* happen, and for every value of the constants.
THEOREM TypeCorrect == Spec => []TypeOK
BY InitTypeOK, NextTypeOK, PTL DEF Spec

-----------------------------------------------------------------------------
(* The lockstep of log and root of trust.                                  *)

\* The empty register is the chain of every index of the empty log.
LEMMA ChainEmpty ==
    ASSUME NEW h, NEW i
    PROVE  IsLogChain(<<>>, h, i, <<>>)
<1>1. ChainPositions(<<>>, h, i) = {}
    BY DEF ChainPositions
<1>2. [a \in {} |-> 0] \in [1..Len(<<>>) -> ChainPositions(<<>>, h, i)]
    BY <1>1
<1>. QED  BY <1>1, <1>2 DEF IsLogChain

\* Appending a record r to log appends r's digest for h to the chain of
\* index i when r is at index i and carries h, and leaves the chain
\* alone otherwise.
LEMMA ChainAppend ==
    ASSUME NEW log \in Seq(Record), NEW r \in Record, NEW h, NEW i,
           NEW c \in Seq(DigestSet), IsLogChain(log, h, i, c)
    PROVE  IsLogChain(Append(log, r), h, i,
                      IF r.Index = i /\ h \in DOMAIN r.Digests
                      THEN Append(c, r.Digests[h]) ELSE c)
<1>. DEFINE L == Append(log, r)
            n0 == Len(log) + 1
            CP == ChainPositions(log, h, i)
            CL == ChainPositions(L, h, i)
<1>1. PICK f \in [1..Len(c) -> CP] :
         /\ \A a, b \in 1..Len(c) : a < b => f[a] < f[b]
         /\ \A n \in CP : \E a \in 1..Len(c) : f[a] = n
         /\ \A a \in 1..Len(c) : c[a] = log[f[a]].Digests[h]
    BY DEF IsLogChain
<1>2. CP \subseteq 1..Len(log) /\ \A n \in 1..Len(log) : L[n] = log[n]
    BY DEF ChainPositions
<1>3. CASE r.Index = i /\ h \in DOMAIN r.Digests
  <2>. DEFINE c2 == Append(c, r.Digests[h])
              f2 == [a \in 1..Len(c2) |-> IF a <= Len(c) THEN f[a] ELSE n0]
  <2>1. CL = CP \cup {n0}
    BY <1>2, <1>3 DEF ChainPositions
  <2>2. f2 \in [1..Len(c2) -> CL]
    BY <1>1, <2>1
  <2>3. \A a, b \in 1..Len(c2) : a < b => f2[a] < f2[b]
    BY <1>1, <1>2
  <2>4. \A n \in CL : \E a \in 1..Len(c2) : f2[a] = n
    BY <1>1, <2>1
  <2>5. \A a \in 1..Len(c2) : c2[a] = L[f2[a]].Digests[h]
    BY <1>1, <1>2
  <2>6. \E g \in [1..Len(c2) -> CL] :
           /\ \A a, b \in 1..Len(c2) : a < b => g[a] < g[b]
           /\ \A n \in CL : \E a \in 1..Len(c2) : g[a] = n
           /\ \A a \in 1..Len(c2) : c2[a] = L[g[a]].Digests[h]
    BY <2>2, <2>3, <2>4, <2>5
  <2>7. IsLogChain(L, h, i, c2)
    BY <2>6 DEF IsLogChain, CL
  <2>. QED  BY <1>3, <2>7
<1>4. CASE ~(r.Index = i /\ h \in DOMAIN r.Digests)
  <2>1. CL = CP
    BY <1>2, <1>4 DEF ChainPositions
  <2>2. \A a \in 1..Len(c) : c[a] = L[f[a]].Digests[h]
    BY <1>1, <1>2
  <2>3. \E g \in [1..Len(c) -> CL] :
           /\ \A a, b \in 1..Len(c) : a < b => g[a] < g[b]
           /\ \A n \in CL : \E a \in 1..Len(c) : g[a] = n
           /\ \A a \in 1..Len(c) : c[a] = L[g[a]].Digests[h]
    BY <1>1, <2>1, <2>2
  <2>4. IsLogChain(L, h, i, c)
    BY <2>3 DEF IsLogChain, CL
  <2>. QED  BY <1>4, <2>4
<1>. QED  BY <1>3, <1>4

\* With disciplined callers an AppendEvent never fails half way: it extends
\* register j of every bank it names and appends the record naming them.
LEMMA DisciplinedAppend ==
    ASSUME DisciplinedCallers, TypeOK,
           NEW c \in Contents, NEW algs \in BankAlgSets, NEW j \in MRIndexes,
           AppendEvent(c, algs, j)
    PROVE  LET dm == generateDigestMap(algs, c)
               rec == celRecord(recs, logType, j, dm, c)
           IN  /\ algs \subseteq ROTHashes /\ j \in RegIdx
               /\ rot' = ExtendBanks(rot, algs, j, dm) /\ recs' = Append(recs, rec)
               /\ rec.Index = j /\ DOMAIN rec.Digests = algs
               /\ \A h \in algs : rec.Digests[h] = dm[h]
               /\ rec.RecNum = Len(recs)
               /\ rec \in Record
<1> USE CELAssumption
<1>. DEFINE dm == generateDigestMap(algs, c)
            rec == celRecord(recs, logType, j, dm, c)
<1>1. algs \subseteq ROTHashes /\ j \in RegIdx /\ j \in 0..IndexMod - 1
    <2>1. j >= 0
        BY DEF AppendEvent
    <2>. QED  BY <2>1 DEF DisciplinedCallers, IndexMod, RegIdx
<1>2. rot' = ExtendBanks(rot, algs, j, dm) /\ recs' = Append(recs, rec)
    <2>1. {h \in algs : ExtendOK(h, j)} = algs
        BY <1>1 DEF ExtendOK
    <2>. QED  BY <2>1 DEF AppendEvent
<1>3. rec.Index = j /\ DOMAIN rec.Digests = algs /\ \A h \in algs : rec.Digests[h] = dm[h]
    <2>1. j % IndexMod = j
        BY <1>1 DEF IndexMod
    <2>. QED  BY <2>1 DEF celRecord, generateDigestMap
<1>4. rec \in Record
    <2>1. dm \in DigestMaps
        BY DigestMapType
    <2>. QED  BY <2>1, CelRecordType DEF TypeOK
<1>5. rec.RecNum = Len(recs)
    BY DEF celRecord
<1>. QED  BY <1>1, <1>2, <1>3, <1>4, <1>5

LEMMA InitSync == Init => LogInSync
BY ChainEmpty DEF Init, LogInSync

\* With disciplined callers every append extends exactly the banks its record
\* carries, at the register its record names, and nothing else extends.
LEMMA NextSync ==
    ASSUME DisciplinedCallers
    PROVE  TypeOK /\ LogInSync /\ [Next]_vars => LogInSync'
<1> SUFFICES ASSUME TypeOK, LogInSync, [Next]_vars PROVE LogInSync'
    OBVIOUS
<1> USE CELAssumption
<1>1. ASSUME NEW c \in Contents, NEW algs \in BankAlgSets, NEW j \in MRIndexes,
             AppendEvent(c, algs, j)
      PROVE  LogInSync'
    <2>. DEFINE dm == generateDigestMap(algs, c)
                rec == celRecord(recs, logType, j, dm, c)
    <2>1. /\ algs \subseteq ROTHashes /\ j \in RegIdx
          /\ rot' = ExtendBanks(rot, algs, j, dm) /\ recs' = Append(recs, rec)
          /\ rec.Index = j /\ DOMAIN rec.Digests = algs
          /\ \A h \in algs : rec.Digests[h] = dm[h]
          /\ rec \in Record
        BY <1>1, DisciplinedAppend
    <2>2. ASSUME NEW h \in ROTHashes, NEW i \in RegIdx
          PROVE  IsLogChain(recs', h, i, rot'[h][i])
        <3>1. rot'[h][i] = IF rec.Index = i /\ h \in DOMAIN rec.Digests
                           THEN Append(rot[h][i], rec.Digests[h]) ELSE rot[h][i]
            BY <2>1 DEF ExtendBanks, TypeOK
        <3>2. rot[h][i] \in Seq(DigestSet) /\ IsLogChain(recs, h, i, rot[h][i])
            BY DEF TypeOK, LogInSync
        <3>. QED  BY <2>1, <3>1, <3>2, ChainAppend DEF TypeOK
    <2>. QED  BY <2>2 DEF LogInSync
<1>2. ASSUME NEW h \in ROTHashes, NEW i \in RegIdx, NEW c \in ForeignContents,
             ExtendMR(h, i, c)
      PROVE  LogInSync'
    BY DEF DisciplinedCallers
<1>3. CASE Encode \/ Decode \/ UNCHANGED vars
    <2>1. rot' = rot /\ recs' = recs
        BY <1>3 DEF Encode, Decode, vars
    <2>. QED  BY <2>1 DEF LogInSync
<1>. QED  BY <1>1, <1>2, <1>3 DEF Next

\* With callers that name only the banks and the registers the root of trust
\* has, and nothing measured outside the log, every register of every bank
\* holds exactly the chain of the digests the log records for it, in log
\* order (eventLog.AppendEvent, src/unnamed/part_001, over FakeROT).
THEOREM LogInSyncThm ==
    ASSUME DisciplinedCallers
    PROVE  Spec => []LogInSync
<1>1. Init => TypeOK /\ LogInSync
    BY InitTypeOK, InitSync
<1>2. TypeOK /\ LogInSync /\ [Next]_vars => (TypeOK /\ LogInSync)'
    BY NextTypeOK, NextSync
<1>. QED  BY <1>1, <1>2, PTL DEF Spec

\* With disciplined callers every step is a lockstep step or a stutter.
LEMMA NextLockstep ==
    ASSUME DisciplinedCallers
    PROVE  TypeOK /\ [Next]_vars => [LockstepStep]_vars
<1> SUFFICES ASSUME TypeOK, [Next]_vars PROVE [LockstepStep]_vars
    OBVIOUS
<1> USE CELAssumption
<1>1. ASSUME NEW c \in Contents, NEW algs \in BankAlgSets, NEW j \in MRIndexes,
             AppendEvent(c, algs, j)
      PROVE  LockstepStep
    <2>. DEFINE dm == generateDigestMap(algs, c)
                rec == celRecord(recs, logType, j, dm, c)
    <2>1. /\ algs \subseteq ROTHashes /\ j \in RegIdx
          /\ rot' = ExtendBanks(rot, algs, j, dm) /\ recs' = Append(recs, rec)
          /\ rec.Index = j /\ DOMAIN rec.Digests = algs
          /\ \A h \in algs : rec.Digests[h] = dm[h]
          /\ rec.RecNum = Len(recs)
        BY <1>1, DisciplinedAppend
    <2>2. recs \in Seq(Record)
        BY DEF TypeOK
    <2>3. recs' # recs /\ Len(recs') = Len(recs) + 1 /\ recs'[Len(recs')] = rec
          /\ \A n \in 1..Len(recs) : recs'[n] = recs[n]
        BY <2>1, <2>2
    <2>4. \A h \in ROTHashes, i \in RegIdx :
             rot'[h][i] = IF rec.Index = i /\ h \in DOMAIN rec.Digests
                          THEN Append(rot[h][i], rec.Digests[h]) ELSE rot[h][i]
        BY <2>1 DEF ExtendBanks, TypeOK
    <2>. QED  BY <2>1, <2>3, <2>4 DEF LockstepStep
<1>2. ASSUME NEW h \in ROTHashes, NEW i \in RegIdx, NEW c \in ForeignContents,
             ExtendMR(h, i, c)
      PROVE  LockstepStep
    BY DEF DisciplinedCallers
<1>3. CASE Encode \/ Decode
    <2>1. rot' = rot /\ recs' = recs
        BY <1>3 DEF Encode, Decode
    <2>. QED  BY <2>1 DEF LockstepStep
<1>4. CASE UNCHANGED vars
    BY <1>4
<1>. QED  BY <1>1, <1>2, <1>3, <1>4 DEF Next

\* With disciplined callers, every step of AppendEvent that extends the
\* root of trust appends exactly one record, numbered by its position,
\* whose index and digests name exactly the registers extended and what
\* they were extended with; no logged record is ever rewritten.
THEOREM AppendLockstepThm ==
    ASSUME DisciplinedCallers
    PROVE  Spec => AppendLockstep
<1>1. TypeOK /\ [Next]_vars => [LockstepStep]_vars
    BY NextLockstep
<1>. QED  BY <1>1, TypeCorrect, PTL DEF AppendLockstep, Spec
=============================================================================
