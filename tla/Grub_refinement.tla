--------------------------- MODULE Grub_refinement ---------------------------
(***************************************************************************)
(* The GRUB extraction of a TPM log implements the safety part of its      *)
(* contract GrubAbstract: every step of the loop and of the kernel call is *)
(* a step of the contract or leaves the contract's state alone.            *)
(***************************************************************************)
EXTENDS Grub_proofs, FiniteSetTheorems

\* The positions before k of the commands and of the files the GRUB state
\* accounts for.
CmdsSoFar == Abs!CmdPositions(log, k)
FilesSoFar == Abs!FilePositions(log, k)

\* GrubStateFromTPMLog's loop: no event before k made it fail, and its
\* lists are those of the measured events before k, in log order.
LoopInv ==
    pc = "grub" =>
        /\ \A n \in 1..k - 1 : Abs!Measured(log[n]) => Abs!Acceptable(log[n])
        /\ g.commands = Abs!CommandsAt(log, CmdsSoFar)
        /\ g.files = Abs!FilesAt(log, FilesSoFar)

\* Once the loop is over, the GRUB state is the one the log determines.
OutcomeInv == pc # "grub" => GrubOutcome = Abs!GrubOf(log)

\* The kernel state is computed only by the kernel call.
KernelInv == pc # "done" => kernel = KernelPending

\* The inductive invariant behind the refinement.
RInv == TypeOK /\ LoopInv /\ OutcomeInv /\ KernelInv
-----------------------------------------------------------------------------
(* The a-th position of a set of positions.                                *)

\* Cardinality seen through the instance of GrubAbstract is Cardinality.
LEMMA AbsCardinality ==
    ASSUME NEW S
    PROVE  Abs!Cardinality(S) = Cardinality(S)
BY DEF Abs!Cardinality, Cardinality

\* Adding a position m after all of P keeps the first Cardinality(P)
\* positions and makes m the next one.
LEMMA NthAppend ==
    ASSUME NEW P \in SUBSET Nat, IsFiniteSet(P), NEW m \in Nat, \A p \in P : p < m
    PROVE  /\ IsFiniteSet(P \cup {m})
           /\ Cardinality(P \cup {m}) = Cardinality(P) + 1
           /\ Cardinality(P) \in Nat
           /\ \A a \in 1..Cardinality(P) : Abs!Nth(P \cup {m}, a) = Abs!Nth(P, a)
           /\ Abs!Nth(P \cup {m}, Cardinality(P) + 1) = m
<1>. DEFINE Q == P \cup {m}
            c == Cardinality(P)
            Below(S, p) == {q \in S : q <= p}
<1>1. m \notin P
    OBVIOUS
<1>2. IsFiniteSet(Q) /\ Cardinality(Q) = c + 1 /\ c \in Nat
    BY <1>1, FS_AddElement, FS_CardinalityType DEF Q, c
<1>3. \A p \in P : Below(Q, p) = Below(P, p)
    BY DEF Q, Below
<1>4. \A p \in P : Abs!Rank(Q, p) = Abs!Rank(P, p)
    BY <1>3, AbsCardinality DEF Abs!Rank, Below
<1>5. \A p \in P : Abs!Rank(P, p) \in 1..c
    <2> SUFFICES ASSUME NEW p \in P PROVE Abs!Rank(P, p) \in 1..c
        OBVIOUS
    <2>1. Below(P, p) \subseteq P /\ p \in Below(P, p)
        BY DEF Below
    <2>2. IsFiniteSet(Below(P, p)) /\ Cardinality(Below(P, p)) <= c
        BY <2>1, FS_Subset DEF c
    <2>3. Cardinality(Below(P, p)) # 0
        BY <2>1, <2>2, FS_EmptySet
    <2>4. Cardinality(Below(P, p)) \in Nat
        BY <2>2, FS_CardinalityType
    <2>. QED  BY <2>2, <2>3, <2>4, <1>2, AbsCardinality DEF Abs!Rank, Below
<1>6. Abs!Rank(Q, m) = c + 1
    <2>0. \A q \in Q : q <= m
        BY DEF Q
    <2>1. {q \in Q : q <= m} = Q
        BY <2>0, Zenon
    <2>. QED  BY <1>2, <2>1, AbsCardinality DEF Abs!Rank
<1>7. ASSUME NEW a \in 1..c
      PROVE  Abs!Nth(Q, a) = Abs!Nth(P, a)
    <2>1. Abs!Rank(Q, m) # a
        BY <1>2, <1>6
    <2>2. \A p : p \in Q /\ Abs!Rank(Q, p) = a <=> p \in P /\ Abs!Rank(P, p) = a
        BY <1>4, <2>1 DEF Q
    <2>. QED  BY <2>2, Zenon DEF Abs!Nth
<1>8. Abs!Nth(Q, c + 1) = m
    <2>1. \A p \in P : Abs!Rank(Q, p) # c + 1
        BY <1>2, <1>4, <1>5
    <2>2. \A p : p \in Q /\ Abs!Rank(Q, p) = c + 1 <=> p = m
        BY <1>6, <2>1 DEF Q
    <2>. QED  BY <2>2, Zenon DEF Abs!Nth
<1>. QED  BY <1>2, <1>7, <1>8 DEF Q, c
\* The commands and files at P, with a position m after all of P added,
\* are those at P with the event at m appended.
LEMMA ListsAppend ==
    ASSUME NEW s, NEW P \in SUBSET Nat, IsFiniteSet(P), NEW m \in Nat, \A p \in P : p < m
    PROVE  /\ Abs!CommandsAt(s, P \cup {m}) = Append(Abs!CommandsAt(s, P), s[m].data)
           /\ Abs!FilesAt(s, P \cup {m})
                = Append(Abs!FilesAt(s, P), [digest |-> s[m].digest, name |-> s[m].data])
<1>. DEFINE c == Cardinality(P)
            Q == P \cup {m}
            F(a) == [digest |-> s[Abs!Nth(P, a)].digest, name |-> s[Abs!Nth(P, a)].data]
            G(a) == [digest |-> s[Abs!Nth(Q, a)].digest, name |-> s[Abs!Nth(Q, a)].data]
<1>1. /\ Cardinality(Q) = c + 1 /\ c \in Nat
      /\ \A a \in 1..c : Abs!Nth(Q, a) = Abs!Nth(P, a)
      /\ Abs!Nth(Q, c + 1) = m
    BY NthAppend DEF c, Q
<1>2. /\ Abs!CommandsAt(s, P) = [a \in 1..c |-> s[Abs!Nth(P, a)].data]
      /\ Abs!CommandsAt(s, Q) = [a \in 1..c + 1 |-> s[Abs!Nth(Q, a)].data]
      /\ Abs!FilesAt(s, P) = [a \in 1..c |-> F(a)]
      /\ Abs!FilesAt(s, Q) = [a \in 1..c + 1 |-> G(a)]
    BY <1>1, AbsCardinality DEF Abs!CommandsAt, Abs!FilesAt, c, Q, F, G
<1>3. Append(Abs!CommandsAt(s, P), s[m].data)
        = [a \in 1..c + 1 |-> IF a <= c THEN s[Abs!Nth(P, a)].data ELSE s[m].data]
    <2>. DEFINE S == {s[Abs!Nth(P, a)].data : a \in 1..c}
    <2>1. \A a \in 1..c : s[Abs!Nth(P, a)].data \in S
        BY DEF S
    <2>3. [a \in 1..c |-> s[Abs!Nth(P, a)].data] \in [1..c -> S]
        BY <2>1
    <2>2. [a \in 1..c |-> s[Abs!Nth(P, a)].data] \in Seq(S)
        BY <1>1, <2>3
    <2>. QED  BY <1>1, <1>2, <2>2
<1>4. Append(Abs!FilesAt(s, P), [digest |-> s[m].digest, name |-> s[m].data])
        = [a \in 1..c + 1 |-> IF a <= c THEN F(a) ELSE [digest |-> s[m].digest, name |-> s[m].data]]
    <2>. DEFINE S == {F(a) : a \in 1..c}
    <2>1. \A a \in 1..c : F(a) \in S
        BY DEF S
    <2>3. [a \in 1..c |-> F(a)] \in [1..c -> S]
        BY <2>1
    <2>2. [a \in 1..c |-> F(a)] \in Seq(S)
        BY <1>1, <2>3
    <2>. QED  BY <1>1, <1>2, <2>2
<1>5. Abs!CommandsAt(s, Q)
        = [a \in 1..c + 1 |-> IF a <= c THEN s[Abs!Nth(P, a)].data ELSE s[m].data]
    <2>1. \A a \in 1..c + 1 :
            s[Abs!Nth(Q, a)].data = IF a <= c THEN s[Abs!Nth(P, a)].data ELSE s[m].data
        BY <1>1
    <2>. QED  BY <1>2, <2>1
<1>6. Abs!FilesAt(s, Q)
        = [a \in 1..c + 1 |-> IF a <= c THEN F(a) ELSE [digest |-> s[m].digest, name |-> s[m].data]]
    <2>1. \A a \in 1..c + 1 :
            G(a) = IF a <= c THEN F(a) ELSE [digest |-> s[m].digest, name |-> s[m].data]
        BY <1>1 DEF F, G
    <2>. QED  BY <1>2, <2>1
<1>. QED  BY <1>3, <1>4, <1>5, <1>6 DEF Q
-----------------------------------------------------------------------------
(* The contract's view of a TPM log's events.                              *)

\* The contract's prefix and digest checks are GrubData's.
LEMMA AbsChecks ==
    ASSUME NEW e
    PROVE  /\ Abs!suffixAt(e.data) = suffixAt(e.data)
           /\ Abs!grubDigestOK(e) = grubDigestOK(e)
<1>1. Abs!suffixAt(e.data) = suffixAt(e.data)
    BY DEF Abs!suffixAt, suffixAt, Abs!HasPrefix, HasPrefix, Abs!validPrefixes,
           validPrefixes, Abs!newGrubKernelCmdlinePrefix, newGrubKernelCmdlinePrefix,
           Abs!oldGrubKernelCmdlinePrefix, oldGrubKernelCmdlinePrefix
<1>2. Abs!suffixOf(e.data) = suffixOf(e.data)
    BY <1>1 DEF Abs!suffixOf, suffixOf
<1>. QED  BY <1>1, <1>2 DEF Abs!grubDigestOK, grubDigestOK, Abs!verifyDataDigest,
                            verifyDataDigest, Abs!verifyNullTerminatedDataDigest,
                            verifyNullTerminatedDataDigest

\* For a TPM log the contract accounts for the events on PCR 8 and 9 that
\* are not EV_EVENT_TAG, and GrubStateFromTPMLog fails on exactly those of
\* them the contract does not accept.
LEMMA TpmMeasured ==
    ASSUME LogKind = "TPM", NEW e
    PROVE  /\ Abs!Measured(e) <=> e.idx \in {8, 9} /\ e.type # "EventTag"
           /\ TpmIterFails(e) <=> Abs!Measured(e) /\ ~Abs!Acceptable(e)
<1>1. Abs!CmdReg = 8 /\ Abs!FileRegs = {9}
    BY DEF Abs!CmdReg, Abs!FileRegs
<1>2. Abs!Measured(e) <=> e.idx \in {8, 9} /\ e.type # "EventTag"
    BY <1>1 DEF Abs!Measured
<1>3. Abs!Acceptable(e) <=> e.type = "Ipl" /\ (e.idx = 8 => suffixAt(e.data) # -1 /\ grubDigestOK(e))
    BY <1>1, AbsChecks DEF Abs!Acceptable
<1>. QED  BY <1>2, <1>3 DEF TpmIterFails

\* The contract's positions of commands and files before m in a TPM log.
LEMMA TpmPositions ==
    ASSUME LogKind = "TPM", NEW s, NEW m
    PROVE  /\ Abs!CmdPositions(s, m) = {n \in 1..m - 1 : s[n].idx = 8 /\ s[n].type # "EventTag"}
           /\ Abs!FilePositions(s, m) = {n \in 1..m - 1 : s[n].idx = 9 /\ s[n].type # "EventTag"}
<1>1. Abs!CmdReg = 8 /\ Abs!FileRegs = {9}
    BY DEF Abs!CmdReg, Abs!FileRegs
<1>. QED  BY <1>1 DEF Abs!CmdPositions, Abs!FilePositions, Abs!Measured
\* The lists at a finite set of positions are empty exactly when the set is.
LEMMA ListsEmpty ==
    ASSUME NEW s, NEW P, IsFiniteSet(P)
    PROVE  /\ Abs!CommandsAt(s, P) = <<>> <=> P = {}
           /\ Abs!FilesAt(s, P) = <<>> <=> P = {}
<1>1. Cardinality(P) \in Nat /\ (Cardinality(P) = 0 <=> P = {})
    BY FS_CardinalityType, FS_EmptySet
<1>2. Abs!CommandsAt(s, P) = [a \in 1..Cardinality(P) |-> s[Abs!Nth(P, a)].data]
    BY AbsCardinality DEF Abs!CommandsAt
<1>3. Abs!FilesAt(s, P)
        = [a \in 1..Cardinality(P) |->
              [digest |-> s[Abs!Nth(P, a)].digest, name |-> s[Abs!Nth(P, a)].data]]
    BY AbsCardinality DEF Abs!FilesAt
<1>. QED  BY <1>1, <1>2, <1>3

\* A set of positions before m is finite.
LEMMA PositionsFinite ==
    ASSUME NEW m \in Nat, NEW P \in SUBSET (1..m - 1)
    PROVE  IsFiniteSet(P) /\ P \subseteq Nat /\ \A p \in P : p < m
<1>1. IsFiniteSet(1..m - 1)
    BY FS_Interval
<1>2. IsFiniteSet(P)
    BY <1>1, FS_Subset, Zenon
<1>. QED  BY <1>2

-----------------------------------------------------------------------------
(* The inductive invariant.                                                *)

LEMMA InitRInv == Init => RInv
<1> SUFFICES ASSUME Init PROVE RInv
    OBVIOUS
<1>1. TypeOK
    BY InitTypeOK
<1>2. CmdsSoFar = {} /\ FilesSoFar = {}
    BY DEF Init, CmdsSoFar, FilesSoFar, Abs!CmdPositions, Abs!FilePositions
<1>3. Abs!CommandsAt(log, {}) = <<>> /\ Abs!FilesAt(log, {}) = <<>>
    BY ListsEmpty, FS_EmptySet
<1>4. LoopInv
    BY <1>2, <1>3 DEF Init, LoopInv, GrubInit
<1>. QED  BY <1>1, <1>4 DEF Init, RInv, OutcomeInv, KernelInv
\* An iteration of GrubStateFromTPMLog that does not fail appends the event
\* to the list the contract puts it in, and accepts it.
LEMMA ContinueRInv ==
    ASSUME LogKind = "TPM"
    PROVE  RInv /\ GrubContinue => RInv'
<1> SUFFICES ASSUME RInv, GrubContinue PROVE RInv'
    OBVIOUS
<1>. DEFINE e == log[k]
            C == CmdsSoFar
            F == FilesSoFar
            IsCmd == e.idx = 8 /\ e.type # "EventTag"
            IsFile == e.idx = 9 /\ e.type # "EventTag"
<1>0. TypeOK'
    BY NextTypeOK DEF RInv, Next
<1>1. log \in Seq(Event) /\ k \in 1..Len(log) /\ e \in Event
      /\ g \in GrubLocals /\ kernel = KernelPending
    BY LogEvents DEF RInv, TypeOK, GrubLocals, GrubContinue, KernelInv
<1>2. /\ pc' = "grub" /\ log' = log /\ k' = k + 1 /\ kernel' = kernel
      /\ g' = TpmIter(g, e) /\ ~TpmIterFails(e)
    BY DEF GrubContinue, Iter, IterFails
<1>3. /\ \A n \in 1..k - 1 : Abs!Measured(log[n]) => Abs!Acceptable(log[n])
      /\ g.commands = Abs!CommandsAt(log, C)
      /\ g.files = Abs!FilesAt(log, F)
    BY DEF RInv, LoopInv, GrubContinue, C, F
<1>4. \A n \in 1..k'- 1 : Abs!Measured(log'[n]) => Abs!Acceptable(log'[n])
    BY <1>1, <1>2, <1>3, TpmMeasured DEF e
<1>5. /\ C = {n \in 1..k - 1 : log[n].idx = 8 /\ log[n].type # "EventTag"}
      /\ F = {n \in 1..k - 1 : log[n].idx = 9 /\ log[n].type # "EventTag"}
    BY TpmPositions DEF C, F, CmdsSoFar, FilesSoFar
<1>10. /\ CmdsSoFar' = Abs!CmdPositions(log, k + 1)
       /\ FilesSoFar' = Abs!FilePositions(log, k + 1)
    BY <1>2 DEF CmdsSoFar, FilesSoFar
<1>11. /\ CmdsSoFar' = {n \in 1..k : log[n].idx = 8 /\ log[n].type # "EventTag"}
       /\ FilesSoFar' = {n \in 1..k : log[n].idx = 9 /\ log[n].type # "EventTag"}
    <2>1. (k + 1) - 1 = k
        BY <1>1
    <2>. QED  BY <1>10, <2>1, TpmPositions
<1>12. k \in Nat /\ C \subseteq 1..k - 1 /\ F \subseteq 1..k - 1
    BY <1>1, <1>5
<1>6. /\ k \in Nat
      /\ IsFiniteSet(C) /\ C \subseteq Nat /\ \A p \in C : p < k
      /\ IsFiniteSet(F) /\ F \subseteq Nat /\ \A p \in F : p < k
    <2>1. IsFiniteSet(C) /\ C \subseteq Nat /\ \A p \in C : p < k
        BY <1>12, PositionsFinite
    <2>2. IsFiniteSet(F) /\ F \subseteq Nat /\ \A p \in F : p < k
        BY <1>12, PositionsFinite
    <2>. QED  BY <1>12, <2>1, <2>2
<1>7. /\ CmdsSoFar' = IF IsCmd THEN C \cup {k} ELSE C
      /\ FilesSoFar' = IF IsFile THEN F \cup {k} ELSE F
    BY <1>1, <1>5, <1>11 DEF IsCmd, IsFile, e
<1>8. /\ g'.commands = Abs!CommandsAt(log', CmdsSoFar')
      /\ g'.files = Abs!FilesAt(log', FilesSoFar')
    <2>1. CASE IsCmd
        <3>1. g' = [g EXCEPT !.commands = Append(@, e.data)]
            BY <1>2, <2>1 DEF TpmIter, IsCmd
        <3>2. Abs!CommandsAt(log, C \cup {k}) = Append(Abs!CommandsAt(log, C), e.data)
            BY <1>6, ListsAppend, Zenon DEF e
        <3>3. CmdsSoFar' = C \cup {k} /\ FilesSoFar' = F
            BY <1>7, <2>1 DEF IsFile, IsCmd
        <3>4. g'.commands = Append(g.commands, e.data) /\ g'.files = g.files
            BY <1>1, <3>1 DEF GrubLocals
        <3>. QED  BY <1>2, <1>3, <3>2, <3>3, <3>4
    <2>2. CASE IsFile
        <3>1. g' = [g EXCEPT !.files = Append(@, [digest |-> e.digest, name |-> e.data])]
            BY <1>2, <2>2 DEF TpmIter, IsFile
        <3>2. Abs!FilesAt(log, F \cup {k})
                = Append(Abs!FilesAt(log, F), [digest |-> e.digest, name |-> e.data])
            BY <1>6, ListsAppend, Zenon DEF e
        <3>3. FilesSoFar' = F \cup {k} /\ CmdsSoFar' = C
            BY <1>7, <2>2 DEF IsFile, IsCmd
        <3>4. g'.files = Append(g.files, [digest |-> e.digest, name |-> e.data])
              /\ g'.commands = g.commands
            BY <1>1, <3>1 DEF GrubLocals
        <3>. QED  BY <1>2, <1>3, <3>2, <3>3, <3>4
    <2>3. CASE ~IsCmd /\ ~IsFile
        <3>0. e.idx \notin {8, 9} \/ e.type = "EventTag"
            BY <2>3 DEF IsFile, IsCmd
        <3>1. g' = g
            BY <1>2, <3>0 DEF TpmIter
        <3>. QED  BY <1>2, <1>3, <1>7, <2>3, <3>1
    <2>. QED  BY <2>1, <2>2, <2>3
<1>9. LoopInv'
    BY <1>2, <1>4, <1>8 DEF LoopInv
<1>. QED  BY <1>0, <1>1, <1>2, <1>9 DEF RInv, OutcomeInv, KernelInv
\* GrubStateFromTPMLog's error is the contract's: the event it fails on is
\* accounted for and not acceptable.
LEMMA FailRInv ==
    ASSUME LogKind = "TPM"
    PROVE  RInv /\ GrubFail => RInv'
<1> SUFFICES ASSUME RInv, GrubFail PROVE RInv'
    OBVIOUS
<1>0. TypeOK'
    BY NextTypeOK DEF RInv, Next
<1>1. /\ k \in 1..Len(log) /\ TpmIterFails(log[k])
      /\ pc' = "kernel" /\ grub' = "err" /\ log' = log /\ kernel' = kernel
      /\ kernel = KernelPending
    BY DEF GrubFail, IterFails, RInv, TypeOK, KernelInv
<1>2. Abs!Measured(log[k]) /\ ~Abs!Acceptable(log[k])
    BY <1>1, TpmMeasured
<1>3. Abs!GrubOf(log) = [st |-> "err", files |-> <<>>, commands |-> <<>>]
    BY <1>1, <1>2 DEF Abs!GrubOf, Abs!GrubErr
<1>4. OutcomeInv'
    BY <1>1, <1>3 DEF OutcomeInv, GrubOutcome
<1>. QED  BY <1>0, <1>1, <1>4 DEF RInv, LoopInv, KernelInv

\* The end of GrubStateFromTPMLog's loop: "no GRUB measurements found" is
\* the contract's error for a log with nothing to account for, and the
\* lists the loop built are the contract's.
LEMMA EndRInv ==
    ASSUME LogKind = "TPM"
    PROVE  RInv /\ GrubEnd => RInv'
<1> SUFFICES ASSUME RInv, GrubEnd PROVE RInv'
    OBVIOUS
<1>. DEFINE C == CmdsSoFar
            F == FilesSoFar
<1>0. TypeOK'
    BY NextTypeOK DEF RInv, Next
<1>1. /\ log \in Seq(Event) /\ k = Len(log) + 1
      /\ pc' = "kernel" /\ log' = log /\ g' = g /\ kernel' = kernel
      /\ grub' = IF g.files = <<>> /\ g.commands = <<>> THEN "err" ELSE "ok"
      /\ kernel = KernelPending
    BY LogEvents DEF GrubEnd, NothingFound, RInv, TypeOK, KernelInv
<1>2. /\ \A n \in 1..Len(log) : Abs!Measured(log[n]) => Abs!Acceptable(log[n])
      /\ g.commands = Abs!CommandsAt(log, C)
      /\ g.files = Abs!FilesAt(log, F)
    BY <1>1 DEF RInv, LoopInv, GrubEnd, C, F
<1>3. /\ C = {n \in 1..Len(log) : log[n].idx = 8 /\ log[n].type # "EventTag"}
      /\ F = {n \in 1..Len(log) : log[n].idx = 9 /\ log[n].type # "EventTag"}
    <2>1. k - 1 = Len(log)
        BY <1>1
    <2>. QED  BY <2>1, TpmPositions DEF C, F, CmdsSoFar, FilesSoFar
<1>4. IsFiniteSet(C) /\ IsFiniteSet(F)
    <2>1. Len(log) + 1 \in Nat /\ C \subseteq 1..(Len(log) + 1) - 1 /\ F \subseteq 1..(Len(log) + 1) - 1
        BY <1>1, <1>3
    <2>. QED  BY <2>1, PositionsFinite
<1>5. (g.files = <<>> /\ g.commands = <<>>) <=> (C = {} /\ F = {})
    BY <1>2, <1>4, ListsEmpty
<1>6. (C = {} /\ F = {}) <=> \A n \in 1..Len(log) : ~Abs!Measured(log[n])
    BY <1>3, TpmMeasured
<1>7. Abs!GrubOf(log) =
        IF \A n \in 1..Len(log) : ~Abs!Measured(log[n])
        THEN [st |-> "err", files |-> <<>>, commands |-> <<>>]
        ELSE [st |-> "ok", files |-> Abs!FilesAt(log, F), commands |-> Abs!CommandsAt(log, C)]
    <2>1. ~\E n \in 1..Len(log) : Abs!Measured(log[n]) /\ ~Abs!Acceptable(log[n])
        BY <1>2
    <2>2. Abs!CmdPositions(log, Len(log) + 1) = C /\ Abs!FilePositions(log, Len(log) + 1) = F
        BY <1>1 DEF C, F, CmdsSoFar, FilesSoFar
    <2>. QED  BY <2>1, <2>2 DEF Abs!GrubOf, Abs!GrubErr
<1>8. OutcomeInv'
    BY <1>1, <1>2, <1>5, <1>6, <1>7 DEF OutcomeInv, GrubOutcome
<1>. QED  BY <1>0, <1>1, <1>8 DEF RInv, LoopInv, KernelInv

\* The kernel call leaves the GRUB state alone.
LEMMA KernelRInv == RInv /\ Kernel => RInv'
<1> SUFFICES ASSUME RInv, Kernel PROVE RInv'
    OBVIOUS
<1>0. TypeOK'
    BY NextTypeOK DEF RInv, Next
<1>1. GrubOutcome' = GrubOutcome
    BY DEF Kernel, GrubOutcome
<1>. QED  BY <1>0, <1>1 DEF RInv, Kernel, LoopInv, OutcomeInv, KernelInv

LEMMA NextRInv ==
    ASSUME LogKind = "TPM"
    PROVE  RInv /\ [Next]_vars => RInv'
<1> SUFFICES ASSUME RInv, [Next]_vars PROVE RInv'
    OBVIOUS
<1>1. CASE GrubFail
    BY <1>1, FailRInv
<1>2. CASE GrubContinue
    BY <1>2, ContinueRInv
<1>3. CASE GrubEnd
    BY <1>3, EndRInv
<1>4. CASE Kernel
    BY <1>4, KernelRInv
<1>5. CASE UNCHANGED vars
    BY <1>5 DEF vars, RInv, TypeOK, LoopInv, OutcomeInv, KernelInv, GrubOutcome, CmdsSoFar,
                FilesSoFar
<1>. QED  BY <1>1, <1>2, <1>3, <1>4, <1>5 DEF Next
-----------------------------------------------------------------------------
(* The refinement.                                                         *)

\* The contract's kernel call is LinuxKernelStateFromGRUB.
LEMMA AbsKernel ==
    ASSUME NEW cmds
    PROVE  Abs!LinuxKernelStateFromGRUB(cmds) = LinuxKernelStateFromGRUB(cmds)
<1>1. \A c : Abs!getGrubKernelCmdlineSuffix(c) = getGrubKernelCmdlineSuffix(c)
    BY DEF Abs!getGrubKernelCmdlineSuffix, getGrubKernelCmdlineSuffix, Abs!HasPrefix, HasPrefix,
           Abs!newGrubKernelCmdlinePrefix, newGrubKernelCmdlinePrefix,
           Abs!oldGrubKernelCmdlinePrefix, oldGrubKernelCmdlinePrefix
<1>. QED  BY <1>1, AbsCardinality DEF Abs!LinuxKernelStateFromGRUB, LinuxKernelStateFromGRUB

\* Every step of GRUB extraction is a step of its contract or leaves the
\* log, the GRUB state and the kernel state alone.
LEMMA StepRefines ==
    ASSUME LogKind = "TPM"
    PROVE  RInv /\ RInv' /\ [Next]_vars => [Abs!Next]_<<log, GrubOutcome, kernel>>
<1> SUFFICES ASSUME RInv, RInv', [Next]_vars
             PROVE  [Abs!Next]_<<log, GrubOutcome, kernel>>
    OBVIOUS
<1>1. Abs!GrubPending = GrubPending /\ Abs!KernelPending = KernelPending
    BY DEF Abs!GrubPending, GrubPending, Abs!KernelPending, KernelPending
<1>2. CASE GrubFail \/ GrubEnd
    <2>1. pc = "grub" /\ pc' = "kernel" /\ log' = log /\ kernel' = kernel
        BY <1>2 DEF GrubFail, GrubEnd
    <2>2. GrubOutcome = GrubPending /\ GrubOutcome' = Abs!GrubOf(log')
        BY <2>1 DEF GrubOutcome, OutcomeInv, RInv
    <2>3. Abs!ExtractGrub
        BY <1>1, <2>1, <2>2 DEF Abs!ExtractGrub
    <2>. QED  BY <2>3 DEF Abs!Next
<1>3. CASE GrubContinue
    <2>1. pc = "grub" /\ pc' = "grub" /\ log' = log /\ kernel' = kernel
        BY <1>3 DEF GrubContinue
    <2>. QED  BY <2>1 DEF GrubOutcome
<1>4. CASE Kernel
    <2>1. pc = "kernel" /\ pc' = "done" /\ log' = log /\ grub' = grub /\ g' = g
          /\ kernel' = LinuxKernelStateFromGRUB(IF grub = "ok" THEN g.commands ELSE <<>>)
        BY <1>4 DEF Kernel
    <2>2. GrubOutcome' = GrubOutcome /\ GrubOutcome # GrubPending
          /\ GrubOutcome.commands = IF grub = "ok" THEN g.commands ELSE <<>>
        BY <2>1 DEF GrubOutcome, GrubPending
    <2>3. kernel = KernelPending
        BY <2>1 DEF RInv, KernelInv
    <2>4. Abs!ExtractKernel
        BY <1>1, <2>1, <2>2, <2>3, AbsKernel DEF Abs!ExtractKernel
    <2>. QED  BY <2>4 DEF Abs!Next
<1>5. CASE UNCHANGED vars
    BY <1>5 DEF vars, GrubOutcome
<1>. QED  BY <1>2, <1>3, <1>4, <1>5 DEF Next

\* GRUB extraction of a TPM log implements the safety part of its contract
\* (spec 4.E.4): with the refinement mapping GrubOutcome, every behaviour of
\* GrubStateFromTPMLog followed by LinuxKernelStateFromGRUB is one of
\* GrubAbstract.  The contract's fairness is left to TLC (Refinement on
\* grub_tpm); for CC logs grub_cc_contract shows the refinement fails.
THEOREM RefinementSafetyThm ==
    ASSUME LogKind = "TPM"
    PROVE  Spec => Abs!SafetySpec
<1>1. Init => Abs!Init
    <2>1. Abs!Logs = Logs /\ Abs!GrubPending = GrubPending /\ Abs!KernelPending = KernelPending
        BY DEF Abs!Logs, Logs, Abs!GrubPending, GrubPending, Abs!KernelPending, KernelPending
    <2>. QED  BY <2>1 DEF Init, Abs!Init, GrubOutcome
<1>2. Spec => []RInv
    BY InitRInv, NextRInv, PTL DEF Spec
<1>3. RInv /\ RInv' /\ [Next]_vars => [Abs!Next]_<<log, GrubOutcome, kernel>>
    BY StepRefines
<1>. QED  BY <1>1, <1>2, <1>3, PTL DEF Spec, Abs!SafetySpec, Abs!avars
=============================================================================
