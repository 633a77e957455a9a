----------------------------- MODULE Efi_proofs -----------------------------
(***************************************************************************)
(* Proofs about the Efi module, for every value of its constants.          *)
(***************************************************************************)
EXTENDS Efi, TLAPS

EfiLocals == [sep4 : BOOLEAN, sep5 : BOOLEAN, calling : BOOLEAN, ebs : BOOLEAN,
              apps : Seq(Digests)]
DrvLocals == [sep : BOOLEAN, bs : Seq(Digests), rt : Seq(Digests)]

\* The events of a log are events, whatever its length.
LEMMA LogEvents ==
    ASSUME NEW s \in Logs, NEW n \in 1..Len(s)
    PROVE  s[n] \in Event /\ Len(s) \in 0..MaxEvents
<1>1. PICK m \in 0..MaxEvents : s \in [1..m -> Events]
    BY DEF Logs
<1>2. Len(s) = m
    BY <1>1
<1>. QED  BY <1>1, <1>2, EfiAssumption

\* An iteration of EfiState keeps its locals well typed.
LEMMA EfiIterType ==
    ASSUME NEW s \in EfiLocals, NEW e \in Event
    PROVE  EfiIter(s, e) \in EfiLocals
<1>1. AppBlock(s, e) \in EfiLocals
    <2>1. e.digest \in Digests
        BY DEF Event
    <2>2. s.apps \in Seq(Digests) /\ Append(s.apps, e.digest) \in Seq(Digests)
        BY <2>1 DEF EfiLocals
    <2>3. (IF e.type = "BootServicesApplication" THEN Append(s.apps, e.digest) ELSE s.apps)
            \in Seq(Digests)
        BY <2>2
    <2>. QED  BY <2>3 DEF AppBlock, EfiLocals
<1>. QED  BY <1>1 DEF EfiIter, EfiLocals

\* An iteration of EfiDriverState keeps its locals well typed.
LEMMA DrvIterType ==
    ASSUME NEW s \in DrvLocals, NEW e \in Event
    PROVE  DrvIter(s, e) \in DrvLocals
<1>1. e.digest \in Digests
    BY DEF Event
<1>2. Append(s.bs, e.digest) \in Seq(Digests) /\ Append(s.rt, e.digest) \in Seq(Digests)
    BY <1>1 DEF DrvLocals
<1>. QED  BY <1>2 DEF DrvIter, DrvLocals

LEMMA InitTypeOK == Init => TypeOK
BY DEF Init, TypeOK, EfiInit, DrvInit, Logs

LEMMA NextTypeOK == TypeOK /\ [Next]_vars => TypeOK'
<1> SUFFICES ASSUME TypeOK, [Next]_vars PROVE TypeOK'
    OBVIOUS
<1>1. efi \in EfiLocals /\ drv \in DrvLocals
    BY DEF TypeOK, EfiLocals, DrvLocals
<1>2. k <= Len(log) => log[k] \in Event
    BY LogEvents DEF TypeOK
<1>3. Len(log) \in Nat
    BY LogEvents DEF TypeOK, Logs
<1>4. CASE EfiFail
    BY <1>4 DEF EfiFail, TypeOK
<1>5. CASE EfiContinue
    BY <1>1, <1>2, <1>3, <1>5, EfiIterType DEF EfiContinue, TypeOK, EfiLocals
<1>6. CASE EfiExit
    BY <1>1, <1>2, <1>3, <1>6, EfiIterType DEF EfiExit, TypeOK, EfiLocals
<1>7. CASE EfiEnd
    BY <1>7 DEF EfiEnd, TypeOK
<1>8. CASE DrvFail
    BY <1>8 DEF DrvFail, TypeOK
<1>9. CASE DrvContinue
    BY <1>1, <1>2, <1>3, <1>9, DrvIterType DEF DrvContinue, TypeOK, DrvLocals
<1>10. CASE DrvEnd
    BY <1>10 DEF DrvEnd, TypeOK
<1>11. CASE UNCHANGED vars
    BY <1>11 DEF vars, TypeOK
<1>. QED  BY <1>4, <1>5, <1>6, <1>7, <1>8, <1>9, <1>10, <1>11 DEF Next

-----------------------------------------------------------------------------
(* EfiResultCorrect.                                                       *)

\* EfiState met ExitBootServices: its first event is a verified
\* EV_EFI_ACTION, and the applications are exactly those before it.
ExitFound ==
    LET x == First(ExitPositions(log))
    IN  /\ ExitPositions(log) # {}
        /\ log[x].type = "EFIAction" /\ DigestVerified(log[x])
        /\ IsSelected(log, x + 1, EFIAppIdx, "BootServicesApplication", efi.apps)

\* Where EfiDriverState's collection stops: at k while it has not met the
\* driver separator, at that separator once it has.
DrvBound == IF drv.sep THEN SeparatorEnd(log, FirmwareDriverIdx) ELSE k

\* EfiState's loop: nothing returned, ExitBootServices neither flagged nor
\* before k, the applications before k collected, EfiDriverState not yet
\* called.
EfiScanInv ==
    pc = "efi" =>
        /\ result = "pending"
        /\ ~efi.ebs
        /\ \A n \in 1..k - 1 :
              ~(log[n].idx = ExitBootServicesIdx /\ log[n].digest = ExitBootSvcDigest)
        /\ IsSelected(log, k, EFIAppIdx, "BootServicesApplication", efi.apps)
        /\ drv = DrvInit

\* EfiDriverState's loop: nothing returned, ExitBootServices found, the
\* driver separator met exactly when one was before k, and the drivers
\* collected up to DrvBound.
DrvScanInv ==
    pc = "drv" =>
        /\ result = "pending"
        /\ ExitFound
        /\ ~drv.sep => TypedPositions(log, k, FirmwareDriverIdx, "Separator") = {}
        /\ drv.sep => SeparatorEnd(log, FirmwareDriverIdx) \in 1..k - 1
        /\ IsSelected(log, DrvBound, FirmwareDriverIdx, "BootServicesDriver", drv.bs)
        /\ IsSelected(log, DrvBound, FirmwareDriverIdx, "RuntimeServicesDriver", drv.rt)

\* The inductive invariant behind EfiResultCorrect.
IInv == TypeOK /\ EfiScanInv /\ DrvScanInv /\ EfiResultCorrect

\* Whatever log EfiState is given, every state of its two loops is well
\* typed: the loop position stays within the log plus one and the collected
\* applications and drivers are sequences of digests.
THEOREM TypeCorrect == Spec => []TypeOK
BY InitTypeOK, NextTypeOK, PTL DEF Spec

-----------------------------------------------------------------------------
(* Lemmas about positions and selections.                                  *)

\* A log of the model is a sequence of events.
LEMMA LogSeq ==
    ASSUME NEW s \in Logs
    PROVE  s \in Seq(Event)
<1>1. PICK m \in 0..MaxEvents : s \in [1..m -> Events]
    BY DEF Logs
<1>. QED  BY <1>1, EfiAssumption

\* A position below every other one of P is First(P).
LEMMA FirstIs ==
    ASSUME NEW P \in SUBSET Int, NEW p \in P, \A q \in P : p <= q
    PROVE  First(P) = p
<1>1. First(P) \in P /\ \A q \in P : First(P) <= q
    BY DEF First
<1>2. First(P) \in Int /\ First(P) <= p /\ p <= First(P)
    BY <1>1
<1>. QED  BY <1>2

\* A scan that saw no separator on register i before m, and stops at m at
\* such a separator or at the end of the log, stops at SeparatorEnd.
LEMMA SeparatorEndAt ==
    ASSUME NEW s \in Seq(Event), NEW i, NEW m \in 1..Len(s) + 1,
           TypedPositions(s, m, i, "Separator") = {},
           m <= Len(s) => s[m].idx = i /\ s[m].type = "Separator"
    PROVE  SeparatorEnd(s, i) = m
<1>. DEFINE P == TypedPositions(s, Len(s) + 1, i, "Separator")
<1>1. P \subseteq 1..Len(s) /\ \A n \in P : m <= n
    BY DEF TypedPositions, P
<1>2. CASE m = Len(s) + 1
  <2>1. P = {}
    BY <1>1, <1>2
  <2>. QED  BY <1>2, <2>1 DEF SeparatorEnd, FirstOr, P
<1>3. CASE m <= Len(s)
  <2>1. m \in P
    BY <1>3 DEF TypedPositions, P
  <2>2. First(P) = m
    BY <1>1, <2>1, FirstIs
  <2>. QED  BY <2>1, <2>2 DEF SeparatorEnd, FirstOr, P
<1>. QED  BY <1>2, <1>3

\* Nothing is selected before the first position.
LEMMA SelectedFirst ==
    ASSUME NEW s \in Seq(Event), NEW i, NEW t
    PROVE  IsSelected(s, 1, i, t, <<>>)
<1>1. TypedPositions(s, 1, i, t) = {}
    BY DEF TypedPositions
<1>2. [a \in {} |-> 0] \in [1..Len(<<>>) -> TypedPositions(s, 1, i, t)]
    BY <1>1
<1>. QED  BY <1>1, <1>2 DEF IsSelected

\* One more position: the selection gains the digest of the event at m
\* when it is on register i of type t, and stays otherwise.
LEMMA SelectedStep ==
    ASSUME NEW s \in Seq(Event), NEW m \in 1..Len(s), NEW i, NEW t,
           NEW c \in Seq(Digests), IsSelected(s, m, i, t, c)
    PROVE  IsSelected(s, m + 1, i, t,
                      IF s[m].idx = i /\ s[m].type = t THEN Append(c, s[m].digest) ELSE c)
<1>. DEFINE TP == TypedPositions(s, m, i, t)
            TQ == TypedPositions(s, m + 1, i, t)
<1>1. PICK f \in [1..Len(c) -> TP] :
         /\ \A a, b \in 1..Len(c) : a < b => f[a] < f[b]
         /\ \A n \in TP : \E a \in 1..Len(c) : f[a] = n
         /\ \A a \in 1..Len(c) : c[a] = s[f[a]].digest
    BY DEF IsSelected
<1>2. TP \subseteq 1..m - 1
    BY DEF TypedPositions
<1>3. CASE s[m].idx = i /\ s[m].type = t
  <2>. DEFINE c2 == Append(c, s[m].digest)
              f2 == [a \in 1..Len(c2) |-> IF a <= Len(c) THEN f[a] ELSE m]
  <2>1. TQ = TP \cup {m}
    BY <1>3 DEF TypedPositions
  <2>2. f2 \in [1..Len(c2) -> TQ]
    BY <1>1, <2>1
  <2>3. \A a, b \in 1..Len(c2) : a < b => f2[a] < f2[b]
    BY <1>1, <1>2
  <2>4. \A n \in TQ : \E a \in 1..Len(c2) : f2[a] = n
    BY <1>1, <2>1
  <2>5. \A a \in 1..Len(c2) : c2[a] = s[f2[a]].digest
    BY <1>1
  <2>6. \E g \in [1..Len(c2) -> TQ] :
           /\ \A a, b \in 1..Len(c2) : a < b => g[a] < g[b]
           /\ \A n \in TQ : \E a \in 1..Len(c2) : g[a] = n
           /\ \A a \in 1..Len(c2) : c2[a] = s[g[a]].digest
    BY <2>2, <2>3, <2>4, <2>5
  <2>7. IsSelected(s, m + 1, i, t, c2)
    BY <2>6 DEF IsSelected, TQ
  <2>. QED  BY <1>3, <2>7
<1>4. CASE ~(s[m].idx = i /\ s[m].type = t)
  <2>1. TQ = TP
    BY <1>4 DEF TypedPositions
  <2>2. IsSelected(s, m + 1, i, t, c)
    BY <1>1, <2>1 DEF IsSelected, TQ, TP
  <2>. QED  BY <1>4, <2>2
<1>. QED  BY <1>3, <1>4

\* What an iteration of EfiState does to the flag and the applications.
LEMMA EfiIterFacts ==
    ASSUME NEW s \in EfiLocals, NEW e \in Event
    PROVE  /\ EfiIter(s, e).ebs = IF e.idx = ExitBootServicesIdx
                                  THEN e.digest = ExitBootSvcDigest ELSE s.ebs
           /\ EfiIter(s, e).apps =
                 IF e.idx = EFIAppIdx /\ e.type = "BootServicesApplication"
                 THEN Append(s.apps, e.digest) ELSE s.apps
<1>1. AppBlock(s, e).ebs = s.ebs
      /\ AppBlock(s, e).apps = IF e.type = "BootServicesApplication"
                               THEN Append(s.apps, e.digest) ELSE s.apps
    BY DEF AppBlock, EfiLocals
<1>. QED  BY <1>1 DEF EfiIter, EfiLocals, AppBlock

\* What an iteration of EfiDriverState does to its locals.
LEMMA DrvIterFacts ==
    ASSUME NEW s \in DrvLocals, NEW e \in Event
    PROVE  /\ DrvIter(s, e).sep = (s.sep \/ (e.idx = FirmwareDriverIdx /\ e.type = "Separator"))
           /\ DrvIter(s, e).bs =
                 IF e.idx = FirmwareDriverIdx /\ e.type = "BootServicesDriver" /\ ~s.sep
                 THEN Append(s.bs, e.digest) ELSE s.bs
           /\ DrvIter(s, e).rt =
                 IF e.idx = FirmwareDriverIdx /\ e.type = "RuntimeServicesDriver" /\ ~s.sep
                 THEN Append(s.rt, e.digest) ELSE s.rt
<1>1. CASE e.idx = FirmwareDriverIdx
    BY <1>1 DEF DrvIter, DrvLocals
<1>2. CASE e.idx # FirmwareDriverIdx
    <2>1. s.sep \in BOOLEAN
        BY DEF DrvLocals
    <2>. QED  BY <1>2, <2>1 DEF DrvIter
<1>. QED  BY <1>1, <1>2

-----------------------------------------------------------------------------
(* The inductive invariant.                                                *)

\* The facts every step uses.
LEMMA IInvFacts ==
    ASSUME IInv
    PROVE  /\ log \in Seq(Event) /\ k \in 1..Len(log) + 1
           /\ efi \in EfiLocals /\ drv \in DrvLocals
           /\ k <= Len(log) => log[k] \in Event
BY LogSeq DEF IInv, TypeOK, EfiLocals, DrvLocals

LEMMA InitIInv == Init => IInv
<1> SUFFICES ASSUME Init PROVE IInv
    OBVIOUS
<1>1. log \in Seq(Event)
    BY LogSeq DEF Init
<1>2. IsSelected(log, 1, EFIAppIdx, "BootServicesApplication", <<>>)
    BY <1>1, SelectedFirst
<1>. QED  BY <1>2, InitTypeOK DEF Init, IInv, EfiScanInv, DrvScanInv, EfiResultCorrect, EfiInit

\* An iteration of EfiState that moves on passed no ExitBootServices and
\* collected the application at k, if there is one.
LEMMA EfiContinueIInv == IInv /\ EfiContinue => (EfiScanInv /\ DrvScanInv /\ EfiResultCorrect)'
<1> SUFFICES ASSUME IInv, EfiContinue
             PROVE  (EfiScanInv /\ DrvScanInv /\ EfiResultCorrect)'
    OBVIOUS
<1>. DEFINE e == log[k]
<1>1. log \in Seq(Event) /\ k \in 1..Len(log) /\ e \in Event /\ efi \in EfiLocals
    BY IInvFacts DEF EfiContinue
<1>2. pc' = "efi" /\ result' = "pending" /\ log' = log /\ k' = k + 1 /\ drv' = drv
      /\ efi' = EfiIter(efi, e) /\ ~efi'.ebs
    BY DEF IInv, EfiScanInv, EfiContinue
<1>3. ~(e.idx = ExitBootServicesIdx /\ e.digest = ExitBootSvcDigest)
    BY <1>1, <1>2, EfiIterFacts
<1>4. IsSelected(log, k + 1, EFIAppIdx, "BootServicesApplication", efi'.apps)
    <2>1. IsSelected(log, k, EFIAppIdx, "BootServicesApplication", efi.apps)
          /\ efi.apps \in Seq(Digests)
        BY <1>1, <1>2 DEF IInv, EfiScanInv, EfiLocals, EfiContinue
    <2>. QED  BY <1>1, <1>2, <2>1, EfiIterFacts, SelectedStep DEF e
<1>5. \A n \in 1..k :
         ~(log[n].idx = ExitBootServicesIdx /\ log[n].digest = ExitBootSvcDigest)
    BY <1>1, <1>3 DEF IInv, EfiScanInv, EfiContinue, e
<1>6. drv = DrvInit
    BY DEF IInv, EfiScanInv, EfiContinue
<1>7. EfiScanInv'
    <2>1. \A n \in 1..k' - 1 :
             ~(log'[n].idx = ExitBootServicesIdx /\ log'[n].digest = ExitBootSvcDigest)
        BY <1>1, <1>2, <1>5
    <2>2. IsSelected(log', k', EFIAppIdx, "BootServicesApplication", efi'.apps)
        BY <1>2, <1>4
    <2>. QED  BY <1>2, <1>6, <2>1, <2>2 DEF EfiScanInv
<1>. QED  BY <1>2, <1>7 DEF DrvScanInv, EfiResultCorrect

\* At ExitBootServices the first such event is the one at k, a verified
\* EV_EFI_ACTION that adds no application; EfiDriverState starts afresh.
LEMMA EfiExitIInv == IInv /\ EfiExit => (EfiScanInv /\ DrvScanInv /\ EfiResultCorrect)'
<1> SUFFICES ASSUME IInv, EfiExit
             PROVE  (EfiScanInv /\ DrvScanInv /\ EfiResultCorrect)'
    OBVIOUS
<1>. DEFINE e == log[k]
<1>1. log \in Seq(Event) /\ k \in 1..Len(log) /\ e \in Event /\ efi \in EfiLocals
    BY IInvFacts DEF EfiExit
<1>2. pc' = "drv" /\ result' = "pending" /\ log' = log /\ k' = 1 /\ drv' = DrvInit
      /\ efi' = EfiIter(efi, e) /\ efi'.ebs /\ ~efi.ebs
    BY DEF IInv, EfiScanInv, EfiExit
<1>3. e.idx = ExitBootServicesIdx /\ e.digest = ExitBootSvcDigest
    BY <1>1, <1>2, EfiIterFacts
<1>4. e.type = "EFIAction" /\ DigestVerified(e)
    BY <1>1, <1>3 DEF EfiExit, EfiIterFails, EbsBlockFails
<1>5. First(ExitPositions(log)) = k
    <2>1. k \in ExitPositions(log)
        BY <1>1, <1>3 DEF ExitPositions
    <2>2. \A q \in ExitPositions(log) : k <= q
        BY <1>1 DEF IInv, EfiScanInv, EfiExit, ExitPositions
    <2>3. ExitPositions(log) \in SUBSET Int
        BY DEF ExitPositions
    <2>. QED  BY <2>1, <2>2, <2>3, FirstIs
<1>6. efi'.apps = efi.apps
    BY <1>1, <1>2, <1>4, EfiIterFacts
<1>7. IsSelected(log, k + 1, EFIAppIdx, "BootServicesApplication", efi'.apps)
    <2>1. IsSelected(log, k, EFIAppIdx, "BootServicesApplication", efi.apps)
          /\ efi.apps \in Seq(Digests)
        BY <1>1 DEF IInv, EfiScanInv, EfiLocals, EfiExit
    <2>. QED  BY <1>1, <1>4, <1>6, <2>1, SelectedStep DEF e
<1>8. ExitFound'
    <2>1. ExitPositions(log) # {}
        BY <1>1, <1>3 DEF ExitPositions
    <2>. QED  BY <1>2, <1>4, <1>5, <1>7, <2>1 DEF ExitFound, e
<1>9. DrvScanInv'
    <2>1. TypedPositions(log, 1, FirmwareDriverIdx, "Separator") = {}
        BY DEF TypedPositions
    <2>2. DrvBound' = 1 /\ drv'.bs = <<>> /\ drv'.rt = <<>> /\ ~drv'.sep
        BY <1>2 DEF DrvBound, DrvInit
    <2>3. /\ IsSelected(log, 1, FirmwareDriverIdx, "BootServicesDriver", <<>>)
          /\ IsSelected(log, 1, FirmwareDriverIdx, "RuntimeServicesDriver", <<>>)
        BY <1>1, SelectedFirst
    <2>. QED  BY <1>2, <1>8, <2>1, <2>2, <2>3 DEF DrvScanInv
<1>. QED  BY <1>2, <1>9 DEF EfiScanInv, EfiResultCorrect

\* The log ends without ExitBootServices: there is none in it.
LEMMA EfiEndIInv == IInv /\ EfiEnd => (EfiScanInv /\ DrvScanInv /\ EfiResultCorrect)'
<1> SUFFICES ASSUME IInv, EfiEnd
             PROVE  (EfiScanInv /\ DrvScanInv /\ EfiResultCorrect)'
    OBVIOUS
<1>1. log \in Seq(Event) /\ k = Len(log) + 1
    BY IInvFacts DEF EfiEnd
<1>2. ExitPositions(log) = {}
    BY <1>1 DEF IInv, EfiScanInv, EfiEnd, ExitPositions
<1>. QED  BY <1>2 DEF EfiEnd, EfiScanInv, DrvScanInv, EfiResultCorrect

\* A failing iteration returns an error: nothing is left to hold.
LEMMA FailIInv == IInv /\ (EfiFail \/ DrvFail) => (EfiScanInv /\ DrvScanInv /\ EfiResultCorrect)'
BY DEF EfiFail, DrvFail, EfiScanInv, DrvScanInv, EfiResultCorrect

\* An iteration of EfiDriverState that moves on: before the driver
\* separator it collects the driver at k, at the separator it records where
\* collection stops, and after it nothing changes.
LEMMA DrvContinueIInv == IInv /\ DrvContinue => (EfiScanInv /\ DrvScanInv /\ EfiResultCorrect)'
<1> SUFFICES ASSUME IInv, DrvContinue
             PROVE  (EfiScanInv /\ DrvScanInv /\ EfiResultCorrect)'
    OBVIOUS
<1>. DEFINE e == log[k]
            FDI == FirmwareDriverIdx
            SE == SeparatorEnd(log, FirmwareDriverIdx)
<1>1. log \in Seq(Event) /\ k \in 1..Len(log) /\ e \in Event /\ drv \in DrvLocals
    BY IInvFacts DEF DrvContinue
<1>2. pc' = "drv" /\ result' = "pending" /\ log' = log /\ k' = k + 1 /\ efi' = efi
      /\ drv' = DrvIter(drv, e)
    BY DEF IInv, DrvScanInv, DrvContinue
<1>3. /\ ExitFound
      /\ ~drv.sep => TypedPositions(log, k, FDI, "Separator") = {}
      /\ drv.sep => SE \in 1..k - 1
      /\ IsSelected(log, DrvBound, FDI, "BootServicesDriver", drv.bs)
      /\ IsSelected(log, DrvBound, FDI, "RuntimeServicesDriver", drv.rt)
    BY DEF IInv, DrvScanInv, DrvContinue
<1>4. ExitFound'
    BY <1>2, <1>3 DEF ExitFound
<1>5. drv.bs \in Seq(Digests) /\ drv.rt \in Seq(Digests) /\ drv.sep \in BOOLEAN
    BY <1>1 DEF DrvLocals
<1>9. DrvScanInv'
  <2>1. CASE drv.sep
    <3>1. drv'.sep /\ drv'.bs = drv.bs /\ drv'.rt = drv.rt
      BY <1>1, <1>2, <2>1, DrvIterFacts DEF e, FDI
    <3>5. DrvBound = SE /\ DrvBound' = SE
      BY <1>2, <2>1, <3>1 DEF DrvBound, SE
    <3>6. SE \in 1..k' - 1
      BY <1>1, <1>2, <1>3, <2>1
    <3>2. DrvBound' = DrvBound /\ SE \in 1..k' - 1
      BY <3>5, <3>6
    <3>. QED  BY <1>2, <1>3, <1>4, <3>1, <3>2 DEF DrvScanInv, FDI, SE
  <2>2. CASE ~drv.sep /\ ~(e.idx = FDI /\ e.type = "Separator")
    <3>1. ~drv'.sep
      BY <1>1, <1>2, <2>2, DrvIterFacts DEF e, FDI
    <3>2. DrvBound = k /\ DrvBound' = k + 1
      BY <1>2, <2>2, <3>1 DEF DrvBound, SE
    <3>3. TypedPositions(log, k + 1, FDI, "Separator") = {}
      BY <1>1, <1>3, <2>2 DEF TypedPositions, e, FDI
    <3>4. /\ IsSelected(log, k + 1, FDI, "BootServicesDriver", drv'.bs)
          /\ IsSelected(log, k + 1, FDI, "RuntimeServicesDriver", drv'.rt)
      BY <1>1, <1>2, <1>3, <1>5, <2>2, <3>2, DrvIterFacts, SelectedStep DEF e, FDI
    <3>. QED  BY <1>2, <1>4, <3>1, <3>2, <3>3, <3>4 DEF DrvScanInv, FDI, SE
  <2>3. CASE ~drv.sep /\ e.idx = FDI /\ e.type = "Separator"
    <3>1. drv'.sep /\ drv'.bs = drv.bs /\ drv'.rt = drv.rt
      BY <1>1, <1>2, <2>3, DrvIterFacts DEF e, FDI
    <3>2. SE = k
      BY <1>1, <1>3, <2>3, SeparatorEndAt DEF e, FDI, SE
    <3>3. DrvBound = k /\ DrvBound' = k /\ SE \in 1..k' - 1
      BY <1>1, <1>2, <2>3, <3>1, <3>2 DEF DrvBound, SE
    <3>. QED  BY <1>2, <1>3, <1>4, <3>1, <3>3 DEF DrvScanInv, FDI, SE
  <2>. QED  BY <2>1, <2>2, <2>3
<1>. QED  BY <1>2, <1>9 DEF EfiScanInv, EfiResultCorrect

\* EfiDriverState returns: the drivers were collected up to the driver
\* separator, or over the whole log when it has none.
LEMMA DrvEndIInv == IInv /\ DrvEnd => (EfiScanInv /\ DrvScanInv /\ EfiResultCorrect)'
<1> SUFFICES ASSUME IInv, DrvEnd
             PROVE  (EfiScanInv /\ DrvScanInv /\ EfiResultCorrect)'
    OBVIOUS
<1>. DEFINE FDI == FirmwareDriverIdx
            SE == SeparatorEnd(log, FirmwareDriverIdx)
<1>1. log \in Seq(Event) /\ k = Len(log) + 1
    BY IInvFacts DEF DrvEnd
<1>2. pc' = "done" /\ result' = "ok" /\ UNCHANGED <<log, k, efi, drv>>
    BY DEF DrvEnd
<1>3. /\ ExitFound
      /\ ~drv.sep => TypedPositions(log, k, FDI, "Separator") = {}
      /\ IsSelected(log, DrvBound, FDI, "BootServicesDriver", drv.bs)
      /\ IsSelected(log, DrvBound, FDI, "RuntimeServicesDriver", drv.rt)
    BY DEF IInv, DrvScanInv, DrvEnd
<1>4. DrvBound = SE
    <2>1. CASE ~drv.sep
        <3>1. SE = k
            BY <1>1, <1>3, <2>1, SeparatorEndAt
        <3>. QED  BY <2>1, <3>1 DEF DrvBound
    <2>. QED  BY <2>1 DEF DrvBound
<1>5. EfiResultCorrect'
    BY <1>2, <1>3, <1>4 DEF EfiResultCorrect, ExitFound
<1>. QED  BY <1>2, <1>5 DEF EfiScanInv, DrvScanInv

LEMMA NextIInv == IInv /\ [Next]_vars => IInv'
<1> SUFFICES ASSUME IInv, [Next]_vars PROVE IInv'
    OBVIOUS
<1>1. TypeOK'
    BY NextTypeOK DEF IInv
<1>2. (EfiScanInv /\ DrvScanInv /\ EfiResultCorrect)'
  <2>1. CASE EfiFail \/ DrvFail  BY <2>1, FailIInv
  <2>2. CASE EfiContinue         BY <2>2, EfiContinueIInv
  <2>3. CASE EfiExit             BY <2>3, EfiExitIInv
  <2>4. CASE EfiEnd              BY <2>4, EfiEndIInv
  <2>5. CASE DrvContinue         BY <2>5, DrvContinueIInv
  <2>6. CASE DrvEnd              BY <2>6, DrvEndIInv
  <2>7. CASE UNCHANGED vars
    <3>1. UNCHANGED <<log, pc, k, efi, drv, result>>
        BY <2>7 DEF vars
    <3>. QED  BY <3>1 DEF IInv, EfiScanInv, DrvScanInv, EfiResultCorrect, ExitFound, DrvBound
  <2>. QED  BY <2>1, <2>2, <2>3, <2>4, <2>5, <2>6, <2>7 DEF Next
<1>. QED  BY <1>1, <1>2 DEF IInv

\* Whatever log EfiState is given and whichever registers the configuration
\* names, EfiState returns nil without error only for a log with no
\* ExitBootServices digest on its register, and when it returns a state
\* the first such event is a verified EV_EFI_ACTION, the applications are
\* exactly those measured before it on the application register, and the
\* drivers exactly those measured on the driver register before that
\* register's separator (src/extract/extract.go, EfiState and
\* EfiDriverState).
THEOREM EfiResultCorrectThm == Spec => []EfiResultCorrect
<1>1. IInv => EfiResultCorrect
    BY DEF IInv
<1>. QED  BY InitIInv, NextIInv, <1>1, PTL DEF Spec
=============================================================================
