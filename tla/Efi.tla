-------------------------------- MODULE Efi --------------------------------
(***************************************************************************)
(* EFI state extraction of package extract (src/extract/extract.go):       *)
(* EfiState scans the EFI-application and ExitBootServices registers of a  *)
(* replayed event log, and only when it met ExitBootServices does it call  *)
(* EfiDriverState, which scans the firmware-driver register of the whole   *)
(* log.  One step of the model is one iteration of one of the two loops.   *)
(*                                                                         *)
(* An event has a register index, an untrusted type, untrusted data and   *)
(* its replayed digest; replay makes only the digest trustworthy.  Hashes  *)
(* are abstracted by collision freedom: a digest is the sequence of the    *)
(* byte strings (atoms) written into the hasher since it was created or    *)
(* Reset, so H(d) is <<d>> and a hasher written d1 then d2 sums to         *)
(* <<d1, d2>>.                                                             *)
(***************************************************************************)
EXTENDS Integers, Sequences

CONSTANTS
    Events,               \* the events a log may hold
    MaxEvents,            \* bound: length of the log
    EFIAppIdx,            \* registerConfig.EFIAppIdx
    ExitBootServicesIdx,  \* registerConfig.ExitBootServicesIdx
    FirmwareDriverIdx     \* registerConfig.FirmwareDriverIdx

\* Data atoms: the two separator payloads 00000000h and FFFFFFFFh, the
\* event-action strings tcg.CallingEFIApplication and
\* tcg.ExitBootServicesInvocation, an EFI_IMAGE_LOAD_EVENT that parses, and
\* bytes of no meaning.
Atoms == {"sep0", "sepF", "calling", "exit", "image", "junk"}

\* Event types: tcg's known types the extractor names, one more it does not
\* name, and "Unknown" for a value tcg.UntrustedParseEventType rejects.
KnownTypes == {"Separator", "EFIAction", "BootServicesApplication",
               "BootServicesDriver", "RuntimeServicesDriver", "EventTag"}
Types == KnownTypes \cup {"Unknown"}

Digests == {<<a>> : a \in Atoms} \cup {<<a, b>> : a, b \in Atoms}
Event == [idx : Nat, type : Types, data : Atoms, digest : Digests]

ASSUME EfiAssumption ==
    /\ Events \subseteq Event
    /\ MaxEvents \in Nat
    /\ {EFIAppIdx, ExitBootServicesIdx, FirmwareDriverIdx} \subseteq Nat

VARIABLES
    log,     \* the events passed to EfiState
    pc,      \* "efi": EfiState's loop, "drv": EfiDriverState's loop, "done"
    k,       \* position of the loop in log
    efi,     \* EfiState's locals
    drv,     \* EfiDriverState's locals
    result   \* "pending", or what EfiState returned: "ok", "nil" or "err"

vars == <<log, pc, k, efi, drv, result>>

-----------------------------------------------------------------------------
(* Digests and the checks on one event.                                    *)

\* tcg's DigestVerified and DigestEquals(e, e.RawData()): H(data) = digest.
DigestVerified(e) == e.digest = <<e.data>>

\* tcg.ParseEFIImageLoad succeeds only on an EFI_IMAGE_LOAD_EVENT payload.
ParseEFIImageLoad(e) == e.data = "image"

\* getSeparatorInfo: one hasher written both payloads in turn, each Sum taken
\* without a Reset, so the n-th digest covers the first n payloads.
SepData == <<"sep0", "sepF">>
separatorData == {SepData[n] : n \in 1..Len(SepData)}
separatorDigests == {SubSeq(SepData, 1, n) : n \in 1..Len(SepData)}

CallingEFIAppDigest == <<"calling">>
ExitBootSvcDigest == <<"exit">>

\* checkIfValidSeparator: "no" (false, nil), "yes" (true, nil) or "err".
checkIfValidSeparator(e) ==
    IF e.type # "Separator" /\ e.digest \notin separatorDigests THEN "no"
    ELSE IF \/ e.type # "Separator"
            \/ ~DigestVerified(e)
            \/ e.data \notin separatorData
         THEN "err"
    ELSE "yes"

\* The EFIAppIdx block of one iteration of EfiState fails.
AppBlockFails(s, e) ==
    LET calling == e.digest = CallingEFIAppDigest
        sep == checkIfValidSeparator(e)
    IN  \/ calling /\ (e.type # "EFIAction" \/ ~DigestVerified(e) \/ s.calling \/ s.sep4)
        \/ e.type = "BootServicesApplication" /\ ~(s.calling \/ calling)
        \/ sep = "err"
        \/ sep = "yes" /\ s.sep4

\* The EFIAppIdx block when it does not fail.
AppBlock(s, e) ==
    [s EXCEPT !.calling = @ \/ e.digest = CallingEFIAppDigest,
              !.apps = IF e.type = "BootServicesApplication" THEN Append(@, e.digest) ELSE @,
              !.sep4 = @ \/ checkIfValidSeparator(e) = "yes"]

\* The ExitBootServicesIdx block fails.
EbsBlockFails(s, e) ==
    IF e.digest = ExitBootSvcDigest
    THEN e.type # "EFIAction" \/ ~DigestVerified(e)
    ELSE \/ checkIfValidSeparator(e) = "err"
         \/ checkIfValidSeparator(e) = "yes" /\ s.sep5

\* One iteration of EfiState's loop fails, the blocks of both registers
\* applying when they are the same register (RTMRs).
EfiIterFails(s, e) ==
    \/ e.idx = EFIAppIdx /\ AppBlockFails(s, e)
    \/ e.idx = ExitBootServicesIdx /\ EbsBlockFails(s, e)

\* Faulty variant: the two register blocks as an if / else-if, which the
\* code's comment warns against since RTMRs share one index.
EfiIterElseIf(s, e) ==
    IF e.idx = EFIAppIdx THEN AppBlock(s, e)
    ELSE IF e.idx = ExitBootServicesIdx
         THEN [s EXCEPT !.ebs = e.digest = ExitBootSvcDigest,
                        !.sep5 = @ \/ (e.digest # ExitBootSvcDigest
                                       /\ checkIfValidSeparator(e) = "yes")]
         ELSE s

\* The locals after an iteration that does not fail.
EfiIter(s, e) ==
    LET s1 == IF e.idx = EFIAppIdx THEN AppBlock(s, e) ELSE s
    IN  IF e.idx = ExitBootServicesIdx
        THEN [s1 EXCEPT !.ebs = e.digest = ExitBootSvcDigest,
                        !.sep5 = @ \/ (e.digest # ExitBootSvcDigest
                                       /\ checkIfValidSeparator(e) = "yes")]
        ELSE s1

\* One iteration of EfiDriverState's loop fails.
DrvIterFails(s, e) ==
    /\ e.idx = FirmwareDriverIdx
    /\ \/ e.type \notin KnownTypes
       \/ e.type = "Separator" /\ (s.sep \/ e.data # "sep0" \/ ~DigestVerified(e))
       \/ /\ e.type \in {"BootServicesDriver", "RuntimeServicesDriver"}
          /\ ~s.sep /\ ~ParseEFIImageLoad(e)

\* Faulty variant: drivers collected after the driver separator too.
DrvIterIgnoringSeparator(s, e) ==
    IF e.idx # FirmwareDriverIdx THEN s
    ELSE [s EXCEPT !.sep = @ \/ e.type = "Separator",
                   !.bs = IF e.type = "BootServicesDriver" THEN Append(@, e.digest) ELSE @,
                   !.rt = IF e.type = "RuntimeServicesDriver" THEN Append(@, e.digest) ELSE @]

\* The locals after an iteration that does not fail.
DrvIter(s, e) ==
    IF e.idx # FirmwareDriverIdx THEN s
    ELSE [s EXCEPT !.sep = @ \/ e.type = "Separator",
                   !.bs = IF e.type = "BootServicesDriver" /\ ~s.sep THEN Append(@, e.digest) ELSE @,
                   !.rt = IF e.type = "RuntimeServicesDriver" /\ ~s.sep THEN Append(@, e.digest) ELSE @]

-----------------------------------------------------------------------------
(* The two loops.                                                          *)

\* The locals of EfiState and of EfiDriverState before their loops.
EfiInit == [sep4 |-> FALSE, sep5 |-> FALSE, calling |-> FALSE, ebs |-> FALSE, apps |-> <<>>]
DrvInit == [sep |-> FALSE, bs |-> <<>>, rt |-> <<>>]

\* Logs of at most MaxEvents events.
Logs == UNION {[1..n -> Events] : n \in 0..MaxEvents}

\* An iteration of EfiState returns an error.
EfiFail ==
    /\ pc = "efi" /\ k <= Len(log)
    /\ EfiIterFails(efi, log[k])
    /\ result' = "err" /\ pc' = "done"
    /\ UNCHANGED <<log, k, efi, drv>>

\* An iteration of EfiState moves on to the next event.
EfiContinue ==
    /\ pc = "efi" /\ k <= Len(log)
    /\ ~EfiIterFails(efi, log[k])
    /\ efi' = EfiIter(efi, log[k])
    /\ ~efi'.ebs
    /\ k' = k + 1
    /\ UNCHANGED <<log, pc, drv, result>>

\* Faulty variant: EfiDriverState's loop started one position early.
EfiExitFromZero ==
    /\ pc = "efi" /\ k <= Len(log)
    /\ ~EfiIterFails(efi, log[k])
    /\ efi' = EfiIter(efi, log[k])
    /\ efi'.ebs
    /\ pc' = "drv" /\ k' = 0
    /\ UNCHANGED <<log, drv, result>>

\* ExitBootServices is met: the loop breaks and EfiDriverState is called.
EfiExit ==
    /\ pc = "efi" /\ k <= Len(log)
    /\ ~EfiIterFails(efi, log[k])
    /\ efi' = EfiIter(efi, log[k])
    /\ efi'.ebs
    /\ pc' = "drv" /\ k' = 1
    /\ UNCHANGED <<log, drv, result>>

\* The log ends without ExitBootServices: EfiState returns nil, nil.
EfiEnd ==
    /\ pc = "efi" /\ k > Len(log)
    /\ result' = "nil" /\ pc' = "done"
    /\ UNCHANGED <<log, k, efi, drv>>

\* An iteration of EfiDriverState returns an error, which EfiState returns.
DrvFail ==
    /\ pc = "drv" /\ k <= Len(log)
    /\ DrvIterFails(drv, log[k])
    /\ result' = "err" /\ pc' = "done"
    /\ UNCHANGED <<log, k, efi, drv>>

DrvContinue ==
    /\ pc = "drv" /\ k <= Len(log)
    /\ ~DrvIterFails(drv, log[k])
    /\ drv' = DrvIter(drv, log[k])
    /\ k' = k + 1
    /\ UNCHANGED <<log, pc, efi, result>>

\* EfiDriverState returns its drivers and EfiState its EfiState.
DrvEnd ==
    /\ pc = "drv" /\ k > Len(log)
    /\ result' = "ok" /\ pc' = "done"
    /\ UNCHANGED <<log, k, efi, drv>>

Init ==
    /\ log \in Logs
    /\ pc = "efi" /\ k = 1
    /\ efi = EfiInit /\ drv = DrvInit
    /\ result = "pending"

Next == EfiFail \/ EfiContinue \/ EfiExit \/ EfiEnd \/ DrvFail \/ DrvContinue \/ DrvEnd

Spec == Init /\ [][Next]_vars

-----------------------------------------------------------------------------
(* Properties.                                                             *)

TypeOK ==
    /\ log \in Logs
    /\ pc \in {"efi", "drv", "done"}
    /\ k \in 1..Len(log) + 1
    /\ efi \in [sep4 : BOOLEAN, sep5 : BOOLEAN, calling : BOOLEAN, ebs : BOOLEAN,
               apps : Seq(Digests)]
    /\ drv \in [sep : BOOLEAN, bs : Seq(Digests), rt : Seq(Digests)]
    /\ result \in {"pending", "ok", "nil", "err"}

\* The least element of a non-empty set of positions.
First(P) == CHOOSE n \in P : \A m \in P : n <= m

\* The first position of P, or d when P is empty.
FirstOr(P, d) == IF P = {} THEN d ELSE First(P)

\* The positions before m of the events of s on register i of type t.
TypedPositions(s, m, i, t) == {n \in 1..m - 1 : s[n].idx = i /\ s[n].type = t}

\* The positions of the ExitBootServices digests on their register.
ExitPositions(s) ==
    {n \in 1..Len(s) : s[n].idx = ExitBootServicesIdx /\ s[n].digest = ExitBootSvcDigest}

\* The position of the first separator of s on register i, or Len(s) + 1.
SeparatorEnd(s, i) == FirstOr(TypedPositions(s, Len(s) + 1, i, "Separator"), Len(s) + 1)

\* c is the sequence of the digests of the events of s before position m
\* on register i of type t, in log order: an increasing map from the
\* positions of c onto TypedPositions(s, m, i, t) picks each one's event.
IsSelected(s, m, i, t, c) ==
    \E f \in [1..Len(c) -> TypedPositions(s, m, i, t)] :
        /\ \A a, b \in 1..Len(c) : a < b => f[a] < f[b]
        /\ \A n \in TypedPositions(s, m, i, t) : \E a \in 1..Len(c) : f[a] = n
        /\ \A a \in 1..Len(c) : c[a] = s[f[a]].digest

\* EfiState returns nil without error only for logs with no ExitBootServices
\* digest on its register.  When it returns a state, the first such event is
\* a verified EV_EFI_ACTION, the applications are exactly those measured on
\* the application register before it, and the drivers exactly those
\* measured on the driver register before that register's separator.
EfiResultCorrect ==
    /\ result = "nil" => ExitPositions(log) = {}
    /\ result = "ok" =>
        LET x == First(ExitPositions(log))
            d == SeparatorEnd(log, FirmwareDriverIdx)
        IN  /\ ExitPositions(log) # {}
            /\ log[x].type = "EFIAction" /\ DigestVerified(log[x])
            /\ IsSelected(log, x + 1, EFIAppIdx, "BootServicesApplication", efi.apps)
            /\ IsSelected(log, d, FirmwareDriverIdx, "BootServicesDriver", drv.bs)
            /\ IsSelected(log, d, FirmwareDriverIdx, "RuntimeServicesDriver", drv.rt)

\* Spec 4.E.5: an event on a scanned register whose digest is the digest of
\* a separator payload but whose type is not EV_SEPARATOR is rejected, so
\* EfiState never returns without error for a log holding one before the
\* point where its scan stops.
SeparatorSpoofRejected ==
    result \in {"ok", "nil"} =>
        LET scanned == IF ExitPositions(log) = {} THEN log
                       ELSE SubSeq(log, 1, First(ExitPositions(log)))
        IN  \A n \in 1..Len(scanned) :
                /\ scanned[n].idx \in {EFIAppIdx, ExitBootServicesIdx}
                /\ scanned[n].type # "Separator"
                => scanned[n].digest \notin {<<SepData[m]>> : m \in 1..Len(SepData)}

\* Spec 4.E.3: on the ExitBootServices register EfiState requires exactly
\* one valid separator as well as the ExitBootServices action, so it never
\* reports a state for a log whose scan saw no separator there.
EbsSeparatorRequired ==
    result = "ok" => efi.sep5

=============================================================================
