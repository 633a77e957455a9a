------------------------------ MODULE Platform ------------------------------
(***************************************************************************)
(* PlatformState of package extract (src/extract/extract.go 293-342), the  *)
(* TPM log's platform extracter: a scan of PCR0 up to its first valid      *)
(* separator capturing the SCRTM version string and the non-host-info      *)
(* blob, then the wellknown conversions.  One step is one iteration of the *)
(* loop, or the conversions after it.                                      *)
(*                                                                         *)
(* Payloads are byte strings.  Hashes are collision-free, as in Efi: a     *)
(* digest is the sequence of the payloads written into the hasher since it *)
(* was created or Reset, so H(d) is <<d>>.                                 *)
(***************************************************************************)
EXTENDS Wellknown

CONSTANTS
    Events,      \* the events a log may hold
    MaxEvents    \* bound: length of the log

\* The event types PlatformState tells apart, and any other.
Types == {"Separator", "SCRTMVersion", "NonhostInfo", "EFIAction", "Other"}

Bytes == 0..255
Event == [idx : Nat, type : Types, data : Seq(Bytes), digest : Seq(Seq(Bytes))]

ASSUME PlatformAssumption ==
    /\ Events \subseteq Event
    /\ MaxEvents \in Nat

VARIABLES
    log,      \* the replayed events
    pc,       \* "scan": the loop, "convert": after it, "done"
    k,        \* position of the loop in log
    p,        \* the loop's locals versionString and nonHostInfo
    result,   \* "pending", or what PlatformState returned: "ok" or "err"
    state     \* the PlatformState returned

vars == <<log, pc, k, p, result, state>>

-----------------------------------------------------------------------------

\* tcg's DigestVerified: H(data) = digest.
DigestVerified(e) == e.digest = <<e.data>>

\* getSeparatorInfo: 00000000h and FFFFFFFFh, written in turn into one
\* hasher whose Sum is taken without a Reset.
Sep0 == <<0, 0, 0, 0>>
SepF == <<255, 255, 255, 255>>
separatorData == {Sep0, SepF}
separatorDigests == {<<Sep0>>, <<Sep0, SepF>>}

\* checkIfValidSeparator: "no" (false, nil), "yes" (true, nil) or "err".
checkIfValidSeparator(e) ==
    IF e.type # "Separator" /\ e.digest \notin separatorDigests THEN "no"
    ELSE IF \/ e.type # "Separator"
            \/ ~DigestVerified(e)
            \/ e.data \notin separatorData
         THEN "err"
    ELSE "yes"

\* An iteration on a PCR0 event returns an error.
PlatformIterFails(e) ==
    /\ e.idx = 0
    /\ \/ checkIfValidSeparator(e) = "err"
       \/ e.type \in {"SCRTMVersion", "NonhostInfo"} /\ ~DigestVerified(e)

\* The locals after an iteration that neither fails nor breaks: the last
\* version string and non-host info seen.
PlatformIter(s, e) ==
    IF e.idx # 0 THEN s
    ELSE [s EXCEPT !.version = IF e.type = "SCRTMVersion" THEN e.data ELSE @,
                   !.nonHost = IF e.type = "NonhostInfo" THEN e.data ELSE @]

\* The PlatformState built from the locals after the loop: the GCE version
\* when the version string parses, else the raw string; the technology when
\* the non-host info parses, else NONE (0).
PlatformOf(s) ==
    LET v == ConvertSCRTMVersionToGCEFirmwareVersion(s.version)
        t == ParseGCENonHostInfo(s.nonHost)
    IN  [gce |-> v.ok,
         firmware |-> IF v.ok THEN <<v.val>> ELSE s.version,
         technology |-> IF t.ok THEN t.tech ELSE 0]

PlatformInit == [version |-> <<>>, nonHost |-> <<>>]

Logs == UNION {[1..n -> Events] : n \in 0..MaxEvents}

PlatformFail ==
    /\ pc = "scan" /\ k <= Len(log)
    /\ PlatformIterFails(log[k])
    /\ result' = "err" /\ pc' = "done"
    /\ UNCHANGED <<log, k, p, state>>

\* Faulty variant: the loop goes on past the separator.
PlatformSeparatorContinue ==
    /\ pc = "scan" /\ k <= Len(log)
    /\ log[k].idx = 0 /\ checkIfValidSeparator(log[k]) = "yes"
    /\ k' = k + 1
    /\ UNCHANGED <<log, pc, p, result, state>>

\* A valid PCR0 separator: no later PCR0 event is trusted.
PlatformBreak ==
    /\ pc = "scan" /\ k <= Len(log)
    /\ log[k].idx = 0 /\ checkIfValidSeparator(log[k]) = "yes"
    /\ pc' = "convert"
    /\ UNCHANGED <<log, k, p, result, state>>

PlatformContinue ==
    /\ pc = "scan" /\ k <= Len(log)
    /\ ~PlatformIterFails(log[k])
    /\ ~(log[k].idx = 0 /\ checkIfValidSeparator(log[k]) = "yes")
    /\ p' = PlatformIter(p, log[k])
    /\ k' = k + 1
    /\ UNCHANGED <<log, pc, result, state>>

PlatformLoopEnd ==
    /\ pc = "scan" /\ k > Len(log)
    /\ pc' = "convert"
    /\ UNCHANGED <<log, k, p, result, state>>

\* The conversions after the loop; PlatformState returns the state.
PlatformConvert ==
    /\ pc = "convert"
    /\ state' = PlatformOf(p)
    /\ result' = "ok" /\ pc' = "done"
    /\ UNCHANGED <<log, k, p>>

Init ==
    /\ log \in Logs
    /\ pc = "scan" /\ k = 1
    /\ p = PlatformInit
    /\ result = "pending"
    /\ state = PlatformOf(PlatformInit)

Next == PlatformFail \/ PlatformBreak \/ PlatformContinue \/ PlatformLoopEnd \/ PlatformConvert

Spec == Init /\ [][Next]_vars

-----------------------------------------------------------------------------
(* Properties.                                                             *)

TypeOK ==
    /\ log \in Logs
    /\ pc \in {"scan", "convert", "done"}
    /\ k \in 1..Len(log) + 1
    /\ p \in [version : Seq(Bytes), nonHost : Seq(Bytes)]
    /\ result \in {"pending", "ok", "err"}
    /\ state \in [gce : BOOLEAN, firmware : Seq(Nat), technology : 0..AMD_SEV_SNP]

\* The position in s of its first EV_SEPARATOR on PCR0, or Len(s) + 1.
FirstSeparator(s) ==
    LET seps == {n \in 1..Len(s) : s[n].idx = 0 /\ s[n].type = "Separator"}
    IN  IF seps = {} THEN Len(s) + 1 ELSE CHOOSE n \in seps : \A m \in seps : n <= m

\* The positions of the PCR0 events of s of type t before position m.
PositionsBefore(s, m, t) == {n \in 1..m - 1 : s[n].idx = 0 /\ s[n].type = t}

\* The data of the last PCR0 event of s of type t before position m, or the
\* empty string.
LastData(s, m, t) ==
    LET ns == PositionsBefore(s, m, t)
    IN  IF ns = {} THEN <<>> ELSE s[CHOOSE n \in ns : \A j \in ns : j <= n].data

\* Spec 4.E.1: PlatformState returns the state of the last verified SCRTM
\* version and non-host info events on PCR0 before its separator; nothing
\* measured after the separator, or on another register, changes it, and
\* every event it captured was verified.
PlatformStateCorrect ==
    result = "ok" =>
        LET f == FirstSeparator(log)
        IN  /\ state = PlatformOf([version |-> LastData(log, f, "SCRTMVersion"),
                                   nonHost |-> LastData(log, f, "NonhostInfo")])
            /\ \A n \in 1..f - 1 :
                  log[n].idx = 0 /\ log[n].type \in {"SCRTMVersion", "NonhostInfo"}
                  => DigestVerified(log[n])
=============================================================================
