--------------------------- MODULE Platform_proofs ---------------------------
(***************************************************************************)
(* Proof that PlatformState reports exactly what PCR0 measured before its  *)
(* first separator (PlatformStateCorrect), for every log and every set of  *)
(* events.  The state's own type is left to TLC: it is the range of the    *)
(* wellknown conversions, which rest on recursive functions (DecimalValue, *)
(* Itoa) whose values the provers cannot compute.                          *)
(***************************************************************************)
EXTENDS Platform, TLAPS

\* The loop's locals.
PlatformLocals == [version : Seq(Bytes), nonHost : Seq(Bytes)]

\* The typing the proof needs: every variable but the returned state.
LocalsOK ==
    /\ log \in Seq(Event)
    /\ pc \in {"scan", "convert", "done"}
    /\ k \in 1..Len(log) + 1
    /\ p \in PlatformLocals
    /\ result \in {"pending", "ok", "err"}

\* While the loop runs or converts, nothing was returned, no PCR0 event
\* before k is an EV_SEPARATOR, every version and non-host info event before
\* k was verified, and the locals hold the last of each before k.
ScanInv ==
    pc \in {"scan", "convert"} =>
        /\ result = "pending"
        /\ PositionsBefore(log, k, "Separator") = {}
        /\ \A n \in 1..k - 1 :
              log[n].idx = 0 /\ log[n].type \in {"SCRTMVersion", "NonhostInfo"}
              => DigestVerified(log[n])
        /\ p = [version |-> LastData(log, k, "SCRTMVersion"),
                nonHost |-> LastData(log, k, "NonhostInfo")]

\* The loop stopped at the first PCR0 separator, or at the end of the log.
ConvertInv == pc = "convert" => k = FirstSeparator(log)

\* The inductive invariant behind PlatformStateCorrect.
IInv == LocalsOK /\ ScanInv /\ ConvertInv /\ PlatformStateCorrect

-----------------------------------------------------------------------------
(* Lemmas about the operators.                                             *)

\* A log of the model is a sequence of events no longer than MaxEvents.
LEMMA LogEvents ==
    ASSUME NEW s \in Logs
    PROVE  s \in Seq(Event) /\ Len(s) \in 0..MaxEvents
<1>1. PICK m \in 0..MaxEvents : s \in [1..m -> Events]
    BY DEF Logs
<1>2. Len(s) = m
    BY <1>1
<1>. QED  BY <1>1, <1>2, PlatformAssumption

\* checkIfValidSeparator says "yes" only of an EV_SEPARATOR, and of an
\* EV_SEPARATOR it says "yes" or "err".
LEMMA SeparatorCheck ==
    ASSUME NEW e \in Event
    PROVE  /\ checkIfValidSeparator(e) = "yes" => e.type = "Separator"
           /\ e.type = "Separator" => checkIfValidSeparator(e) \in {"yes", "err"}
BY DEF checkIfValidSeparator

\* One more position of the scan: LastData moves to the event at m when it
\* is a PCR0 event of type t, and stays otherwise.
LEMMA LastDataStep ==
    ASSUME NEW s \in Seq(Event), NEW m \in 1..Len(s), NEW t
    PROVE  LastData(s, m + 1, t) =
              IF s[m].idx = 0 /\ s[m].type = t THEN s[m].data ELSE LastData(s, m, t)
<1>. DEFINE ns == PositionsBefore(s, m + 1, t)
<1>1. CASE s[m].idx = 0 /\ s[m].type = t
  <2>1. m \in ns /\ \A n \in ns : n <= m
    BY <1>1 DEF PositionsBefore
  <2>. DEFINE c == CHOOSE n \in ns : \A j \in ns : j <= n
  <2>2. c \in ns /\ \A j \in ns : j <= c
    BY <2>1
  <2>3. c = m
    BY <2>1, <2>2 DEF PositionsBefore
  <2>. QED  BY <1>1, <2>1, <2>3 DEF LastData
<1>2. CASE ~(s[m].idx = 0 /\ s[m].type = t)
  <2>. DEFINE ms == PositionsBefore(s, m, t)
  <2>1. ns = ms
    BY <1>2 DEF PositionsBefore
  <2>2. CASE ms = {}
    BY <1>2, <2>1, <2>2 DEF LastData
  <2>3. CASE ms # {}
    <3>1. (CHOOSE n \in ns : \A j \in ns : j <= n) = (CHOOSE n \in ms : \A j \in ms : j <= n)
      BY <2>1, Zenon
    <3>2. LastData(s, m + 1, t) = s[CHOOSE n \in ns : \A j \in ns : j <= n].data
      BY <2>1, <2>3 DEF LastData
    <3>3. LastData(s, m, t) = s[CHOOSE n \in ms : \A j \in ms : j <= n].data
      BY <2>3 DEF LastData
    <3>. QED  BY <1>2, <3>1, <3>2, <3>3
  <2>. QED  BY <2>2, <2>3
<1>. QED  BY <1>1, <1>2

\* Before the first position nothing is captured.
LEMMA LastDataFirst ==
    ASSUME NEW s \in Seq(Event), NEW t
    PROVE  LastData(s, 1, t) = <<>>
BY DEF LastData, PositionsBefore

\* A scan that saw no PCR0 separator before m and stops at m, at a PCR0
\* separator or at the end of the log, stopped at the first separator.
LEMMA FirstSeparatorAt ==
    ASSUME NEW s \in Seq(Event), NEW m \in 1..Len(s) + 1,
           PositionsBefore(s, m, "Separator") = {},
           m <= Len(s) => s[m].idx = 0 /\ s[m].type = "Separator"
    PROVE  FirstSeparator(s) = m
<1>. DEFINE seps == {n \in 1..Len(s) : s[n].idx = 0 /\ s[n].type = "Separator"}
<1>1. \A n \in seps : m <= n
    BY DEF PositionsBefore
<1>2. CASE m = Len(s) + 1
  <2>1. seps = {}
    BY <1>1, <1>2
  <2>. QED  BY <1>2, <2>1 DEF FirstSeparator
<1>3. CASE m <= Len(s)
  <2>1. m \in seps
    BY <1>3
  <2>. DEFINE c == CHOOSE n \in seps : \A j \in seps : n <= j
  <2>2. c \in seps /\ \A j \in seps : c <= j
    BY <1>1, <2>1
  <2>3. c = m
    BY <1>1, <2>1, <2>2
  <2>. QED  BY <2>1, <2>3 DEF FirstSeparator
<1>. QED  BY <1>2, <1>3
-----------------------------------------------------------------------------
(* The inductive invariant.                                                *)

LEMMA InitIInv == Init => IInv
<1> SUFFICES ASSUME Init PROVE IInv
  OBVIOUS
<1>1. log \in Seq(Event) /\ Len(log) \in Nat
  BY LogEvents DEF Init
<1>2. LocalsOK
  BY <1>1 DEF Init, LocalsOK, PlatformInit, PlatformLocals
<1>3. ScanInv
  BY <1>1, LastDataFirst DEF Init, ScanInv, PositionsBefore, PlatformInit
<1>. QED  BY <1>2, <1>3 DEF Init, IInv, ConvertInv, PlatformStateCorrect

\* The failed iteration returns an error: nothing is left to hold.
LEMMA FailIInv == IInv /\ PlatformFail => IInv'
BY DEF IInv, PlatformFail, LocalsOK, ScanInv, ConvertInv, PlatformStateCorrect

\* Breaking at a valid separator stops the scan at the first separator.
LEMMA BreakIInv == IInv /\ PlatformBreak => IInv'
<1> SUFFICES ASSUME IInv, PlatformBreak PROVE IInv'
  OBVIOUS
<1>1. log \in Seq(Event) /\ k \in 1..Len(log) /\ log[k] \in Event
  BY DEF IInv, LocalsOK, PlatformBreak
<1>2. log[k].type = "Separator"
  BY <1>1, SeparatorCheck DEF PlatformBreak
<1>3. FirstSeparator(log) = k
  BY <1>1, <1>2, FirstSeparatorAt DEF IInv, ScanInv, PlatformBreak
<1>. QED  BY <1>3 DEF IInv, PlatformBreak, LocalsOK, ScanInv, ConvertInv, PlatformStateCorrect

\* The end of the log without a separator is the first separator's place.
LEMMA LoopEndIInv == IInv /\ PlatformLoopEnd => IInv'
<1> SUFFICES ASSUME IInv, PlatformLoopEnd PROVE IInv'
  OBVIOUS
<1>1. log \in Seq(Event) /\ k = Len(log) + 1
  BY DEF IInv, LocalsOK, PlatformLoopEnd
<1>2. FirstSeparator(log) = k
  BY <1>1, FirstSeparatorAt DEF IInv, ScanInv, PlatformLoopEnd
<1>. QED  BY <1>2 DEF IInv, PlatformLoopEnd, LocalsOK, ScanInv, ConvertInv, PlatformStateCorrect

\* The conversion reports the locals, which hold what PlatformStateCorrect asks.
LEMMA ConvertIInv == IInv /\ PlatformConvert => IInv'
BY DEF IInv, PlatformConvert, LocalsOK, ScanInv, ConvertInv, PlatformStateCorrect

\* An iteration that neither fails nor breaks moves k past an event that is
\* no PCR0 separator, was verified if it is a version or non-host info
\* event, and is what the locals capture.
LEMMA ContinueIInv == IInv /\ PlatformContinue => IInv'
<1> SUFFICES ASSUME IInv, PlatformContinue PROVE IInv'
  OBVIOUS
<1>. DEFINE e == log[k]
<1>1. log \in Seq(Event) /\ k \in 1..Len(log) /\ e \in Event /\ p \in PlatformLocals
  BY DEF IInv, LocalsOK, PlatformContinue
<1>2. pc = "scan" /\ pc' = "scan" /\ result' = "pending" /\ log' = log /\ k' = k + 1
  BY DEF IInv, ScanInv, PlatformContinue
<1>3. e.idx = 0 => e.type # "Separator"
  BY <1>1, SeparatorCheck DEF PlatformContinue, PlatformIterFails
<1>4. e.idx = 0 /\ e.type \in {"SCRTMVersion", "NonhostInfo"} => DigestVerified(e)
  BY DEF PlatformContinue, PlatformIterFails
<1>5. LocalsOK'
  <2>1. e.data \in Seq(Bytes)
    BY <1>1 DEF Event
  <2>2. PlatformIter(p, e) \in PlatformLocals
    BY <1>1, <2>1 DEF PlatformIter, PlatformLocals
  <2>. QED  BY <1>1, <1>2, <2>2 DEF PlatformContinue, LocalsOK, IInv
<1>6. PositionsBefore(log, k + 1, "Separator") = {}
  BY <1>1, <1>2, <1>3 DEF IInv, ScanInv, PositionsBefore
<1>7. \A n \in 1..k :
         log[n].idx = 0 /\ log[n].type \in {"SCRTMVersion", "NonhostInfo"}
         => DigestVerified(log[n])
  BY <1>1, <1>2, <1>4 DEF IInv, ScanInv
<1>8. p' = [version |-> LastData(log, k + 1, "SCRTMVersion"),
            nonHost |-> LastData(log, k + 1, "NonhostInfo")]
  <2>1. /\ LastData(log, k + 1, "SCRTMVersion") =
              IF e.idx = 0 /\ e.type = "SCRTMVersion" THEN e.data
              ELSE LastData(log, k, "SCRTMVersion")
        /\ LastData(log, k + 1, "NonhostInfo") =
              IF e.idx = 0 /\ e.type = "NonhostInfo" THEN e.data
              ELSE LastData(log, k, "NonhostInfo")
    BY <1>1, LastDataStep
  <2>2. p = [version |-> LastData(log, k, "SCRTMVersion"),
             nonHost |-> LastData(log, k, "NonhostInfo")]
    BY DEF IInv, ScanInv, PlatformContinue
  <2>. QED  BY <2>1, <2>2 DEF PlatformContinue, PlatformIter
<1>9. ScanInv'
  <2>1. PositionsBefore(log', k', "Separator") = {}
    BY <1>2, <1>6
  <2>2. \A n \in 1..k' - 1 :
           log'[n].idx = 0 /\ log'[n].type \in {"SCRTMVersion", "NonhostInfo"}
           => DigestVerified(log'[n])
    BY <1>1, <1>2, <1>7
  <2>. QED  BY <1>2, <1>8, <2>1, <2>2 DEF ScanInv
<1>. QED  BY <1>2, <1>5, <1>9 DEF ConvertInv, PlatformStateCorrect, IInv

LEMMA NextIInv == IInv /\ [Next]_vars => IInv'
<1> SUFFICES ASSUME IInv, [Next]_vars PROVE IInv'
  OBVIOUS
<1>1. CASE PlatformFail      BY <1>1, FailIInv
<1>2. CASE PlatformBreak     BY <1>2, BreakIInv
<1>3. CASE PlatformContinue  BY <1>3, ContinueIInv
<1>4. CASE PlatformLoopEnd   BY <1>4, LoopEndIInv
<1>5. CASE PlatformConvert   BY <1>5, ConvertIInv
<1>6. CASE UNCHANGED vars
  <2>1. log' = log /\ pc' = pc /\ k' = k /\ p' = p /\ result' = result /\ state' = state
    BY <1>6 DEF vars
  <2>. QED  BY <2>1 DEF IInv, LocalsOK, ScanInv, ConvertInv, PlatformStateCorrect
<1>. QED  BY <1>1, <1>2, <1>3, <1>4, <1>5, <1>6 DEF Next

\* PlatformState, when it returns without error, reports the wellknown
\* conversions of the last SCRTM version and non-host info events of PCR0
\* before the log's first separator, and every one of those events had a
\* verified digest (src/extract/extract.go 293-342).
THEOREM PlatformStateCorrectThm == Spec => []PlatformStateCorrect
<1>1. IInv => PlatformStateCorrect
  BY DEF IInv
<1>. QED  BY InitIInv, NextIInv, <1>1, PTL DEF Spec
=============================================================================
