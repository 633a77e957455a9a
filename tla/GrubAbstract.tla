---------------------------- MODULE GrubAbstract ----------------------------
(***************************************************************************)
(* What GRUB extraction promises (spec section 4.E.4), stated over the     *)
(* whole log in one step each for the GRUB state and the kernel command    *)
(* line, with no loop.  On the commands register every event that is not   *)
(* EV_EVENT_TAG must be EV_IPL, begin with a recognised prefix and carry   *)
(* the digest of its suffix (or of the suffix without its final NUL); on   *)
(* the files register (TPM logs only) every such event must be EV_IPL.     *)
(* The commands are the raw payloads and the files the (digest, name)      *)
(* pairs, in log order; nothing measured is an error.  The kernel command  *)
(* line is taken from the GRUB state's commands.                           *)
(***************************************************************************)
EXTENDS GrubData

CONSTANTS
    Events,      \* the events a log may hold
    MaxEvents,   \* bound: length of the log
    LogKind      \* "TPM" (PCR 8 and 9) or "CC" (RTMR2, CC index 3)

VARIABLES
    log,         \* the replayed events
    grubOut,     \* the GRUB state, or "err", once computed
    kernelOut    \* the kernel state once computed

CmdReg == IF LogKind = "TPM" THEN 8 ELSE 3
FileRegs == IF LogKind = "TPM" THEN {9} ELSE {}

\* An event the GRUB state accounts for.
Measured(e) == e.idx \in {CmdReg} \cup FileRegs /\ e.type # "EventTag"

Acceptable(e) ==
    /\ e.type = "Ipl"
    /\ e.idx = CmdReg => suffixAt(e.data) # -1 /\ grubDigestOK(e)

\* The positions before m of the commands, and of the files, the GRUB state
\* accounts for.
CmdPositions(s, m) == {n \in 1..m - 1 : Measured(s[n]) /\ s[n].idx = CmdReg}
FilePositions(s, m) == {n \in 1..m - 1 : Measured(s[n]) /\ s[n].idx \in FileRegs}

\* The rank of position p in the set P of positions, and the a-th position
\* of P in log order: the list of the events at P is a |-> s[Nth(P, a)].
Rank(P, p) == Cardinality({q \in P : q <= p})
Nth(P, a) == CHOOSE p \in P : Rank(P, p) = a

\* The commands (raw payloads) and files ((digest, name) pairs) at P.
CommandsAt(s, P) == [a \in 1..Cardinality(P) |-> s[Nth(P, a)].data]
FilesAt(s, P) ==
    [a \in 1..Cardinality(P) |-> [digest |-> s[Nth(P, a)].digest, name |-> s[Nth(P, a)].data]]

GrubErr == [st |-> "err", files |-> <<>>, commands |-> <<>>]

\* The GRUB state the log determines.
GrubOf(s) ==
    IF \/ \E n \in 1..Len(s) : Measured(s[n]) /\ ~Acceptable(s[n])
       \/ \A n \in 1..Len(s) : ~Measured(s[n])
    THEN GrubErr
    ELSE [st |-> "ok",
          files |-> FilesAt(s, FilePositions(s, Len(s) + 1)),
          commands |-> CommandsAt(s, CmdPositions(s, Len(s) + 1))]

avars == <<log, grubOut, kernelOut>>

Logs == UNION {[1..n -> Events] : n \in 0..MaxEvents}

Init ==
    /\ log \in Logs
    /\ grubOut = GrubPending
    /\ kernelOut = KernelPending

ExtractGrub ==
    /\ grubOut = GrubPending
    /\ grubOut' = GrubOf(log)
    /\ UNCHANGED <<log, kernelOut>>

ExtractKernel ==
    /\ grubOut # GrubPending /\ kernelOut = KernelPending
    /\ kernelOut' = LinuxKernelStateFromGRUB(grubOut.commands)
    /\ UNCHANGED <<log, grubOut>>

Next == ExtractGrub \/ ExtractKernel

\* The safety part of the contract: the two states appear in that order,
\* each in one step, and are those the log determines.
SafetySpec == Init /\ [][Next]_avars

Spec == SafetySpec /\ WF_avars(Next)
=============================================================================
