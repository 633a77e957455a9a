-------------------------------- MODULE Grub --------------------------------
(***************************************************************************)
(* The GRUB part of FirmwareLogState (src/extract/extract.go 99-109): the  *)
(* log's GRUB extracter, GrubStateFromTPMLog (src/extract/pcr.go) for a    *)
(* TPM log or GrubStateFromRTMRLog (src/register/fake_mr.go) for a CC log, *)
(* then LinuxKernelStateFromGRUB on the state it returned, nil included.   *)
(* One step is one iteration of the extracter's loop, its final check, or  *)
(* the kernel call.                                                        *)
(***************************************************************************)
EXTENDS GrubData

CONSTANTS
    Events,      \* the events a log may hold
    MaxEvents,   \* bound: length of the log
    LogKind      \* "TPM" (GrubStateFromTPMLog) or "CC" (GrubStateFromRTMRLog)

ASSUME GrubAssumption ==
    /\ Events \subseteq Event
    /\ MaxEvents \in Nat
    /\ LogKind \in {"TPM", "CC"}

VARIABLES
    log,      \* the replayed events
    pc,       \* "grub": the extracter's loop, "kernel", "done"
    k,        \* position of the loop in log
    g,        \* the extracter's locals: files and commands
    grub,     \* "pending", or the extracter's outcome: "ok" or "err"
    kernel    \* LinuxKernelStateFromGRUB's outcome

vars == <<log, pc, k, g, grub, kernel>>

-----------------------------------------------------------------------------
(* One iteration of each extracter's loop.                                 *)

\* Faulty variant: the digest of a PCR8 command is not checked.
TpmIterFailsUnverified(e) ==
    /\ e.idx \in {8, 9} /\ e.type # "EventTag"
    /\ \/ e.type # "Ipl"
       \/ e.idx = 8 /\ suffixAt(e.data) = -1

\* GrubStateFromTPMLog returns an error on this event.
TpmIterFails(e) ==
    /\ e.idx \in {8, 9} /\ e.type # "EventTag"
    /\ \/ e.type # "Ipl"
       \/ e.idx = 8 /\ suffixAt(e.data) = -1
       \/ e.idx = 8 /\ suffixAt(e.data) # -1 /\ ~grubDigestOK(e)

\* Faulty variant: a command recorded without its prefix.
TpmIterStripped(s, e) ==
    IF e.idx \notin {8, 9} \/ e.type = "EventTag" THEN s
    ELSE IF e.idx = 9 THEN [s EXCEPT !.files = Append(@, [digest |-> e.digest, name |-> e.data])]
    ELSE [s EXCEPT !.commands = Append(@, suffixOf(e.data))]

\* GrubStateFromTPMLog's locals after an event it does not fail on: a file
\* for PCR9, the whole raw payload as a command for PCR8.
TpmIter(s, e) ==
    IF e.idx \notin {8, 9} \/ e.type = "EventTag" THEN s
    ELSE IF e.idx = 9 THEN [s EXCEPT !.files = Append(@, [digest |-> e.digest, name |-> e.data])]
    ELSE [s EXCEPT !.commands = Append(@, e.data)]

\* GrubStateFromRTMRLog returns an error on this event.
RtmrIterFails(e) ==
    /\ e.idx = 3 /\ e.type # "EventTag"
    /\ \/ e.type # "Ipl"
       \/ suffixAt(e.data) # -1 /\ ~grubDigestOK(e)

\* GrubStateFromRTMRLog's locals: an event with no valid prefix is skipped.
RtmrIter(s, e) ==
    IF e.idx = 3 /\ e.type # "EventTag" /\ suffixAt(e.data) # -1
    THEN [s EXCEPT !.commands = Append(@, e.data)]
    ELSE s

IterFails(e) == IF LogKind = "TPM" THEN TpmIterFails(e) ELSE RtmrIterFails(e)
Iter(s, e) == IF LogKind = "TPM" THEN TpmIter(s, e) ELSE RtmrIter(s, e)

\* The check after the loop: "no GRUB measurements found".
NothingFound(s) ==
    IF LogKind = "TPM" THEN s.files = <<>> /\ s.commands = <<>> ELSE s.commands = <<>>

-----------------------------------------------------------------------------
(* The steps.                                                              *)

GrubInit == [files |-> <<>>, commands |-> <<>>]

Logs == UNION {[1..n -> Events] : n \in 0..MaxEvents}

\* An iteration returns an error; FirmwareLogState joins it and goes on.
GrubFail ==
    /\ pc = "grub" /\ k <= Len(log)
    /\ IterFails(log[k])
    /\ grub' = "err" /\ pc' = "kernel"
    /\ UNCHANGED <<log, k, g, kernel>>

\* Faulty variant: the loop index advanced twice.
GrubContinueSkipping ==
    /\ pc = "grub" /\ k <= Len(log)
    /\ ~IterFails(log[k])
    /\ g' = Iter(g, log[k])
    /\ k' = k + 2
    /\ UNCHANGED <<log, pc, grub, kernel>>

GrubContinue ==
    /\ pc = "grub" /\ k <= Len(log)
    /\ ~IterFails(log[k])
    /\ g' = Iter(g, log[k])
    /\ k' = k + 1
    /\ UNCHANGED <<log, pc, grub, kernel>>

\* The loop ends: the GrubState, or the error when nothing was found.
GrubEnd ==
    /\ pc = "grub" /\ k > Len(log)
    /\ grub' = IF NothingFound(g) THEN "err" ELSE "ok"
    /\ pc' = "kernel"
    /\ UNCHANGED <<log, k, g, kernel>>

\* LinuxKernelStateFromGRUB(grub): a nil GrubState has no commands.
Kernel ==
    /\ pc = "kernel"
    /\ kernel' = LinuxKernelStateFromGRUB(IF grub = "ok" THEN g.commands ELSE <<>>)
    /\ pc' = "done"
    /\ UNCHANGED <<log, k, g, grub>>

Init ==
    /\ log \in Logs
    /\ pc = "grub" /\ k = 1
    /\ g = GrubInit
    /\ grub = "pending"
    /\ kernel = KernelPending

Next == GrubFail \/ GrubContinue \/ GrubEnd \/ Kernel

\* The steps run in one goroutine that nothing blocks: each loop iteration,
\* once enabled, is eventually taken.
Spec == Init /\ [][Next]_vars /\ WF_vars(Next)

-----------------------------------------------------------------------------
(* Properties.                                                             *)

TypeOK ==
    /\ log \in Logs
    /\ pc \in {"grub", "kernel", "done"}
    /\ k \in 1..Len(log) + 1
    /\ g \in [files : Seq([digest : Seq(Bytes), name : Seq(Bytes)]), commands : Seq(Seq(Bytes))]
    /\ grub \in {"pending", "ok", "err"}
    /\ kernel \in [st : {"pending", "ok", "err"}, cmdline : Seq(Bytes)]

\* The positions of the log's EV_IPL events on the GRUB commands register
\* whose payload starts with a kernel command line prefix.
KernelCmdlineEvents ==
    {n \in 1..Len(log) : /\ log[n].idx = (IF LogKind = "TPM" THEN 8 ELSE 3)
                         /\ log[n].type = "Ipl"
                         /\ getGrubKernelCmdlineSuffix(log[n].data) # -1}
\* Once FirmwareLogState has returned, the kernel state is an error exactly
\* when the GRUB extracter returned a state and the log measured two or more
\* kernel command lines: LinuxKernelStateFromGRUB never picks one of two,
\* and after a failed extraction it runs on the nil state and reports the
\* empty command line.
KernelCmdlineUnique ==
    pc = "done" =>
        (kernel.st = "err" <=> grub = "ok" /\ Cardinality(KernelCmdlineEvents) > 1)
\* A kernel command line FirmwareLogState reports was measured: some EV_IPL
\* event on the GRUB commands register carries its digest (or that of the
\* command line without its final NUL), so a forged payload cannot invent
\* one.
KernelCmdlineMeasured ==
    kernel.st = "ok" /\ kernel.cmdline # <<>> =>
        \E n \in 1..Len(log) :
            /\ log[n].idx = (IF LogKind = "TPM" THEN 8 ELSE 3)
            /\ log[n].type = "Ipl"
            /\ \/ log[n].digest = kernel.cmdline
               \/ /\ kernel.cmdline[Len(kernel.cmdline)] = "NUL"
                  /\ log[n].digest = SubSeq(kernel.cmdline, 1, Len(kernel.cmdline) - 1)

\* The loop implements the one-step contract of spec 4.E.4: the GRUB state
\* appears when the loop is over (nil maps to the error outcome, with the
\* partial lists dropped), the kernel state when the kernel call returns.
GrubOutcome ==
    IF pc = "grub" THEN GrubPending
    ELSE IF grub = "ok" THEN [st |-> "ok", files |-> g.files, commands |-> g.commands]
    ELSE [st |-> "err", files |-> <<>>, commands |-> <<>>]

Abs == INSTANCE GrubAbstract WITH grubOut <- GrubOutcome, kernelOut <- kernel

\* GRUB extraction meets its contract and, under the fairness above,
\* eventually delivers both states.
Refinement == Abs!Spec
=============================================================================
