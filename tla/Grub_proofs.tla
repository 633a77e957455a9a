----------------------------- MODULE Grub_proofs -----------------------------
(***************************************************************************)
(* Proofs about the Grub module, for every log kind and every set of       *)
(* events: type correctness, and that a kernel command line it reports was *)
(* measured.                                                               *)
(***************************************************************************)
EXTENDS Grub, TLAPS

GrubLocals == [files : Seq([digest : Seq(Bytes), name : Seq(Bytes)]),
               commands : Seq(Seq(Bytes))]

CommandReg == IF LogKind = "TPM" THEN 8 ELSE 3

\* c is the payload of an EV_IPL event of the log on the commands register
\* with a valid prefix and the digest of its suffix.
MeasuredCommand(c) ==
    \E n \in 1..Len(log) :
        /\ log[n].idx = CommandReg /\ log[n].type = "Ipl"
        /\ suffixAt(log[n].data) = 1 /\ grubDigestOK(log[n])
        /\ log[n].data = c

\* Every command the extracter has collected so far was measured.
CommandsMeasured == \A j \in 1..Len(g.commands) : MeasuredCommand(g.commands[j])

\* The inductive invariant behind KernelCmdlineMeasured.
IInv == TypeOK /\ CommandsMeasured /\ KernelCmdlineMeasured

-----------------------------------------------------------------------------

\* The events of a log are events, whatever its length.
LEMMA LogEvents ==
    ASSUME NEW s \in Logs
    PROVE  s \in Seq(Event) /\ Len(s) \in 0..MaxEvents
<1>1. PICK m \in 0..MaxEvents : s \in [1..m -> Events]
    BY DEF Logs
<1>2. Len(s) = m
    BY <1>1
<1>. QED  BY <1>1, <1>2, GrubAssumption

\* suffixAt is the length of a one-token prefix or -1.
LEMMA SuffixAtValues ==
    ASSUME NEW raw
    PROVE  suffixAt(raw) \in {1, -1}
BY DEF suffixAt

\* What follows the first token of a byte string is a byte string.
LEMMA TailBytes ==
    ASSUME NEW c \in Seq(Bytes)
    PROVE  SubSeq(c, 2, Len(c)) \in Seq(Bytes)
<1>1. CASE Len(c) = 0
    <2>1. SubSeq(c, 2, Len(c)) = <<>>
        BY <1>1
    <2>. QED  BY <2>1
<1>2. CASE Len(c) >= 1
    <2>1. \A i \in 1..Len(c) - 1 : c[i + 1] \in Bytes
        BY <1>2
    <2>2. [i \in 1..Len(c) - 1 |-> c[i + 1]] \in Seq(Bytes)
        BY <1>2, <2>1
    <2>3. SubSeq(c, 2, Len(c)) = [i \in 1..Len(c) - 1 |-> c[i + 1]]
        BY <1>2
    <2>. QED  BY <2>2, <2>3
<1>. QED  BY <1>1, <1>2

\* An iteration of either extracter keeps the locals well typed.
LEMMA IterType ==
    ASSUME NEW s \in GrubLocals, NEW e \in Event
    PROVE  Iter(s, e) \in GrubLocals
<1>1. e.data \in Seq(Bytes) /\ e.digest \in Seq(Bytes)
    BY DEF Event
<1>2. Append(s.commands, e.data) \in Seq(Seq(Bytes))
    BY <1>1 DEF GrubLocals
<1>3. Append(s.files, [digest |-> e.digest, name |-> e.data])
        \in Seq([digest : Seq(Bytes), name : Seq(Bytes)])
    BY <1>1 DEF GrubLocals
<1>4. TpmIter(s, e) \in GrubLocals
    BY <1>2, <1>3 DEF TpmIter, GrubLocals
<1>5. RtmrIter(s, e) \in GrubLocals
    BY <1>2 DEF RtmrIter, GrubLocals
<1>. QED  BY <1>4, <1>5 DEF Iter

\* The kernel state is well typed for any sequence of commands.
LEMMA KernelType ==
    ASSUME NEW cmds \in Seq(Seq(Bytes))
    PROVE  LinuxKernelStateFromGRUB(cmds) \in [st : {"pending", "ok", "err"}, cmdline : Seq(Bytes)]
<1> DEFINE K == {n \in 1..Len(cmds) : getGrubKernelCmdlineSuffix(cmds[n]) # -1}
<1> DEFINE T == [st : {"pending", "ok", "err"}, cmdline : Seq(Bytes)]
<1>1. CASE Cardinality(K) > 1
    BY <1>1 DEF LinuxKernelStateFromGRUB
<1>2. CASE ~(Cardinality(K) > 1) /\ K = {}
    BY <1>2 DEF LinuxKernelStateFromGRUB
<1>3. CASE ~(Cardinality(K) > 1) /\ K # {}
    <2> DEFINE c == cmds[CHOOSE n \in K : TRUE]
    <2>1. (CHOOSE n \in K : TRUE) \in 1..Len(cmds)
        BY <1>3
    <2>2. c \in Seq(Bytes)
        BY <2>1
    <2>3. getGrubKernelCmdlineSuffix(c) = 1
        <3>1. (CHOOSE n \in K : TRUE) \in K
            BY <1>3
        <3>. QED  BY <3>1 DEF getGrubKernelCmdlineSuffix
    <2>4. SubSeq(c, getGrubKernelCmdlineSuffix(c) + 1, Len(c)) \in Seq(Bytes)
        <3>1. SubSeq(c, 2, Len(c)) \in Seq(Bytes)
            BY <2>2, TailBytes
        <3>. QED  BY <3>1, <2>3
    <2>5. LinuxKernelStateFromGRUB(cmds)
            = [st |-> "ok", cmdline |-> SubSeq(c, getGrubKernelCmdlineSuffix(c) + 1, Len(c))]
        BY <1>3 DEF LinuxKernelStateFromGRUB
    <2>6. [st |-> "ok", cmdline |-> SubSeq(c, getGrubKernelCmdlineSuffix(c) + 1, Len(c))] \in T
        BY <2>4
    <2>. QED  BY <2>5, <2>6
<1>. QED  BY <1>1, <1>2, <1>3

LEMMA InitTypeOK == Init => TypeOK
BY DEF Init, TypeOK, GrubInit, KernelPending, Logs

LEMMA NextTypeOK == TypeOK /\ [Next]_vars => TypeOK'
<1> SUFFICES ASSUME TypeOK, [Next]_vars PROVE TypeOK'
    OBVIOUS
<1>1. g \in GrubLocals
    BY DEF TypeOK, GrubLocals
<1>2. log \in Seq(Event) /\ Len(log) \in Nat
    BY LogEvents DEF TypeOK
<1>3. k <= Len(log) => log[k] \in Event
    BY <1>2 DEF TypeOK
<1>4. CASE GrubFail
    BY <1>4 DEF GrubFail, TypeOK
<1>5. CASE GrubContinue
    <2>1. k \in 1..Len(log) /\ log[k] \in Event
        BY <1>3, <1>5 DEF GrubContinue, TypeOK
    <2>2. g' \in GrubLocals
        BY <1>1, <2>1, <1>5, IterType DEF GrubContinue
    <2>3. k' \in 1..Len(log') + 1 /\ log' \in Logs
        BY <2>1, <1>5 DEF GrubContinue, TypeOK
    <2>. QED  BY <2>2, <2>3, <1>5 DEF GrubContinue, TypeOK, GrubLocals
<1>6. CASE GrubEnd
    BY <1>6 DEF GrubEnd, TypeOK
<1>7. CASE Kernel
    <2>1. (IF grub = "ok" THEN g.commands ELSE <<>>) \in Seq(Seq(Bytes))
        BY <1>1 DEF GrubLocals
    <2>. QED  BY <2>1, <1>7, KernelType DEF Kernel, TypeOK
<1>8. CASE UNCHANGED vars
    BY <1>8 DEF vars, TypeOK
<1>. QED  BY <1>4, <1>5, <1>6, <1>7, <1>8 DEF Next

\* Whatever the log and its kind, every state of GRUB and kernel extraction
\* is well typed: the loop position stays within the log plus one and the
\* files, commands and command line are sequences of bytes.
THEOREM TypeCorrect == Spec => []TypeOK
BY InitTypeOK, NextTypeOK, PTL DEF Spec

-----------------------------------------------------------------------------
(* A reported kernel command line was measured.                            *)

\* An iteration that does not fail leaves the commands as they were or
\* appends the payload of a measured command event.
LEMMA IterCommands ==
    ASSUME NEW s \in GrubLocals, NEW e \in Event, ~IterFails(e)
    PROVE  \/ Iter(s, e).commands = s.commands
           \/ /\ Iter(s, e).commands = Append(s.commands, e.data)
              /\ e.idx = CommandReg /\ e.type = "Ipl"
              /\ suffixAt(e.data) = 1 /\ grubDigestOK(e)
<1>1. suffixAt(e.data) \in {1, -1}
    BY SuffixAtValues
<1>2. CASE LogKind = "TPM"
    <2>1. CASE e.idx \notin {8, 9} \/ e.type = "EventTag"
        BY <1>2, <2>1 DEF Iter, TpmIter
    <2>2. CASE ~(e.idx \notin {8, 9} \/ e.type = "EventTag") /\ e.idx = 9
        BY <1>2, <2>2 DEF Iter, TpmIter, GrubLocals
    <2>3. CASE ~(e.idx \notin {8, 9} \/ e.type = "EventTag") /\ e.idx # 9
        <3>1. e.idx = 8 /\ e.type = "Ipl" /\ suffixAt(e.data) = 1 /\ grubDigestOK(e)
            BY <1>1, <1>2, <2>3 DEF IterFails, TpmIterFails
        <3>2. Iter(s, e).commands = Append(s.commands, e.data)
            BY <1>2, <2>3 DEF Iter, TpmIter, GrubLocals
        <3>. QED  BY <1>2, <3>1, <3>2 DEF CommandReg
    <2>. QED  BY <2>1, <2>2, <2>3
<1>3. CASE LogKind # "TPM"
    <2>1. CASE e.idx = 3 /\ e.type # "EventTag" /\ suffixAt(e.data) # -1
        <3>1. e.type = "Ipl" /\ suffixAt(e.data) = 1 /\ grubDigestOK(e)
            BY <1>1, <1>3, <2>1 DEF IterFails, RtmrIterFails
        <3>2. Iter(s, e).commands = Append(s.commands, e.data)
            BY <1>3, <2>1 DEF Iter, RtmrIter, GrubLocals
        <3>. QED  BY <1>3, <2>1, <3>1, <3>2 DEF CommandReg
    <2>2. CASE ~(e.idx = 3 /\ e.type # "EventTag" /\ suffixAt(e.data) # -1)
        BY <1>3, <2>2 DEF Iter, RtmrIter
    <2>. QED  BY <2>1, <2>2
<1>. QED  BY <1>2, <1>3

\* A non-empty command line LinuxKernelStateFromGRUB returns is the suffix
\* after the valid prefix of one of the commands.
LEMMA KernelSuffix ==
    ASSUME NEW cmds \in Seq(Seq(Bytes)),
           LinuxKernelStateFromGRUB(cmds).st = "ok",
           LinuxKernelStateFromGRUB(cmds).cmdline # <<>>
    PROVE  \E j \in 1..Len(cmds) :
               /\ suffixAt(cmds[j]) = 1
               /\ LinuxKernelStateFromGRUB(cmds).cmdline = suffixOf(cmds[j])
<1> DEFINE K == {n \in 1..Len(cmds) : getGrubKernelCmdlineSuffix(cmds[n]) # -1}
<1>1. ~(Cardinality(K) > 1)
    BY DEF LinuxKernelStateFromGRUB
<1>2. K # {}
    BY <1>1 DEF LinuxKernelStateFromGRUB
<1> DEFINE j == CHOOSE n \in K : TRUE
<1>3. j \in 1..Len(cmds) /\ getGrubKernelCmdlineSuffix(cmds[j]) = 1
    BY <1>2 DEF getGrubKernelCmdlineSuffix
<1>4. LinuxKernelStateFromGRUB(cmds)
        = [st |-> "ok", cmdline |-> SubSeq(cmds[j], getGrubKernelCmdlineSuffix(cmds[j]) + 1, Len(cmds[j]))]
    BY <1>1, <1>2, Zenon DEF LinuxKernelStateFromGRUB
<1>5. suffixAt(cmds[j]) = 1
    <2>1. HasPrefix(cmds[j], oldGrubKernelCmdlinePrefix) \/ HasPrefix(cmds[j], newGrubKernelCmdlinePrefix)
        BY <1>3 DEF getGrubKernelCmdlineSuffix
    <2>2. validPrefixes[4] = oldGrubKernelCmdlinePrefix /\ validPrefixes[2] = newGrubKernelCmdlinePrefix
          /\ Len(validPrefixes) = 5
        BY DEF validPrefixes
    <2>. QED  BY <2>1, <2>2 DEF suffixAt
<1>6. suffixOf(cmds[j]) = SubSeq(cmds[j], 2, Len(cmds[j]))
    BY <1>5 DEF suffixOf
<1>7. LinuxKernelStateFromGRUB(cmds).cmdline = suffixOf(cmds[j])
    BY <1>3, <1>4, <1>6
<1>. QED  BY <1>3, <1>5, <1>7

\* The digest of a command event with a valid prefix is that of its suffix,
\* or of its suffix without a final NUL.
LEMMA DigestOfSuffix ==
    ASSUME NEW e \in Event, suffixAt(e.data) = 1, grubDigestOK(e)
    PROVE  LET s == suffixOf(e.data)
           IN  \/ e.digest = s
               \/ s[Len(s)] = "NUL" /\ e.digest = SubSeq(s, 1, Len(s) - 1)
<1> DEFINE d == e.data
<1> DEFINE s == suffixOf(d)
<1>1. d \in Seq(Bytes) /\ Len(d) >= 1
    <2>1. \E i \in 1..Len(validPrefixes) : HasPrefix(d, validPrefixes[i])
        BY DEF suffixAt
    <2>. QED  BY <2>1 DEF Event, HasPrefix
<1>2. s = SubSeq(d, 2, Len(d)) /\ Len(s) = Len(d) - 1
    BY <1>1 DEF suffixOf
<1>3. Len(s) > 0 => s[Len(s)] = d[Len(d)]
    BY <1>1, <1>2
<1>. QED  BY <1>3 DEF grubDigestOK, verifyNullTerminatedDataDigest, verifyDataDigest

LEMMA InitIInv == Init => IInv
BY DEF Init, IInv, TypeOK, GrubInit, KernelPending, Logs, CommandsMeasured,
       KernelCmdlineMeasured

LEMMA NextIInv == IInv /\ [Next]_vars => IInv'
<1> SUFFICES ASSUME IInv, [Next]_vars PROVE IInv'
    OBVIOUS
<1>0. TypeOK'
    BY NextTypeOK DEF IInv
<1>1. g \in GrubLocals /\ log \in Seq(Event)
    BY LogEvents DEF IInv, TypeOK, GrubLocals
<1>2. CASE GrubFail \/ GrubEnd \/ UNCHANGED vars
    <2>1. log' = log /\ g' = g /\ kernel' = kernel
        BY <1>2 DEF GrubFail, GrubEnd, vars
    <2>2. CommandsMeasured'
        BY <2>1 DEF IInv, CommandsMeasured, MeasuredCommand
    <2>3. KernelCmdlineMeasured'
        BY <2>1 DEF IInv, KernelCmdlineMeasured
    <2>. QED  BY <1>0, <2>2, <2>3 DEF IInv
<1>3. CASE GrubContinue
    <2>1. k \in 1..Len(log) /\ log[k] \in Event /\ ~IterFails(log[k])
        BY <1>1, <1>3 DEF GrubContinue, IInv, TypeOK
    <2>2. CommandsMeasured'
        <3>0. log' = log /\ g.commands \in Seq(Seq(Bytes))
            BY <1>1, <1>3 DEF GrubContinue, GrubLocals
        <3>1. CASE g'.commands = g.commands
            BY <3>0, <3>1 DEF IInv, CommandsMeasured, MeasuredCommand
        <3>2. CASE /\ g'.commands = Append(g.commands, log[k].data)
                   /\ log[k].idx = CommandReg /\ log[k].type = "Ipl"
                   /\ suffixAt(log[k].data) = 1 /\ grubDigestOK(log[k])
            <4>1. \A j \in 1..Len(g'.commands) : MeasuredCommand(g'.commands[j])
                <5> SUFFICES ASSUME NEW j \in 1..Len(g'.commands)
                             PROVE  MeasuredCommand(g'.commands[j])
                    OBVIOUS
                <5>1. CASE j \in 1..Len(g.commands)
                    <6>1. g'.commands[j] = g.commands[j]
                        BY <3>0, <3>2, <5>1
                    <6>. QED  BY <6>1, <5>1 DEF IInv, CommandsMeasured
                <5>2. CASE j = Len(g.commands) + 1
                    <6>1. g'.commands[j] = log[k].data
                        BY <3>0, <3>2, <5>2
                    <6>. QED  BY <2>1, <3>2, <6>1 DEF MeasuredCommand
                <5>. QED  BY <3>0, <3>2, <5>1, <5>2
            <4>. QED  BY <3>0, <4>1 DEF CommandsMeasured, MeasuredCommand
        <3>. QED  BY <1>1, <1>3, <2>1, <3>1, <3>2, IterCommands DEF GrubContinue
    <2>3. KernelCmdlineMeasured'
        BY <1>3 DEF GrubContinue, IInv, KernelCmdlineMeasured
    <2>. QED  BY <1>0, <2>2, <2>3 DEF IInv
<1>4. CASE Kernel
    <2> DEFINE cmds == IF grub = "ok" THEN g.commands ELSE <<>>
    <2>1. CommandsMeasured'
        BY <1>4 DEF Kernel, IInv, CommandsMeasured, MeasuredCommand
    <2>2. KernelCmdlineMeasured'
        <3> SUFFICES ASSUME kernel'.st = "ok", kernel'.cmdline # <<>>
                     PROVE  KernelCmdlineMeasured'
            BY DEF KernelCmdlineMeasured
        <3>1. cmds \in Seq(Seq(Bytes)) /\ kernel' = LinuxKernelStateFromGRUB(cmds)
            BY <1>1, <1>4 DEF Kernel, GrubLocals
        <3>2. PICK j \in 1..Len(cmds) : suffixAt(cmds[j]) = 1 /\ kernel'.cmdline = suffixOf(cmds[j])
            BY <3>1, KernelSuffix
        <3>3. cmds = g.commands
            BY <3>2
        <3>4. PICK n \in 1..Len(log) :
                  /\ log[n].idx = CommandReg /\ log[n].type = "Ipl"
                  /\ suffixAt(log[n].data) = 1 /\ grubDigestOK(log[n])
                  /\ log[n].data = cmds[j]
            BY <3>2, <3>3 DEF IInv, CommandsMeasured, MeasuredCommand
        <3>5. log[n] \in Event
            BY <1>1, <3>4
        <3>6. \/ log[n].digest = kernel'.cmdline
              \/ /\ kernel'.cmdline[Len(kernel'.cmdline)] = "NUL"
                 /\ log[n].digest = SubSeq(kernel'.cmdline, 1, Len(kernel'.cmdline) - 1)
            BY <3>2, <3>4, <3>5, DigestOfSuffix
        <3>. QED  BY <1>4, <3>4, <3>6 DEF Kernel, KernelCmdlineMeasured, CommandReg
    <2>. QED  BY <1>0, <2>1, <2>2 DEF IInv
<1>. QED  BY <1>2, <1>3, <1>4 DEF Next

\* Whatever the log and its kind, a kernel command line that GRUB
\* extraction reports (LinuxKernelStateFromGRUB on the extracter's commands)
\* is the measured content of an EV_IPL event on the GRUB commands
\* register: forged payloads cannot invent one.
THEOREM KernelCmdlineMeasuredThm == Spec => []KernelCmdlineMeasured
<1>1. IInv => KernelCmdlineMeasured
    BY DEF IInv
<1>. QED  BY InitIInv, NextIInv, <1>1, PTL DEF Spec
=============================================================================
