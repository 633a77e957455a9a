------------------------------ MODULE GrubData ------------------------------
(***************************************************************************)
(* The payloads of GRUB's measurements and the pure helpers of package     *)
(* extract that read them (src/extract/extract.go, pcr.go, and the RTMR    *)
(* variant in src/register/fake_mr.go).                                     *)
(*                                                                         *)
(* A payload is a sequence of byte-string tokens.  Each prefix GRUB writes *)
(* ("grub_cmd: " ...) is one token, so bytes.HasPrefix(raw, p) is "the     *)
(* first token is p", and len(p) is 1.  The other tokens are "x" (bytes    *)
(* that are no prefix), the command bytes "a" and "b", and the NUL byte.   *)
(* Hashes are collision-free: a digest is the token sequence hashed, so    *)
(* H(s) is s itself.  Only the digest is trusted after replay; the type    *)
(* and the payload, prefix included, are not measured.                     *)
(***************************************************************************)
EXTENDS Integers, Sequences, FiniteSets

Prefixes == {"grub_cmd: ", "kernel_cmdline: ", "module_cmdline: ",
             "grub_kernel_cmdline ", "grub_cmd "}
Bytes == Prefixes \cup {"x", "a", "b", "NUL"}

\* Event types: tcg.Ipl, tcg.EventTag and any other type.
Types == {"Ipl", "EventTag", "Other"}

Event == [idx : Nat, type : Types, data : Seq(Bytes), digest : Seq(Bytes)]

\* newGrubKernelCmdlinePrefix, oldGrubKernelCmdlinePrefix and validPrefixes,
\* in the code's order.
newGrubKernelCmdlinePrefix == "kernel_cmdline: "
oldGrubKernelCmdlinePrefix == "grub_kernel_cmdline "
validPrefixes == <<"grub_cmd: ", newGrubKernelCmdlinePrefix, "module_cmdline: ",
                   oldGrubKernelCmdlinePrefix, "grub_cmd ">>

HasPrefix(raw, p) == Len(raw) >= 1 /\ raw[1] = p

\* The prefix loop of the GRUB extractors: the length of the first valid
\* prefix of raw, or -1.
suffixAt(raw) ==
    IF \E i \in 1..Len(validPrefixes) : HasPrefix(raw, validPrefixes[i]) THEN 1 ELSE -1

\* rawData[suffixAt:], Go's 0-based slice from suffixAt.
suffixOf(raw) == SubSeq(raw, suffixAt(raw) + 1, Len(raw))

\* tcg's digest checks on a fresh hasher (package tcg is not in src/): the
\* digest is H(data); for a null-terminated string, H(data) or H(data
\* without its final NUL).
verifyDataDigest(data, digest) == digest = data
verifyNullTerminatedDataDigest(data, digest) ==
    digest = data \/ digest = SubSeq(data, 1, Len(data) - 1)

\* The digest check of a command event whose prefix is valid: the
\* null-terminated variant when the suffix is non-empty and the payload's
\* last byte is NUL.
grubDigestOK(e) ==
    LET s == suffixOf(e.data)
    IN  IF Len(s) > 0 /\ e.data[Len(e.data)] = "NUL"
        THEN verifyNullTerminatedDataDigest(s, e.digest)
        ELSE verifyDataDigest(s, e.digest)

\* Faulty variant: the suffix taken one byte early, the prefix's last
\* byte kept.
getGrubKernelCmdlineSuffixEarly(cmd) ==
    IF \E p \in {oldGrubKernelCmdlinePrefix, newGrubKernelCmdlinePrefix} : HasPrefix(cmd, p)
    THEN 0 ELSE -1

\* getGrubKernelCmdlineSuffix: the old prefix, then the new one.
getGrubKernelCmdlineSuffix(cmd) ==
    IF \E p \in {oldGrubKernelCmdlinePrefix, newGrubKernelCmdlinePrefix} : HasPrefix(cmd, p)
    THEN 1 ELSE -1

\* Faulty variant: no "seen" check, the last kernel command line wins.
LinuxKernelStateFromGRUBLastWins(cmds) ==
    LET K == {n \in 1..Len(cmds) : getGrubKernelCmdlineSuffix(cmds[n]) # -1}
    IN  IF K = {} THEN [st |-> "ok", cmdline |-> <<>>]
        ELSE LET c == cmds[CHOOSE n \in K : \A m \in K : m <= n]
             IN  [st |-> "ok", cmdline |-> SubSeq(c, getGrubKernelCmdlineSuffix(c) + 1, Len(c))]

\* LinuxKernelStateFromGRUB over the commands of a GrubState (none for a nil
\* state): an error at the second kernel command line, else the suffix of
\* the one there is, or the empty command line.
LinuxKernelStateFromGRUB(cmds) ==
    LET K == {n \in 1..Len(cmds) : getGrubKernelCmdlineSuffix(cmds[n]) # -1}
    IN  IF Cardinality(K) > 1 THEN [st |-> "err", cmdline |-> <<>>]
        ELSE IF K = {} THEN [st |-> "ok", cmdline |-> <<>>]
        ELSE LET c == cmds[CHOOSE n \in K : TRUE]
             IN  [st |-> "ok", cmdline |-> SubSeq(c, getGrubKernelCmdlineSuffix(c) + 1, Len(c))]

\* The GRUB state before FirmwareLogState computed it.
GrubPending == [st |-> "pending", files |-> <<>>, commands |-> <<>>]

\* The kernel state before FirmwareLogState computed it.
KernelPending == [st |-> "pending", cmdline |-> <<>>]
=============================================================================
