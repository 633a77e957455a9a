------------------------------ MODULE Wellknown ------------------------------
(***************************************************************************)
(* The GCE conversions of package wellknown                               *)
(* (src/wellknown/policy_constants.go): the SCRTM version string to and    *)
(* from a GCE firmware version number, and the non-host-info blob to a     *)
(* confidential technology.  Byte strings are sequences of byte values.    *)
(*                                                                         *)
(* The two signatures are shortened to stand-ins of the same shape: the    *)
(* UCS-2 prefix "GCE Virtual Firmware v" (44 bytes, even) is 'G' 00h, and  *)
(* "GCE NonHostInfo\x00" (16 bytes) is 'N' 00h.  The code only compares    *)
(* them and uses their length, so the parsing logic is unchanged.          *)
(***************************************************************************)
EXTENDS Integers, Sequences

CONSTANT
    UintWidth   \* the width of uint32: 32 in the code; TLC's integers stop at
                \* 2^31 - 1, so runs use a narrower word of the same logic

ASSUME WellknownAssumption == UintWidth \in Nat \ {0}

GceVirtualFirmwarePrefix == <<71, 0>>
GCENonHostInfoSignature == <<78, 0>>

\* The values of pb.GCEConfidentialTechnology: NONE .. AMD_SEV_SNP.
AMD_SEV_SNP == 4

\* ASCII '0', '+' and '-'.
Zero == 48
Plus == 43
Minus == 45

\* uint32(n) of a Go int: two's-complement truncation to UintWidth bits.
Uint32(n) == n % (2 ^ UintWidth)

\* The value of a string of ASCII digits, by a recursive function over its
\* prefixes: n = n*10 + (ch - '0').
DecimalValue(s) ==
    LET f[i \in 0..Len(s)] == IF i = 0 THEN 0 ELSE f[i - 1] * 10 + (s[i] - Zero)
    IN  f[Len(s)]

IsDigit(b) == b \in Zero..Zero + 9

\* strconv.Atoi (Go's fast path for short strings): an optional sign, then
\* one or more ASCII digits.  [ok, val] with ok FALSE on a syntax error.
Atoi(s) ==
    LET signed == Len(s) >= 1 /\ s[1] \in {Plus, Minus}
        digits == IF signed THEN Tail(s) ELSE s
        mag == DecimalValue(digits)
    IN  IF Len(digits) = 0 \/ \E i \in 1..Len(digits) : ~IsDigit(digits[i])
        THEN [ok |-> FALSE, val |-> 0]
        ELSE [ok |-> TRUE, val |-> IF s[1] = Minus THEN -mag ELSE mag]

\* ConvertSCRTMVersionToGCEFirmwareVersion: [ok, val].  After the prefix,
\* NUL bytes are skipped wherever they are, any other byte at an odd offset
\* is an error, and the remaining bytes go to Atoi.
ConvertSCRTMVersionToGCEFirmwareVersion(version) ==
    LET prefixLen == Len(GceVirtualFirmwarePrefix)
        rest == SubSeq(version, prefixLen + 1, Len(version))
        ascii == SelectSeq(rest, LAMBDA b : b # 0)
        n == Atoi(ascii)
    IN  IF \/ Len(version) <= prefixLen \/ Len(version) % 2 # 0
           \/ SubSeq(version, 1, prefixLen) # GceVirtualFirmwarePrefix
           \/ \E i \in 1..Len(rest) : rest[i] # 0 /\ (i - 1) % 2 # 0
           \/ ~n.ok
        THEN [ok |-> FALSE, val |-> 0]
        ELSE [ok |-> TRUE, val |-> Uint32(n.val)]

\* strconv.Itoa of a non-negative number.
Itoa(v) ==
    LET f[n \in 0..v] == IF n < 10 THEN <<Zero + n>> ELSE f[n \div 10] \o <<Zero + (n % 10)>>
    IN  f[v]

\* Faulty variant: the digits encoded as big-endian UCS-2.
ConvertGCEFirmwareVersionToSCRTMVersionBigEndian(version) ==
    IF version = 0 THEN <<>>
    ELSE LET d == Itoa(version)
         IN  GceVirtualFirmwarePrefix \o [i \in 1..2 * Len(d) |->
                                            IF i % 2 = 0 THEN d[i \div 2] ELSE 0]
                                      \o <<0, 0>>

\* ConvertGCEFirmwareVersionToSCRTMVersion: empty for 0, else the prefix,
\* each ASCII digit as little-endian UCS-2, and a UCS-2 NUL terminator.
ConvertGCEFirmwareVersionToSCRTMVersion(version) ==
    IF version = 0 THEN <<>>
    ELSE LET d == Itoa(version)
         IN  GceVirtualFirmwarePrefix \o [i \in 1..2 * Len(d) |->
                                            IF i % 2 = 1 THEN d[(i + 1) \div 2] ELSE 0]
                                      \o <<0, 0>>

\* Faulty variant: the technology byte not checked against the enum.
ParseGCENonHostInfoUnchecked(nonHostInfo) ==
    LET prefixLen == Len(GCENonHostInfoSignature)
    IN  IF \/ Len(nonHostInfo) < prefixLen + 1
           \/ SubSeq(nonHostInfo, 1, prefixLen) # GCENonHostInfoSignature
        THEN [ok |-> FALSE, tech |-> 0]
        ELSE [ok |-> TRUE, tech |-> nonHostInfo[prefixLen + 1]]

\* ParseGCENonHostInfo: [ok, tech], the technology byte after the
\* signature; NONE (0) with an error when short, unsigned or unknown.
ParseGCENonHostInfo(nonHostInfo) ==
    LET prefixLen == Len(GCENonHostInfoSignature)
    IN  IF \/ Len(nonHostInfo) < prefixLen + 1
           \/ SubSeq(nonHostInfo, 1, prefixLen) # GCENonHostInfoSignature
           \/ nonHostInfo[prefixLen + 1] > AMD_SEV_SNP
        THEN [ok |-> FALSE, tech |-> 0]
        ELSE [ok |-> TRUE, tech |-> nonHostInfo[prefixLen + 1]]
=============================================================================
