----------------------------- MODULE MC_Wellknown -----------------------------
(* The GCE version parser over every byte string of at most MaxVersionLen   *)
(* bytes drawn from VersionBytes.  A state is one input; there is nothing   *)
(* to step.                                                                 *)
EXTENDS Wellknown

CONSTANTS
    VersionBytes,    \* the byte values a version string may hold
    MaxVersionLen    \* bound: length of a version string

VARIABLE
    version    \* an SCRTM version string from a verified event

vars == <<version>>

Init == version \in UNION {[1..n -> VersionBytes] : n \in 0..MaxVersionLen}

Next == UNCHANGED vars

Spec == Init /\ [][Next]_vars

\* Spec 4.E.1 and the comment on GceVirtualFirmwarePrefix: only a string of
\* the prefix, UCS-2 ASCII decimal digits and a NUL terminator is parsed to
\* a GCE version, so a parsed version is the string formatting its number.
VersionParseCanonical ==
    LET r == ConvertSCRTMVersionToGCEFirmwareVersion(version)
    IN  r.ok => ConvertGCEFirmwareVersionToSCRTMVersion(r.val) = version
=============================================================================
