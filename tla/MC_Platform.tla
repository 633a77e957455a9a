----------------------------- MODULE MC_Platform -----------------------------
(* The events of the instance of Platform that TLC checks: SCRTM version    *)
(* and non-host-info events, separators on PCR0, and the events an attacker *)
(* who controls types and payloads (not digests) can write.                  *)
EXTENDS Platform

Ev(i, t, d, h) == [idx |-> i, type |-> t, data |-> d, digest |-> h]

\* "G" "1" and "G" "-1" in UCS-2 with a NUL terminator (the stand-in prefix
\* of Wellknown), a non-host info for INTEL_TDX, and one of an unknown
\* technology.
V1 == <<71, 0, 49, 0, 0, 0>>
VMinus1 == <<71, 0, 45, 0, 49, 0, 0, 0>>
TDX == <<78, 0, 3>>
Tech9 == <<78, 0, 9>>

MCEvents ==
    { Ev(0, "SCRTMVersion", V1, <<V1>>),
      Ev(0, "SCRTMVersion", VMinus1, <<VMinus1>>),
      Ev(0, "SCRTMVersion", V1, <<VMinus1>>),
      Ev(0, "NonhostInfo", TDX, <<TDX>>),
      Ev(0, "NonhostInfo", Tech9, <<Tech9>>),
      Ev(0, "Separator", Sep0, <<Sep0>>),
      Ev(0, "Separator", SepF, <<SepF>>),
      Ev(0, "EFIAction", <<1>>, <<Sep0>>),
      Ev(0, "Other", <<1>>, <<<<1>>>>),
      Ev(1, "SCRTMVersion", VMinus1, <<VMinus1>>) }

\* Version numbers to format: one and two digits, a zero digit, and the
\* largest number of the word.
MCNumbers == {1, 10, 2 ^ UintWidth - 1}

\* The events, and SCRTM version events carrying the strings that
\* ConvertGCEFirmwareVersionToSCRTMVersion builds for MCNumbers.
MCAllEvents ==
    MCEvents \cup {Ev(0, "SCRTMVersion", ConvertGCEFirmwareVersionToSCRTMVersion(n),
                      <<ConvertGCEFirmwareVersionToSCRTMVersion(n)>>) : n \in MCNumbers}

\* The wellknown conversions PlatformState relies on agree: when the last
\* version string PlatformState trusts is the one
\* ConvertGCEFirmwareVersionToSCRTMVersion builds for a non-zero version,
\* ConvertSCRTMVersionToGCEFirmwareVersion parses it back and the state
\* reports that GCE version.
VersionRoundTrip ==
    \A num \in MCNumbers :
        /\ result = "ok"
        /\ LastData(log, FirstSeparator(log), "SCRTMVersion") = ConvertGCEFirmwareVersionToSCRTMVersion(num)
        => state.gce /\ state.firmware = <<num>>
=============================================================================
