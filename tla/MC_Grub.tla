------------------------------- MODULE MC_Grub -------------------------------
(* The events of the instances of Grub that TLC checks: well-formed GRUB   *)
(* commands and files on the TPM and CC registers, and the events an        *)
(* attacker who controls types and payloads (not digests) can write.        *)
EXTENDS Grub

Ev(i, t, d, h) == [idx |-> i, type |-> t, data |-> d, digest |-> h]

\* The GRUB commands register of the configuration's log kind.
MCCmdReg == IF LogKind = "TPM" THEN 8 ELSE 3

MCEvents ==
    { \* measured commands: plain, null-terminated, old-style kernel line
      Ev(MCCmdReg, "Ipl", <<"grub_cmd: ", "a">>, <<"a">>),
      Ev(MCCmdReg, "Ipl", <<"kernel_cmdline: ", "a", "NUL">>, <<"a">>),
      Ev(MCCmdReg, "Ipl", <<"grub_kernel_cmdline ", "b">>, <<"b">>),
      \* a measured command whose payload lost its prefix
      Ev(MCCmdReg, "Ipl", <<"x", "b">>, <<"b">>),
      \* a payload that does not match its digest
      Ev(MCCmdReg, "Ipl", <<"kernel_cmdline: ", "b">>, <<"a">>),
      \* an empty command, and events of other types on the register
      Ev(MCCmdReg, "Ipl", <<"grub_cmd ">>, <<>>),
      Ev(MCCmdReg, "EventTag", <<"x">>, <<"a">>),
      Ev(MCCmdReg, "Other", <<"grub_cmd: ", "a">>, <<"a">>),
      \* GRUB files (PCR 9), with untrusted names
      Ev(9, "Ipl", <<"x">>, <<"a">>),
      Ev(9, "Other", <<"x">>, <<"b">>),
      \* an event on a register GRUB extraction does not read
      Ev(0, "Ipl", <<"kernel_cmdline: ", "b">>, <<"b">>) }
=============================================================================
