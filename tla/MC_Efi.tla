------------------------------- MODULE MC_Efi -------------------------------
(* The events of the instances of Efi that TLC checks, built on the three  *)
(* register indices of the configuration: a well-formed boot (CallingEFIApp*)
(* action, an application, separators, ExitBootServices, drivers) and the  *)
(* forged events an attacker controlling types and data can write.         *)
EXTENDS Efi

Ev(i, t, d, g) == [idx |-> i, type |-> t, data |-> d, digest |-> g]

MCEvents ==
    { Ev(EFIAppIdx, "EFIAction", "calling", <<"calling">>),
      Ev(EFIAppIdx, "BootServicesApplication", "junk", <<"image">>),
      Ev(EFIAppIdx, "Separator", "sep0", <<"sep0">>),
      Ev(ExitBootServicesIdx, "EFIAction", "exit", <<"exit">>),
      Ev(ExitBootServicesIdx, "Separator", "sepF", <<"sepF">>),
      Ev(ExitBootServicesIdx, "EFIAction", "junk", <<"exit">>),
      Ev(FirmwareDriverIdx, "BootServicesDriver", "image", <<"junk">>),
      Ev(FirmwareDriverIdx, "RuntimeServicesDriver", "image", <<"junk", "image">>),
      Ev(FirmwareDriverIdx, "Separator", "sep0", <<"sep0">>),
      Ev(FirmwareDriverIdx, "Unknown", "junk", <<"junk">>),
      Ev(EFIAppIdx, "EFIAction", "sepF", <<"sepF">>) }
=============================================================================
