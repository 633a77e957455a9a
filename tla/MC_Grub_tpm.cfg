\* GRUB and kernel extraction over every log of at most 4 events of a TPM
\* log (commands on PCR8, files on PCR9).
CONSTANTS
    Events <- MCEvents
    MaxEvents = 4
    LogKind = "TPM"
SPECIFICATION Spec
\* FirmwareLogState returns: the steps stop.
CHECK_DEADLOCK FALSE
INVARIANT TypeOK
INVARIANT KernelCmdlineMeasured
INVARIANT KernelCmdlineUnique
PROPERTY Refinement
