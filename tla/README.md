# Formal models of go-eventlog

This directory holds TLA+ models of the event-log library under `src/`. TLC
model-checks them, and TLAPS proofs go with them. `PROJECT.json` lists:

- the components and their status;
- the runs and mutants;
- the map from every modelled definition to the source lines it translates;
- the findings, hazards and theorems.

## The system

The library turns measured-boot event logs into attested boot state. Its
parts, and how they interact:

| Part | Source | What it does |
|---|---|---|
| A. Register model | `register.FakeROT` in `src/ccel/cceventlog_test.go` 358-449; `src/register/fake_mr.go` | An in-memory root of trust: banks per hash, registers per index. Operations: CreateFakeRot, ExtendMR, Digest, ReadMRs. |
| B. TCG decoder, C. replay engine, D. digest verifier | package `tcg` (not in `src/`) | Parse TPM and CC logs, replay them against a bank, mark digests verified. |
| E. Semantic extractor | `src/extract/extract.go`, `pcr.go`, `src/register/fake_mr.go` (GRUB over RTMR) | Per-register linear scans of the replayed events: PlatformState, SecureBootState, EfiState (with EfiDriverState), GRUB and kernel command line. FirmwareLogState joins them and their errors. |
| F. CEL codec | package `cel`, `src/unnamed/part_001`, `src/cel/fake_tlv.go` | Canonical Event Log. AppendEvent measures an event into the root of trust through an extender callback and appends a record. EncodeCEL and DecodeToCEL form the TLV codec. Replay checks a log against a bank. |
| G. Wrappers | `src/tpmeventlog/replay.go`, `ccel.ReplayAndExtract` | Parse, replay, then extract. |
| wellknown | `src/wellknown/policy_constants.go` | GCE firmware version and non-host-info conversions. |

The core is single-threaded (spec section 5). What makes it hard is not
concurrency but the following:

- **Adversarial input.** In a log, only the replayed digests are trusted. Types and data are not.
- **Multi-step protocols.** Examples: separators, CallingEFIApp before applications, stopping at ExitBootServices.
- **Partial failure.** For example, a failed extend in the middle of AppendEvent.
- **Go map iteration order.**
- **Integer truncation.**
- **A root of trust that other code may also extend.** This makes the interleaving of AppendEvent with other measurements matter.

### Hash abstraction

Every module models hashes as collision-free.

- **CEL.** The digest of content `c` under `h` is `<<c, h>>`, and a register is the sequence of digests extended into it. So `H(old || d)` is `Append(old, d)` and the zero register is `<<>>`.
- **Efi.** A digest is the sequence of byte strings written into a hasher since it was created or Reset. This is what exposes the reuse of a hasher without Reset in `getSeparatorInfo`.

## Modules

### `CEL.tla`: the CEL and the fake root of trust

**State**

| Variable | Code |
|---|---|
| `rot` | `FakeROT.fakeMRBanks` |
| `recs`, `logType` | `eventLog.Recs`, `eventLog.Type` |
| `wire` | the buffer EncodeCEL wrote |
| `wireSrc` | the log `wire` encodes (history) |
| `decoded` | the last DecodeToCEL with its source |

**Actions**

- **`AppendEvent(event, bankAlgos, mrIndex)`** covers the whole call: the guards, the digest map and the extend loop. The extender is FakeROT.ExtendMR, as in the package's tests.
  - The loop ranges over a Go map and returns at the first extend that fails. So when some named bank is missing or the index is out of range, any subset of the banks that can be extended has been extended, and no record is appended.
  - The record carries `uint8(mrIndex)` (`% 256`).
- **`ExtendMR`** is a measurement made outside the log.
- `LogInSync` says that register `i` of bank `h` is the chain of the log's digests for it. `IsLogChain(log, h, i, c)` states this by positions: an increasing map from the positions of `c` onto `ChainPositions(log, h, i)` (the records at index `i` carrying `h`) picks each digest's record. It is the same as filtering the log with `SelectSeq`, but the provers can use it.
- `DisciplinedCallers` names what the callers of the `cel_sync` run do: they name only banks the root of trust has, pass only registers it has below 256 (or negative indices, which AppendEvent rejects), and nothing else extends the root of trust. It holds on `cel_sync` and fails on `cel_faults`.
- **`Encode`** and **`Decode`** run EncodeCEL and DecodeToCEL.

**Operators**

- `Replay(log, h, bank)` is `eventLog.Replay`. It folds the records with a recursive function, lazily zeroing an accumulator per index. It returns `NoDigest` at the first record lacking the bank's hash, and `MissingRegister` if any replayed index is missing from the bank. Otherwise it returns OK or `ReplayMismatch` with the set of failing registers.
- TLV byte framing is abstracted: a wire record is a record of its four TLVs, with the index TLV as `<<type, value>>` and the digests TLV as a set of pairs.

**Bounds** (`MC_CEL.tla`)

- Three hashes, of which the root of trust allocates two.
- Two contents and two registers.
- `mrIndex` in {-1, 0, 1, 2}, so both the rejected and the out-of-range cases happen.
- Up to 3 records and 2 to 3 extends per register. That is enough for two records on one register, with a foreign extend or a partial append between them.

### `Efi.tla`: EfiState and EfiDriverState

**State**

| Variable | Meaning |
|---|---|
| `log` | chosen in Init among all logs of at most `MaxEvents` events of `Events` |
| `pc` | which loop runs |
| `k` | the loop position |
| `efi`, `drv` | the two functions' local flags and lists |
| `result` | what EfiState returned: `ok`, `nil` or `err` |

**Actions.** One step is one loop iteration:

- `EfiFail`, `EfiContinue` and `EfiExit`, the last being the `break` at ExitBootServices followed by the call of EfiDriverState;
- `EfiEnd`, which returns nil, nil;
- `DrvFail`, `DrvContinue` and `DrvEnd`.

An iteration applies the EFIAppIdx block and then the ExitBootServicesIdx block, in the code's order. For RTMRs both apply to the same event.

**Spec-modelled helpers.** These `tcg` calls are modelled from the spec, because package `tcg` is not in `src/`:

- `DigestVerified`: H(data) = digest;
- `ParseEFIImageLoad`;
- `UntrustedParseEventType`.

**Properties by positions.** `EfiResultCorrect` names the first ExitBootServices event as the least of `ExitPositions(log)`, and the first driver separator with `SeparatorEnd`, the least driver-separator position or the end of the log. `IsSelected(s, m, i, t, c)` says that `c` is the list of digests of the events of type `t` on register `i` before position `m`: an increasing map from the positions of `c` onto those events picks each digest. This is the same as filtering the log with `SelectSeq`, but the provers can use it.

**Bounds** (`MC_Efi.tla`)

- 11 events, built from the configuration's three indices. Eight are well formed: CallingEFIApp, an application, a separator on each of the three registers (one of them FFFFFFFFh), ExitBootServices, a boot-services and a runtime driver. Three are forged: an ExitBootServices with unverified data, an EV_EFI_ACTION spoofing the FFFFFFFFh separator, and an event of unknown type on the driver register.
- Logs of up to 5 events: about 177,000 logs and 900,000 states per configuration. That is enough for CallingEFIApp, an application, a separator, ExitBootServices and a driver in one log.
- Deadlock is not checked: EfiState returns, so the model stops.

### `GrubData.tla`, `Grub.tla`: the GRUB extracters and the kernel command line

- **What it models.** The GRUB branch of FirmwareLogState (`extract.go` 97-109). One of two extracters runs, chosen by the register configuration: `GrubStateFromTPMLog` (`pcr.go`) over PCR8 and PCR9, or `GrubStateFromRTMRLog` (`fake_mr.go` 89-137) over CC index 3. Then `LinuxKernelStateFromGRUB` runs on the result, even when it is nil. `LogKind` chooses the extracter.
- **Data.** A payload is a sequence of tokens. A valid prefix is one token; the others are `"x"`, `"a"`, `"b"` and `"NUL"`. A digest is the token sequence that was hashed, as in Efi. `GrubData` holds:
  - the prefixes;
  - the prefix loop (`suffixAt`, `suffixOf`);
  - the digest check, with its null-terminated variant chosen on the last byte (`grubDigestOK`);
  - `getGrubKernelCmdlineSuffix` and `LinuxKernelStateFromGRUB`.
- **State.** `log`, the loop position `k`, the locals `g` (files and commands), the extracter's outcome `grub`, and `kernel`.
- **Actions.** Each one is one iteration or one call:
  - `GrubFail`: an iteration returns an error, which FirmwareLogState joins before it goes on.
  - `GrubContinue`: a skip, a file or a command. The RTMR extracter skips a payload with no valid prefix. `TpmIter` is an IF/ELSE chain in the order of the loop's `continue`s, then `index == 9`, then `index == 8`. A CASE would be nondeterministic on an EV_EVENT_TAG event on PCR9, which matches both the skip and the file arm.
  - `GrubEnd`: the loop ends, and it is an error if nothing was found.
  - `Kernel`.
- **Liveness.** `Spec` has weak fairness on `Next`. The code is one goroutine that runs the loop to its end and then calls LinuxKernelStateFromGRUB, with nothing to wait on. The only liveness checked is that of `Refinement`: both states are eventually delivered.

### `GrubAbstract.tla`: the contract of GRUB extraction, and the refinement

`GrubAbstract` states spec 4.E.4 in two steps over the whole log, with no loop:
- `ExtractGrub` computes the GRUB state from the log declaratively, with `GrubOf`:
  - every EV_EVENT_TAG-free event on the commands register is EV_IPL, has a valid prefix and matches its digest;
  - every such event on the files register is EV_IPL;
  - the raw payloads come out in log order;
  - nothing measured is an error.
- `ExtractKernel` derives the kernel state from those commands.

`GrubOf` lists the commands and files by positions. `CmdPositions(s, m)` and `FilePositions(s, m)` are the positions before `m` of the events it accounts for. `Rank(P, p)` is the number of positions of `P` up to `p`, and `Nth(P, a)` is the position of rank `a`. The list at `P` maps `a` in `1..Cardinality(P)` to the event at `Nth(P, a)`. This is the same as filtering the log with `SelectSeq`, but the provers can use it.

`Grub` defines `Abs == INSTANCE GrubAbstract WITH grubOut <- GrubOutcome, kernelOut <- kernel`. The mapping `GrubOutcome` works as follows:
- while the loop runs, the abstract GRUB state is pending;
- afterwards it is the extracter's result, and a nil result maps to the error state.

`Refinement == Abs!Spec` includes the abstract weak fairness, so it also says that both states are eventually delivered.

### `Wellknown.tla`, `Platform.tla`: PlatformState and the GCE conversions

- **Conversions.** `Wellknown` translates the three conversions of `policy_constants.go` as operators over byte sequences. `strconv.Atoi` (an optional sign, then digits) and `Itoa` are modelled by what they compute.
- **Stand-in signatures.** The 44-byte UCS-2 firmware prefix and the 16-byte non-host signature are replaced by 2-byte stand-ins of the same parity. The code only compares them and uses their length.
- **Word width.** `uint32` is `Uint32(n) == n % 2^UintWidth`. TLC's integers stop at 2^31-1, so the runs use `UintWidth = 16`; the wrap logic is the same.
- **PlatformState** (`extract.go` 293-342) is a loop over PCR0, one iteration per step:
  - `PlatformFail`: an invalid separator, or an unverified version or non-host info;
  - `PlatformBreak`: the first valid separator;
  - `PlatformContinue`: the last version and non-host info win;
  - `PlatformLoopEnd`;
  - `PlatformConvert`: the conversions.
- **Separator checks.** They use Efi's hash abstraction, including the hasher reused without Reset. `checkIfValidSeparator` (in `Platform` and `Efi`) is an IF/ELSE chain in the order of the code's early returns: "not a separator", then "invalid separator", then valid. A CASE with overlapping guards would pick among the answers nondeterministically, which the code never does.
- **Properties by positions.** `PlatformStateCorrect` names the log's first PCR0 separator (`FirstSeparator`) and the last event of a type before a position (`LastData`) by the minimum and maximum of finite sets of positions, not with `SelectSeq`. This lets the proof reason about them.

**Bounds.**
- `MC_Grub.tla` has 11 events:
  - well-formed commands: plain, NUL-terminated, and a kernel command line under the old and the new prefix;
  - an unknown prefix, a digest mismatch and an empty `grub_cmd`;
  - an EV_EVENT_TAG and a wrong type;
  - files on index 9, one of them of the wrong type;
  - an event on another register.
  
  Logs have up to 4 events, so two kernel command lines, a failure after a success, and a failed extracter followed by the kernel call all occur.
- `MC_Platform.tla` uses 10 events:
  - GCE versions "1" and "-1", and a non-GCE version;
  - known and unknown non-host infos;
  - separators, one of them invalid;
  - unverified events and another register.
  
  Logs have up to 4 events.
- `MC_Wellknown.tla` covers:
  - all strings of up to 6 bytes over six byte values ('G', '+', '-', '0', '1' and NUL), for the canonicity check.
- `MC_Platform.tla` adds one version event for each number of the round trip.

## Runs

| Run | Expect | Shows |
|---|---|---|
| `cel_replay` | pass | `ReplayCorrect`: Replay's verdict is exact. It says NoDigest iff some record lacks the bank's hash, and MissingRegister iff the bank lacks a log index. A mismatch names exactly the registers whose value differs from the log's chain. Checked even with partial appends and foreign extends. `DecodePreservesReplay`: decoding the encoding never changes a replay verdict. |
| `cel_sync` | pass | `LogInSync`: with disciplined callers, every register equals the chain of the log's digests for it. `AppendLockstep` (an action property): every step either leaves log and registers alone, or appends one record numbered by its position and extends exactly the registers that record names, by its digests. |
| `cel_faults` | violation | `LogInSync` fails for callers that break the root of trust's discipline. An append naming a bank the root of trust lacks fails after extending some banks (finding: spec gap; this is the trace TLC shows). An append at index 257 is recorded as 1 (finding). |
| `cel_roundtrip` | violation | `RoundTrip`: a one-record CEL decodes with MRType 0 (finding: code bug). |
| `efi_tpm`, `efi_cc` | pass | `EfiResultCorrect`, for the TPM and the RTMR indices. EfiState returns nil only when no ExitBootServices digest is on its register. When it returns a state, the first such event is a verified EV_EFI_ACTION, the apps are exactly those before it, and the drivers are exactly those before the driver separator. |
| `efi_spoof` | violation | `SeparatorSpoofRejected`: an EV_EFI_ACTION carrying the FFFFFFFFh separator payload and digest is not rejected. The cause is the hasher reused without Reset in `getSeparatorInfo` (finding: code bug). |
| `efi_separators` | violation | `EbsSeparatorRequired`: EfiState reports a state for a log whose ExitBootServices action was found on its register before any valid separator there. Spec 4.E.3 requires exactly one such separator (finding: `seenSeparator5` is never checked at extract.go:433). |
| `grub_tpm` | pass | Over TPM logs of up to 4 events: `KernelCmdlineMeasured`, a non-empty kernel command line is the digest of an EV_IPL event on PCR8, possibly without its final NUL; `KernelCmdlineUnique`, once FirmwareLogState returns, the kernel state is an error exactly when the GRUB extracter returned a state and the log measured two or more kernel command lines (after a failed extraction, the kernel call on the nil state reports the empty command line); `Refinement`, the loop implements `GrubAbstract`; and `TypeOK`. For CC logs, `TypeOK` and `KernelCmdlineMeasured` are proved by TLAPS, and `grub_cc_contract` explores the same state space. |
| `grub_cc_contract` | violation | `Refinement` fails for CC logs: GrubStateFromRTMRLog skips a payload with no valid prefix where the spec requires one (finding). |
| `platform` | pass | `PlatformStateCorrect`: the state is the conversion of the last verified version and non-host info before PCR0's first separator; nothing after the separator, or on another register, changes it. `VersionRoundTrip`: when the last trusted version string is the one `ConvertGCEFirmwareVersionToSCRTMVersion` builds for a version of `MCNumbers` (1, 10 and the largest number of the word), the state reports that GCE version. |
| `wellknown_canonical` | violation | `VersionParseCanonical`: the parser accepts strings that are not the encoding of what it returns. Examples: no NUL terminator, a sign (where "-1" wraps to 2^32-1), leading zeros, embedded NULs (finding). |

Every property of a passing run has a mutant, a plausible bug in a mapped definition that TLC must catch:

- an off-by-one RecNum;
- a replay step that does not carry the accumulator;
- swapped index TLV fields;
- an extend loop that extends only one bank;
- the driver loop restarted at 0;
- drivers collected after the separator;
- the two EfiState register blocks as if / else-if, which the code's own comment warns against;
- a TPM command recorded without its prefix;
- the kernel command line cut one byte early;
- the GRUB loop advancing twice;
- the kernel call made only after a successful extracter;
- UCS-2 digits encoded big-endian;
- PlatformState going on past the separator;
- the technology byte left unchecked against the enum.

## Proofs

`CEL_proofs.tla` proves `THEOREM TypeCorrect == Spec => []TypeOK` for CEL, for every value of the constants that satisfies `CELAssumption`. `TypeOK` happens to be inductive, so no strengthening is needed.

The proof rests on lemmas that each operator returns a value of the right type:

- `DigestMapType`;
- `CelRecordType`, which includes `i % 256 \in 0..255` for any integer index;
- `ExtendBanksType`, which holds whether or not the index is in range once no bank is extended;
- `EncodeType`;
- `DecodeType`, which shows that `unmarshalDigests` of a well-formed digest set is a digest map.

Then `InitTypeOK`, and `NextTypeOK` with one step per action. AppendEvent is split into its full and partial branches.

`Efi_proofs.tla` proves the same `TypeCorrect` theorem for Efi, for every log and every register configuration. It uses three lemmas:

- `LogEvents`: every position of a log holds an event;
- `EfiIterType` and `DrvIterType`: an iteration keeps the locals well typed.

`Efi_proofs.tla` also proves `EfiResultCorrectThm == Spec => []EfiResultCorrect`, for every log and every register configuration. `EfiResultCorrect` speaks only of the returned result, so it is strengthened to `IInv == TypeOK /\ EfiScanInv /\ DrvScanInv /\ EfiResultCorrect`:

- `EfiScanInv` applies during EfiState's loop. Nothing is returned, no ExitBootServices event lies before `k`, the applications before `k` are collected, and EfiDriverState has not started.
- `DrvScanInv` applies during EfiDriverState's loop. `ExitFound` holds: the first ExitBootServices event is a verified EV_EFI_ACTION, with the applications before it collected. Until the driver separator is met, none lies before `k`. Once it is met, `SeparatorEnd` is a position before `k`. The drivers collected are those before `DrvBound`, which is `k` before the separator and `SeparatorEnd` after it. Stating the bound this way means the proof never needs a least element of a set that it has not already exhibited.

TLC checked `IInv` as an invariant on both register configurations (903,676 and 873,500 states) before the proof. The argument:

- `FirstIs` and `SeparatorEndAt`: an exhibited least position is the one `First` chooses.
- `SelectedFirst` and `SelectedStep`: the empty list is selected before position 1, and moving the position by one either appends the digest at it or keeps the list. The proof extends the increasing map.
- `EfiIterFacts` and `DrvIterFacts` say what an iteration does to the locals, split by the event's register and type.
- `NextIInv` has one lemma per action.

`Grub_proofs.tla` proves two theorems for every log, register kind and bound.

- `TypeCorrect`. It rests on these lemmas:
  - `TailBytes`: a suffix of a payload is a payload;
  - `IterType`;
  - `KernelType`.
- `KernelCmdlineMeasuredThm == Spec => []KernelCmdlineMeasured`. `KernelCmdlineMeasured` alone is not inductive: it speaks of the kernel state, which is computed from commands collected earlier. It is strengthened to `IInv == TypeOK /\ CommandsMeasured /\ KernelCmdlineMeasured`. `CommandsMeasured` says that every collected command is the payload of an EV_IPL event on the commands register with a valid prefix and a matching digest. TLC checked `IInv` as an invariant before the proof. The argument:
  - `IterCommands`: a successful iteration adds only such a payload.
  - `KernelSuffix`: a non-empty command line is `suffixOf` a command with a kernel prefix.
  - `DigestOfSuffix`: the last byte of the suffix is that of the payload, so the NUL test of the code is the NUL test of the command line.
  - `NextIInv` has one case per action.

`CEL_proofs.tla` also proves two theorems about the lockstep of log and root of trust. Both assume `DisciplinedCallers`, a hypothesis of the theorem rather than an assumption on the constants, because `cel_faults` shows what happens without it.

- `LogInSyncThm == ASSUME DisciplinedCallers PROVE Spec => []LogInSync`. The inductive invariant is `TypeOK /\ LogInSync`. The argument:
  - `ChainAppend`: appending a record to a log appends its digest to the chain of `(h, i)` when the record is at index `i` and carries `h`, and leaves the chain alone otherwise. The proof extends the increasing map with the new position.
  - `DisciplinedAppend`: with disciplined callers, AppendEvent never takes its partial branch. It extends register `j` of exactly the named banks and appends the record with index `j`, since `j % 256 = j`.
  - `ExtendMR` has no content to extend with, and Encode and Decode leave `rot` and `recs` alone.
- `AppendLockstepThm == ASSUME DisciplinedCallers PROVE Spec => AppendLockstep`. It follows from `TypeCorrect` and `DisciplinedAppend`: each step is a lockstep step or a stutter.

`Platform_proofs.tla` proves `PlatformStateCorrectThm == Spec => []PlatformStateCorrect` for every log and every set of events. `PlatformStateCorrect` speaks only of the returned state, so it is not inductive. It is strengthened to `IInv == LocalsOK /\ ScanInv /\ ConvertInv /\ PlatformStateCorrect`:

- `LocalsOK` types every variable but the returned state.
- `ScanInv` applies while the loop runs or converts. Nothing has been returned yet. No PCR0 event before `k` is a separator. Every PCR0 version and non-host info event before `k` was verified. The locals hold `LastData` of each type before `k`.
- `ConvertInv`: at the conversion, `k` is `FirstSeparator(log)`.

TLC checked `IInv` as an invariant on the platform events with logs of up to 4 events (54,135 states) before the proof. The argument:

- `LastDataStep`: moving `k` by one either captures the event at `k` or leaves `LastData` alone. The proof shows that the position chosen by `CHOOSE` is `k`, or that the two `CHOOSE` expressions range over equal sets.
- `SeparatorCheck`: `checkIfValidSeparator` says "yes" only of a separator, and of a separator it says "yes" or "err". So an iteration that neither fails nor breaks is not at a PCR0 separator.
- `FirstSeparatorAt`: a scan that saw no separator before `m`, and stops at a separator or at the end, stops at `FirstSeparator`.
- `NextIInv` has one lemma per action.

`Grub_refinement.tla` proves `RefinementSafetyThm == ASSUME LogKind = "TPM" PROVE Spec => Abs!SafetySpec`. `SafetySpec` is `GrubAbstract`'s `Init /\ [][Next]_avars`, which is `Spec` without its fairness. The hypothesis is the TPM configuration: for CC logs the refinement is false, as `grub_cc_contract` shows.

The inductive invariant is `RInv == TypeOK /\ LoopInv /\ OutcomeInv /\ KernelInv`:

- `LoopInv` applies while GrubStateFromTPMLog's loop runs. Every event before `k` that the contract accounts for is acceptable. The commands and files collected are the contract's lists at `CmdPositions(log, k)` and `FilePositions(log, k)`.
- `OutcomeInv`: once the loop is over, `GrubOutcome` is `GrubOf(log)`.
- `KernelInv`: the kernel state is pending until the kernel call.

TLC checked `RInv`, and `Abs!SafetySpec` as a property, on `grub_tpm`'s 71,597 states before the proof. The argument:

- `NthAppend`: adding a position after all of `P` keeps the positions of rank `1..Cardinality(P)` and gives the new one the next rank. It rests on `FS_AddElement`, `FS_Subset` and `FS_EmptySet` of `FiniteSetTheorems`.
- `ListsAppend` follows from it: the lists at `P \cup {m}` are those at `P` with the event at `m` appended. `ListsEmpty`: the lists are empty exactly when `P` is.
- `TpmMeasured`: GrubStateFromTPMLog fails on exactly the accounted-for events that the contract does not accept.
- `FailRInv`, `ContinueRInv`, `EndRInv` and `KernelRInv` cover the actions. `EndRInv` shows that "no GRUB measurements found" is the contract's error for a log with nothing to account for.
- `StepRefines`: `GrubFail` and `GrubEnd` map to `ExtractGrub`, `Kernel` to `ExtractKernel`, and `GrubContinue` to a stutter.

Operators seen through the instance, such as `Abs!Cardinality` and `Abs!suffixAt`, are distinct symbols to the provers until they are unfolded. The bridge lemmas `AbsCardinality`, `AbsChecks` and `AbsKernel` equate them with the module's own operators.

What stays with TLC:

- **Liveness and ENABLED.** They are out of the prover's reach.
- **Facts about what the recursive replay fold computes for every input.** These would need induction over data, which the installed provers cannot instantiate. This covers `ReplayCorrect` and `DecodePreservesReplay`.
- **`SelectSeq`.** tlapm proves nothing about it, not even `SelectSeq(<<>>, T) = <<>>`. CEL, Efi, Platform and `GrubAbstract` state their properties by positions instead.
- **The fairness part of `Refinement`.** The claim that the abstract states are eventually delivered is liveness. `grub_tpm` checks it.
- **Platform's `TypeOK` and `VersionRoundTrip`.** They speak of the returned state, the range of the wellknown conversions. Those rest on the recursive functions `DecimalValue` and `Itoa`, whose values would need induction over data.

## Not modelled

- **Package `tcg`** (the decoder, replay and the digest verifier) is not in `src/`. Only the calls the extractors make are modelled, from the spec.
- **The proto** is generated code.
- **TLV byte framing and certificate formatting** are pure data.
- **SecureBootState** only wraps `ParseSecurebootState`, which is not in this repository.
- **FirmwareLogState.** Only its GRUB branch is modelled. The other extracters read the same events independently, and their errors are only joined: each is modelled in its own module (`Platform`, `Efi`), and composing them would add no interaction.
- **The replay-and-extract wrappers** need `tcg.ParseAndReplay`.
- **GRUB prefix relabelling.** GRUB's digest does not cover the prefix. A payload measured as `kernel_cmdline: ` and relabelled `grub_cmd: ` passes every check and hides the kernel command line. Stating this needs the ground truth of what GRUB measured, which the log does not carry. It is listed as a hazard with no property.
