# A TLA+ model of the ESXi → Proxmox migration tool

The tool copies one VM at a time off an ESXi host, converts its disk and registers it with
Proxmox. It has no threads. What makes it hard to get right is everything around it: commands
that fail, time out or succeed silently without acting; a human who may answer anything, hours
later; a source VM other people use; processes that are killed and started again over what the
last one left behind; and several such processes on one Proxmox node. These specifications say
what the code promises under all of that, TLC checks it on small instances, and TLAPS proves the
most important part for every instance.

Paths below are relative to `src/migration_tool/` unless they say otherwise.

## The system

| part | state | operations | talks to |
| --- | --- | --- | --- |
| `agent/orchestrator.py` | one record per run: results, decisions, escalations, final status | constructor's location check, `run_vm` (RESOLVE, CAPACITY, COPY, CONVERT, REGISTER, known fix), `_handle_decision`, `check_batch_collisions` (not called) | all tools, the human |
| `discovery/path_resolver.py` | none | `resolve`: four queries, one parsed answer | ESXi client |
| `pipeline/capacity_check.py` | none | location check, free space against demand | file system |
| `pipeline/copy_engine.py` | staging directory of the VM | `stage_vm_disk`: a pair of files renamed and rewritten, or a snapshot chain as it is | ESXi client, staging |
| `pipeline/convert_engine.py` | the qcow2 in that directory | `convert_to_qcow2`: convert, then ask `qemu-img info` | qemu-img |
| `pipeline/register_engine.py` | none of its own; the Proxmox node is its state | `register_vm`: up to sixteen commands and read-backs | Proxmox client |
| `clients/proxmox_client.py` | none | `qm`, `pvesh`, queries that read a failure as "not there", 60 s limit | node |
| `clients/esxi_client.py` | none | nine read-only operations, a path check that raises | ESXi host |
| `pipeline/boot_validator.py` | none | start, stop, observe | node |
| `agent/schemas.py` | a constant registry | `call_tool`, conversion of results to JSON, parsing of `du` | everything |
| `agent/known_issues.py`, `known_issues/library.json` | a file | texts for the human | — |
| `discovery/inventory.py`, `discovery/collision_detector.py` | none | a table parser, a name comparison | — |
| `migrate.py` (repository root) | none | `list`, `run`, `run --dry-run` | orchestrator |
| `old-backup-data/` (repository root) | — | shell scripts this tool replaced | — |

Parts interact by calls and return values only. State is shared through three places that outlive
a process: the ESXi host (the source VM, which others change), the staging directory (named after
the two VMIDs, never cleaned) and the Proxmox node (configuration, volumes, pools).

What is hard, and what each part must therefore guarantee:

- **register_engine** — a step may fail silently, an import may be cut off, the process may die
  between any two commands, another process may work on the same node. A *fully verified* result
  must nevertheless mean that everything asked for is on the node and is this run's, and starting
  again must always recover.
- **orchestrator** — a stage may fail in any way and a human may wave it through. *migrated* must
  be earned stage by stage, some things must be out of any human's reach, the record must explain
  itself, and the run must end or be waiting for an answer.
- **path_resolver, copy_engine, convert_engine** — queries and pulls fail partially, several runs
  meet in one directory. What is converted should be the VM's current disk, all of it; it is so
  for one disk with at most one snapshot only, and for every layout it must at least be nothing
  stale and nothing cut off.
- **capacity_check** — demand and space are numbers that concurrent runs change.
- **boot_validator** — two readings decide whether a VM hangs, of a guest that does not wait for
  them; the picture taken with them may be somebody else's or yesterday's.

`PROJECT.json` lists every such hazard at its line with the properties that watch it.

## The modules

| module | what it is |
| --- | --- |
| `RegisterResult` | the seven checks of `types.RegisterResult`, as the set of those that passed |
| `Registration` | abstract specification: what `register_vm` promises, without its commands |
| `RegisterEngine` | `register_vm`, one action per `qm`/`pvesh` command, against the node |
| `PathResolver` | what `resolve()` makes of each combination of answers |
| `CopyEngine` | the results `stage_vm_disk` can return for a resolution |
| `ConvertEngine` | the choice of the file to convert, the expected size, when a conversion is trusted |
| `CapacityCheck` | the padded demand against the space there is |
| `Orchestrator` | `run_vm` for one VM, stage by stage, with the human and the world outside |
| `MigrationGate` | abstract specification: a stage is passed by evidence or by consent, then *migrated* |
| `OrchestratorRefinement` | `Orchestrator` implements `MigrationGate`, proved |
| `Staging` | several `run_vm` on one staging file system: sizes, contents, kills, full disks |
| `BootValidator` | `observe_boot`, one action per command, and the guest it looks at |
| `CollisionDetector` | `detect()` as an operator |
| `OperatorProofs` | lemmas about the operators the models are built from: first matches, pulls, the source of a conversion, sums, `detect()` |
| `RegisterEngineProofs`, `BootValidatorProofs` | lemmas and theorems about the module each is named after |
| `OrchestratorProofs`, `OrchestratorRecordProofs` | theorems about `Orchestrator`: its control, and its record |
| `StagingProofs`, `StagingSpaceProofs` | theorems about `Staging`: what an image holds, and the room there is |
| `MCRegisterEngine`, `MCOrchestrator`, `MCStaging` | arguments, VMs, faults and plans for TLC |

`Orchestrator` and `Staging` both use `PathResolver`, `CopyEngine`, `ConvertEngine` and
`CapacityCheck`: the first composes them with decisions and failures of every kind for one run,
the second with bytes and interleavings for several.

### RegisterEngine

The node is `exists` (what `qm status` knows), `config` (the keys `register_vm` sets), `volume`
(the content of `<storage>:<vmid>/vm-<vmid>-disk-0.raw`, a run's image, half of one, somebody
else's or nothing), `pools` and `members`. Each run has a program counter named after its next
command, the checks recorded so far and whether this call is the known-fix retry.

One action is one command. Only importdisk's exit code is read by the code, so for every other
changing command exit code and timeout do not matter: it acted or it did not (`Effects`). A query
tells the truth or, when it fails, "absent" (`Seen`), because `proxmox_client` reads failures that
way. importdisk may leave anything behind when it reports failure, in particular a partial volume
when the 60 s limit cuts it off (`ImportOutcomes`); `subprocess.run` kills the command then, so
nothing acts after its timeout. `ImportTruthful` says whether importdisk may also exit 0
without having imported. `Crash` kills the process between two commands, `Call` starts
`register_vm` again, `Retry` is the known fix of `orchestrator.py` 286–294. `FaultsEnd` ends all
faults, which is what "re-running recovers" needs to be stated at all; it is never forced.

The node is external. As `register_engine.py` 106–107 says, the import always writes
`vm-<vmid>-disk-0.raw`: a second import replaces the volume. That is taken from the comments there
and at 13–14, not from Proxmox, and is an assumption under everything said of images: of
`VerifiedIsOurs` and `RerunRecovers`, which could otherwise find the image under another name, and
of `register_retry`, where the second import damages the first one's image. `qm create` of a VMID
in use and the creation of an existing pool fail without effect; a disk key cannot name a volume
that does not exist.

### Orchestrator and MigrationGate

A stage is one action: the tool call, the decision on its result, and all of `_handle_decision`
that needs no human. An escalation waits in `pc = "ask"` until `Answer`. `Raise` is an exception
that leaves `run_vm`: the record is lost with it. Faults are a constant of a behaviour, chosen
from `FaultSets`; a fault in the set *may* happen at each opportunity. What a conversion leaves
under the output's name is `image`: nothing, what an earlier run left (`"stale"`), something
never verified, or this run's verified conversion. `Kill` and `Start` are a process that dies and
is started again; `PowerChange` is somebody using the source VM.

`register_vm` appears here by its possible results (`Registrations`). That these are all of them
is `ResultShape` of `RegisterEngine`, checked and proved.

`MigrationGate` forgets all of it but the stage a run is at, whether a human is being asked about
it, what each stage was passed on (evidence or consent) and the outcome. It says that a run passes
the stages in order, that nothing counts that an earlier run passed, and that a run is *migrated*
at the end of the last stage and nowhere else.

Abstractions: the VM of a behaviour is a record of disk files by role, disk, depth of snapshot and
datastore. An answer is "proceed", "skip" or anything else, which acts like "abort". In every
path of `convert_engine.py`, `ok` equals `size_matches_expectation`, so one Boolean stands for
both and the second test of `_decide_after_convert` (line 144) cannot be reached. The capacity
figure is a Boolean here. Where a copy was incomplete and a human let it pass, a snapshot chain
may still open, because its directory holds what earlier runs staged; `Staging` says what is in
it then.

A VM for which nothing calls for a decision (`Unproblematic`) must be migrated without one. Which
VMs these are is not obvious from the code: `_expected_virtual_size` takes the first size that is
listed, of whichever disk, while the disk converted is that of the first descriptor of the kind
looked for. If a snapshot was taken of a later disk only, the two differ, a sound conversion
does not verify, and the human is asked. `ExpectsRightSize` names the layouts where they agree;
`LateSnapshot` of `MCOrchestrator` is one where they do not.

### Staging

A place is a name in a staging directory. What is stored there is absent, cut off, whole but of
an earlier call, or whole and of this one, with the file it came from, whether its extent line was
rewritten, and its size; `free` is what the file system has left. A call checks the space,
pulls file by file, rewrites the descriptor, converts and verifies; each of these is an
action, so a second process, a kill or a full disk comes between any two, and a write may be cut
off. Deciding whether qemu-img can open a descriptor follows the names it leads to (`Opened`), and
the image is this call's (`"fresh"`) only if all of those files are. `TroubleEnds` ends failures
and kills, for the same reason as `FaultsEnd`.

The VMs are resolved, powered off and on one datastore: what happens otherwise is
`Orchestrator`'s. Sizes of files that are not listed may be missed by `du`, which fails or, for a
thin disk, counts blocks; anything it may tell in between is between counting the file and not
counting it. A command dies with its process. An scp or qemu-img that outlives a killed
migrate.py would be one more process in the directory, which the properties exclude by name
(`crowded`, `calm`). `Regular` names the plans whose calls need no human: as in `Orchestrator`,
the disk converted must be the one whose size is expected, and it must have a size at all.

### BootValidator

The guest loads, computes or waits, freezes or spins, is off, and does so between any two
commands of `observe_boot`. `diskread` is QEMU's counter: it lives as long as the process. A
reading is of the moment; when `pvesh` fails it is absent. Observations follow each other on the
same picture paths, and what is at a path is known by the observation it was taken in, or is no
picture: missing, empty or cut off. `screendump` looks at the exit code of `qm monitor` and never
at the file, so in the model, too, an exit code of 0 says nothing: the picture may be this
observation's, broken, or the one that was there before. A PNG shows what the PPM showed when it
was made. That an old PPM, or a PNG of it, is returned without a note is therefore possible, and no
property says otherwise; what the code does guarantee is that a PNG is never older than its PPM.

Three statements of the repository do not hold of it, by reading the code (there is no run for
them): the comment at `boot_validator.py` 127–130 says a VM idling at a menu is not hung, while
the verdict below it calls exactly that hung; `schemas.py` 495–506 describes an observation "of a
running VM", while one that is off is observed too and reads as hung; the docstring at 70–73
says that without `pnmtopng` the .ppm is left, while the PNG path, which is the one returned, then
holds an empty file.

### CollisionDetector

The report is a function from names to VMIDs. `MCStaging` evaluates it on batches like
those of `tests/test_logic.py` (`Batches`), including one the tests do not have: two VMs with one
VMID, of two hosts, are never reported.

## What is checked

Every run is in `PROJECT.json` with its configuration. All but `boot_observation` set
`CHECK_DEADLOCK FALSE`: calls and runs are bounded (`MaxCalls`, `MaxRuns`), so the systems stop
when the bound is used up, and a human need not answer.

| run | instance | shows |
| --- | --- | --- |
| `register_solo` | one run, one VMID, pool, 3 calls; 25 thousand states | after any failures, timeouts, crashes: a verified result is this run's image, disk and description (`VerifiedIsOurs`), no boot order without a disk, results of the shape `run_vm` assumes, a call begun after the faults succeeds (`RerunRecovers`), calls end |
| `register_shared` | two runs with one VMID in use, two storages, with and without pool, 1 call each; 950 thousand states | a verified result stays true (`VerifiedIsSettled`) and `register_vm` implements `Registration` |
| `orchestrator_run` | eight kinds of VM, three sets of faults, 2 runs; 640 thousand states | below |
| `staging_shared` | two runs, 1 call each, four plans (the same migration twice; with a snapshot and without in one directory; two directories, once with two snapshots and once with a second disk), two disk sizes; 700 thousand states | below |
| `boot_observation` | 2 observations, 2 reads after a start; 700 thousand states | below |

`orchestrator_run` checks that *migrated* is earned at each stage by evidence or consent; that
only an image verified in this run, or consented to, is registered; that an unresolved VM, or an
appliance whose name is given, is never staged or migrated whatever the human answers; that the
record of a returned run pairs each escalation with its answer and explains the final status; that
a silent attachment failure gets the known fix once, before any question; that a conversion of a
VM with one disk and at most one snapshot, if it verifies, starts at the newest state and has
every file of the VM from this run, also after partial copies and earlier runs, unless a human let
the incomplete copy of a chain pass (`OneDiskIsWhole`); that a running VM is not copied without
consent while its power state is answered and does not change; that `run_vm` implements
`MigrationGate`; that a run ends or asks; and that a healthy VM goes through unattended: as long
as nothing fails its run neither asks nor raises nor needs the known fix
(`HealthyRunIsUnattended`), and it does return (`HealthyRunMigrates`).

`staging_shared` checks that an image that was verified and goes to `register_vm` is made of
nothing stale and nothing cut off: all files opened for it were pulled by this call, whatever
earlier calls left in the directory (`VerifiedImageIsFresh`). It does not say that these are all
the files of the VM. With two snapshots the first one's descriptor is converted and the newest
delta is not opened, with two disks the second one is not; both are among the plans, their images
are fresh, and `orchestrator_two_disks` shows what is missing. The property names the two ways in which this fails: a second process in the same directory, and a human
who lets an incomplete copy of a chain pass, whose missing files an earlier call may supply. A
copy whose check knew every size has room as long as nobody else writes (`CheckedCopyFits`). And
nothing ever needs to be cleaned up: leftovers of killed and failed calls never keep a later call
from going through with an image made of what it pulled itself (`RerunGoesThrough`).

`boot_observation` checks that a VM called hung read nothing and was not computing, unless it was
restarted between the readings, when the counter misleads (`HungMeansQuiet`; one that waits from
the first reading to the second is called hung, a slow boot in a quiet spell included); that a
frozen guest is found (`FrozenIsFound`); that a PNG returned without a note shows what the PPM
shows or nothing, and not what an earlier observation left there (`PngShowsThePpm`); and that an
observation ends.

Seven further runs each show a statement of the repository that the code does not keep:

| run | the statement, and what happens |
| --- | --- |
| `register_retry` | `library.json` 79: the fix retries the attachment. It re-imports, and a failed import ruins an intact image |
| `register_silent_import` | `register_engine.py` 8–10: every step is read back. The import is not |
| `register_stale_disk` | `register_engine.py` 6–7: the disk is confirmed to be there. Any disk-0 on any storage passes |
| `orchestrator_power_unknown` | `esxi_client.py` 160–162: a running VM is never copied. One that is running or suspended is when the query fails |
| `orchestrator_first_run` | `README.md` 76–78: the defaults are sensible. The default staging root is refused, or missing when it is measured |
| `orchestrator_two_disks` | `copy_engine.py` 1: a VM's disk files are pulled. Of two disks one is, and the conversion verifies; the same `NoFileDropped` fails with two snapshots, of which the older is converted |
| `orchestrator_unnamed` | `path_resolver.py` 173, `library.json` 52: appliances are excluded by default. Without `--display-name` they are copied |

**Why these bounds are enough.** `register_solo`: three calls are a first call, its known fix and
a re-run over what both left; a fourth call starts from no new kind of leftover. `register_shared`:
interference is between two processes, and one call each lets every pair of commands interleave;
the VMID is in use at the start, with every configuration an earlier owner may have left, which
stands for all earlier calls. `orchestrator_run`: the second run meets everything a first one can
leave; the VMs are the smallest of each kind the code tells apart (plain, one snapshot, appliance,
unsafe path, elsewhere stored, two disks, a snapshot of the second only, chain with a disk
elsewhere). `staging_shared`: two runs
in one directory are also two calls one after the other, so each kind of leftover is met; of the
two disk sizes one fills at every step and one has room for everything; a size of ten is the
least the ten percent margin acts on. `boot_observation`: two reads are one before and one between
the readings, and as many again after a restart; the second observation meets the first one's
pictures. The proofs need no bounds.

**Fairness.** `RegisterEngine`: weak fairness of each run's next command, because every `qm` and
`pvesh` call has a limit of 60 s. `Orchestrator`: weak fairness of stages, for the same reason
(ssh 30 s, qemu-img one hour, scp four). `BootValidator`: weak fairness of the next command
(`qm monitor` 15 s, `pnmtopng` 10 s, the sleep). No fairness for the human, the operator who
starts runs, the end of faults, guests, or anything outside. `Staging` needs none: that a call
goes through is stated as what its states may not be.

Each property comes with a mutant of the code, defined next to the original and marked
`(Mutant: …)`, that it must reject; `PROJECT.json` pairs them.

## What is proved

For every set of VMs, storages, runs, directories and faults, and any bound on calls, from the
assumptions named in the modules (they type the constants and keep markers such as `Nothing`
distinct):

`RegisterEngineProofs`
- `Typing`, `ResultsHaveShape`, `BootOrderNeedsDisk`.
- `VerifiedResultIsSettled` and `RegistrationRefinement` rest on one inductive invariant,
  `Observed`. `VerifiedIsSettled` alone is not inductive: it speaks of calls that have returned.
  `Observed` adds that every check already recorded is still true on the node and that at each
  command the checks before it have been passed or given up in order, so that a call recording
  its last check has them all. That nothing already there is undone, whoever acts
  (`NodeGrows`), carries it over other runs' steps and is the abstract `Settle`.
- `VerifiedResultIsOurs`, under `ImportTruthful`: a VMID of one run alone only ever carries its
  values, and a recorded import is in the volume (`Owned`).
- `RerunIsRecovery`: in a call begun after the last fault, the checks passed so far are exactly
  those of its position (`OnCourse`).

`OrchestratorProofs`
- `OrchestratorTyping`; the induction needs that an escalation is on record while its question
  is open.
- `MigrationIsEarned`, `RegistrationIsOfVerifiedImage`: `GateInv`. Whatever stage the run is at,
  a question counting as being at its stage (`At`), every earlier stage has its evidence or its
  consent. The final status alone says nothing about runs under way, so it is not inductive.
- `UnresolvedGoesNowhere`, `AppliancesAreExcluded`: `RefusalInv`. A blocked VM may pass RESOLVE,
  CAPACITY and COPY by consent, but leaves COPY with no files, which CONVERT cannot survive.
- `RunningVmIsSafeWhenKnown`: the gate, and that what RESOLVE read stays true (`PowerInv`).
- `HealthyRunsAreUnattended`: `UnattendedInv` says what the record of a healthy run is at each
  stage: the truth after RESOLVE, every pull at CONVERT, a verified image at REGISTER. It needs
  that all pulls succeed (`HealthyCopy`) and that what is converted has the size expected
  (`HealthyConversion`), for any layout of the disks. This is the safety half of
  `HealthyRunMigrates`; that the run returns at all rests on fairness.

`OrchestratorRefinement`
- `MigrationGateRefinement`: each action is a step of the abstract specification or a stutter.
  `GateInv` says that what is behind a run was warranted; the refinement also needs that nothing
  ahead of it is (`AheadInv`), or a stage could pass on what an earlier run left.

`OrchestratorRecordProofs`
- `RecordExplainsStatus`: `BehindInv` (decisions and answers on record are of stages already
  passed, except a known fix or an open question), `AnswersInv` (questions and answers
  correspond, in order, but for the open one) and `EndInv` (what the last entry of a run that
  returned says of its status). `AuditIsComplete` speaks of returned runs only and is not
  inductive.
- `FixIsTriedOnce`: `FixInv`, that fixes are of REGISTER and at most one, and that one is on record
  at the retry and at a question about a silent failure.
- `OneDiskIsConvertedWhole`: `ImageInv`, that what was copied are files of the resolution, which
  are the VM's or none, and that the converted one has the role the layout calls for; with one
  disk and at most one snapshot that role is the newest state. `StagedInv` says what had been
  staged then: a complete copy made every pull, and what verifies was copied completely or is a
  chain whose copy a human let pass, which rests on `GateInv` at CONVERT. That the pulls are all
  files of such a VM is `PullsCoverOneDisk`.

`StagingProofs`
- `StagingTyping`, with free space never negative.
- `VerifiedImagesAreFresh`: `FreshInv`. While a call has its directory to itself, what it has
  pulled so far is there, whole and its own (`PulledIsFresh`), and a descriptor is linked to the
  extent of the same call (`Linking`); what it has not pulled it does not find, unless a chain
  was ever staged there (`OnlyChainsKeepNames`). The property itself speaks of the step before
  `register_vm` only.

`StagingSpaceProofs`, for any finite number of processes (`RunsAssumption`: sums need it)
- `CheckedCopiesFit`: `CopyInv`. While a checked copy is under way, the free space covers the
  sizes of all files it has not pulled yet (`FitInv`), as every pull takes at most its own
  file's size out of it and a failed one ends the copy. The property itself speaks of the next
  pull only.
- `RerunsGoThrough`: three steps. `SpaceInv`: what is free and what the places hold add up to the
  capacity (`Accounted`), and no place holds more than what some run may leave there (`Leftovers`).
  From it, `RoomLeft`: with room for the `Demand`, there is always enough for one more check,
  copy and conversion. Then `CalmInv`: a call that begins after the last failure and is alone has
  at each stage what the next one needs, so that every decision is to proceed. The property says
  only where such a call is not.

`BootValidatorProofs`
- `BootTyping`, `HungVmWasQuiet`, `FrozenGuestIsFound`, `PngIsNotLeftOver`: `BootInv`
  relates the counter to the first reading while the guest goes on (it can only be ahead of it
  unless there was a restart), both readings afterwards, the PNG to the PPM once both steps are
  over, and the verdict to the readings.

`OperatorProofs`
- `ClearedBatchIsApart`: a batch `detect()` clears shares no base file name, which needs that no
  two VMs have one VMID.
- What the proofs above use of `resolve()`, `stage_vm_disk` and `_pick_convert_source`
  (`ChainPulls`, `PairPulls`, `SourceOfPulls`), and of sums over a set: `SumFunctionOnSet` is
  a recursive function on the subsets of the set, chosen by its equation. That there is one
  (`SumsUpExists`) and that it does not depend on the order of the summands (`SumTakesOut`) is
  proved by a least counterexample in the size of the subset, and everything else from these
  (`SumsJoin`, `SumIsCovered`, `SumByOwner`).

Every safety property a passing run checks is so proved, the action property and both refinements
included. Two attempts to prove something corrected the model first: `Regular` and
`Unproblematic` took for granted that the size listed first is that of the disk converted. No run
could refute that while no plan had a second disk and no VM a snapshot of its second disk only;
both definitions say it now, and the runs have such layouts.

Model-checked only: the liveness properties (`CallsEnd`, `RunEnds`, `HealthyRunMigrates`,
`ObservationEnds`), which rest on fairness and are out of the prover's reach.

## Not modelled

- The command line's parsing and printing, the table parser of `inventory.py`, the texts of
  `known_issues`, ssh and scp argument lists: text and pure I/O, with no state that outlives the
  call.
- The declarations in `schemas.py` and the conversion of results to JSON: constants, and a round
  trip that keeps every field `run_vm` reads.
- `check_batch_collisions` of the orchestrator, which nothing calls.
- Files of a chain that have one name in two directories, which overwrite each other in staging:
  `VerifiedImageIsFresh` exempts them (`NamesApart`).
- Commands that outlive a killed process.
- Several runs of `run_vm` on one Proxmox node together with one staging file system: the two
  halves share nothing but the image's path, and are `RegisterEngine` and `Staging`.
- The legacy scripts, which are not part of the program.
