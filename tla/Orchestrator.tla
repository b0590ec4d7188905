---------------------------- MODULE Orchestrator ----------------------------
(***************************************************************************)
(* Orchestrator.run_vm of agent/orchestrator.py for one VM: the stages     *)
(* RESOLVE, CAPACITY, COPY, CONVERT, REGISTER, the decision table that     *)
(* follows each, and the human who is asked when the table escalates.      *)
(*                                                                         *)
(* A stage is one action: the tool call, the decision on its result and    *)
(* everything _handle_decision does that needs no human.  An escalation    *)
(* waits for Answer, which may come at any later time or never.  The       *)
(* source VM is not under this program's control: its power may change     *)
(* between any two steps.  A run may raise, be killed, and be started      *)
(* again on the same VM; the qcow2 of the earlier run is then still there. *)
(***************************************************************************)
EXTENDS ConvertEngine, RegisterResult

CONSTANTS
    Vms,                \* the VMs run_vm may be started for
    Datastores,         \* ESXi datastore names
    Disks,              \* the disks a VM may have
    FaultSets,          \* the combinations of faults considered
    MaxRuns             \* bound on how often run_vm is started

\* An operator who omits --display-name, a staging root outside bulk storage or
\* not there at all, queries that fail ("power", "layout", "summary"), too little
\* space, commands that fail, a process that is killed, and somebody who changes
\* the source VM's power.
FaultKinds == {"unnamed", "misplaced", "staging", "power", "layout", "summary", "capacity",
               "pull", "convert", "register", "kill", "repower"}

DiskFiles ==
    {f \in [role : Roles, disk : Disks, depth : Nat, datastore : Datastores \cup {NoDatastore}] :
        f.depth = 0 <=> f.role \in {"base_descriptor", "base_flat"}}

ASSUME VmAssumption ==
    Vms \subseteq [files : Seq(DiskFiles), home : Datastores,
                   appliance : BOOLEAN, plain : BOOLEAN]
ASSUME NameAssumption == NoDatastore \notin Datastores
ASSUME FaultAssumption == FaultSets \subseteq SUBSET FaultKinds
ASSUME RunsAssumption == MaxRuns \in Nat

VARIABLES
    vm,            \* the VM on the ESXi host, one of Vms
    power,         \* its power state
    faults,        \* the faults that may happen, one of FaultSets
    image,         \* what the staging directory's qcow2 is to this run
    runs,          \* how often run_vm was started (bounded by MaxRuns)
    pc,            \* the stage run_vm is at, or how it ended
    resolved,      \* record.resolved
    capacity,      \* record.capacity: sufficient
    copied,        \* record.copy
    converted,     \* record.convert: ok and the file converted from
    registered,    \* record.register
    decisions,     \* record.decisions
    escalations,   \* record.escalations
    final_status   \* record.final_status

source == <<vm, power, faults>>
results == <<resolved, capacity, copied, converted, registered>>
record == <<results, decisions, escalations, final_status>>
vars == <<vm, power, faults, image, runs, pc, resolved, capacity, copied, converted,
          registered, decisions, escalations, final_status>>

Stages == {"resolve", "capacity", "copy", "convert", "register"}
NextStage == [resolve |-> "capacity", capacity |-> "copy", copy |-> "convert",
              convert |-> "register", register |-> "returned"]
Over == {"idle", "returned", "raised", "killed"}

Kinds == {"proceed", "apply_known_fix", "escalate", "skip"}
Answers == {"proceed", "skip", "abort"}   \* every other answer acts like abort
Statuses == {"pending", "migrated", "skipped", "needs_human"}
Images == {"none", "stale", "unverified", "verified"}

\* The records of a run that has not got that far.
Unresolved == [resolution_ok |-> FALSE, disk_files |-> <<>>, datastore |-> NoDatastore,
               power_state |-> "unknown", likely_appliance |-> FALSE,
               has_snapshot_chain |-> FALSE]
NotConverted == [ok |-> FALSE, file |-> 0]

TypeOK ==
    /\ vm \in Vms
    /\ power \in PowerStates
    /\ faults \in FaultSets
    /\ image \in Images
    /\ runs \in 0..MaxRuns
    /\ pc \in Stages \cup {"retry", "ask"} \cup Over
    /\ resolved \in [resolution_ok : BOOLEAN, disk_files : Seq(DiskFiles),
                     datastore : Datastores \cup {NoDatastore},
                     power_state : PowerStates \cup {"unknown"},
                     likely_appliance : BOOLEAN, has_snapshot_chain : BOOLEAN]
    /\ capacity \in BOOLEAN
    /\ copied \in [ok : BOOLEAN, files : Seq(Nat), raised : BOOLEAN]
    /\ converted \in [ok : BOOLEAN, file : Nat]
    /\ registered \in Results
    /\ decisions \in Seq([stage : Stages, kind : Kinds])
    /\ escalations \in Seq([stage : Stages, answer : Answers])
    /\ final_status \in Statuses

-----------------------------------------------------------------------------
Init ==
    /\ vm \in Vms
    /\ power \in PowerStates
    /\ faults \in FaultSets
    /\ image = "none"
    /\ runs = 0
    /\ pc = "idle"
    /\ resolved = Unresolved /\ capacity = FALSE /\ copied = Refused
    /\ converted = NotConverted /\ registered = {}
    /\ decisions = <<>> /\ escalations = <<>>
    /\ final_status = "pending"

\* Orchestrator's constructor refuses a staging root outside bulk storage.
MisplacedStaging == "misplaced" \in faults

\* (Mutant: the answers of the last run are kept, as a cache would.)
NewRecordWithAnswers ==
    /\ resolved' = Unresolved /\ capacity' = FALSE /\ copied' = Refused
    /\ converted' = NotConverted /\ registered' = {}
    /\ decisions' = <<>> /\ UNCHANGED escalations
    /\ final_status' = "pending"

NewRecord ==
    /\ resolved' = Unresolved /\ capacity' = FALSE /\ copied' = Refused
    /\ converted' = NotConverted /\ registered' = {}
    /\ decisions' = <<>> /\ escalations' = <<>>
    /\ final_status' = "pending"

\* migrate.py run: a new record.  The image of an earlier run stays on disk.
Start ==
    /\ pc \in Over
    /\ runs < MaxRuns
    /\ runs' = runs + 1
    /\ pc' = "resolve" \/ (MisplacedStaging /\ pc' = "raised")
    /\ image' = IF image = "none" THEN "none" ELSE "stale"
    /\ NewRecord
    /\ UNCHANGED source

\* True from _handle_decision: the next stage, or the end.
Continue(stage) ==
    /\ pc' = NextStage[stage]
    /\ final_status' = IF stage = "register" THEN "migrated" ELSE final_status

\* The decision on a stage's result, and what follows without a human.
Decide(stage, kind) ==
    /\ decisions' = Append(decisions, [stage |-> stage, kind |-> kind])
    /\ \/ kind = "proceed" /\ Continue(stage)
       \/ kind = "apply_known_fix" /\ pc' = "retry" /\ UNCHANGED final_status
       \/ kind = "escalate" /\ pc' = "ask" /\ UNCHANGED final_status
       \/ kind = "skip" /\ pc' = "returned" /\ final_status' = "skipped"

\* An exception leaves run_vm: nobody gets the record.
Raise == pc' = "raised" /\ UNCHANGED <<decisions, final_status>>

\* (Mutant: only a running VM is noticed.)
DecideIgnoringSuspended(path) ==
    IF ~path.resolution_ok THEN "escalate"
    ELSE IF path.likely_appliance THEN "skip"
    ELSE IF path.power_state = "poweredOn" THEN "escalate"
    ELSE "proceed"

\* (Mutant: snapshots are left to the human.)
DecideAskingForSnapshots(path) ==
    IF ~path.resolution_ok \/ path.has_snapshot_chain THEN "escalate"
    ELSE IF path.likely_appliance THEN "skip"
    ELSE IF path.power_state \in {"poweredOn", "suspended"} THEN "escalate"
    ELSE "proceed"

DecideAfterResolve(path) ==
    IF ~path.resolution_ok THEN "escalate"
    ELSE IF path.likely_appliance THEN "skip"
    ELSE IF path.power_state \in {"poweredOn", "suspended"} THEN "escalate"
    ELSE "proceed"

\* (Mutant: the tool call's return is taken for its success.)
DecideOnReturn(ok) == "proceed"

DecideOn(ok) == IF ok THEN "proceed" ELSE "escalate"

\* (Mutant: no limit to the retries.)
DecideToRetry(result, retried) ==
    IF FullyVerified(result) THEN "proceed"
    ELSE IF AttachmentNotVerified(result) THEN "apply_known_fix"
    ELSE "escalate"

DecideAfterRegister(result, retried) ==
    IF FullyVerified(result) THEN "proceed"
    ELSE IF AttachmentNotVerified(result) /\ ~retried THEN "apply_known_fix"
    ELSE "escalate"

\* What a query answers: the truth, or one of the wrong answers of its fault.
Reply(truth, fault, wrong) == {truth} \cup (IF fault \in faults THEN wrong ELSE {})

ResolveStage ==
    /\ pc = "resolve"
    /\ \E named \in Reply(TRUE, "unnamed", {FALSE}),
          powerReply \in Reply(power, "power", {"unrecognised", "failed"}),
          layoutReply \in Reply("listed", "layout", {"failed", "nothing"}),
          summary \in Reply(vm.home, "summary", {NoDatastore}) :
         resolved' = Resolve(vm, named, powerReply, layoutReply, summary)
    /\ Decide("resolve", DecideAfterResolve(resolved'))
    /\ UNCHANGED <<source, image, runs, capacity, copied, converted, registered, escalations>>

\* `du` is run on every file reported without a size, and refuses paths it
\* deems unsafe; statvfs needs the staging root.
MeasurePathRefused ==
    ~vm.plain /\ \E i \in DOMAIN resolved.disk_files : resolved.disk_files[i].role \notin Sized

CapacityStage ==
    /\ pc = "capacity"
    /\ \/ /\ MeasurePathRefused \/ "staging" \in faults
          /\ Raise /\ UNCHANGED capacity
       \/ /\ ~MeasurePathRefused
          /\ capacity' \in Reply(TRUE, "capacity", {FALSE})
          /\ Decide("capacity", DecideOn(capacity'))
    /\ UNCHANGED <<source, image, runs, resolved, copied, converted, registered, escalations>>

CopyStage ==
    /\ pc = "copy"
    /\ \E result \in StageResults(vm, resolved, "pull" \in faults) :
         IF result.raised THEN Raise /\ UNCHANGED copied
         ELSE copied' = result /\ Decide("copy", DecideOn(result.ok))
    /\ UNCHANGED <<source, image, runs, resolved, capacity, converted, registered, escalations>>

\* (Mutant: the last size in disk_files is expected.)
LastSizeAgrees(file) ==
    LET sized == {i \in DOMAIN resolved.disk_files : resolved.disk_files[i].role \in Sized}
        last == resolved.disk_files[CHOOSE i \in sized : \A j \in sized : j <= i]
    IN  IF sized = {} THEN {TRUE}
        ELSE IF last.role = "base_flat" /\ last.disk = resolved.disk_files[file].disk
             THEN {TRUE} ELSE BOOLEAN

\* Whether the converted size can equal the first size in disk_files.
SizesAgree(file) ==
    LET sized == {i \in DOMAIN resolved.disk_files : resolved.disk_files[i].role \in Sized}
        first == resolved.disk_files[Least(sized)]
    IN  IF sized = {} THEN {TRUE}
        ELSE IF first.role = "base_flat" /\ first.disk = resolved.disk_files[file].disk
             THEN {TRUE} ELSE BOOLEAN

\* convert_vm_disk.  After a complete copy qemu-img fails only if it is faulty;
\* after an incomplete one a chain may still open (its directory holds what
\* earlier runs staged) and a lone descriptor never does.  A failed conversion
\* leaves the old output or an unusable one.
\* (Mutant: qemu-img's exit code is believed, `qemu-img info` not asked.)
UncheckedConversions(file) ==
    {c \in [ok : BOOLEAN, image : Images] :
        IF copied.ok THEN c.ok /\ c.image \in {"verified", "unverified"}
        ELSE ~c.ok /\ c.image \in {image, "unverified"}}

\* (Mutant: a qemu-img that hangs is waited for.)
UnlimitedConversions(file) ==
    {c \in [ok : BOOLEAN, image : Images] :
        /\ copied.ok \/ resolved.has_snapshot_chain
        /\ c.ok \in SizesAgree(file)
        /\ c.image = IF c.ok THEN "verified" ELSE "unverified"}

Conversions(file) ==
    {c \in [ok : BOOLEAN, image : Images] :
        \/ /\ copied.ok \/ resolved.has_snapshot_chain
           /\ c.ok \in SizesAgree(file)
           /\ c.image = IF c.ok THEN "verified" ELSE "unverified"
        \/ /\ ~copied.ok \/ "convert" \in faults
           /\ ~c.ok
           /\ c.image \in {image, "unverified"}}

ConvertStage ==
    /\ pc = "convert"
    /\ LET file == PickConvertSource(resolved, copied.files)
       IN  IF file = 0
           THEN Raise /\ UNCHANGED <<image, converted>>
           ELSE \E c \in Conversions(file) :
                  /\ converted' = [ok |-> c.ok, file |-> file]
                  /\ image' = c.image
                  /\ Decide("convert", DecideOn(c.ok))
    /\ UNCHANGED <<source, runs, resolved, capacity, copied, registered, escalations>>

\* register_vm: importdisk cannot succeed without a file to import, and
\* may refuse one that is unusable.
Registrations ==
    {result \in Results :
        /\ image = "none" => "disk_imported" \notin result
        /\ "register" \notin faults /\ image # "none" /\ image # "unverified" => result = Checks}

RegisterStage ==
    /\ pc = "register"
    /\ registered' \in Registrations
    /\ Decide("register", DecideAfterRegister(registered', FALSE))
    /\ UNCHANGED <<source, image, runs, resolved, capacity, copied, converted, escalations>>

\* The known fix: register_vm again, in full.
RetryStage ==
    /\ pc = "retry"
    /\ registered' \in Registrations
    /\ Decide("register", DecideAfterRegister(registered', TRUE))
    /\ UNCHANGED <<source, image, runs, resolved, capacity, copied, converted, escalations>>

Asked == decisions[Len(decisions)].stage

\* (Mutant: a "proceed" leaves no trace.)
RecordRefusal(answer) ==
    escalations' = IF answer = "proceed" THEN escalations
                   ELSE Append(escalations, [stage |-> Asked, answer |-> answer])

RecordAnswer(answer) ==
    escalations' = Append(escalations, [stage |-> Asked, answer |-> answer])

\* (Mutant: the answer itself becomes the status.)
StatusVerbatim(answer) == answer

StatusOfRefusal(answer) == IF answer = "skip" THEN "skipped" ELSE "needs_human"

Answer ==
    /\ pc = "ask"
    /\ \E answer \in Answers :
         /\ RecordAnswer(answer)
         /\ \/ answer = "proceed" /\ Continue(Asked)
            \/ answer # "proceed" /\ pc' = "returned" /\ final_status' = StatusOfRefusal(answer)
    /\ UNCHANGED <<source, image, runs, results, decisions>>

\* The process dies, in the middle of a conversion perhaps.
Kill ==
    /\ "kill" \in faults
    /\ pc \notin Over
    /\ pc' = "killed"
    /\ image' \in IF pc = "convert" THEN {image, "unverified"} ELSE {image}
    /\ UNCHANGED <<source, runs, record>>

\* Somebody powers the source VM on or off, or suspends it.
PowerChange ==
    /\ "repower" \in faults
    /\ power' \in PowerStates \ {power}
    /\ UNCHANGED <<vm, faults, image, runs, pc, record>>

Stage == ResolveStage \/ CapacityStage \/ CopyStage \/ ConvertStage \/ RegisterStage \/ RetryStage

Next == Start \/ Stage \/ Answer \/ Kill \/ PowerChange

Spec == Init /\ [][Next]_vars

\* Every external command has a timeout, so a stage always ends; nothing makes
\* the human answer or the operator start a run.
FairSpec == Spec /\ WF_vars(Stage)
-----------------------------------------------------------------------------
Consented(stage) ==
    \E i \in 1..Len(escalations) : escalations[i] = [stage |-> stage, answer |-> "proceed"]

\* What each stage is there to establish.
Evidence(stage) ==
    \/ /\ stage = "resolve"
       /\ resolved.resolution_ok /\ ~resolved.likely_appliance
       /\ resolved.power_state \notin {"poweredOn", "suspended"}
    \/ stage = "capacity" /\ capacity
    \/ stage = "copy" /\ copied.ok
    \/ stage = "convert" /\ converted.ok /\ image = "verified"
    \/ stage = "register" /\ FullyVerified(registered)

\* A run that reports "migrated" has, for every stage, either the evidence the
\* stage exists to produce or a human's "proceed" at that very stage; evidence
\* from an earlier run of the same VM (its qcow2, its record) never counts.
MigratedIsEarned ==
    final_status = "migrated" => \A stage \in Stages : Evidence(stage) \/ Consented(stage)

\* run_vm implements MigrationGate.  A question counts as being at the stage it
\* is about.
At == IF pc = "ask" THEN Asked ELSE IF pc = "retry" THEN "register" ELSE pc
Warrants ==
    [s \in Stages |-> IF Evidence(s) THEN "evidence"
                      ELSE IF Consented(s) THEN "consent" ELSE "none"]
Outcome ==
    IF pc \in {"raised", "killed"} THEN "lost"
    ELSE CASE final_status = "pending" -> "open"
           [] final_status = "migrated" -> "migrated"
           [] OTHER -> "declined"

Gate == INSTANCE MigrationGate WITH
    First <- "resolve", After <- NextStage, Finish <- "returned",
    at <- IF pc \in Over THEN "over" ELSE At, asked <- pc = "ask", warrant <- Warrants, outcome <- Outcome

\* Stages are passed in order, none without a warrant at the moment it is
\* passed: its own evidence when nobody was asked, a human's consent after a
\* question, however the evidence looks.  No stage gains a warrant later or
\* loses it before the run is over, a run that ends early passes nothing in
\* ending, and a new run inherits nothing, neither answers nor results.
RefinesMigrationGate == Gate!Spec

\* register_vm is only ever given an image that this run converted and
\* verified, or one a human let through at the convert stage: never the
\* output an earlier or interrupted run left under the same name.
RegistersVerifiedImage ==
    pc \in {"register", "retry"} => image = "verified" \/ Consented("convert")

\* Whatever the human answers, a VM whose paths were not resolved is never
\* staged, converted, registered or reported migrated: stage_vm_disk's own
\* refusal backs up the gate a human can open (types.py, resolution_ok).
NothingFromUnresolved ==
    ~resolved.resolution_ok =>
        /\ copied.files = <<>> /\ registered = {}
        /\ pc \notin {"register", "retry"} /\ final_status # "migrated"

\* A vendor appliance is excluded from migration by default (library.json,
\* vendor_appliance_unsupported; path_resolver.py 173).
ApplianceIsLeftAlone ==
    vm.appliance => copied.files = <<>> /\ final_status # "migrated"

\* It is if the operator tells its name: for good, also when the layout query
\* fails and the appliance check with it, and the human then answers "proceed"
\* (path_resolver.py 203-217).
NamedApplianceIsLeftAlone == "unnamed" \notin faults => ApplianceIsLeftAlone

\* The record of a finished run explains its final status: what was asked was
\* answered and what was answered had been asked, once and in that order, only
\* the last answer may be a refusal, and the status is the one that the last
\* decision or answer gives.
Question(stage) == [stage |-> stage, kind |-> "escalate"]
AuditIsComplete ==
    pc = "returned" =>
        /\ \A stage \in Stages :
             (\E k \in 1..Len(decisions) : decisions[k] = Question(stage))
               <=> (\E i \in 1..Len(escalations) : escalations[i].stage = stage)
        /\ \A i, j \in 1..Len(escalations) : \A k, l \in 1..Len(decisions) :
             i < j /\ decisions[k] = Question(escalations[i].stage)
                   /\ decisions[l] = Question(escalations[j].stage) => k < l
        /\ \A i \in 1..Len(escalations) :
             i < Len(escalations) => escalations[i].answer = "proceed"
        /\ LET last == decisions[Len(decisions)].kind
               answer == escalations[Len(escalations)].answer
           IN  CASE last = "proceed" -> final_status = "migrated"
                 [] last = "skip" -> final_status = "skipped"
                 [] last = "escalate" ->
                      final_status = CASE answer = "proceed" -> "migrated"
                                       [] answer = "skip" -> "skipped"
                                       [] answer = "abort" -> "needs_human"
                 [] OTHER -> FALSE

\* A silent attachment failure never reaches the human before the known fix
\* was tried, and the fix is tried once per run (library.json 79, 84).
SilentFailureIsRetriedOnce ==
    LET fixes == {i \in 1..Len(decisions) : decisions[i].kind = "apply_known_fix"}
    IN  /\ \A i, j \in fixes : i = j
        /\ pc = "ask" /\ Asked = "register" /\ AttachmentNotVerified(registered)
             => fixes # {}

\* The descriptor that is converted leads to every disk file of the VM: it is
\* the newest state of its disk, and there is no other disk (copy_engine.py 1,
\* convert_engine.py 4-8).
NoFileDropped ==
    converted.ok =>
        LET from == resolved.disk_files[converted.file]
        IN  \A i \in DOMAIN vm.files :
              vm.files[i].disk = from.disk /\ vm.files[i].depth <= from.depth

\* A VM with one disk and at most one snapshot, of which each file is listed
\* once: the layouts for which nothing in the code drops a file.
OneDisk == \A i, j \in DOMAIN vm.files :
    LET f == vm.files[i]
        g == vm.files[j]
    IN  f.disk = g.disk /\ f.depth <= 1 /\ (f.role = g.role => i = j)
EveryFileStaged == \A i \in DOMAIN vm.files : \E k \in 1..Len(copied.files) : copied.files[k] = i

\* A conversion of such a VM that verifies starts at the newest state, and
\* every file it reads was staged by this very run: an incomplete copy does not
\* verify over what earlier runs left, whatever was answered.  It may in one
\* case only, a chain whose incomplete copy a human let pass: under the chain's
\* own names the directory may hold older files, which qemu-img opens just as
\* well (_decide_after_copy, orchestrator.py 132-135, 371-394).
OneDiskIsWhole ==
    OneDisk /\ converted.ok =>
        /\ NoFileDropped
        /\ EveryFileStaged \/ (HasSnapshotChain(vm.files) /\ Consented("copy"))

\* A running VM is never copied unless a human said so (esxi_client.py 160-162).
RunningVmNeverCopied ==
    [][copied'.files # copied.files /\ copied'.files # <<>>
         => power = "poweredOff" \/ Consented("resolve")]_vars

\* That holds as long as power.getstate answers and nobody touches the VM.
KnownRunningVmNeverCopied ==
    [][copied'.files # copied.files /\ copied'.files # <<>>
         => power = "poweredOff" \/ Consented("resolve")
              \/ faults \cap {"power", "repower"} # {}]_vars

\* A stage never hangs: the run ends or a human is being waited for.
RunEnds == pc \in Stages \cup {"retry"} ~> pc \in Over \cup {"ask"}

\* The disk that is converted, that of the first descriptor of the kind looked
\* for, is the one whose size is listed first: it is not if a snapshot was taken
\* of a later disk only (_expected_virtual_size, orchestrator.py 397-405).
ExpectsRightSize ==
    LET files == vm.files
        wanted == IF HasSnapshotChain(files) THEN "snapshot_descriptor" ELSE "base_descriptor"
        sized == {i \in DOMAIN files : files[i].role \in Sized}
        first == files[Least(sized)]
    IN  /\ WithRole(files, wanted) # {}
        /\ sized # {} => /\ first.role = "base_flat"
                         /\ first.disk = files[Least(WithRole(files, wanted))].disk

\* Nothing about the VM calls for a decision.
Unproblematic ==
    /\ power = "poweredOff"
    /\ vm.plain /\ ~vm.appliance
    /\ \A i \in DOMAIN vm.files : vm.files[i].datastore = vm.home
    /\ ExpectsRightSize

Unattended == final_status = "migrated" /\ escalations = <<>>

\* As long as nothing fails, a run for such a VM neither asks nor raises nor
\* needs the known fix, and it cannot return but with the VM migrated.
HealthyRunIsUnattended ==
    Unproblematic /\ faults = {} =>
        /\ pc \notin {"ask", "retry", "raised", "killed"}
        /\ pc = "returned" => Unattended

\* When nothing fails, a powered-off, unproblematic VM is migrated without the
\* human being asked anything, with or without snapshots.
HealthyRunMigrates == pc = "resolve" /\ Unproblematic /\ faults = {} ~> Unattended

\* Its defaults are sensible, so a first run needs no preparation (README.md
\* 74-78).
FirstRunMigrates == runs = 1 /\ Unproblematic ~> Unattended
=============================================================================
