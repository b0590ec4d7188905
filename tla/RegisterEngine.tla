--------------------------- MODULE RegisterEngine ---------------------------
(***************************************************************************)
(* register_vm of pipeline/register_engine.py, one action per `qm`/`pvesh` *)
(* command it runs, against the Proxmox node those commands act on.        *)
(*                                                                         *)
(* A run is one set of register_vm arguments.  It is called by run_vm,     *)
(* called a second time by run_vm's known fix (orchestrator.py 286-294),   *)
(* and called again when the operator starts migrate.py again.  Runs are   *)
(* processes of one node and interleave at command boundaries; a process   *)
(* may die between any two commands, and its result is then lost.          *)
(*                                                                         *)
(* Faults are those the client lets through.  A command exits non-zero,    *)
(* times out (before or after it acted) or reports success without acting; *)
(* since only importdisk's exit code is read, every other command has just *)
(* two outcomes: it acted or it did not.  A query that fails is read as    *)
(* "not there" (proxmox_client.py 65-66, 76, 81-82).                       *)
(***************************************************************************)
EXTENDS Naturals, RegisterResult

CONSTANTS
    Runs,            \* register_vm argument sets
    Vmids,           \* Proxmox VMIDs
    Storages,        \* Proxmox storage ids
    Pools,           \* Proxmox pool ids
    Target,          \* [Runs -> Vmids], argument target_vmid
    Storage,         \* [Runs -> Storages], argument storage_id
    Pool,            \* [Runs -> Pools \cup {NoPool}], argument pool
    NoPool,          \* pool=None
    Nothing,         \* an unset config key, an unallocated volume
    Partial,         \* a volume an interrupted import left half written
    Foreign,         \* a value some other tool or person put there
    Preexisting,     \* VMIDs in use before any run started
    ImportTruthful,  \* TRUE: importdisk exits 0 only after writing the image
    MaxCalls         \* bound on the calls of register_vm per run

ASSUME RunAssumption ==
    /\ Target \in [Runs -> Vmids]
    /\ Storage \in [Runs -> Storages]
    /\ Pool \in [Runs -> Pools \cup {NoPool}]
    /\ NoPool \notin Pools
ASSUME ValueAssumption ==
    /\ Nothing \notin Runs \cup Storages \cup {Partial, Foreign}
    /\ Partial \notin Runs
    /\ Foreign \notin Runs
ASSUME PreexistingAssumption == Preexisting \subseteq Vmids
ASSUME ImportAssumption == ImportTruthful \in BOOLEAN
ASSUME BoundAssumption == MaxCalls \in Nat

VARIABLES
    exists,    \* VMIDs `qm status` answers for
    config,    \* what `qm config` prints for each VMID
    volume,    \* content of <storage>:<vmid>/vm-<vmid>-disk-0.raw
    pools,     \* pool ids that exist
    members,   \* pool membership
    pc,        \* the command each run executes next
    verified,  \* the RegisterResult fields set so far in this call
    retried,   \* this call is run_vm's known-fix retry
    calls,     \* calls of register_vm made so far (bounded by MaxCalls)
    faulty,    \* commands may still misbehave
    clean      \* this call began after the last fault

node == <<exists, config, volume, pools, members>>
vars == <<exists, config, volume, pools, members,
          pc, verified, retried, calls, faulty, clean>>

Labels == {"idle", "status", "create", "status_again", "importdisk",
           "set_disk", "check_disk", "set_boot", "check_boot",
           "set_description", "check_description", "set_serial", "check_serial",
           "list_pools", "create_pool", "set_pool", "check_pool", "returned"}

\* The keys of `qm config` that register_vm sets.  The value of the disk key
\* is the storage of the vm-<vmid>-disk-0.raw it references.
Configs == [disk : Storages \cup {Nothing}, boot : BOOLEAN,
            description : Runs \cup {Nothing, Foreign}, serial : BOOLEAN]

EmptyConfig == [disk |-> Nothing, boot |-> FALSE,
                description |-> Nothing, serial |-> FALSE]

TypeOK ==
    /\ exists \in SUBSET Vmids
    /\ config \in [Vmids -> Configs]
    /\ volume \in [Vmids -> [Storages -> Runs \cup {Nothing, Partial, Foreign}]]
    /\ pools \in SUBSET Pools
    /\ members \in [Pools -> SUBSET Vmids]
    /\ pc \in [Runs -> Labels]
    /\ verified \in [Runs -> SUBSET Checks]
    /\ retried \in [Runs -> BOOLEAN]
    /\ calls \in [Runs -> 0..MaxCalls]
    /\ faulty \in BOOLEAN
    /\ clean \in [Runs -> BOOLEAN]

-----------------------------------------------------------------------------
\* A VMID already in use is somebody's VM: perhaps described, with its own
\* disk-0 volume when its disk key is set.
Init ==
    /\ exists = Preexisting
    /\ config \in [Vmids -> Configs]
    /\ \A v \in Vmids :
         IF v \in Preexisting
         THEN /\ config[v].description \in {Foreign, Nothing}
              /\ config[v].boot => config[v].disk # Nothing
         ELSE config[v] = EmptyConfig
    /\ volume = [v \in Vmids |-> [s \in Storages |->
                   IF config[v].disk = s THEN Foreign ELSE Nothing]]
    /\ pools = {}
    /\ members = [p \in Pools |-> {}]
    /\ pc = [r \in Runs |-> "idle"]
    /\ verified = [r \in Runs |-> {}]
    /\ retried = [r \in Runs |-> FALSE]
    /\ calls = [r \in Runs |-> 0]
    /\ faulty = TRUE
    /\ clean = [r \in Runs |-> FALSE]

\* Whether a command that changes the node took effect.
Effects == IF faulty THEN BOOLEAN ELSE {TRUE}

\* (Mutant: the command before the query is believed.)
SeenAsSet(present) == {present, TRUE}

\* What a query answers: a failed query looks like an absent item.
Seen(present) == IF faulty THEN {present, FALSE} ELSE {present}

\* (Mutant: a timeout counts as success.)
ImportsAssumed(r) ==
    {o \in [ok : BOOLEAN, image : {volume[Target[r]][Storage[r]], Partial, r}] : o.ok}

\* importdisk: its exit code, and what is in the run's volume afterwards.
ImportOutcomes(r) ==
    {o \in [ok : BOOLEAN, image : {volume[Target[r]][Storage[r]], Partial, r}] :
        /\ o.ok /\ ImportTruthful => o.image = r
        /\ ~faulty => o.ok /\ o.image = r}

Goto(r, label) == pc' = [pc EXCEPT ![r] = label]
Verify(r, check) == verified' = [verified EXCEPT ![r] = @ \cup {check}]
Configure(r, cfg) == config' = [config EXCEPT ![Target[r]] = cfg]
Local == <<retried, calls, faulty, clean>>

\* A `qm set` at one point of register_vm, giving the VM configuration cfg if
\* it acts; its exit code is not looked at.
SetKey(r, at, cfg, next) ==
    /\ pc[r] = at
    /\ \E acted \in Effects : IF acted THEN Configure(r, cfg) ELSE UNCHANGED config
    /\ Goto(r, next)
    /\ UNCHANGED <<exists, volume, pools, members, verified, Local>>

\* A query at one point of register_vm, and where it goes on.
ReadBack(r, at, present, check, found, missing) ==
    /\ pc[r] = at
    /\ \E seen \in Seen(present) :
         IF seen THEN Verify(r, check) /\ Goto(r, found)
                 ELSE UNCHANGED verified /\ Goto(r, missing)
    /\ UNCHANGED <<node, Local>>

BeginCall(r, isRetry) ==
    /\ calls[r] < MaxCalls
    /\ calls' = [calls EXCEPT ![r] = @ + 1]
    /\ Goto(r, "status")
    /\ verified' = [verified EXCEPT ![r] = {}]
    /\ retried' = [retried EXCEPT ![r] = isRetry]
    /\ clean' = [clean EXCEPT ![r] = ~faulty]
    /\ UNCHANGED <<node, faulty>>

\* run_vm applies the known fix before it decides anything else.
RetryDue(r) == pc[r] = "returned" /\ AttachmentNotVerified(verified[r]) /\ ~retried[r]

Call(r) ==
    /\ pc[r] \in {"idle", "returned"}
    /\ ~RetryDue(r)
    /\ BeginCall(r, FALSE)

Retry(r) ==
    /\ RetryDue(r)
    /\ BeginCall(r, TRUE)

\* (Mutant: a VM that exists is left as it is.)
StatusRefusing(r) ==
    ReadBack(r, "status", Target[r] \in exists, "created", "returned", "create")

Status(r) ==
    ReadBack(r, "status", Target[r] \in exists, "created", "importdisk", "create")

\* (Mutant: a VMID in use is created anew.)
CreateAnew(r) ==
    /\ pc[r] = "create"
    /\ exists' = exists \cup {Target[r]} /\ Configure(r, EmptyConfig)
    /\ Goto(r, "status_again")
    /\ UNCHANGED <<volume, pools, members, verified, Local>>

\* `qm create` of a VMID in use fails and changes nothing.
Create(r) ==
    /\ pc[r] = "create"
    /\ \E acted \in Effects :
         IF acted /\ Target[r] \notin exists
         THEN exists' = exists \cup {Target[r]} /\ Configure(r, EmptyConfig)
         ELSE UNCHANGED <<exists, config>>
    /\ Goto(r, "status_again")
    /\ UNCHANGED <<volume, pools, members, verified, Local>>

StatusAgain(r) ==
    ReadBack(r, "status_again", Target[r] \in exists, "created", "importdisk", "returned")

\* (Mutant: the attachment is tried after a failed import too.)
ImportAndGoOn(r) ==
    /\ pc[r] = "importdisk"
    /\ \E o \in ImportOutcomes(r) :
         /\ volume' = [volume EXCEPT ![Target[r]][Storage[r]] = o.image]
         /\ IF o.ok THEN Verify(r, "disk_imported") ELSE UNCHANGED verified
    /\ Goto(r, "set_disk")
    /\ UNCHANGED <<exists, config, pools, members, Local>>

ImportDisk(r) ==
    /\ pc[r] = "importdisk"
    /\ \E o \in ImportOutcomes(r) :
         /\ volume' = [volume EXCEPT ![Target[r]][Storage[r]] = o.image]
         /\ IF o.ok THEN Verify(r, "disk_imported") /\ Goto(r, "set_disk")
                    ELSE Goto(r, "set_description") /\ UNCHANGED verified
    /\ UNCHANGED <<exists, config, pools, members, Local>>

\* `qm set --sata0 <ref>` fails when the volume does not exist.
SetDisk(r) ==
    SetKey(r, "set_disk",
           IF volume[Target[r]][Storage[r]] = Nothing THEN config[Target[r]]
           ELSE [config[Target[r]] EXCEPT !.disk = Storage[r]],
           "check_disk")

\* (Mutant: the boot order is set whether or not the disk is there.)
CheckDiskIdly(r) ==
    ReadBack(r, "check_disk", config[Target[r]].disk # Nothing,
             "disk_attached", "set_boot", "set_boot")

\* (Mutant: the attachment is repeated until it is there.)
CheckDiskForEver(r) ==
    ReadBack(r, "check_disk", config[Target[r]].disk # Nothing,
             "disk_attached", "set_boot", "set_disk")

\* The read-back looks for vm-<vmid>-disk-0.raw, whatever storage holds it.
CheckDisk(r) ==
    ReadBack(r, "check_disk", config[Target[r]].disk # Nothing,
             "disk_attached", "set_boot", "set_description")

\* (Mutant: the boot key is given the disk's storage.)
SetBootStorage(r) ==
    SetKey(r, "set_boot", [config[Target[r]] EXCEPT !.boot = Storage[r]], "check_boot")

SetBoot(r) ==
    SetKey(r, "set_boot", [config[Target[r]] EXCEPT !.boot = TRUE], "check_boot")

CheckBoot(r) ==
    ReadBack(r, "check_boot", config[Target[r]].boot,
             "boot_order_set", "set_description", "set_description")

SetDescription(r) ==
    SetKey(r, "set_description", [config[Target[r]] EXCEPT !.description = r],
           "check_description")

\* Any description that is not blank is accepted.
CheckDescription(r) ==
    ReadBack(r, "check_description", config[Target[r]].description # Nothing,
             "description_set", "set_serial", "set_serial")

SetSerial(r) ==
    SetKey(r, "set_serial", [config[Target[r]] EXCEPT !.serial = TRUE], "check_serial")

\* Without a pool the pool check is satisfied at once and register_vm returns.
CheckSerial(r) ==
    /\ pc[r] = "check_serial"
    /\ \E seen \in Seen(config[Target[r]].serial) :
         verified' = [verified EXCEPT ![r] =
                        @ \cup (IF seen THEN {"serial_console_set"} ELSE {})
                          \cup (IF Pool[r] = NoPool THEN {"pool_assigned"} ELSE {})]
    /\ Goto(r, IF Pool[r] = NoPool THEN "returned" ELSE "list_pools")
    /\ UNCHANGED <<node, Local>>

ListPools(r) ==
    /\ pc[r] = "list_pools"
    /\ \E seen \in Seen(Pool[r] \in pools) :
         Goto(r, IF seen THEN "set_pool" ELSE "create_pool")
    /\ UNCHANGED <<node, verified, Local>>

\* Creating a pool that exists fails and changes nothing.
CreatePool(r) ==
    /\ pc[r] = "create_pool"
    /\ \E acted \in Effects :
         pools' = IF acted THEN pools \cup {Pool[r]} ELSE pools
    /\ Goto(r, "set_pool")
    /\ UNCHANGED <<exists, config, volume, members, verified, Local>>

SetPool(r) ==
    /\ pc[r] = "set_pool"
    /\ \E acted \in Effects :
         IF acted /\ Pool[r] \in pools
         THEN members' = [members EXCEPT ![Pool[r]] = @ \cup {Target[r]}]
         ELSE UNCHANGED members
    /\ Goto(r, "check_pool")
    /\ UNCHANGED <<exists, config, volume, pools, verified, Local>>

CheckPool(r) ==
    ReadBack(r, "check_pool", Target[r] \in members[Pool[r]],
             "pool_assigned", "returned", "returned")

\* The process dies: what the node holds stays, the result is lost.
Crash(r) ==
    /\ faulty
    /\ pc[r] # "idle"
    /\ Goto(r, "idle")
    /\ verified' = [verified EXCEPT ![r] = {}]
    /\ retried' = [retried EXCEPT ![r] = FALSE]
    /\ clean' = [clean EXCEPT ![r] = FALSE]
    /\ UNCHANGED <<node, calls, faulty>>

\* From now on every command and query does what it says.
FaultsEnd == faulty /\ faulty' = FALSE /\ UNCHANGED <<node, pc, verified, retried, calls, clean>>

\* A command of the call in progress.
Command(r) ==
    \/ Status(r) \/ Create(r) \/ StatusAgain(r)
    \/ ImportDisk(r) \/ SetDisk(r) \/ CheckDisk(r)
    \/ SetBoot(r) \/ CheckBoot(r)
    \/ SetDescription(r) \/ CheckDescription(r)
    \/ SetSerial(r) \/ CheckSerial(r)
    \/ ListPools(r) \/ CreatePool(r) \/ SetPool(r) \/ CheckPool(r)

Next ==
    \/ \E r \in Runs : Call(r) \/ Retry(r) \/ Command(r) \/ Crash(r)
    \/ FaultsEnd

Spec == Init /\ [][Next]_vars

\* Every command has a 60 s timeout, so a call in progress always goes on; no
\* one is obliged to call again, and faults need neither happen nor end.
FairSpec == Spec /\ \A r \in Runs : WF_vars(Command(r))

-----------------------------------------------------------------------------
Verdict(r) == pc[r] = "returned" /\ FullyVerified(verified[r])

\* What is settled about a VMID, and what a run asks for.
ConfigFacts == {"vm", "disk", "boot", "description", "serial"}
Facts == ConfigFacts \cup Pools

Settled(v) ==
    {f \in Facts :
        \/ f = "vm" /\ v \in exists
        \/ f = "disk" /\ config[v].disk # Nothing
        \/ f = "boot" /\ config[v].boot
        \/ f = "description" /\ config[v].description # Nothing
        \/ f = "serial" /\ config[v].serial
        \/ f \in Pools /\ v \in members[f]}

Wanted == [r \in Runs |-> ConfigFacts \cup ({Pool[r]} \ {NoPool})]

\* register_vm is as good as one atomic look at the node: a fully verified
\* result is only ever returned in a step in which everything the run asked
\* for is on the node, although its parts were read back one by one, while
\* other runs changed the same node and after earlier calls died half way.
Promise == INSTANCE Registration WITH
    settled <- [v \in Vmids |-> Settled(v)],
    verdict <- [r \in Runs |->
                  IF pc[r] # "returned" THEN "open"
                  ELSE IF Verdict(r) THEN "verified" ELSE "unverified"]

RefinesRegistration == Promise!Spec

\* While a fully verified result stands, all of it is still on the node.
VerifiedIsSettled ==
    \A r \in Runs : Verdict(r) => Wanted[r] \subseteq Settled(Target[r])

\* No run shares its VMID with another run or with a VM that was there before.
Exclusive ==
    /\ \A r, q \in Runs : Target[r] = Target[q] => r = q
    /\ \A r \in Runs : Target[r] \notin Preexisting

ImageIsOurs(r) == volume[Target[r]][Storage[r]] = r
DiskIsOurs(r) == config[Target[r]].disk = Storage[r]
DescriptionIsOurs(r) == config[Target[r]].description = r

\* When runs have VMIDs of their own, fully verified means that the disk
\* attached on the chosen storage holds exactly this run's image, and that the
\* description is this run's audit text: no leftover of a timed-out import or
\* of a call that died is ever taken for the result.
VerifiedIsOurs ==
    \A r \in Runs : Exclusive /\ Verdict(r) =>
        ImageIsOurs(r) /\ DiskIsOurs(r) /\ DescriptionIsOurs(r)

\* "disk_imported" is proof that the image is on the storage, not only that
\* importdisk said so (register_engine.py 8-10, types.py 150-153).
VerifiedImageIsOurs == \A r \in Runs : Verdict(r) => ImageIsOurs(r)

\* "disk_attached" is proof that the disk just imported is the attached one
\* (register_engine.py 6-7, 18-19).
VerifiedDiskIsOurs == \A r \in Runs : Verdict(r) => DiskIsOurs(r)

\* The known fix only retries the attachment: an image the first call imported
\* stays as it is (library.json, disk_attachment_not_verified).
RetryKeepsImage ==
    [][\A r \in Runs : retried[r] /\ ImageIsOurs(r) => ImageIsOurs(r)']_vars

\* A VM this tool created never has a boot order without an attached disk, not
\* even while a call is half way or after one died (register_engine.py 128-136).
NoBootWithoutDisk ==
    \A v \in Vmids : config[v].boot => config[v].disk # Nothing

\* A call that began after the last fault returns fully verified, whatever
\* state earlier calls, timeouts and crashes left the node in: re-running is
\* the recovery (register_engine.py 71-77).
RerunRecovers ==
    \A r \in Runs : pc[r] = "returned" /\ clean[r] => FullyVerified(verified[r])

\* run_vm assumes no more of a result than its combinations.
ResultShape == \A r \in Runs : pc[r] = "returned" => verified[r] \in Results

\* Every call of register_vm ends, by returning or with its process.
CallsEnd == \A r \in Runs :
    pc[r] \notin {"idle", "returned"} ~> pc[r] \in {"idle", "returned"}
=============================================================================
