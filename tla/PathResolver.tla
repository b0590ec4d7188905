---------------------------- MODULE PathResolver ----------------------------
(***************************************************************************)
(* What discovery/path_resolver.py makes of ESXi's answers.                *)
(*                                                                         *)
(* A VM on the ESXi host is a record                                       *)
(*   files      the disk files get.filelayoutex lists, in its order        *)
(*   appliance  its name on ESXi matches a vendor-appliance pattern        *)
(*   plain      its paths use only the characters esxi_client.py accepts   *)
(* and a disk file a record                                                *)
(*   role       what _classify_disk_file makes of its name                 *)
(*   disk       which of the VM's disks it belongs to                      *)
(*   depth      0 for the base, n for the n-th snapshot on it              *)
(*   datastore  the [datastore] its name is printed with, or NoDatastore   *)
(* Names and sizes are abstracted: a descriptor is reported with size 0    *)
(* and an extent with its real size, as in the outputs of test_parsers.py. *)
(***************************************************************************)
EXTENDS Sequences, Naturals

CONSTANT NoDatastore    \* datastore=None

Roles == {"base_descriptor", "base_flat", "snapshot_descriptor", "snapshot_delta"}

\* The roles whose files ESXi reports with a size.
Sized == {"base_flat", "snapshot_delta"}

\* Positions of the files of a role; the first of them is what next(...) finds.
WithRole(files, role) == {i \in DOMAIN files : files[i].role = role}
Least(S) == CHOOSE i \in S : \A j \in S : i <= j

HasSnapshotChain(files) ==
    WithRole(files, "snapshot_delta") \cup WithRole(files, "snapshot_descriptor") # {}

\* power.getstate answers one of the three states, something unrecognised, or
\* nothing at all.  _parse_power_state and resolve() know the first three.
PowerStates == {"poweredOn", "poweredOff", "suspended"}
PowerReplies == PowerStates \cup {"unrecognised", "failed"}
ParsePowerState(reply) == IF reply \in PowerStates THEN reply ELSE "unknown"

\* The layout query fails, or lists the VM's disk files, or nothing usable.
LayoutReplies == {"failed", "nothing", "listed"}

\* get.summary names the datastore of the .vmx, or does not.
DatastoreOf(files, summary) ==
    IF summary # NoDatastore THEN summary
    ELSE LET named == {i \in DOMAIN files : files[i].datastore # NoDatastore}
         IN  IF named = {} THEN NoDatastore
             ELSE files[CHOOSE i \in named : \A j \in named : j <= i].datastore

\* (Mutant: the appliance check is skipped with a summary that tells nothing.)
ResolveBySummary(vm, named, powerReply, layoutReply, summary) ==
    LET files == IF layoutReply = "listed" THEN vm.files ELSE <<>>
    IN  [resolution_ok  |-> files # <<>>,
         disk_files     |-> files,
         datastore      |-> DatastoreOf(files, summary),
         power_state    |-> ParsePowerState(powerReply),
         likely_appliance |-> summary # NoDatastore /\ named /\ vm.appliance,
         has_snapshot_chain |-> HasSnapshotChain(files)]

\* resolve(): a failed layout query returns early, before the appliance check.
\* That check reads the display name resolve() is given, not the one ESXi has;
\* named says whether it was given.
Resolve(vm, named, powerReply, layoutReply, summary) ==
    LET files == IF layoutReply = "listed" THEN vm.files ELSE <<>>
    IN  [resolution_ok  |-> files # <<>>,
         disk_files     |-> files,
         datastore      |-> IF layoutReply = "failed" THEN NoDatastore
                            ELSE DatastoreOf(files, summary),
         power_state    |-> ParsePowerState(powerReply),
         likely_appliance |-> layoutReply # "failed" /\ named /\ vm.appliance,
         has_snapshot_chain |-> HasSnapshotChain(files)]
=============================================================================
