------------------------------ MODULE MCStaging ------------------------------
(***************************************************************************)
(* Migrations for model checking Staging: one VM migrated twice in one     *)
(* directory, and two VMs in directories of their own.                     *)
(***************************************************************************)
EXTENDS Staging, CollisionDetector

CONSTANTS r1, r2, dirA, dirB

File0(role, depth, name, size, listed) ==
    [role |-> role, disk |-> 1, depth |-> depth, datastore |-> NoDatastore,
     name |-> name, size |-> size, listed |-> listed]

Machine(files) == [files |-> files, home |-> "datastore", appliance |-> FALSE, plain |-> TRUE]

\* Descriptors are small and not listed with a size, extents are.  Of two disks
\* only the first is migrated.
Pair(listed) ==
    <<File0("base_descriptor", 0, "disk", 1, FALSE), File0("base_flat", 0, "disk-flat", 10, listed)>>
Delta == <<File0("snapshot_descriptor", 1, "disk-1", 1, FALSE),
           File0("snapshot_delta", 1, "disk-1-delta", 8, TRUE)>>

Newer == <<File0("snapshot_descriptor", 2, "disk-2", 1, FALSE),
           File0("snapshot_delta", 2, "disk-2-delta", 3, TRUE)>>

Second == <<[File0("base_descriptor", 0, "data", 1, FALSE) EXCEPT !.disk = 2],
            [File0("base_flat", 0, "data-flat", 5, TRUE) EXCEPT !.disk = 2]>>

Simple == Machine(Pair(TRUE))
Disks == Machine(Pair(TRUE) \o Second)
Unlisted == Machine(Pair(FALSE))
Chain == Machine(Pair(TRUE) \o Delta)
LongChain == Machine(Pair(TRUE) \o Delta \o Newer)

Alone(vm, dir) == [vm |-> vm, dir |-> dir]
Both(first, second) == [r \in Runs |-> IF r = r1 THEN first ELSE second]

\* The same migration started twice; a snapshot that was taken, or removed,
\* between two migrations of one VM; two VMs side by side, once with two snapshots
\* and once with a second disk.
AllPlans == {Both(Alone(Simple, dirA), Alone(Simple, dirA)),
             Both(Alone(Chain, dirA), Alone(Simple, dirA)),
             Both(Alone(LongChain, dirA), Alone(Unlisted, dirB)),
             Both(Alone(Disks, dirA), Alone(Simple, dirB))}
AllNames == {"disk", "disk-flat", "disk-1", "disk-1-delta", "disk-2",
             "disk-2-delta", "data", "data-flat"}

\* What detect() says of batches of these VMs, as in tests/test_logic.py: VMs
\* with files of one name collide, whatever snapshots they have; a VM that was
\* not resolved is left out.  Two hosts' VMs with one VMID are not told apart.
In(machine, vmid) == [esxi_vmid |-> vmid, resolution_ok |-> TRUE, disk_files |-> machine.files]
Other == Machine(<<File0("base_descriptor", 0, "debian", 1, FALSE),
                   File0("base_flat", 0, "debian-flat", 10, TRUE)>>)
ASSUME Batches ==
    /\ Detect({In(Simple, 402), In(Chain, 403), In(Unlisted, 404), In(Other, 406)})
         = [name \in {"disk", "disk-flat"} |-> {402, 403, 404}]
    /\ ~HasCollisions({In(Simple, 1), In(Other, 2)})
    /\ ~HasCollisions({In(Simple, 1), [In(Chain, 2) EXCEPT !.resolution_ok = FALSE]})
    /\ ~HasCollisions({In(Simple, 1), In(Chain, 1)})
=============================================================================
