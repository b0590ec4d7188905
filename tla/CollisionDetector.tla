------------------------- MODULE CollisionDetector -------------------------
(***************************************************************************)
(* detect() of discovery/collision_detector.py: which file names of a      *)
(* batch belong to more than one VM.                                       *)
(*                                                                         *)
(* A resolved VM is a record with esxi_vmid, resolution_ok and disk_files; *)
(* the name of a file is the last component of its path.  The report does  *)
(* not depend on the order of the batch, which is a set here.              *)
(***************************************************************************)
EXTENDS Naturals, Sequences

BaseNames(path) ==
    {path.disk_files[i].name :
        i \in {i \in DOMAIN path.disk_files :
                 path.disk_files[i].role \in {"base_descriptor", "base_flat"}}}

UsersOf(batch, name) ==
    {path.esxi_vmid : path \in {path \in batch : path.resolution_ok /\ name \in BaseNames(path)}}

\* The names that collide, with the VMIDs that use them.
Detect(batch) ==
    [name \in {n \in UNION {BaseNames(path) : path \in batch} :
                 \E v, w \in UsersOf(batch, n) : v # w} |-> UsersOf(batch, name)]

HasCollisions(batch) == DOMAIN Detect(batch) # {}

=============================================================================
