----------------------------- MODULE CopyEngine -----------------------------
(***************************************************************************)
(* stage_vm_disk of pipeline/copy_engine.py: the results it can return for *)
(* a resolved VM, given which files scp can fetch.                         *)
(*                                                                         *)
(* A result has the fields of types.CopyResult that run_vm reads; files is *)
(* the sequence of positions in resolved.disk_files that were staged.      *)
(* raised marks a call that ends in an exception instead of a result.      *)
(***************************************************************************)
EXTENDS PathResolver

Refused == [ok |-> FALSE, files |-> <<>>, raised |-> FALSE]
Raised == [ok |-> FALSE, files |-> <<>>, raised |-> TRUE]
Staged(files) == [ok |-> TRUE, files |-> files, raised |-> FALSE]
Stopped(files) == [ok |-> FALSE, files |-> files, raised |-> FALSE]

\* The pulls of one call, in order.  The flat file goes first, and only the
\* first descriptor and the first flat file of a VM without snapshots are taken.
PullOrder(resolved) ==
    LET files == resolved.disk_files
        first(role) == LET S == WithRole(files, role)
                       IN  IF S = {} THEN <<>> ELSE <<Least(S)>>
    IN  IF resolved.has_snapshot_chain THEN [i \in DOMAIN files |-> i]
        ELSE first("base_flat") \o first("base_descriptor")

\* A pull succeeds only for a file that is where the path says: in the
\* directory of the one datastore the resolver settled on.
Reachable(resolved, i) == resolved.disk_files[i].datastore \in {resolved.datastore, NoDatastore}

\* Results of stage_vm_disk; pulls may fail when unreliable, at any file.
StageResults(vm, resolved, unreliable) ==
    LET pulls == PullOrder(resolved)
        simple == ~resolved.has_snapshot_chain
        good == {k \in 0..Len(pulls) :
                   \A i \in 1..k : Reachable(resolved, pulls[i])}
        stops == {Stopped(SubSeq(pulls, 1, k)) :
                    k \in {k \in good : k < Len(pulls) /\
                             (unreliable \/ k + 1 \notin good)}}
        \* no extent line to rewrite: both files are staged, the pair is useless
        stale == IF simple /\ unreliable /\ Len(pulls) = 2 /\ 2 \in good
                 THEN {Stopped(pulls)} ELSE {}
    IN  IF ~resolved.resolution_ok \/ resolved.likely_appliance THEN {Refused}
        ELSE IF simple /\ WithRole(resolved.disk_files, "base_descriptor") = {}
             THEN {Refused}
        ELSE IF resolved.datastore = NoDatastore \/ ~vm.plain THEN {Raised}
        ELSE stops \cup stale \cup (IF Len(pulls) \in good THEN {Staged(pulls)} ELSE {})
=============================================================================
