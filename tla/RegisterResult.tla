--------------------------- MODULE RegisterResult ---------------------------
(***************************************************************************)
(* The value register_vm returns (types.py, RegisterResult) and what its   *)
(* two users read from it: register_engine fills it step by step and       *)
(* orchestrator decides on it.                                             *)
(*                                                                         *)
(* The seven Boolean fields are kept as the set of those that are TRUE.    *)
(***************************************************************************)

Checks == {"created", "disk_imported", "disk_attached", "boot_order_set",
           "description_set", "serial_console_set", "pool_assigned"}

\* fully_verified: all([...]) over the seven fields.
FullyVerified(result) == result = Checks

\* The known silent failure: imported, but `qm config` does not show the disk.
AttachmentNotVerified(result) ==
    /\ "disk_imported" \in result
    /\ "disk_attached" \notin result

\* The combinations register_vm can return: without a VM nothing is tried, an
\* attachment is tried only after an import, a boot order only after an
\* attachment.  The remaining fields are independent of each other.
Results ==
    {result \in SUBSET Checks :
        /\ result # {} => "created" \in result
        /\ "disk_attached" \in result => "disk_imported" \in result
        /\ "boot_order_set" \in result => "disk_attached" \in result}
=============================================================================
