---------------------------- MODULE ConvertEngine ----------------------------
(***************************************************************************)
(* What run_vm converts and when it believes the result:                   *)
(* _pick_convert_source and _expected_virtual_size of agent/orchestrator.py*)
(* and the verification of pipeline/convert_engine.py.                     *)
(***************************************************************************)
EXTENDS CopyEngine

\* (Mutant: the conventional name is taken for granted.)
GuessConvertSource(resolved, files) == IF files = <<>> THEN 1 ELSE files[Len(files)]

\* (Mutant: the base is converted, whatever stands on it.)
PickBaseDescriptor(resolved, files) ==
    LET found == {k \in 1..Len(files) : resolved.disk_files[files[k]].role = "base_descriptor"}
    IN  IF found = {} THEN 0 ELSE files[Least(found)]

\* _pick_convert_source: the first staged descriptor of the kind looked for,
\* as a position in disk_files, or 0 when there is none and it raises.
PickConvertSource(resolved, files) ==
    LET wanted == IF resolved.has_snapshot_chain THEN "snapshot_descriptor" ELSE "base_descriptor"
        found == {k \in 1..Len(files) : resolved.disk_files[files[k]].role = wanted}
    IN  IF found = {} THEN 0 ELSE files[Least(found)]

\* _expected_virtual_size: the first size that is known, if there is one.
NoSize == 0
ExpectedSize(sizes) ==
    LET known == {i \in DOMAIN sizes : sizes[i] # NoSize}
    IN  IF known = {} THEN NoSize ELSE sizes[Least(known)]

\* (Mutant: qemu-img's exit code is enough.)
TrustedOnExit(exitedOk, info, expected) == exitedOk

\* convert_to_qcow2 and _verify: qemu-img exited with 0, `qemu-img info` gave a
\* positive size (NoSize when it failed or could not be parsed), and that is
\* the size expected, if any was.
Trusted(exitedOk, info, expected) ==
    /\ exitedOk
    /\ info # NoSize
    /\ expected # NoSize => info = expected
=============================================================================
