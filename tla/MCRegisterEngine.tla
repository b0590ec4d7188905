-------------------------- MODULE MCRegisterEngine --------------------------
(***************************************************************************)
(* Argument sets for model checking RegisterEngine.                        *)
(***************************************************************************)
EXTENDS RegisterEngine

CONSTANTS r1, r2, v1, s1, s2, p1

\* One run, called again after failures and crashes.
SoloTarget == [r \in {r1} |-> v1]
SoloStorage == [r \in {r1} |-> s1]
SoloPool == [r \in {r1} |-> p1]

\* Two runs at once for one VMID already in use, on different storages, one of
\* them without a pool.
SharedTarget == [r \in {r1, r2} |-> v1]
SharedStorage == [r \in {r1, r2} |-> IF r = r1 THEN s1 ELSE s2]
SharedPool == [r \in {r1, r2} |-> IF r = r1 THEN p1 ELSE NoPool]
=============================================================================
