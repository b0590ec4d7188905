--------------------------- MODULE MCOrchestrator ---------------------------
(***************************************************************************)
(* Source VMs for model checking Orchestrator, laid out as in              *)
(* test_parsers.py: each descriptor is followed by its extent, a base by   *)
(* its snapshots.                                                          *)
(***************************************************************************)
EXTENDS Orchestrator

CONSTANTS ds1, ds2, d1, d2

File(role, disk, depth, datastore) ==
    [role |-> role, disk |-> disk, depth |-> depth, datastore |-> datastore]
Base(disk, datastore) ==
    <<File("base_descriptor", disk, 0, datastore), File("base_flat", disk, 0, datastore)>>
Snapshot(disk, depth, datastore) ==
    <<File("snapshot_descriptor", disk, depth, datastore),
      File("snapshot_delta", disk, depth, datastore)>>

Machine(files) == [files |-> files, home |-> ds1, appliance |-> FALSE, plain |-> TRUE]

Simple == Machine(Base(d1, ds1))
Chain == Machine(Base(d1, ds1) \o Snapshot(d1, 1, ds1))
Appliance == [Simple EXCEPT !.appliance = TRUE]
OddlyNamed == [Simple EXCEPT !.plain = FALSE]
ElsewhereStored == Machine(Base(d1, ds2))
TwoDisks == Machine(Base(d1, ds1) \o Base(d2, ds1))
LateSnapshot == Machine(Base(d1, ds1) \o Base(d2, ds1) \o Snapshot(d2, 1, ds1))
TwoSnapshots == Machine(Base(d1, ds1) \o Snapshot(d1, 1, ds1) \o Snapshot(d1, 2, ds1))
SplitChain == Machine(Base(d1, ds1) \o Snapshot(d1, 1, ds1) \o Base(d2, ds2))

AllVms == {Simple, Chain, Appliance, OddlyNamed, ElsewhereStored, TwoDisks,
           LateSnapshot, SplitChain}
SimpleVms == {Simple}
ReducedVms == {TwoDisks, TwoSnapshots}

ApplianceVms == {Appliance}

\* No faults; every fault; every fault but those that hide the source VM's
\* power or its name from the tool.
Weathers == {{}, FaultKinds, FaultKinds \ {"power", "repower", "unnamed"}}
=============================================================================
