------------------------------- MODULE Staging -------------------------------
(***************************************************************************)
(* Several processes `migrate.py run` on one staging file system: the      *)
(* capacity check, the copy file by file, the rewriting of the descriptor, *)
(* the conversion and its verification, with sizes in bytes.               *)
(*                                                                         *)
(* Orchestrator looks at one run and abstracts from space and contents.    *)
(* Here the paths are resolved and the source VMs at rest; what matters is *)
(* which bytes are on the disk.  The directory of a run is named after the *)
(* VMID on its ESXi host and the target VMID, so the same migration started *)
(* twice meets in one directory; nothing in it is ever deleted.            *)
(***************************************************************************)
EXTENDS ConvertEngine, CapacityCheck, Functions, FiniteSets

CONSTANTS
    Runs,        \* the processes
    Dirs,        \* the staging directories
    Names,       \* file names on the ESXi hosts
    Plans,       \* what each run is to migrate, and where it is staged
    Capacities,  \* possible sizes of the file system
    MaxCalls     \* bound on how often each run is started

Files == [role : Roles, disk : Nat, depth : Nat, datastore : {NoDatastore},
          name : Names, size : Nat \ {0}, listed : BOOLEAN]
Machines == {m \in [files : Seq(Files), home : {"datastore"}, appliance : {FALSE}, plain : {TRUE}] :
                WithRole(m.files, "base_descriptor") # {}}

\* The names stage_vm_disk and run_vm give, those of the source apart.
LocalNames == {"src-flat", "src", "qcow2"}
Places == Dirs \X (Names \cup LocalNames)

ASSUME RunsAssumption == IsFiniteSet(Runs)
ASSUME PlanAssumption == Plans \subseteq [Runs -> [vm : Machines, dir : Dirs]]
ASSUME PlaceAssumption == Names \cap LocalNames = {}
ASSUME BoundAssumption == Capacities \subseteq Nat /\ MaxCalls \in Nat

VARIABLES
    plan,       \* one of Plans
    capacity,   \* the size of the file system, one of Capacities
    free,       \* what is left of it
    stored,     \* what is under each name
    troubled,   \* whether commands may still fail and processes be killed
    pc,         \* the step each run is at, or how it ended
    calls,      \* how often it was started
    pulled,     \* how many pulls of this call are done
    consented,  \* the stages a human let pass in this call
    assured,    \* whether the check found room for files that all have a known
                \* size, and only this run wrote since then
    crowded,    \* whether another run worked in its directory during this call
    calm        \* whether the call began after all trouble and ran by itself

world == <<plan, capacity>>
ghosts == <<assured, crowded, calm>>
disk == <<free, stored>>
vars == <<plan, capacity, free, stored, troubled, pc, calls, pulled, consented,
          assured, crowded, calm>>

Steps == {"check", "copy", "rewrite", "convert", "register"}
Stages == {"capacity", "copying", "converting"}
Over == {"idle", "returned", "raised", "killed"}

\* What follows a stage that is passed.
After == [capacity |-> "copy", copying |-> "convert", converting |-> "register"]

\* A file is absent, cut off, whole but left by an earlier call, or whole and
\* of this call.  file is the position in disk_files it was copied, or the
\* image converted, from; linked says that its extent line names "src-flat".
Contents == [state : {"absent", "part", "stale", "fresh"}, file : Nat,
             linked : BOOLEAN, size : Nat]
Absent == [state |-> "absent", file |-> 0, linked |-> FALSE, size |-> 0]

TypeOK ==
    /\ plan \in Plans
    /\ capacity \in Capacities
    /\ free \in Nat
    /\ stored \in [Places -> Contents]
    /\ troubled \in BOOLEAN
    /\ pc \in [Runs -> Steps \cup Stages \cup Over]   \* a stage: it was asked about
    /\ calls \in [Runs -> 0..MaxCalls]
    /\ pulled \in [Runs -> Nat]
    /\ consented \in [Runs -> SUBSET Stages]
    /\ assured \in [Runs -> BOOLEAN]
    /\ crowded \in [Runs -> BOOLEAN]
    /\ calm \in [Runs -> BOOLEAN]
-----------------------------------------------------------------------------
Vm(r) == plan[r].vm
Dir(r) == plan[r].dir
Resolved(r) == Resolve(Vm(r), TRUE, "poweredOff", "listed", Vm(r).home)
File(r, i) == Vm(r).files[i]
Chained(r) == HasSnapshotChain(Vm(r).files)
Pulls(r) == PullOrder(Resolved(r))
StagedSoFar(r) == SubSeq(Pulls(r), 1, pulled[r])
Active(r) == pc[r] \notin Over

\* Where a file is staged: a chain under its own names, a pair renamed.
LocalName(r, i) ==
    IF Chained(r) THEN File(r, i).name
    ELSE IF File(r, i).role = "base_flat" THEN "src-flat" ELSE "src"
Copy(r, i) == stored[<<Dir(r), LocalName(r, i)>>]
Image(r) == stored[<<Dir(r), "qcow2">>]

\* What the file system can store under a name: writing over a file frees the
\* space it took.
RoomFor(p) == free + stored[p].size

Store(r, name, content) ==
    LET p == <<Dir(r), name>>
    IN  /\ stored' = [stored EXCEPT ![p] = content]
        /\ free' = RoomFor(p) - content.size

\* What the other runs' checks did not see.
Written(r) == assured' = [q \in Runs |-> q = r /\ assured[q]]
Goto(r, label) == pc' = [pc EXCEPT ![r] = label]

\* (Mutant: what has the name already is not written over.)
RefusedOverLeftovers(p, size) == IF stored[p].state = "stale" THEN {stored[p]} ELSE {}

\* A write that fails: nothing was written, the last byte is missing, or
\* there was no room for the rest.
Failures(p, size) ==
    LET part(n) == [Absent EXCEPT !.state = "part", !.size = n]
    IN  (IF troubled THEN {stored[p]} ELSE {})
        \cup (IF size > RoomFor(p) THEN {part(RoomFor(p))}
              ELSE IF troubled THEN {part(size - 1)} ELSE {})
-----------------------------------------------------------------------------
Init ==
    /\ plan \in Plans /\ capacity \in Capacities
    /\ free = capacity /\ stored = [p \in Places |-> Absent]
    /\ troubled = TRUE
    /\ pc = [r \in Runs |-> "idle"] /\ calls = [r \in Runs |-> 0]
    /\ pulled = [r \in Runs |-> 0] /\ consented = [r \in Runs |-> {}]
    /\ assured = [r \in Runs |-> FALSE] /\ crowded = [r \in Runs |-> FALSE]
    /\ calm = [r \in Runs |-> FALSE]

\* What is in the directory belongs to an earlier call from now on.
Begin(r) ==
    LET company == {q \in Runs \ {r} : Active(q) /\ Dir(q) = Dir(r)}
        aged(c) == IF c.state = "fresh" THEN [c EXCEPT !.state = "stale"] ELSE c
    IN  /\ ~Active(r) /\ calls[r] < MaxCalls
        /\ Goto(r, "check")
        /\ calls' = [calls EXCEPT ![r] = @ + 1]
        /\ stored' = [p \in Places |-> IF p[1] = Dir(r) THEN aged(stored[p]) ELSE stored[p]]
        /\ pulled' = [pulled EXCEPT ![r] = 0]
        /\ consented' = [consented EXCEPT ![r] = {}]
        /\ assured' = [assured EXCEPT ![r] = FALSE]
        /\ crowded' = [q \in Runs |-> IF q = r THEN company # {}
                                      ELSE crowded[q] \/ q \in company]
        /\ calm' = [q \in Runs |-> q = r /\ ~troubled /\ \A other \in Runs : ~Active(other)]
        /\ UNCHANGED <<world, free, troubled>>

\* A stage is passed, or a human is asked about it.
Decide(r, stage, ok) == Goto(r, IF ok THEN After[stage] ELSE stage)

\* (Mutant: the descriptors and the base are counted, the deltas are not.)
RequiredOfBases(r, unknown) ==
    LET files == Vm(r).files
    IN  SumFunction([i \in {i \in DOMAIN files : files[i].depth = 0} \ unknown |-> files[i].size])

\* _compute_required_bytes: every disk file counts, unless its size was not
\* listed and du, which fails or counts the blocks of a thin disk, missed it.
Required(r, unknown) ==
    LET files == Vm(r).files
    IN  SumFunction([i \in DOMAIN files \ unknown |-> files[i].size])

Check(r) ==
    /\ pc[r] = "check"
    /\ \E unknown \in SUBSET {i \in DOMAIN Vm(r).files : ~File(r, i).listed} :
         LET enough == Sufficient(free, Required(r, unknown))
         IN  /\ Decide(r, "capacity", enough)
             /\ assured' = [assured EXCEPT ![r] = enough /\ unknown = {}]
    /\ UNCHANGED <<world, disk, troubled, calls, pulled, consented, crowded, calm>>

\* (Mutant: a full disk is not noticed.)
FetchAnyway(r, i) == {[state |-> "fresh", file |-> i, linked |-> FALSE, size |-> File(r, i).size]}

\* (Mutant: a file that is there already is not fetched again.)
SkipWhole(r, i) ==
    IF Copy(r, i).state # "absent" THEN {Copy(r, i)}
    ELSE {[state |-> "fresh", file |-> i, linked |-> FALSE, size |-> File(r, i).size]}

\* scp writes the whole file, over whatever had its name.
Fetch(r, i) ==
    IF File(r, i).size > RoomFor(<<Dir(r), LocalName(r, i)>>) THEN {}
    ELSE {[state |-> "fresh", file |-> i, linked |-> FALSE, size |-> File(r, i).size]}

\* One pull of stage_vm_disk.
Pull(r) ==
    /\ pc[r] = "copy"
    /\ pulled[r] < Len(Pulls(r))
    /\ LET i == Pulls(r)[pulled[r] + 1]
           p == <<Dir(r), LocalName(r, i)>>
           last == pulled[r] + 1 = Len(Pulls(r))
       IN  \/ /\ \E content \in Fetch(r, i) : Store(r, LocalName(r, i), content)
              /\ pulled' = [pulled EXCEPT ![r] = @ + 1]
              /\ Goto(r, IF ~last THEN "copy"
                         ELSE IF ~Chained(r) /\ Len(Pulls(r)) = 2 THEN "rewrite"
                         ELSE "convert")
           \/ /\ \E content \in Failures(p, File(r, i).size) : Store(r, LocalName(r, i), content)
              /\ Goto(r, "copying")
              /\ UNCHANGED pulled
    /\ Written(r)
    /\ UNCHANGED <<world, troubled, calls, consented, crowded, calm>>

\* _rewrite_descriptor_extent_reference, or there is no extent line to rewrite.
Rewrite(r) ==
    /\ pc[r] = "rewrite"
    /\ \/ /\ stored' = [stored EXCEPT ![<<Dir(r), "src">>].linked = TRUE] /\ UNCHANGED free
          /\ Decide(r, "copying", TRUE)
       \/ /\ troubled
          /\ UNCHANGED disk
          /\ Decide(r, "copying", FALSE)
    /\ Written(r)
    /\ UNCHANGED <<world, troubled, calls, pulled, consented, crowded, calm>>

\* The files qemu-img opens when it is given the descriptor at a position: a
\* snapshot leads to all that lies under it, a base to the extent it names.
Opened(r, from) ==
    LET files == Vm(r).files
        below == {i \in DOMAIN files : files[i].disk = files[from].disk
                                       /\ files[i].depth <= files[from].depth}
        extent == IF Copy(r, from).linked THEN {"src-flat"}
                  ELSE {files[i].name : i \in {i \in below : files[i].role = "base_flat"}}
    IN  IF Chained(r) THEN {LocalName(r, i) : i \in below} ELSE {"src"} \cup extent

\* Whether those are, of this call, what was to be copied.
AllFresh(r, from) ==
    \A name \in Opened(r, from) :
        LET c == stored[<<Dir(r), name>>]
        IN  c.state = "fresh" /\ c.file \in DOMAIN Vm(r).files /\ LocalName(r, c.file) = name

VirtualSize(files, from) ==
    LET base == {i \in DOMAIN files : files[i].role = "base_flat" /\ files[i].disk = files[from].disk}
    IN  IF base = {} THEN NoSize ELSE files[Least(base)].size

\* What the image takes: next to nothing if the disk is empty, all of it if not.
ImageSizes(r, from) == {1, VirtualSize(Vm(r).files, from)} \ {NoSize}

Expected(r) ==
    ExpectedSize([i \in DOMAIN Vm(r).files |-> IF File(r, i).listed THEN File(r, i).size ELSE NoSize])

Opens(r, from) == \A name \in Opened(r, from) : stored[<<Dir(r), name>>].state # "absent"

\* qemu-img convert to the end, over whatever image there was.
Convert(r, from, size) ==
    /\ size <= RoomFor(<<Dir(r), "qcow2">>)
    /\ Store(r, "qcow2", [state |-> IF AllFresh(r, from) THEN "fresh" ELSE "stale",
                          file |-> from, linked |-> FALSE, size |-> size])

ConvertStage(r) ==
    LET from == PickConvertSource(Resolved(r), StagedSoFar(r))
    IN  /\ pc[r] = "convert"
        /\ \/ from = 0 /\ Goto(r, "raised") /\ UNCHANGED <<disk, assured>>
           \/ /\ from # 0
              /\ \E size \in ImageSizes(r, from),
                    info \in {VirtualSize(Vm(r).files, from)} \cup (IF troubled THEN {NoSize} ELSE {}) :
                   \/ /\ Opens(r, from)
                      /\ Convert(r, from, size)
                      /\ Decide(r, "converting", Trusted(TRUE, info, Expected(r)))
                   \/ /\ Opens(r, from)
                      /\ \E content \in Failures(<<Dir(r), "qcow2">>, size) : Store(r, "qcow2", content)
                      /\ Decide(r, "converting", Trusted(FALSE, info, Expected(r)))
                   \/ /\ ~Opens(r, from)
                      /\ UNCHANGED disk
                      /\ Decide(r, "converting", Trusted(FALSE, info, Expected(r)))
              /\ Written(r)
        /\ UNCHANGED <<world, troubled, calls, pulled, consented, crowded, calm>>

\* register_vm is given the image; run_vm returns whatever it says.
Register(r) ==
    /\ pc[r] = "register"
    /\ Goto(r, "returned")
    /\ UNCHANGED <<world, disk, troubled, calls, pulled, consented, ghosts>>

Answer(r) ==
    /\ pc[r] \in Stages
    /\ \/ /\ Goto(r, After[pc[r]])
          /\ consented' = [consented EXCEPT ![r] = @ \cup {pc[r]}]
       \/ Goto(r, "returned") /\ UNCHANGED consented
    /\ UNCHANGED <<world, disk, troubled, calls, pulled, ghosts>>

\* The process dies, a file it was writing perhaps cut off.
Kill(r) ==
    /\ troubled /\ Active(r)
    /\ Goto(r, "killed")
    /\ \/ UNCHANGED <<disk, assured>>
       \/ /\ pc[r] = "copy" /\ pulled[r] < Len(Pulls(r))
          /\ LET i == Pulls(r)[pulled[r] + 1]
             IN  \E content \in Failures(<<Dir(r), LocalName(r, i)>>, File(r, i).size) :
                   Store(r, LocalName(r, i), content)
          /\ Written(r)
       \/ /\ pc[r] = "rewrite"    \* write_text empties the file first
          /\ \E content \in Failures(<<Dir(r), "src">>, 1) : Store(r, "src", content)
          /\ Written(r)
       \/ /\ pc[r] = "convert"
          /\ LET from == PickConvertSource(Resolved(r), StagedSoFar(r))
             IN  /\ from # 0 /\ Opens(r, from)
                 /\ \E size \in ImageSizes(r, from) :
                      \E content \in Failures(<<Dir(r), "qcow2">>, size) : Store(r, "qcow2", content)
          /\ Written(r)
    /\ UNCHANGED <<world, troubled, calls, pulled, consented, crowded, calm>>

\* From here on commands do what they are told, and nobody kills a process.
TroubleEnds ==
    /\ troubled
    /\ troubled' = FALSE
    /\ UNCHANGED <<world, disk, pc, calls, pulled, consented, ghosts>>

Step(r) == Check(r) \/ Pull(r) \/ Rewrite(r) \/ ConvertStage(r) \/ Register(r)

Next ==
    \/ \E r \in Runs : Begin(r) \/ Step(r) \/ Answer(r) \/ Kill(r)
    \/ TroubleEnds

Spec == Init /\ [][Next]_vars
-----------------------------------------------------------------------------
\* No two files of the VM have one name, which a chain with disks in several
\* directories may have.
NamesApart(r) ==
    \A i, j \in DOMAIN Vm(r).files : Chained(r) /\ File(r, i).name = File(r, j).name => i = j

\* An image that was verified and goes to register_vm is made of nothing stale
\* and nothing cut off: every file that qemu-img opened for it was pulled, to
\* its end, by this very call, whatever earlier calls left in the directory,
\* however they ended, and however often the disk was full.  A human who lets
\* an incomplete copy pass cannot spoil that, except where a chain was staged:
\* there, files of an earlier call may stand in for what was not copied.  The
\* one thing it needs is that no second process works in the directory
\* (copy_engine.py 6-9 isolates VMs from each other, not a VM from itself).
\* That the files opened are all of the VM's is not said: of two snapshots, or
\* of two disks, only the first is opened (Orchestrator, NoFileDropped).
VerifiedImageIsFresh ==
    \A r \in Runs :
        pc[r] = "register" /\ "converting" \notin consented[r] /\ NamesApart(r)
          => \/ Image(r).state = "fresh"
             \/ crowded[r]
             \/ "copying" \in consented[r]
                  /\ \E q \in Runs : Dir(q) = Dir(r) /\ Chained(q)

\* A copy that began after its check never lacks room, if every size was known
\* and no other run has written since; leftovers may be in the way of the
\* check, never of the copy (capacity_check.py 1-13).  Nothing of the kind
\* holds for the conversion, whose output the check does not count.
CheckedCopyFits ==
    \A r \in Runs :
        pc[r] = "copy" /\ assured[r]
          => LET i == Pulls(r)[pulled[r] + 1]
             IN  File(r, i).size <= RoomFor(<<Dir(r), LocalName(r, i)>>)

\* The plans whose runs, each with a full set of copies and an image left
\* behind, leave room for one more check; whose files have names of their own;
\* and in which the disk that is converted, the one of the first descriptor of
\* the kind looked for, has a size, and the first size listed is no other.
SizeOfAll(m) == SumFunction([i \in DOMAIN m.files |-> m.files[i].size])
Demand == [p \in Plans |-> SumFunction([r \in Runs |-> 4 * SizeOfAll(p[r].vm) + 1])]
Regular ==
    {p \in Plans : \A r \in Runs :
        LET files == p[r].vm.files
            listed == {i \in DOMAIN files : files[i].listed}
            wanted == IF HasSnapshotChain(files) THEN "snapshot_descriptor" ELSE "base_descriptor"
            whole == VirtualSize(files, Least(WithRole(files, wanted)))
        IN  /\ \A i, j \in DOMAIN files : files[i].name = files[j].name => i = j
            /\ WithRole(files, wanted) # {} /\ whole # NoSize
            /\ listed # {} => files[Least(listed)].size = whole}

\* Nothing needs to be cleaned up, ever: a file system with room for what every
\* run may leave once is enough for any number of calls.  A call that starts
\* when nothing fails any more, and has the file system to itself, goes through
\* to register_vm without a question, with an image made of what it pulled
\* itself, over whatever killed and failed calls left.
RerunGoesThrough ==
    \A r \in Runs :
        calm[r] /\ plan \in Regular /\ capacity > Demand[plan]
          => /\ pc[r] \notin Stages \cup {"raised"}
             /\ pc[r] = "register" => Image(r).state = "fresh"
=============================================================================
