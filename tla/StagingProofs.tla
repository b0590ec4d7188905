---------------------------- MODULE StagingProofs ----------------------------
(***************************************************************************)
(* Proofs about Staging, for any number of processes, any VMs in any       *)
(* directories, any sizes and any number of calls: the state stays         *)
(* well-formed, and a verified image that goes to register_vm is fresh.    *)
(***************************************************************************)
EXTENDS Staging, OperatorProofs

Labels == Steps \cup Stages \cup Over

-----------------------------------------------------------------------------
\* What a plan says of a run.
LEMMA PlanFacts ==
    ASSUME plan \in Plans, NEW r \in Runs
    PROVE  /\ Vm(r).files \in Seq(Files) /\ Dir(r) \in Dirs
           /\ WithRole(Vm(r).files, "base_descriptor") # {}
           /\ Resolved(r).disk_files = Vm(r).files
           /\ Resolved(r).has_snapshot_chain = Chained(r)
<1>1. plan[r] \in [vm : Machines, dir : Dirs]
  BY PlanAssumption
<1>2. Vm(r) \in Machines /\ Dir(r) \in Dirs
  BY <1>1 DEF Vm, Dir
<1> QED
  BY <1>2 DEF Machines, Resolved, Resolve, Chained

\* Every file of a VM has a place it is staged at.
LEMMA FileFacts ==
    ASSUME plan \in Plans, NEW r \in Runs, NEW i \in DOMAIN Vm(r).files
    PROVE  /\ File(r, i) \in Files /\ File(r, i).size \in Nat \ {0}
           /\ LocalName(r, i) \in Names \cup LocalNames
           /\ <<Dir(r), LocalName(r, i)>> \in Places
           /\ LocalName(r, i) # "qcow2"
<1>1. Vm(r).files \in Seq(Files) /\ Dir(r) \in Dirs
  BY PlanFacts
<1>2. File(r, i) \in Files
  BY <1>1 DEF File
<1>3. File(r, i).size \in Nat \ {0} /\ File(r, i).name \in Names
  BY <1>2 DEF Files
<1>4. LocalName(r, i) \in Names \cup LocalNames /\ LocalName(r, i) # "qcow2"
  BY <1>3, PlaceAssumption DEF LocalName, LocalNames
<1> QED
  BY <1>1, <1>2, <1>3, <1>4 DEF Places

\* A chain is pulled file by file; of a VM without one the first descriptor is
\* pulled last, after the first flat file if there is any.
LEMMA PullsShape ==
    ASSUME plan \in Plans, NEW r \in Runs
    PROVE  LET files == Vm(r).files
               pulls == Pulls(r)
           IN  /\ pulls \in Seq(DOMAIN files) /\ Len(pulls) > 0
               /\ Chained(r) => /\ Len(pulls) = Len(files)
                                /\ \A k \in 1..Len(pulls) : pulls[k] = k
               /\ ~Chained(r) =>
                    \E d \in DOMAIN files :
                      /\ files[d].role = "base_descriptor"
                      /\ d = Least(WithRole(files, "base_descriptor"))
                      /\ \/ pulls = <<d>> /\ WithRole(files, "base_flat") = {}
                         \/ \E f \in DOMAIN files : files[f].role = "base_flat" /\ pulls = <<f, d>>
<1>1. /\ Vm(r).files \in Seq(Files) /\ WithRole(Vm(r).files, "base_descriptor") # {}
      /\ Resolved(r).disk_files = Vm(r).files /\ Resolved(r).has_snapshot_chain = Chained(r)
  BY PlanFacts
<1>2. Len(Vm(r).files) > 0
  BY <1>1 DEF WithRole
<1>3. CASE Chained(r)
  BY <1>1, <1>2, <1>3, ChainPulls DEF Pulls
<1>4. CASE ~Chained(r)
  <2> DEFINE path == Resolved(r)
  <2>1. path.disk_files \in Seq(Files) /\ ~path.has_snapshot_chain
        /\ WithRole(path.disk_files, "base_descriptor") # {}
    BY <1>1, <1>4
  <2>2. LET files == path.disk_files
            pulls == PullOrder(path)
        IN  /\ pulls \in Seq(DOMAIN files) /\ Len(pulls) > 0
            /\ \E d \in DOMAIN files :
                 /\ files[d].role = "base_descriptor"
                 /\ d = Least(WithRole(files, "base_descriptor"))
                 /\ \/ pulls = <<d>> /\ WithRole(files, "base_flat") = {}
                    \/ \E f \in DOMAIN files : files[f].role = "base_flat" /\ pulls = <<f, d>>
    <3> HIDE DEF path
    <3> QED
      BY ONLY <2>1, PairPulls
  <2> QED
    BY <1>1, <1>4, <2>2, Zenon DEF Pulls
<1> QED
  BY <1>3, <1>4

\* What was pulled so far are the first of the pulls.
LEMMA StagedShape ==
    ASSUME plan \in Plans, NEW r \in Runs, pulled[r] \in 0..Len(Pulls(r))
    PROVE  /\ Len(StagedSoFar(r)) = pulled[r]
           /\ \A k \in 1..pulled[r] : StagedSoFar(r)[k] = Pulls(r)[k]
<1>1. Pulls(r) \in Seq(DOMAIN Vm(r).files)
  BY PullsShape
<1> QED
  BY <1>1 DEF StagedSoFar

\* A pull is of a file of the VM.
LEMMA PullFacts ==
    ASSUME plan \in Plans, NEW r \in Runs, NEW k \in 1..Len(Pulls(r))
    PROVE  Pulls(r)[k] \in DOMAIN Vm(r).files
<1>1. Pulls(r) \in Seq(DOMAIN Vm(r).files)
  BY PullsShape
<1> QED
  BY <1>1

\* What is converted was pulled, and is a descriptor of the kind looked for.
LEMMA ConvertSourceFacts ==
    ASSUME plan \in Plans, NEW r \in Runs, pulled[r] \in 0..Len(Pulls(r)),
           PickConvertSource(Resolved(r), StagedSoFar(r)) # 0
    PROVE  LET from == PickConvertSource(Resolved(r), StagedSoFar(r))
           IN  /\ from \in DOMAIN Vm(r).files
               /\ \E k \in 1..pulled[r] : from = Pulls(r)[k]
               /\ ~Chained(r) => Vm(r).files[from].role = "base_descriptor"
<1> DEFINE staged == StagedSoFar(r)
           wanted == IF Resolved(r).has_snapshot_chain THEN "snapshot_descriptor" ELSE "base_descriptor"
           found == {k \in 1..Len(staged) : Resolved(r).disk_files[staged[k]].role = wanted}
<1>1. found # {}
  BY DEF PickConvertSource
<1>2. Len(staged) = pulled[r] /\ \A k \in 1..pulled[r] : staged[k] = Pulls(r)[k]
  BY StagedShape
<1>3. Least(found) \in found
  <2>1. found \in SUBSET Nat
    OBVIOUS
  <2> HIDE DEF found
  <2> QED
    BY <1>1, <2>1, LeastIsThere
<1>4. PickConvertSource(Resolved(r), staged) = staged[Least(found)]
  BY <1>1 DEF PickConvertSource
<1>5. Least(found) \in 1..pulled[r] /\ staged[Least(found)] = Pulls(r)[Least(found)]
  BY <1>2, <1>3
<1>6. Pulls(r)[Least(found)] \in DOMAIN Vm(r).files
  BY <1>5, PullFacts
<1>7. ~Chained(r) => Vm(r).files[staged[Least(found)]].role = "base_descriptor"
  BY <1>3, PlanFacts
<1> HIDE DEF staged, found
<1> QED
  BY <1>4, <1>5, <1>6, <1>7 DEF staged

-----------------------------------------------------------------------------
\* A write keeps what is stored, and what is left, well-formed.
LEMMA StoreTyped ==
    ASSUME TypeOK, NEW r \in Runs, NEW name, <<Dir(r), name>> \in Places,
           NEW content \in Contents, content.size <= RoomFor(<<Dir(r), name>>),
           Store(r, name, content)
    PROVE  stored' \in [Places -> Contents] /\ free' \in Nat
<1>1. stored[<<Dir(r), name>>].size \in Nat /\ content.size \in Nat /\ free \in Nat
  BY DEF TypeOK, Contents
<1> QED
  BY <1>1 DEF Store, RoomFor, TypeOK

\* What a failed write leaves is well-formed and fits.
LEMMA FailuresTyped ==
    ASSUME TypeOK, NEW p \in Places, NEW size \in Nat \ {0}, NEW content \in Failures(p, size)
    PROVE  content \in Contents /\ content.size <= RoomFor(p)
<1> DEFINE part(n) == [Absent EXCEPT !.state = "part", !.size = n]
<1>1. stored[p] \in Contents /\ free \in Nat
  BY DEF TypeOK
<1>2. RoomFor(p) \in Nat /\ stored[p].size <= RoomFor(p)
  BY <1>1 DEF RoomFor, Contents
<1>3. \A n \in Nat : part(n) \in Contents /\ part(n).size = n
  BY DEF Absent, Contents
<1>4. \/ content = stored[p]
      \/ size > RoomFor(p) /\ content = part(RoomFor(p))
      \/ ~(size > RoomFor(p)) /\ content = part(size - 1)
  BY DEF Failures
<1>5. CASE content = stored[p]
  BY <1>1, <1>2, <1>5
<1>6. CASE size > RoomFor(p) /\ content = part(RoomFor(p))
  <2> HIDE DEF part
  <2> QED
    BY <1>2, <1>3, <1>6
<1>7. CASE ~(size > RoomFor(p)) /\ content = part(size - 1)
  <2>1. size - 1 \in Nat /\ size - 1 <= RoomFor(p)
    BY <1>2, <1>7
  <2> HIDE DEF part
  <2> QED
    BY <1>3, <1>7, <2>1
<1> QED
  BY <1>4, <1>5, <1>6, <1>7

\* A run that moves on is at a step, at a stage, or over.
LEMMA GotoTyped ==
    ASSUME TypeOK, NEW r \in Runs, NEW label \in Labels, Goto(r, label)
    PROVE  pc' \in [Runs -> Steps \cup Stages \cup Over]
  BY DEF TypeOK, Goto, Labels

\* A decision leads to a step, a question or an end.
LEMMA DecideTyped ==
    ASSUME TypeOK, NEW r \in Runs, NEW stage \in Stages, NEW ok, Decide(r, stage, ok)
    PROVE  pc' \in [Runs -> Steps \cup Stages \cup Over]
<1>1. After[stage] \in Labels /\ stage \in Labels
  BY DEF After, Labels, Stages, Steps
<1> QED
  BY <1>1, GotoTyped DEF Decide

\* An image has a size.
LEMMA ImageSizesTyped ==
    ASSUME plan \in Plans, NEW r \in Runs, NEW from
    PROVE  ImageSizes(r, from) \subseteq Nat \ {0}
<1> DEFINE files == Vm(r).files
           base == {i \in DOMAIN files : files[i].role = "base_flat" /\ files[i].disk = files[from].disk}
<1>1. files \in Seq(Files)
  BY PlanFacts
<1>2. CASE base = {}
  BY <1>2 DEF ImageSizes, VirtualSize, NoSize
<1>3. CASE base # {}
  <2>1. base \in SUBSET Nat /\ base \subseteq DOMAIN files
    BY <1>1
  <2>2. Least(base) \in DOMAIN files
    <3> HIDE DEF base
    <3> QED
      BY <1>3, <2>1, LeastIsThere
  <2>3. files[Least(base)].size \in Nat
    <3> HIDE DEF base
    <3> QED
      BY <2>2, FileFacts DEF File
  <2>4. VirtualSize(files, from) = files[Least(base)].size
    BY <1>3 DEF VirtualSize
  <2>5. VirtualSize(files, from) \in Nat
    BY <2>3, <2>4
  <2> QED
    BY <2>5 DEF ImageSizes, NoSize
<1> QED
  BY <1>2, <1>3

-----------------------------------------------------------------------------
\* No run has pulled more than it has to.
PulledInv == \A r \in Runs : pulled[r] \in 0..Len(Pulls(r))

TypeInv == TypeOK /\ PulledInv

\* The plan is made before anything is started.
LEMMA Frozen ==
    ASSUME UNCHANGED world
    PROVE  /\ plan' = plan /\ capacity' = capacity
           /\ \A r \in Runs : /\ Vm(r)' = Vm(r) /\ Dir(r)' = Dir(r) /\ Pulls(r)' = Pulls(r)
                            /\ Chained(r)' = Chained(r) /\ NamesApart(r)' = NamesApart(r)
                            /\ \A i : LocalName(r, i)' = LocalName(r, i)
  BY DEF world, Vm, Dir, Pulls, Resolved, Chained, NamesApart, LocalName, File

\* The number of pulls is a number, and there is one to begin with.
LEMMA PullsCounted ==
    ASSUME plan \in Plans, NEW r \in Runs
    PROVE  Len(Pulls(r)) \in Nat /\ Len(Pulls(r)) > 0
  BY PullsShape

\* The empty file system is well-formed.
LEMMA TypeInit == Init => TypeInv
<1> SUFFICES ASSUME Init PROVE TypeInv
  OBVIOUS
<1>1. capacity \in Nat /\ 0 \in 0..MaxCalls
  BY BoundAssumption DEF Init
<1>2. Absent \in Contents
  BY DEF Absent, Contents
<1>3. TypeOK
  BY <1>1, <1>2 DEF Init, TypeOK, Over
<1>4. PulledInv
  BY PullsCounted DEF Init, PulledInv
<1> QED
  BY <1>3, <1>4 DEF TypeInv

\* A new call keeps the state well-formed.
LEMMA TypeBegin == ASSUME TypeInv, NEW r \in Runs, Begin(r) PROVE TypeInv'
<1> DEFINE aged(c) == IF c.state = "fresh" THEN [c EXCEPT !.state = "stale"] ELSE c
<1> USE DEF TypeInv
<1>1. \A c \in Contents : aged(c) \in Contents
  BY DEF Contents
<1>2. stored' \in [Places -> Contents]
  BY <1>1 DEF Begin, TypeOK
<1>3. pc' \in [Runs -> Steps \cup Stages \cup Over]
  BY GotoTyped DEF Begin, Labels, Steps
<1>4. calls' \in [Runs -> 0..MaxCalls]
  BY BoundAssumption DEF Begin, TypeOK
<1>5. /\ pulled' \in [Runs -> Nat] /\ consented' \in [Runs -> SUBSET Stages]
      /\ assured' \in [Runs -> BOOLEAN] /\ calm' \in [Runs -> BOOLEAN]
  BY DEF Begin, TypeOK
<1>6. crowded' \in [Runs -> BOOLEAN]
  BY DEF Begin, TypeOK
<1>7. plan' \in Plans /\ capacity' \in Capacities /\ free' \in Nat /\ troubled' \in BOOLEAN
  BY DEF Begin, TypeOK, world
<1>8. TypeOK'
  BY <1>2, <1>3, <1>4, <1>5, <1>6, <1>7 DEF TypeOK
<1>9. PulledInv'
  BY Frozen, PullsCounted DEF Begin, TypeOK, PulledInv
<1> QED
  BY <1>8, <1>9

\* A capacity check keeps it well-formed.
LEMMA TypeCheck == ASSUME TypeInv, NEW r \in Runs, Check(r) PROVE TypeInv'
<1> USE DEF TypeInv
<1>1. PICK unknown :
          /\ Decide(r, "capacity", Sufficient(free, Required(r, unknown)))
          /\ assured' = [assured EXCEPT ![r] = Sufficient(free, Required(r, unknown)) /\ unknown = {}]
  BY Zenon DEF Check
<1>2. pc' \in [Runs -> Steps \cup Stages \cup Over]
  BY <1>1, DecideTyped DEF Stages
<1>3. assured' \in [Runs -> BOOLEAN]
  BY <1>1 DEF TypeOK
<1> QED
  BY <1>2, <1>3, Frozen DEF Check, TypeOK, PulledInv, world, disk

\* Whether a run is assured stays a Boolean after a write.
LEMMA WrittenTyped == ASSUME TypeOK, NEW r \in Runs, Written(r) PROVE assured' \in [Runs -> BOOLEAN]
  BY DEF TypeOK, Written

\* A pull keeps it well-formed, however it ends.
LEMMA TypePull == ASSUME TypeInv, NEW r \in Runs, Pull(r) PROVE TypeInv'
<1> USE DEF TypeInv
<1> DEFINE i == Pulls(r)[pulled[r] + 1]
           p == <<Dir(r), LocalName(r, i)>>
<1>1. Len(Pulls(r)) \in Nat /\ pulled[r] \in Nat /\ pulled[r] + 1 \in 1..Len(Pulls(r))
  BY PullsCounted DEF TypeOK, Pull
<1>2. i \in DOMAIN Vm(r).files
  BY <1>1, PullFacts DEF TypeOK
<1>3. /\ File(r, i).size \in Nat \ {0} /\ p \in Places
  BY <1>2, FileFacts DEF TypeOK
<1>4. assured' \in [Runs -> BOOLEAN]
  BY WrittenTyped DEF Pull
<1>5. CASE /\ \E content \in Fetch(r, i) : Store(r, LocalName(r, i), content)
           /\ pulled' = [pulled EXCEPT ![r] = @ + 1]
           /\ \E label \in {"copy", "rewrite", "convert"} : Goto(r, label)
  <2>1. PICK content \in Fetch(r, i) : Store(r, LocalName(r, i), content)
    BY <1>5
  <2>2. content \in Contents /\ content.size <= RoomFor(p)
    <3>1. RoomFor(p) \in Nat
      BY <1>3 DEF TypeOK, RoomFor, Contents
    <3>2. content = [state |-> "fresh", file |-> i, linked |-> FALSE, size |-> File(r, i).size]
          /\ ~(File(r, i).size > RoomFor(p))
      BY <2>1 DEF Fetch
    <3>3. i \in Nat
      BY <1>2, PlanFacts DEF TypeOK
    <3> QED
      BY <1>3, <3>1, <3>2, <3>3 DEF Contents
  <2>3. stored' \in [Places -> Contents] /\ free' \in Nat
    BY <1>3, <2>1, <2>2, StoreTyped
  <2>4. pc' \in [Runs -> Steps \cup Stages \cup Over]
    BY <1>5, GotoTyped DEF Labels, Steps
  <2>5. pulled' \in [Runs -> Nat] /\ \A q \in Runs : pulled'[q] \in 0..Len(Pulls(q))
    BY <1>1, <1>5 DEF TypeOK, PulledInv
  <2> QED
    BY <1>4, <2>3, <2>4, <2>5, Frozen DEF Pull, TypeOK, PulledInv, world
<1>6. CASE /\ \E content \in Failures(p, File(r, i).size) : Store(r, LocalName(r, i), content)
           /\ Goto(r, "copying")
           /\ UNCHANGED pulled
  <2>1. stored' \in [Places -> Contents] /\ free' \in Nat
    BY <1>3, <1>6, FailuresTyped, StoreTyped
  <2>2. pc' \in [Runs -> Steps \cup Stages \cup Over]
    BY <1>6, GotoTyped DEF Labels, Stages
  <2> QED
    BY <1>4, <1>6, <2>1, <2>2, Frozen DEF Pull, TypeOK, PulledInv, world
<1> QED
  BY <1>5, <1>6 DEF Pull

\* The rewriting of the extent line keeps it well-formed.
LEMMA TypeRewrite == ASSUME TypeInv, NEW r \in Runs, Rewrite(r) PROVE TypeInv'
<1> USE DEF TypeInv
<1>1. pc' \in [Runs -> Steps \cup Stages \cup Over]
  BY DecideTyped DEF Rewrite, Stages
<1>2. stored' \in [Places -> Contents] /\ free' \in Nat
  <2>1. \A c \in Contents : [c EXCEPT !.linked = TRUE] \in Contents
    BY DEF Contents
  <2> QED
    BY <2>1 DEF Rewrite, TypeOK, disk
<1>3. assured' \in [Runs -> BOOLEAN]
  BY WrittenTyped DEF Rewrite
<1> QED
  BY <1>1, <1>2, <1>3, Frozen DEF Rewrite, TypeOK, PulledInv, world

\* qemu-img writes what fits.
LEMMA ConvertTyped ==
    ASSUME TypeOK, NEW r \in Runs, NEW from \in Nat, NEW size \in Nat, Convert(r, from, size)
    PROVE  stored' \in [Places -> Contents] /\ free' \in Nat
<1> DEFINE content == [state |-> IF AllFresh(r, from) THEN "fresh" ELSE "stale",
                       file |-> from, linked |-> FALSE, size |-> size]
<1>1. <<Dir(r), "qcow2">> \in Places
  BY PlanFacts DEF TypeOK, Places, LocalNames
<1>2. content \in Contents
  BY DEF Contents
<1>3. content.size <= RoomFor(<<Dir(r), "qcow2">>) /\ Store(r, "qcow2", content)
  BY DEF Convert
<1> HIDE DEF content
<1> QED
  BY <1>1, <1>2, <1>3, StoreTyped

\* A conversion is passed, asked about, or ends in an exception.
LEMMA TypeConvertStage == ASSUME TypeInv, NEW r \in Runs, ConvertStage(r) PROVE TypeInv'
<1> USE DEF TypeInv
<1> DEFINE from == PickConvertSource(Resolved(r), StagedSoFar(r))
           p == <<Dir(r), "qcow2">>
<1>1. p \in Places
  BY PlanFacts DEF TypeOK, Places, LocalNames
<1>2. CASE from = 0 /\ Goto(r, "raised") /\ UNCHANGED <<disk, assured>>
  <2>1. pc' \in [Runs -> Steps \cup Stages \cup Over]
    BY <1>2, GotoTyped DEF Labels, Over
  <2> QED
    BY <1>2, <2>1, Frozen DEF ConvertStage, TypeOK, PulledInv, world, disk
<1>3. ASSUME from # 0, Written(r), NEW size \in ImageSizes(r, from), NEW info, NEW exitedOk,
             Decide(r, "converting", Trusted(exitedOk, info, Expected(r))),
             \/ Convert(r, from, size)
             \/ \E content \in Failures(p, size) : Store(r, "qcow2", content)
             \/ UNCHANGED disk
      PROVE  TypeInv'
  <2>1. from \in Nat /\ size \in Nat \ {0}
    <3>1. plan \in Plans /\ pulled[r] \in 0..Len(Pulls(r))
      BY DEF TypeOK, PulledInv
    <3>2. from \in DOMAIN Vm(r).files
      BY <1>3, <3>1, ConvertSourceFacts
    <3>3. DOMAIN Vm(r).files \subseteq Nat
      BY <3>1, PlanFacts
    <3>4. size \in Nat \ {0}
      BY <1>3, <3>1, ImageSizesTyped
    <3> QED
      BY <3>2, <3>3, <3>4
  <2>2. stored' \in [Places -> Contents] /\ free' \in Nat
    <3>1. CASE Convert(r, from, size)
      BY <2>1, <3>1, ConvertTyped
    <3>2. CASE \E content \in Failures(p, size) : Store(r, "qcow2", content)
      BY <1>1, <2>1, <3>2, FailuresTyped, StoreTyped
    <3>3. CASE UNCHANGED disk
      BY <3>3 DEF disk, TypeOK
    <3> QED
      BY <1>3, <3>1, <3>2, <3>3
  <2>3. pc' \in [Runs -> Steps \cup Stages \cup Over]
    BY <1>3, DecideTyped DEF Stages
  <2>4. assured' \in [Runs -> BOOLEAN]
    BY <1>3, WrittenTyped
  <2> QED
    BY <2>2, <2>3, <2>4, Frozen DEF ConvertStage, TypeOK, PulledInv, world
<1>4. \/ from = 0 /\ Goto(r, "raised") /\ UNCHANGED <<disk, assured>>
      \/ /\ from # 0 /\ Written(r)
         /\ \E size \in ImageSizes(r, from) : \E info, exitedOk :
              /\ Decide(r, "converting", Trusted(exitedOk, info, Expected(r)))
              /\ \/ Convert(r, from, size)
                 \/ \E content \in Failures(p, size) : Store(r, "qcow2", content)
                 \/ UNCHANGED disk
  BY Zenon DEF ConvertStage
<1> HIDE DEF from, p, TypeInv
<1> QED
  BY <1>2, <1>3, <1>4

\* An answer keeps it well-formed.
LEMMA TypeAnswer == ASSUME TypeInv, NEW r \in Runs, Answer(r) PROVE TypeInv'
<1> USE DEF TypeInv
<1>1. pc[r] \in Stages /\ After[pc[r]] \in Labels /\ "returned" \in Labels
  BY DEF Answer, Stages, After, Labels, Steps, Over
<1>2. pc' \in [Runs -> Steps \cup Stages \cup Over]
  BY <1>1, GotoTyped DEF Answer
<1>3. consented' \in [Runs -> SUBSET Stages]
  BY <1>1 DEF Answer, TypeOK
<1> QED
  BY <1>2, <1>3, Frozen DEF Answer, TypeOK, PulledInv, world, disk, ghosts

\* The end of a call keeps it well-formed.
LEMMA TypeRegister == ASSUME TypeInv, NEW r \in Runs, Register(r) PROVE TypeInv'
<1> USE DEF TypeInv
<1>1. pc' \in [Runs -> Steps \cup Stages \cup Over]
  BY GotoTyped DEF Register, Labels, Over
<1> QED
  BY <1>1, Frozen DEF Register, TypeOK, PulledInv, world, disk, ghosts

\* A process that is killed leaves one file as a failed write would.
LEMMA KillCuts ==
    ASSUME TypeInv, NEW r \in Runs, Kill(r)
    PROVE  \/ UNCHANGED disk /\ UNCHANGED assured
           \/ /\ Written(r)
              /\ \E name : \E size \in Nat \ {0} :
                   /\ <<Dir(r), name>> \in Places
                   /\ name \in LocalNames \/ Chained(r)
                   /\ \/ \E i \in DOMAIN Vm(r).files : name = LocalName(r, i) /\ size = File(r, i).size
                      \/ name = "src" /\ size = 1
                      \/ name = "qcow2" /\ \E from : size \in ImageSizes(r, from)
                   /\ \E content \in Failures(<<Dir(r), name>>, size) : Store(r, name, content)
<1> USE DEF TypeInv
<1> DEFINE i == Pulls(r)[pulled[r] + 1]
           from == PickConvertSource(Resolved(r), StagedSoFar(r))
<1>1. /\ <<Dir(r), "src">> \in Places /\ <<Dir(r), "qcow2">> \in Places
      /\ "src" \in LocalNames /\ "qcow2" \in LocalNames
  BY PlanFacts DEF TypeOK, Places, LocalNames
<1>2. CASE UNCHANGED <<disk, assured>>
  BY <1>2
<1>3. CASE /\ pulled[r] < Len(Pulls(r)) /\ Written(r)
           /\ \E content \in Failures(<<Dir(r), LocalName(r, i)>>, File(r, i).size) :
                Store(r, LocalName(r, i), content)
  <2>1. pulled[r] + 1 \in 1..Len(Pulls(r))
    BY <1>3, PullsCounted DEF TypeOK
  <2>2. i \in DOMAIN Vm(r).files
    BY <2>1, PullFacts DEF TypeOK
  <2>3. File(r, i).size \in Nat \ {0} /\ <<Dir(r), LocalName(r, i)>> \in Places
    BY <2>2, FileFacts DEF TypeOK
  <2>4. LocalName(r, i) \in LocalNames \/ Chained(r)
    BY DEF LocalName, LocalNames
  <2> HIDE DEF i
  <2> QED
    BY <1>3, <2>2, <2>3, <2>4
<1>4. CASE /\ Written(r)
           /\ \E content \in Failures(<<Dir(r), "src">>, 1) : Store(r, "src", content)
  BY <1>1, <1>4
<1>5. CASE /\ Written(r)
           /\ \E size \in ImageSizes(r, from) :
                \E content \in Failures(<<Dir(r), "qcow2">>, size) : Store(r, "qcow2", content)
  <2>1. ImageSizes(r, from) \subseteq Nat \ {0}
    BY ImageSizesTyped DEF TypeOK
  <2> HIDE DEF from
  <2> QED
    BY <1>1, <1>5, <2>1
<1>6. \/ UNCHANGED <<disk, assured>>
      \/ /\ pulled[r] < Len(Pulls(r)) /\ Written(r)
         /\ \E content \in Failures(<<Dir(r), LocalName(r, i)>>, File(r, i).size) :
              Store(r, LocalName(r, i), content)
      \/ /\ Written(r)
         /\ \E content \in Failures(<<Dir(r), "src">>, 1) : Store(r, "src", content)
      \/ /\ Written(r)
         /\ \E size \in ImageSizes(r, from) :
              \E content \in Failures(<<Dir(r), "qcow2">>, size) : Store(r, "qcow2", content)
  BY Zenon DEF Kill
<1> QED
  BY <1>2, <1>3, <1>4, <1>5, <1>6

\* A kill keeps it well-formed.
LEMMA TypeKill == ASSUME TypeInv, NEW r \in Runs, Kill(r) PROVE TypeInv'
<1>1. pc' \in [Runs -> Steps \cup Stages \cup Over]
  BY GotoTyped DEF Kill, Labels, Over, TypeInv
<1>2. stored' \in [Places -> Contents] /\ free' \in Nat /\ assured' \in [Runs -> BOOLEAN]
  <2>1. CASE UNCHANGED disk /\ UNCHANGED assured
    BY <2>1 DEF disk, TypeInv, TypeOK
  <2>2. CASE /\ Written(r)
             /\ \E name : \E size \in Nat \ {0} :
                  /\ <<Dir(r), name>> \in Places
                  /\ \E content \in Failures(<<Dir(r), name>>, size) : Store(r, name, content)
    BY <2>2, WrittenTyped, FailuresTyped, StoreTyped DEF TypeInv
  <2> QED
    BY <2>1, <2>2, KillCuts
<1> QED
  BY <1>1, <1>2, Frozen DEF Kill, TypeInv, TypeOK, PulledInv, world

\* The end of all trouble changes nothing on disk.
LEMMA TypeTroubleEnds == ASSUME TypeInv, TroubleEnds PROVE TypeInv'
  BY Frozen DEF TroubleEnds, TypeInv, TypeOK, PulledInv, world, disk, ghosts

\* Nor does a step that changes nothing.
LEMMA TypeStutter == ASSUME TypeInv, UNCHANGED vars PROVE TypeInv'
<1>1. UNCHANGED world
  BY DEF vars, world
<1> QED
  BY <1>1, Frozen DEF vars, TypeInv, TypeOK, PulledInv

\* Every step keeps the state well-formed.
LEMMA TypeStep == ASSUME TypeInv, [Next]_vars PROVE TypeInv'
  BY TypeBegin, TypeCheck, TypePull, TypeRewrite, TypeConvertStage, TypeRegister, TypeAnswer,
     TypeKill, TypeTroubleEnds, TypeStutter DEF Next, Step

\* The staging directories, and what each process knows of them, stay
\* well-formed, and no write ever takes more room than there is.
THEOREM StagingTyping == Spec => []TypeOK
<1>1. TypeInv => TypeOK
  BY DEF TypeInv
<1> QED
  BY TypeInit, TypeStep, <1>1, PTL DEF Spec

-----------------------------------------------------------------------------
(***************************************************************************)
(* Why a verified image is fresh.  A run whose directory is its own has,   *)
(* of this call, everything it has pulled so far; it converts only after   *)
(* all pulls, or with a consent; and what it has not pulled it does not    *)
(* find either, unless a chain was ever staged in the directory.           *)
(***************************************************************************)

\* Two processes at work in one directory know of each other.
Company ==
    \A q, r \in Runs : q # r /\ Active(q) /\ Active(r) /\ Dir(q) = Dir(r) => crowded[q]

\* A directory no chain was staged in has no file under a name of the source.
OnlyChainsKeepNames ==
    \A d \in Dirs, n \in Names :
        (\A q \in Runs : Dir(q) = d => ~Chained(q)) => stored[<<d, n>>].state = "absent"

\* How far a run has got in its pulls, by the step it is at.
Progress(r) ==
    /\ pc[r] \in {"check", "capacity"} => pulled[r] = 0
    /\ pc[r] = "rewrite" => ~Chained(r) /\ pulled[r] = 2 /\ Len(Pulls(r)) = 2
    /\ pc[r] \in {"convert", "converting", "register"} /\ "copying" \notin consented[r]
         => pulled[r] = Len(Pulls(r))

\* What was pulled is there, of this call.
PulledIsFresh(r) ==
    \A k \in 1..pulled[r] :
        Copy(r, Pulls(r)[k]).state = "fresh" /\ Copy(r, Pulls(r)[k]).file = Pulls(r)[k]

\* The descriptor of a pair names the flat file next to it, one without a flat
\* file names nothing of ours.
Linking(r) ==
    LET linked == stored[<<Dir(r), "src">>].linked
    IN  ~Chained(r) =>
          /\ pc[r] \in {"convert", "converting", "register"} /\ "copying" \notin consented[r]
               /\ Len(Pulls(r)) = 2 => linked
          /\ Len(Pulls(r)) = 1 /\ pulled[r] = 1 => ~linked

StandIn(r) == "copying" \in consented[r] /\ \E q \in Runs : Dir(q) = Dir(r) /\ Chained(q)

ImageIsFresh(r) ==
    pc[r] = "register" /\ "converting" \notin consented[r] => Image(r).state = "fresh" \/ StandIn(r)

RunInv(r) ==
    /\ Active(r) => Progress(r)
    /\ Active(r) /\ ~crowded[r] /\ NamesApart(r) =>
         PulledIsFresh(r) /\ Linking(r) /\ ImageIsFresh(r)

FreshInv == TypeInv /\ Company /\ OnlyChainsKeepNames /\ \A r \in Runs : RunInv(r)

\* At the step before register_vm the invariant is the property.
LEMMA FreshInvImplies == FreshInv => VerifiedImageIsFresh
<1> SUFFICES ASSUME FreshInv, NEW r \in Runs, pc[r] = "register", "converting" \notin consented[r],
                    NamesApart(r), ~crowded[r]
             PROVE  Image(r).state = "fresh" \/ StandIn(r)
  BY DEF VerifiedImageIsFresh, StandIn
<1>1. Active(r)
  BY DEF Active, Over
<1> QED
  BY <1>1 DEF FreshInv, RunInv, ImageIsFresh

\* Nothing was pulled or left before the first call.
LEMMA FreshInit == Init => FreshInv
<1> SUFFICES ASSUME Init PROVE FreshInv
  OBVIOUS
<1>1. \A r \in Runs : ~Active(r)
  BY DEF Init, Active, Over
<1>2. \A d \in Dirs, n \in Names : stored[<<d, n>>].state = "absent"
  BY DEF Init, Places, Absent
<1> QED
  BY <1>1, <1>2, TypeInit DEF FreshInv, Company, OnlyChainsKeepNames, RunInv

-----------------------------------------------------------------------------
\* No two pulls go to one place.
LEMMA PullsApart ==
    ASSUME plan \in Plans, NEW r \in Runs, NamesApart(r),
           NEW k \in 1..Len(Pulls(r)), NEW l \in 1..Len(Pulls(r)), k # l
    PROVE  LocalName(r, Pulls(r)[k]) # LocalName(r, Pulls(r)[l])
<1>1. Pulls(r)[k] \in DOMAIN Vm(r).files /\ Pulls(r)[l] \in DOMAIN Vm(r).files
  BY PullFacts
<1>2. CASE Chained(r)
  <2>1. Pulls(r)[k] = k /\ Pulls(r)[l] = l
    BY <1>2, PullsShape
  <2> QED
    BY <1>1, <1>2, <2>1 DEF NamesApart, LocalName
<1>3. CASE ~Chained(r)
  <2>1. PICK f \in DOMAIN Vm(r).files, d \in DOMAIN Vm(r).files :
            /\ Vm(r).files[f].role = "base_flat" /\ Vm(r).files[d].role = "base_descriptor"
            /\ Pulls(r) = <<f, d>>
    <3>1. Pulls(r) \in Seq(DOMAIN Vm(r).files)
      BY PullsShape
    <3>2. ASSUME NEW d, Pulls(r) = <<d>> PROVE FALSE
      BY <3>2
    <3> QED
      BY <1>3, <3>2, PullsShape
  <2>2. LocalName(r, f) = "src-flat" /\ LocalName(r, d) = "src"
    BY <1>3, <2>1 DEF LocalName, File
  <2>3. (k = 1 /\ l = 2) \/ (k = 2 /\ l = 1)
    BY <2>1
  <2> QED
    BY <2>1, <2>2, <2>3
<1> QED
  BY <1>2, <1>3

\* PulledIsFresh after a step, in terms of what is stored then.
LEMMA FreshAfter ==
    ASSUME UNCHANGED world, NEW r \in Runs,
           \A k \in 1..pulled'[r] :
              LET c == stored'[<<Dir(r), LocalName(r, Pulls(r)[k])>>]
              IN  c.state = "fresh" /\ c.file = Pulls(r)[k]
    PROVE  PulledIsFresh(r)'
<1>1. Pulls(r)' = Pulls(r) /\ Dir(r)' = Dir(r)
  BY Frozen
<1> SUFFICES ASSUME NEW k \in 1..pulled'[r]
             PROVE  /\ Copy(r, Pulls(r)[k])'.state = "fresh"
                    /\ Copy(r, Pulls(r)[k])'.file = Pulls(r)[k]
  BY <1>1 DEF PulledIsFresh
<1>2. PICK i : i = Pulls(r)[k]
  OBVIOUS
<1>3. Copy(r, i)' = Copy(r, Pulls(r)[k])'
  BY <1>1, <1>2
<1>4. Copy(r, i)' = stored'[<<Dir(r), LocalName(r, i)>>]
  BY <1>1, Frozen DEF Copy
<1> QED
  BY <1>2, <1>3, <1>4

\* A run that does nothing, and whose directory nobody writes to, keeps what
\* it has; so does one that got company.
LEMMA Undisturbed ==
    ASSUME TypeInv, UNCHANGED world, NEW r \in Runs, RunInv(r),
           pc'[r] = pc[r], pulled'[r] = pulled[r], consented'[r] = consented[r],
           \/ crowded'[r]
           \/ /\ crowded'[r] = crowded[r]
              /\ \A p \in Places : p[1] = Dir(r) => stored'[p] = stored[p]
    PROVE  RunInv(r)'
<1>1. /\ Active(r)' = Active(r) /\ Progress(r)' = Progress(r) /\ StandIn(r)' = StandIn(r)
      /\ NamesApart(r)' = NamesApart(r)
  BY Frozen DEF Active, Progress, StandIn
<1>2. CASE crowded'[r]
  BY <1>1, <1>2 DEF RunInv
<1>3. CASE ~crowded[r] /\ ~crowded'[r] /\ NamesApart(r) /\ Active(r)
             /\ \A p \in Places : p[1] = Dir(r) => stored'[p] = stored[p]
  <2>1. /\ Dir(r) \in Dirs /\ <<Dir(r), "src">> \in Places /\ <<Dir(r), "qcow2">> \in Places
    BY PlanFacts DEF TypeInv, TypeOK, Places, LocalNames
  <2>2. Progress(r) /\ PulledIsFresh(r) /\ Linking(r) /\ ImageIsFresh(r)
    BY <1>3 DEF RunInv
  <2>3. Image(r)' = Image(r) /\ stored'[<<Dir(r), "src">>] = stored[<<Dir(r), "src">>]
    BY <1>3, <2>1, Frozen DEF Image
  <2>4. Linking(r)' /\ ImageIsFresh(r)'
    BY <1>1, <2>2, <2>3, Frozen DEF Linking, ImageIsFresh
  <2>5. PulledIsFresh(r)'
    <3>1. ASSUME NEW k \in 1..pulled[r]
          PROVE  <<Dir(r), LocalName(r, Pulls(r)[k])>> \in Places
      <4>1. k \in 1..Len(Pulls(r))
        BY PullsCounted DEF TypeInv, TypeOK, PulledInv
      <4>2. Pulls(r)[k] \in DOMAIN Vm(r).files
        BY <4>1, PullFacts DEF TypeInv, TypeOK
      <4> QED
        BY <4>2, FileFacts DEF TypeInv, TypeOK
    <3>2. \A k \in 1..pulled[r] :
             LET p == <<Dir(r), LocalName(r, Pulls(r)[k])>> IN stored'[p] = stored[p]
      BY <1>3, <3>1
    <3> QED
      BY <2>2, <3>2, FreshAfter DEF PulledIsFresh, Copy
  <2> QED
    BY <1>1, <2>2, <2>4, <2>5 DEF RunInv
<1> QED
  BY <1>1, <1>2, <1>3 DEF RunInv

-----------------------------------------------------------------------------
\* A run that works in its directory leaves all others what they have.
LEMMA OneWorks ==
    ASSUME FreshInv, UNCHANGED world, UNCHANGED crowded, NEW r \in Runs, Active(r),
           \A q \in Runs \ {r} :
              pc'[q] = pc[q] /\ pulled'[q] = pulled[q] /\ consented'[q] = consented[q],
           \A p \in Places : p[1] # Dir(r) => stored'[p] = stored[p]
    PROVE  Company' /\ \A q \in Runs \ {r} : RunInv(q)'
<1>1. \A q \in Runs : Active(q)' => Active(q)
  BY DEF Active
<1>2. Company'
  BY <1>1, Frozen DEF Company, FreshInv
<1>3. ASSUME NEW q \in Runs \ {r} PROVE RunInv(q)'
  <2>1. CASE ~Active(q)
    BY <1>1, <2>1 DEF RunInv
  <2>2. CASE Active(q) /\ Dir(q) = Dir(r)
    <3>1. crowded'[q]
      BY <2>2 DEF Company, FreshInv
    <3> QED
      BY <3>1, Undisturbed DEF FreshInv
  <2>3. CASE Dir(q) # Dir(r)
    <3>1. \A p \in Places : p[1] = Dir(q) => stored'[p] = stored[p]
      BY <2>3
    <3> QED
      BY <3>1, Undisturbed DEF FreshInv
  <2> QED
    BY <2>1, <2>2, <2>3
<1> QED
  BY <1>2, <1>3

\* Only a chain is staged under the names of the source.
LEMMA NamesKept ==
    ASSUME FreshInv, UNCHANGED world, NEW r \in Runs, NEW name, name \in LocalNames \/ Chained(r),
           \A p \in Places : p # <<Dir(r), name>> => stored'[p] = stored[p]
    PROVE  OnlyChainsKeepNames'
<1> SUFFICES ASSUME NEW d \in Dirs, NEW n \in Names, \A q \in Runs : Dir(q) = d => ~Chained(q)
             PROVE  stored'[<<d, n>>].state = "absent"
  BY Frozen DEF OnlyChainsKeepNames
<1>1. <<d, n>> \in Places /\ <<d, n>> # <<Dir(r), name>>
  BY PlaceAssumption DEF Places
<1> QED
  BY <1>1 DEF FreshInv, OnlyChainsKeepNames

\* A write is to one place.
LEMMA StoreFacts ==
    ASSUME TypeOK, NEW r \in Runs, NEW name, NEW content, Store(r, name, content)
    PROVE  /\ \A p \in Places : p # <<Dir(r), name>> => stored'[p] = stored[p]
           /\ \A p \in Places : p[1] # Dir(r) => stored'[p] = stored[p]
           /\ <<Dir(r), name>> \in Places => stored'[<<Dir(r), name>>] = content
<1>1. stored' = [stored EXCEPT ![<<Dir(r), name>>] = content] /\ DOMAIN stored = Places
  BY DEF Store, TypeOK
<1> QED
  BY <1>1

\* A run that goes on moves no other.
LEMMA GotoFacts ==
    ASSUME TypeOK, NEW r \in Runs, NEW label, Goto(r, label)
    PROVE  pc'[r] = label /\ \A q \in Runs \ {r} : pc'[q] = pc[q]
  BY DEF TypeOK, Goto

\* A new call has pulled nothing, and starts alone or crowded.
LEMMA FreshBegin == ASSUME FreshInv, NEW r \in Runs, Begin(r) PROVE FreshInv'
<1> USE DEF FreshInv
<1> DEFINE company == {q \in Runs \ {r} : Active(q) /\ Dir(q) = Dir(r)}
<1>0. TypeOK /\ UNCHANGED world /\ ~Active(r)
  BY DEF TypeInv, Begin
<1>1. /\ pc'[r] = "check" /\ pulled'[r] = 0
      /\ \A q \in Runs \ {r} :
           pc'[q] = pc[q] /\ pulled'[q] = pulled[q] /\ consented'[q] = consented[q]
  BY <1>0, GotoFacts DEF Begin, TypeOK
<1>2. \A q \in Runs : crowded'[q] = IF q = r THEN company # {} ELSE crowded[q] \/ q \in company
  BY Zenon DEF Begin
<1>3. \A p \in Places : /\ p[1] # Dir(r) => stored'[p] = stored[p]
                        /\ stored[p].state = "absent" => stored'[p] = stored[p]
  BY <1>0 DEF Begin, TypeOK
<1>4. Company'
  <2> SUFFICES ASSUME NEW q \in Runs, NEW s \in Runs, q # s,
                      Active(q)', Active(s)', Dir(q) = Dir(s)
               PROVE  crowded'[q]
    BY <1>0, Frozen DEF Company
  <2>1. CASE q = r
    <3>1. s \in company
      BY <1>1, <2>1 DEF Active
    <3> QED
      BY <1>2, <2>1, <3>1
  <2>2. CASE s = r
    <3>1. q \in company
      BY <1>1, <2>2 DEF Active
    <3> QED
      BY <1>2, <2>2, <3>1
  <2>3. CASE q # r /\ s # r
    <3>1. Active(q) /\ Active(s)
      BY <1>1, <2>3 DEF Active
    <3>2. crowded[q]
      BY <3>1 DEF Company
    <3> QED
      BY <1>2, <2>3, <3>2
  <2> QED
    BY <2>1, <2>2, <2>3
<1>5. OnlyChainsKeepNames'
  BY <1>0, <1>3, Frozen DEF OnlyChainsKeepNames, Places
<1>6. RunInv(r)'
  <2>1. Active(r)' => Progress(r)'
    BY <1>1 DEF Progress
  <2>2. PulledIsFresh(r)' /\ ImageIsFresh(r)'
    BY <1>1 DEF PulledIsFresh, ImageIsFresh
  <2>3. Linking(r)'
    BY <1>1 DEF Linking
  <2> QED
    BY <2>1, <2>2, <2>3 DEF RunInv
<1>7. ASSUME NEW q \in Runs \ {r} PROVE RunInv(q)'
  <2>1. CASE ~Active(q)
    <3>1. ~Active(q)'
      BY <1>1, <2>1 DEF Active
    <3> QED
      BY <3>1 DEF RunInv
  <2>2. CASE q \in company
    <3>1. crowded'[q]
      BY <1>2, <2>2
    <3> QED
      BY <1>0, <1>1, <3>1, Undisturbed
  <2>3. CASE Active(q) /\ Dir(q) # Dir(r)
    <3>1. q \notin company
      BY <2>3
    <3>2. crowded'[q] = crowded[q]
      BY <1>0, <1>2, <3>1 DEF TypeOK
    <3>3. \A p \in Places : p[1] = Dir(q) => stored'[p] = stored[p]
      BY <1>3, <2>3
    <3> QED
      BY <1>0, <1>1, <3>2, <3>3, Undisturbed
  <2> QED
    BY <2>1, <2>2, <2>3
<1>8. TypeInv'
  BY TypeBegin
<1> QED
  BY <1>4, <1>5, <1>6, <1>7, <1>8

-----------------------------------------------------------------------------
\* Steps that write nothing.
LEMMA FreshCheck == ASSUME FreshInv, NEW r \in Runs, Check(r) PROVE FreshInv'
<1> USE DEF FreshInv
<1>1. /\ TypeOK /\ UNCHANGED world /\ UNCHANGED crowded /\ Active(r)
      /\ pulled' = pulled /\ consented' = consented /\ stored' = stored
  BY DEF TypeInv, Check, disk, Active, Over
<1>2. pc'[r] \in {"copy", "capacity"} /\ \A q \in Runs \ {r} : pc'[q] = pc[q]
  BY <1>1, GotoFacts DEF Check, Decide, After
<1>3. Company' /\ \A q \in Runs \ {r} : RunInv(q)'
  BY <1>1, <1>2, OneWorks
<1>4. OnlyChainsKeepNames'
  BY <1>1, Frozen DEF OnlyChainsKeepNames
<1>5. pulled'[r] = 0
  BY <1>1 DEF Check, RunInv, Progress
<1>6. RunInv(r)'
  <2>1. Progress(r)' /\ PulledIsFresh(r)' /\ ImageIsFresh(r)'
    BY <1>2, <1>5 DEF Progress, PulledIsFresh, ImageIsFresh
  <2>2. Linking(r)'
    BY <1>2, <1>5 DEF Linking
  <2> QED
    BY <2>1, <2>2 DEF RunInv
<1>7. TypeInv'
  BY TypeCheck
<1> QED
  BY <1>3, <1>4, <1>6, <1>7

\* A run that is over, and wrote nothing.
LEMMA FreshOver ==
    ASSUME FreshInv, TypeInv', UNCHANGED world, UNCHANGED <<crowded, pulled, consented>>,
           NEW r \in Runs, Active(r), NEW label \in Over, Goto(r, label),
           NEW name, name \in LocalNames \/ Chained(r),
           \A p \in Places : p # <<Dir(r), name>> => stored'[p] = stored[p]
    PROVE  FreshInv'
<1> USE DEF FreshInv
<1>1. pc'[r] = label /\ \A q \in Runs \ {r} : pc'[q] = pc[q]
  BY GotoFacts DEF TypeInv
<1>2. \A p \in Places : p[1] # Dir(r) => stored'[p] = stored[p]
  OBVIOUS
<1>3. Company' /\ \A q \in Runs \ {r} : RunInv(q)'
  BY <1>1, <1>2, OneWorks
<1>4. OnlyChainsKeepNames'
  BY NamesKept
<1>5. RunInv(r)'
  BY <1>1 DEF RunInv, Active
<1> QED
  BY <1>3, <1>4, <1>5

\* A call that ends has no image to answer for.
LEMMA FreshRegister == ASSUME FreshInv, NEW r \in Runs, Register(r) PROVE FreshInv'
<1>1. TypeInv'
  BY TypeRegister DEF FreshInv
<1>2. /\ UNCHANGED world /\ UNCHANGED <<crowded, pulled, consented>> /\ stored' = stored
      /\ Active(r) /\ Goto(r, "returned") /\ "returned" \in Over /\ "src" \in LocalNames
  BY DEF Register, disk, ghosts, Active, Over, LocalNames
<1> QED
  BY <1>1, <1>2, FreshOver

\* A killed call leaves the directory to whoever comes next.
LEMMA FreshKill == ASSUME FreshInv, NEW r \in Runs, Kill(r) PROVE FreshInv'
<1>1. TypeInv'
  BY TypeKill DEF FreshInv
<1>2. /\ UNCHANGED world /\ UNCHANGED <<crowded, pulled, consented>>
      /\ Active(r) /\ Goto(r, "killed") /\ "killed" \in Over
  BY DEF Kill, Over
<1>3. \E name : /\ name \in LocalNames \/ Chained(r)
                /\ \A p \in Places : p # <<Dir(r), name>> => stored'[p] = stored[p]
  <2>1. CASE UNCHANGED disk
    BY <2>1 DEF disk, LocalNames
  <2>2. CASE \E name, content : (name \in LocalNames \/ Chained(r)) /\ Store(r, name, content)
    <3>1. PICK name, content : (name \in LocalNames \/ Chained(r)) /\ Store(r, name, content)
      BY <2>2
    <3>2. \A p \in Places : p # <<Dir(r), name>> => stored'[p] = stored[p]
      BY <3>1, StoreFacts DEF FreshInv, TypeInv
    <3> QED
      BY <3>1, <3>2
  <2> QED
    BY <2>1, <2>2, KillCuts DEF FreshInv
<1> QED
  BY <1>1, <1>2, <1>3, FreshOver

\* An answer moves a run on with a consent, or ends it.
LEMMA FreshAnswer == ASSUME FreshInv, NEW r \in Runs, Answer(r) PROVE FreshInv'
<1>0. TypeInv'
  BY TypeAnswer DEF FreshInv
<1>1. /\ TypeOK /\ UNCHANGED world /\ UNCHANGED crowded /\ Active(r) /\ pc[r] \in Stages
      /\ pulled' = pulled /\ stored' = stored
  BY DEF FreshInv, TypeInv, Answer, disk, ghosts, Active, Stages, Over
<1>2. CASE Goto(r, "returned") /\ UNCHANGED consented
  <2>1. "returned" \in Over /\ "src" \in LocalNames
    BY DEF Over, LocalNames
  <2> QED
    BY <1>0, <1>1, <1>2, <2>1, FreshOver
<1>3. CASE /\ Goto(r, After[pc[r]])
           /\ consented' = [consented EXCEPT ![r] = @ \cup {pc[r]}]
  <2> USE DEF FreshInv
  <2>1. /\ pc'[r] = After[pc[r]] /\ consented'[r] = consented[r] \cup {pc[r]}
        /\ \A q \in Runs \ {r} : pc'[q] = pc[q] /\ consented'[q] = consented[q]
    BY <1>1, <1>3, GotoFacts DEF TypeOK
  <2>2. Company' /\ \A q \in Runs \ {r} : RunInv(q)'
    BY <1>1, <2>1, OneWorks
  <2>3. OnlyChainsKeepNames'
    BY <1>1, Frozen DEF OnlyChainsKeepNames
  <2>4. \/ pc[r] = "capacity" /\ pc'[r] = "copy"
        \/ pc[r] = "copying" /\ pc'[r] = "convert" /\ "copying" \in consented'[r]
        \/ pc[r] = "converting" /\ pc'[r] = "register" /\ "converting" \in consented'[r]
    BY <1>1, <2>1 DEF Stages, After
  <2>5. Progress(r)'
    BY <1>1, <2>1, <2>4, Frozen DEF RunInv, Progress
  <2>6. ImageIsFresh(r)'
    BY <2>4 DEF ImageIsFresh
  <2>7. ASSUME ~crowded[r], NamesApart(r) PROVE PulledIsFresh(r)' /\ Linking(r)'
    <3>1. PulledIsFresh(r) /\ Linking(r)
      BY <1>1, <2>7 DEF RunInv
    <3>2. PulledIsFresh(r)'
      BY <1>1, <3>1, FreshAfter DEF PulledIsFresh, Copy
    <3>3. Linking(r)'
      BY <1>1, <2>1, <2>4, <3>1, Frozen DEF Linking
    <3> QED
      BY <3>1, <3>2, <3>3
  <2>8. RunInv(r)'
    BY <1>1, <2>5, <2>6, <2>7, Frozen DEF RunInv
  <2> QED
    BY <1>0, <2>2, <2>3, <2>8
<1> QED
  BY <1>2, <1>3 DEF Answer

-----------------------------------------------------------------------------
\* A pull adds a file of this call, or leaves those that were pulled alone.
LEMMA FreshPull == ASSUME FreshInv, NEW r \in Runs, Pull(r) PROVE FreshInv'
<1> USE DEF FreshInv
<1> DEFINE i == Pulls(r)[pulled[r] + 1]
           name == LocalName(r, i)
<1>1. /\ TypeOK /\ PulledInv /\ UNCHANGED world /\ UNCHANGED <<crowded, consented>> /\ Active(r)
      /\ pc[r] = "copy"
  BY DEF TypeInv, Pull, Active, Over
<1>2. /\ Len(Pulls(r)) \in Nat /\ pulled[r] \in Nat /\ pulled[r] < Len(Pulls(r))
      /\ pulled[r] + 1 \in 1..Len(Pulls(r))
  BY <1>1, PullsCounted DEF TypeOK, Pull
<1>3. i \in DOMAIN Vm(r).files
  BY <1>1, <1>2, PullFacts DEF TypeOK
<1>4. <<Dir(r), name>> \in Places /\ (name \in LocalNames \/ Chained(r))
  BY <1>1, <1>3, FileFacts DEF TypeOK, LocalName, LocalNames
<1>5. PICK content : Store(r, name, content)
  BY DEF Pull
<1>6. /\ \A p \in Places : p # <<Dir(r), name>> => stored'[p] = stored[p]
      /\ \A p \in Places : p[1] # Dir(r) => stored'[p] = stored[p]
  BY <1>1, <1>5, StoreFacts
<1>7. pulled' = pulled \/ pulled' = [pulled EXCEPT ![r] = @ + 1]
  BY DEF Pull
<1>8. \A q \in Runs \ {r} :
         pc'[q] = pc[q] /\ pulled'[q] = pulled[q] /\ consented'[q] = consented[q]
  BY <1>1, <1>7, GotoFacts DEF Pull, TypeOK
<1>9. Company' /\ \A q \in Runs \ {r} : RunInv(q)'
  BY <1>1, <1>6, <1>8, OneWorks
<1>10. OnlyChainsKeepNames'
  BY <1>1, <1>4, <1>6, NamesKept
<1>11. ASSUME NamesApart(r), NEW k \in 1..pulled[r]
       PROVE  LET p == <<Dir(r), LocalName(r, Pulls(r)[k])>> IN stored'[p] = stored[p]
  <2>1. k \in 1..Len(Pulls(r)) /\ k # pulled[r] + 1
    BY <1>2
  <2>2. LocalName(r, Pulls(r)[k]) # name
    BY <1>1, <1>2, <1>11, <2>1, PullsApart DEF TypeOK
  <2>3. <<Dir(r), LocalName(r, Pulls(r)[k])>> \in Places
    BY <1>1, <2>1, PullFacts, FileFacts DEF TypeOK
  <2> QED
    BY <1>6, <2>2, <2>3
<1>12. ASSUME Goto(r, "copying") /\ UNCHANGED pulled PROVE RunInv(r)'
  <2>1. pc'[r] = "copying" /\ pulled'[r] = pulled[r]
    BY <1>1, <1>12, GotoFacts
  <2>2. Progress(r)' /\ ImageIsFresh(r)'
    BY <2>1 DEF Progress, ImageIsFresh
  <2>3. ASSUME ~crowded[r], NamesApart(r) PROVE PulledIsFresh(r)' /\ Linking(r)'
    <3>1. PulledIsFresh(r)
      BY <1>1, <2>3 DEF RunInv
    <3>2. PulledIsFresh(r)'
      BY <1>1, <1>11, <2>1, <2>3, <3>1, FreshAfter DEF PulledIsFresh, Copy
    <3>3. ~(Len(Pulls(r)) = 1 /\ pulled'[r] = 1)
      <4>1. pulled[r] # Len(Pulls(r))
        BY <1>2
      <4> QED
        BY ONLY <2>1, <4>1
    <3>4. Linking(r)'
      BY <1>1, <2>1, <3>3, Frozen DEF Linking
    <3> QED
      BY <3>2, <3>4
  <2> QED
    BY <1>1, <2>2, <2>3, Frozen DEF RunInv
<1>13. ASSUME /\ \E c \in Fetch(r, i) : Store(r, name, c)
              /\ pulled' = [pulled EXCEPT ![r] = @ + 1]
              /\ Goto(r, IF pulled[r] + 1 # Len(Pulls(r)) THEN "copy"
                         ELSE IF ~Chained(r) /\ Len(Pulls(r)) = 2 THEN "rewrite"
                         ELSE "convert")
       PROVE  RunInv(r)'
  <2>1. /\ stored'[<<Dir(r), name>>].state = "fresh" /\ stored'[<<Dir(r), name>>].file = i
        /\ stored'[<<Dir(r), name>>].linked = FALSE
    <3>1. PICK c \in Fetch(r, i) : Store(r, name, c)
      BY <1>13
    <3>2. c.state = "fresh" /\ c.file = i /\ c.linked = FALSE
      BY <3>1 DEF Fetch
    <3>3. stored'[<<Dir(r), name>>] = c
      BY <1>1, <1>4, <3>1, StoreFacts
    <3> QED
      BY <3>2, <3>3
  <2>2. pulled'[r] = pulled[r] + 1
    BY <1>1, <1>13 DEF TypeOK
  <2>3. \/ pc'[r] = "copy"
        \/ pc'[r] = "rewrite" /\ pulled'[r] = Len(Pulls(r)) /\ ~Chained(r) /\ Len(Pulls(r)) = 2
        \/ /\ pc'[r] = "convert" /\ pulled'[r] = Len(Pulls(r))
           /\ ~(~Chained(r) /\ Len(Pulls(r)) = 2)
    BY <1>1, <1>2, <1>13, <2>2, GotoFacts
  <2>4. Progress(r)' /\ ImageIsFresh(r)'
    BY <1>1, <2>3, Frozen DEF Progress, ImageIsFresh
  <2>5. ASSUME ~crowded[r], NamesApart(r) PROVE PulledIsFresh(r)' /\ Linking(r)'
    <3>1. PulledIsFresh(r)
      BY <1>1, <2>5 DEF RunInv
    <3>2. ASSUME NEW k \in 1..pulled'[r]
          PROVE  LET c == stored'[<<Dir(r), LocalName(r, Pulls(r)[k])>>]
                 IN  c.state = "fresh" /\ c.file = Pulls(r)[k]
      <4>1. CASE k = pulled[r] + 1
        BY <2>1, <4>1
      <4>2. CASE k \in 1..pulled[r]
        BY <1>11, <2>5, <3>1, <4>2 DEF PulledIsFresh, Copy
      <4> QED
        BY <1>2, <2>2, <4>1, <4>2
    <3>3. PulledIsFresh(r)'
      BY <1>1, <3>2, FreshAfter
    <3>4. ASSUME ~Chained(r), Len(Pulls(r)) = 1, pulled'[r] = 1
          PROVE  ~stored'[<<Dir(r), "src">>].linked
      <4>1. PICK d \in DOMAIN Vm(r).files :
                Vm(r).files[d].role = "base_descriptor" /\ Pulls(r) = <<d>>
        <5>1. ASSUME NEW f, NEW d, Pulls(r) = <<f, d>> PROVE FALSE
          BY <3>4, <5>1
        <5> QED
          BY <1>1, <3>4, <5>1, PullsShape DEF TypeOK
      <4>2. i = d
        BY <1>2, <2>2, <3>4, <4>1
      <4>3. name = "src"
        BY <3>4, <4>1, <4>2 DEF LocalName, File
      <4> QED
        BY <2>1, <4>3
    <3>5. Linking(r)'
      BY <1>1, <2>3, <3>4, Frozen DEF Linking
    <3> QED
      BY <3>3, <3>5
  <2> QED
    BY <1>1, <2>4, <2>5, Frozen DEF RunInv
<1>14. RunInv(r)'
  BY <1>12, <1>13, Zenon DEF Pull
<1>15. TypeInv'
  BY TypePull
<1> QED
  BY <1>9, <1>10, <1>14, <1>15

\* The rewritten descriptor is still the one that was pulled.
LEMMA FreshRewrite == ASSUME FreshInv, NEW r \in Runs, Rewrite(r) PROVE FreshInv'
<1> USE DEF FreshInv
<1> DEFINE src == <<Dir(r), "src">>
<1>1. /\ TypeOK /\ PulledInv /\ UNCHANGED world /\ UNCHANGED <<crowded, pulled, consented>>
      /\ Active(r) /\ pc[r] = "rewrite"
  BY DEF TypeInv, Rewrite, Active, Over
<1>2. src \in Places /\ "src" \in LocalNames
  BY <1>1, PlanFacts DEF TypeOK, Places, LocalNames
<1>3. ~Chained(r) /\ pulled[r] = 2 /\ Len(Pulls(r)) = 2
  BY <1>1 DEF RunInv, Progress
<1>4. \/ pc'[r] = "convert" /\ stored' = [stored EXCEPT ![src].linked = TRUE]
      \/ pc'[r] = "copying" /\ stored' = stored
  BY <1>1, GotoFacts DEF Rewrite, Decide, After, disk
<1>5. /\ \A p \in Places : p # src => stored'[p] = stored[p]
      /\ \A p \in Places : p[1] # Dir(r) => stored'[p] = stored[p]
      /\ \A p \in Places : stored'[p].state = stored[p].state /\ stored'[p].file = stored[p].file
      /\ pc'[r] = "convert" => stored'[src].linked
  <2>1. CASE stored' = stored /\ pc'[r] = "copying"
    BY <2>1
  <2>2. CASE stored' = [stored EXCEPT ![src].linked = TRUE]
    <3>1. stored'[src] = [stored[src] EXCEPT !.linked = TRUE] /\ stored[src] \in Contents
      BY <1>1, <1>2, <2>2 DEF TypeOK
    <3>2. /\ stored'[src].state = stored[src].state /\ stored'[src].file = stored[src].file
          /\ stored'[src].linked
      BY <3>1 DEF Contents
    <3>3. \A p \in Places : p # src => stored'[p] = stored[p]
      BY <1>1, <2>2 DEF TypeOK
    <3> HIDE DEF src
    <3>4. \A p \in Places : stored'[p].state = stored[p].state /\ stored'[p].file = stored[p].file
      BY <3>2, <3>3
    <3>5. src[1] = Dir(r)
      BY DEF src
    <3> QED
      BY <3>2, <3>3, <3>4, <3>5
  <2> QED
    BY <1>4, <2>1, <2>2
<1>6. \A q \in Runs \ {r} : pc'[q] = pc[q]
  BY <1>1, GotoFacts DEF Rewrite, Decide
<1>7. Company' /\ \A q \in Runs \ {r} : RunInv(q)'
  BY <1>1, <1>5, <1>6, OneWorks
<1>8. OnlyChainsKeepNames'
  BY <1>1, <1>2, <1>5, NamesKept
<1>9. Progress(r)' /\ ImageIsFresh(r)'
  BY <1>1, <1>3, <1>4, Frozen DEF Progress, ImageIsFresh
<1>10. ASSUME ~crowded[r], NamesApart(r) PROVE PulledIsFresh(r)' /\ Linking(r)'
  <2>1. PulledIsFresh(r)
    BY <1>1, <1>10 DEF RunInv
  <2>2. ASSUME NEW k \in 1..pulled[r] PROVE <<Dir(r), LocalName(r, Pulls(r)[k])>> \in Places
    <3>1. Pulls(r)[k] \in DOMAIN Vm(r).files
      BY <1>1, <1>3, PullFacts DEF TypeOK
    <3> QED
      BY <1>1, <3>1, FileFacts DEF TypeOK
  <2>3. PulledIsFresh(r)'
    BY <1>1, <1>5, <2>1, <2>2, FreshAfter DEF PulledIsFresh, Copy
  <2>4. Linking(r)'
    BY <1>1, <1>3, <1>4, <1>5, Frozen DEF Linking
  <2> QED
    BY <2>3, <2>4
<1>11. RunInv(r)'
  BY <1>1, <1>9, <1>10, Frozen DEF RunInv
<1>12. TypeInv'
  BY TypeRewrite
<1> QED
  BY <1>7, <1>8, <1>11, <1>12

-----------------------------------------------------------------------------
\* What qemu-img opens is what was pulled in this call, if nothing stands in.
LEMMA OpensOnlyFresh ==
    ASSUME FreshInv, NEW r \in Runs, pc[r] = "convert", ~crowded[r], NamesApart(r), ~StandIn(r),
           NEW from, from = PickConvertSource(Resolved(r), StagedSoFar(r)), from # 0,
           Opens(r, from) \/ "copying" \notin consented[r]
    PROVE  AllFresh(r, from)
<1> DEFINE files == Vm(r).files
           below == {i \in DOMAIN files : files[i].disk = files[from].disk
                                          /\ files[i].depth <= files[from].depth}
           bases == {i \in below : files[i].role = "base_flat"}
<1>1. plan \in Plans /\ pulled[r] \in 0..Len(Pulls(r)) /\ Active(r)
  BY DEF FreshInv, TypeInv, TypeOK, PulledInv, Active, Over
<1>2. Progress(r) /\ PulledIsFresh(r) /\ Linking(r)
  BY <1>1 DEF FreshInv, RunInv
<1>3. /\ from \in DOMAIN files /\ \E k \in 1..pulled[r] : from = Pulls(r)[k]
      /\ ~Chained(r) => files[from].role = "base_descriptor"
  BY <1>1, ConvertSourceFacts
<1>4. ASSUME NEW k \in 1..pulled[r], NEW i, i = Pulls(r)[k]
      PROVE  LET c == stored[<<Dir(r), LocalName(r, i)>>]
             IN  c.state = "fresh" /\ c.file = i /\ i \in DOMAIN files
  <2>1. k \in 1..Len(Pulls(r))
    BY <1>1, PullsCounted
  <2>2. i \in DOMAIN files
    BY <1>1, <1>4, <2>1, PullFacts
  <2> QED
    BY <1>2, <1>4, <2>2 DEF PulledIsFresh, Copy
<1>5. SUFFICES ASSUME NEW name \in Opened(r, from)
               PROVE  LET c == stored[<<Dir(r), name>>]
                      IN  c.state = "fresh" /\ c.file \in DOMAIN files /\ LocalName(r, c.file) = name
  BY DEF AllFresh
<1>6. CASE Chained(r)
  <2>1. "copying" \notin consented[r]
    BY <1>6 DEF StandIn
  <2>2. pulled[r] = Len(files) /\ \A k \in 1..pulled[r] : Pulls(r)[k] = k
    BY <1>1, <1>2, <1>6, <2>1, PullsShape DEF Progress
  <2>3. PICK i \in DOMAIN files : name = LocalName(r, i)
    BY <1>5, <1>6 DEF Opened
  <2>4. i \in 1..pulled[r]
    BY <1>1, <2>2, PlanFacts
  <2> QED
    BY <1>4, <2>2, <2>3, <2>4
<1>7. CASE ~Chained(r)
  <2>1. PICK d \in DOMAIN files :
            /\ files[d].role = "base_descriptor"
            /\ \/ Pulls(r) = <<d>> /\ WithRole(files, "base_flat") = {}
               \/ \E f \in DOMAIN files : files[f].role = "base_flat" /\ Pulls(r) = <<f, d>>
    BY <1>1, <1>7, PullsShape
  <2>2. LocalName(r, from) = "src"
    BY <1>3, <1>7 DEF LocalName, File
  <2>3. name = "src" => /\ stored[<<Dir(r), name>>].state = "fresh"
                        /\ stored[<<Dir(r), name>>].file \in DOMAIN files
                        /\ LocalName(r, stored[<<Dir(r), name>>].file) = name
    BY <1>3, <1>4, <2>2
  <2>4. \/ name = "src"
        \/ stored[<<Dir(r), "src">>].linked /\ name = "src-flat"
        \/ ~stored[<<Dir(r), "src">>].linked /\ \E b \in bases : name = files[b].name
    BY <1>5, <1>7, <2>2 DEF Opened, Copy
  <2>5. CASE Pulls(r) = <<d>> /\ WithRole(files, "base_flat") = {}
    <3>1. Len(Pulls(r)) = 1 /\ pulled[r] = 1
      BY <1>1, <1>3, <2>5
    <3>2. ~stored[<<Dir(r), "src">>].linked
      BY <1>2, <1>7, <3>1 DEF Linking
    <3>3. bases = {}
      BY <2>5 DEF WithRole
    <3> QED
      BY <2>3, <2>4, <3>2, <3>3
  <2>6. CASE \E f \in DOMAIN files : files[f].role = "base_flat" /\ Pulls(r) = <<f, d>>
    <3>1. PICK f \in DOMAIN files : files[f].role = "base_flat" /\ Pulls(r) = <<f, d>>
      BY <2>6
    <3>2. Len(Pulls(r)) = 2 /\ Pulls(r)[1] = f /\ Pulls(r)[2] = d
      BY <3>1
    <3>3. pulled[r] = 2
      <4>1. PICK k \in 1..pulled[r] : from = Pulls(r)[k]
        BY <1>3
      <4>2. k # 1
        BY <1>3, <1>7, <3>1, <3>2, <4>1
      <4> QED
        BY <1>1, <3>2, <4>1, <4>2
    <3>4. LocalName(r, f) = "src-flat"
      BY <1>7, <3>1 DEF LocalName, File
    <3>5. CASE name = "src-flat"
      <4>1. 1 \in 1..pulled[r]
        BY <3>3
      <4> QED
        BY <1>4, <3>2, <3>4, <3>5, <4>1
    <3>6. ASSUME ~stored[<<Dir(r), "src">>].linked, NEW b \in bases, name = files[b].name
          PROVE  FALSE
      <4>1. "copying" \in consented[r]
        BY <1>2, <1>7, <3>2, <3>6 DEF Linking
      <4>2. \A q \in Runs : Dir(q) = Dir(r) => ~Chained(q)
        BY <4>1 DEF StandIn
      <4>3. name \in Names /\ Dir(r) \in Dirs
        <5>1. b \in DOMAIN files
          BY <3>6
        <5>2. files \in Seq(Files) /\ Dir(r) \in Dirs
          BY <1>1, PlanFacts
        <5>3. files[b] \in Files
          BY <5>1, <5>2
        <5> QED
          BY <3>6, <5>2, <5>3 DEF Files
      <4>4. stored[<<Dir(r), name>>].state = "absent"
        BY <4>2, <4>3 DEF FreshInv, OnlyChainsKeepNames
      <4> QED
        BY <1>5, <4>1, <4>4 DEF Opens
    <3> QED
      BY <2>3, <2>4, <3>5, <3>6
  <2> QED
    BY <2>1, <2>5, <2>6
<1> QED
  BY <1>6, <1>7

\* A conversion leaves what was pulled alone, and makes an image of it.
LEMMA FreshConvertStage == ASSUME FreshInv, NEW r \in Runs, ConvertStage(r) PROVE FreshInv'
<1> USE DEF FreshInv
<1> DEFINE from == PickConvertSource(Resolved(r), StagedSoFar(r))
           p == <<Dir(r), "qcow2">>
<1>0. TypeInv'
  BY TypeConvertStage
<1>1. /\ TypeOK /\ PulledInv /\ UNCHANGED world /\ UNCHANGED <<crowded, pulled, consented>>
      /\ Active(r) /\ pc[r] = "convert"
  BY DEF TypeInv, ConvertStage, Active, Over
<1>2. /\ p \in Places /\ <<Dir(r), "src">> \in Places /\ "qcow2" \in LocalNames
      /\ <<Dir(r), "src">> # p
  BY <1>1, PlanFacts DEF TypeOK, Places, LocalNames
<1>3. CASE from = 0 /\ Goto(r, "raised") /\ UNCHANGED <<disk, assured>>
  <2>1. stored' = stored /\ "raised" \in Over
    BY <1>3 DEF disk, Over
  <2> QED
    BY <1>0, <1>1, <1>2, <1>3, <2>1, FreshOver
<1>4. ASSUME from # 0, NEW label \in {"register", "converting"}, Goto(r, label),
             \A q \in Places : q # p => stored'[q] = stored[q],
             label = "register" => /\ Opens(r, from)
                                   /\ AllFresh(r, from) => stored'[p].state = "fresh"
      PROVE  FreshInv'
  <2>1. pc'[r] = label /\ \A q \in Runs \ {r} : pc'[q] = pc[q]
    BY <1>1, <1>4, GotoFacts
  <2>2. \A q \in Places : q[1] # Dir(r) => stored'[q] = stored[q]
    BY <1>4
  <2>3. Company' /\ \A q \in Runs \ {r} : RunInv(q)'
    BY <1>1, <2>1, <2>2, OneWorks
  <2>4. OnlyChainsKeepNames'
    BY <1>1, <1>2, <1>4, NamesKept
  <2>5. Progress(r)'
    BY <1>1, <2>1, Frozen DEF RunInv, Progress
  <2>6. ASSUME ~crowded[r], NamesApart(r)
        PROVE  PulledIsFresh(r)' /\ Linking(r)' /\ ImageIsFresh(r)'
    <3>1. PulledIsFresh(r) /\ Linking(r)
      BY <1>1, <2>6 DEF RunInv
    <3>2. ASSUME NEW k \in 1..pulled[r]
          PROVE  /\ <<Dir(r), LocalName(r, Pulls(r)[k])>> \in Places
                 /\ <<Dir(r), LocalName(r, Pulls(r)[k])>> # p
      <4>1. k \in 1..Len(Pulls(r))
        BY <1>1, PullsCounted DEF TypeOK, PulledInv
      <4>2. Pulls(r)[k] \in DOMAIN Vm(r).files
        BY <1>1, <4>1, PullFacts DEF TypeOK
      <4> QED
        BY <1>1, <4>2, FileFacts DEF TypeOK
    <3>3. PulledIsFresh(r)'
      <4> HIDE DEF p
      <4> QED
        BY <1>1, <1>4, <3>1, <3>2, FreshAfter DEF PulledIsFresh, Copy
    <3>4. stored'[<<Dir(r), "src">>] = stored[<<Dir(r), "src">>]
      BY <1>2, <1>4
    <3>5. Linking(r)'
      BY <1>1, <2>1, <3>1, <3>4, Frozen DEF Linking
    <3>6. ImageIsFresh(r)'
      <4>1. CASE label = "converting"
        BY <2>1, <4>1 DEF ImageIsFresh
      <4>2. CASE StandIn(r)
        BY <1>1, <4>2, Frozen DEF ImageIsFresh, StandIn
      <4>3. CASE label = "register" /\ ~StandIn(r)
        <5>1. AllFresh(r, from)
          BY <1>1, <1>4, <2>6, <4>3, OpensOnlyFresh
        <5>2. Image(r)'.state = "fresh"
          BY <1>1, <1>4, <4>3, <5>1, Frozen DEF Image
        <5> QED
          BY <5>2 DEF ImageIsFresh
      <4> QED
        BY <1>4, <4>1, <4>2, <4>3
    <3> QED
      BY <3>3, <3>5, <3>6
  <2>7. RunInv(r)'
    BY <1>1, <2>5, <2>6, Frozen DEF RunInv
  <2> QED
    BY <1>0, <2>3, <2>4, <2>7
<1>5. ASSUME from # 0, Opens(r, from), NEW size, Convert(r, from, size)
      PROVE  /\ \A q \in Places : q # p => stored'[q] = stored[q]
             /\ AllFresh(r, from) => stored'[p].state = "fresh"
  <2> DEFINE content == [state |-> IF AllFresh(r, from) THEN "fresh" ELSE "stale",
                         file |-> from, linked |-> FALSE, size |-> size]
  <2>1. Store(r, "qcow2", content)
    BY <1>5 DEF Convert
  <2>2. AllFresh(r, from) => content.state = "fresh"
    OBVIOUS
  <2> HIDE DEF content
  <2> QED
    BY <1>1, <1>2, <2>1, <2>2, StoreFacts
<1>6. ASSUME \/ \E content : Store(r, "qcow2", content)
             \/ UNCHANGED disk
      PROVE  \A q \in Places : q # p => stored'[q] = stored[q]
  <2>1. CASE UNCHANGED disk
    BY <2>1 DEF disk
  <2>2. CASE \E content : Store(r, "qcow2", content)
    BY <1>1, <2>2, StoreFacts
  <2> QED
    BY <1>6, <2>1, <2>2
<1>7. \/ from = 0 /\ Goto(r, "raised") /\ UNCHANGED <<disk, assured>>
      \/ /\ from # 0
         /\ \E label \in {"register", "converting"} :
              /\ Goto(r, label)
              /\ \/ Opens(r, from) /\ \E size : Convert(r, from, size)
                 \/ /\ label = "converting"
                    /\ (\E content : Store(r, "qcow2", content)) \/ UNCHANGED disk
  <2>1. \A info, expected : Decide(r, "converting", Trusted(FALSE, info, expected))
                             => Goto(r, "converting")
    BY DEF Trusted, Decide
  <2>2. \A ok : Decide(r, "converting", ok) => Goto(r, "register") \/ Goto(r, "converting")
    BY DEF Decide, After
  <2>3. \/ from = 0 /\ Goto(r, "raised") /\ UNCHANGED <<disk, assured>>
        \/ /\ from # 0
           /\ \E size, info :
                \/ /\ Opens(r, from) /\ Convert(r, from, size)
                   /\ Decide(r, "converting", Trusted(TRUE, info, Expected(r)))
                \/ /\ (\E content : Store(r, "qcow2", content)) \/ UNCHANGED disk
                   /\ Decide(r, "converting", Trusted(FALSE, info, Expected(r)))
    BY Zenon DEF ConvertStage
  <2> HIDE DEF from, p, FreshInv
  <2> QED
    BY <2>1, <2>2, <2>3
<1> HIDE DEF from, p, FreshInv
<1> QED
  BY <1>3, <1>4, <1>5, <1>6, <1>7

-----------------------------------------------------------------------------
\* Steps that touch neither files nor runs.
LEMMA FreshUnchanged ==
    ASSUME FreshInv, TypeInv', UNCHANGED world,
           UNCHANGED <<stored, pc, pulled, consented, crowded>>
    PROVE  FreshInv'
<1> USE DEF FreshInv
<1>1. \A r \in Runs : RunInv(r)'
  BY Undisturbed
<1>2. Company' /\ OnlyChainsKeepNames'
  BY Frozen DEF Company, OnlyChainsKeepNames, Active
<1> QED
  BY <1>1, <1>2

\* Every step keeps the invariant.
LEMMA FreshStep == ASSUME FreshInv, [Next]_vars PROVE FreshInv'
<1>1. TypeInv'
  BY TypeStep DEF FreshInv
<1>2. CASE TroubleEnds \/ UNCHANGED vars
  BY <1>1, <1>2, FreshUnchanged DEF TroubleEnds, vars, world, disk, ghosts
<1> QED
  BY <1>2, FreshBegin, FreshCheck, FreshPull, FreshRewrite, FreshConvertStage, FreshRegister,
     FreshAnswer, FreshKill DEF Next, Step

\* A verified image that goes to register_vm is made of nothing but files this
\* call pulled to their end, whatever failed or was killed before, if no second
\* process worked in the directory and no file of an earlier call was let to
\* stand in (copy_engine.py 89-131, orchestrator.py 243-263).
THEOREM VerifiedImagesAreFresh == Spec => []VerifiedImageIsFresh
BY FreshInit, FreshStep, FreshInvImplies, PTL DEF Spec
=============================================================================
