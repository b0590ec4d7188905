------------------------- MODULE OrchestratorProofs -------------------------
(***************************************************************************)
(* Proofs about Orchestrator, for every set of VMs, every layout of their  *)
(* disks, every combination of faults and any number of runs.              *)
(***************************************************************************)
EXTENDS Orchestrator, OperatorProofs

Labels == Stages \cup {"retry", "ask"} \cup Over
Decisions == [stage : Stages, kind : Kinds]
Answered == [stage : Stages, answer : Answers]
ResolvedPaths == [resolution_ok : BOOLEAN, disk_files : Seq(DiskFiles),
                  datastore : Datastores \cup {NoDatastore},
                  power_state : PowerStates \cup {"unknown"},
                  likely_appliance : BOOLEAN, has_snapshot_chain : BOOLEAN]
CopyResults == [ok : BOOLEAN, files : Seq(Nat), raised : BOOLEAN]

-----------------------------------------------------------------------------
\* A set of positions of a sequence has a greatest member.
LEMMA GreatestIsThere ==
    ASSUME NEW n \in Nat, NEW S \in SUBSET (1..n), S # {}
    PROVE  \E i \in S : \A j \in S : j <= i
<1> DEFINE T == {k \in Nat : n - k \in S}
<1>1. T # {}
  <2>1. PICK i \in S : TRUE
    OBVIOUS
  <2>2. n - i \in Nat /\ n - (n - i) = i
    BY <2>1
  <2> QED
    BY <2>1, <2>2
<1>2. PICK k \in T : \A l \in T : k <= l
  <2>1. T \in SUBSET Nat
    OBVIOUS
  <2> HIDE DEF T
  <2> QED
    BY <1>1, <2>1, LeastIsThere
<1>3. \A l \in T : k <= l
  BY <1>2
<1>4. ASSUME NEW j \in S PROVE j <= n - k
  <2>1. n - j \in Nat /\ n - (n - j) = j
    OBVIOUS
  <2>2. n - j \in T
    BY <2>1
  <2> QED
    BY <1>3, <2>1, <2>2
<1> QED
  BY <1>2, <1>4

\* resolve() returns a well-formed ResolvedPath whatever ESXi answers.
LEMMA ResolveTyped ==
    ASSUME NEW v \in Vms, NEW told \in BOOLEAN, NEW p, NEW l,
           NEW s \in Datastores \cup {NoDatastore}
    PROVE  Resolve(v, told, p, l, s) \in ResolvedPaths
<1> DEFINE files == IF l = "listed" THEN v.files ELSE <<>>
           named == {i \in DOMAIN files : files[i].datastore # NoDatastore}
<1>1. files \in Seq(DiskFiles)
  BY VmAssumption
<1>2. \A i \in DOMAIN files : files[i] \in DiskFiles
  BY <1>1
<1>3. DatastoreOf(files, s) \in Datastores \cup {NoDatastore}
  <2>1. CASE named = {} \/ s # NoDatastore
    BY <2>1 DEF DatastoreOf
  <2>2. CASE named # {} /\ s = NoDatastore
    <3>1. named \in SUBSET (1..Len(files)) /\ Len(files) \in Nat
      BY <1>1
    <3> HIDE DEF files, named
    <3>2. \E i \in named : \A j \in named : j <= i
      BY <2>2, <3>1, GreatestIsThere
    <3>3. (CHOOSE i \in named : \A j \in named : j <= i) \in named
      BY <3>2
    <3>4. \A i \in named : files[i].datastore \in Datastores \cup {NoDatastore}
      BY <1>2 DEF named, DiskFiles
    <3>5. DatastoreOf(files, s) = files[CHOOSE i \in named : \A j \in named : j <= i].datastore
      BY <2>2 DEF DatastoreOf, named
    <3> QED
      BY <3>3, <3>4, <3>5
  <2> QED
    BY <2>1, <2>2
<1>4. v.appliance \in BOOLEAN
  BY VmAssumption
<1>5. ParsePowerState(p) \in PowerStates \cup {"unknown"}
  BY DEF ParsePowerState
<1>6. HasSnapshotChain(files) \in BOOLEAN
  BY DEF HasSnapshotChain
<1> QED
  BY <1>1, <1>3, <1>4, <1>5, <1>6 DEF Resolve, ResolvedPaths

\* The pulls of a call are positions.
LEMMA PullOrderTyped ==
    ASSUME NEW path, path.disk_files \in Seq(DiskFiles)
    PROVE  PullOrder(path) \in Seq(Nat)
<1> DEFINE files == path.disk_files
           first(role) == LET S == WithRole(files, role) IN IF S = {} THEN <<>> ELSE <<Least(S)>>
<1>1. [i \in DOMAIN files |-> i] \in Seq(Nat)
  BY IsASeq
<1>2. ASSUME NEW role PROVE first(role) \in Seq(Nat)
  <2>1. WithRole(files, role) \in SUBSET Nat
    BY DEF WithRole
  <2>2. CASE WithRole(files, role) = {}
    BY <2>2
  <2>3. CASE WithRole(files, role) # {}
    <3>1. Least(WithRole(files, role)) \in Nat
      BY <2>1, <2>3, LeastIsThere
    <3> QED
      BY <2>3, <3>1
  <2> QED
    BY <2>2, <2>3
<1>3. first("base_flat") \o first("base_descriptor") \in Seq(Nat)
  <2> HIDE DEF first
  <2> QED
    BY <1>2
<1> QED
  BY <1>1, <1>3 DEF PullOrder

\* stage_vm_disk returns a well-formed CopyResult.
LEMMA StageResultsTyped ==
    ASSUME NEW v, NEW path, path.disk_files \in Seq(DiskFiles), NEW u,
           NEW result \in StageResults(v, path, u)
    PROVE  result \in CopyResults
<1> DEFINE pulls == PullOrder(path)
<1>1. pulls \in Seq(Nat)
  BY PullOrderTyped
<1>2. \A k \in 0..Len(pulls) : SubSeq(pulls, 1, k) \in Seq(Nat)
  <2> HIDE DEF pulls
  <2> QED
    BY <1>1
<1>3. \/ result = Refused \/ result = Raised
      \/ result = Stopped(pulls) \/ result = Staged(pulls)
      \/ \E k \in 0..Len(pulls) : result = Stopped(SubSeq(pulls, 1, k))
  BY Zenon DEF StageResults
<1>4. Refused \in CopyResults /\ Raised \in CopyResults
  BY DEF CopyResults, Refused, Raised
<1>5. \A f \in Seq(Nat) : Stopped(f) \in CopyResults /\ Staged(f) \in CopyResults
  BY DEF CopyResults, Stopped, Staged
<1> HIDE DEF pulls
<1> QED
  BY <1>1, <1>2, <1>3, <1>4, <1>5

\* Without a resolution, or with an appliance, stage_vm_disk refuses.
LEMMA StagingRefused ==
    ASSUME NEW v, NEW path, NEW u, ~path.resolution_ok \/ path.likely_appliance,
           NEW result \in StageResults(v, path, u)
    PROVE  result = Refused
  BY Zenon DEF StageResults

-----------------------------------------------------------------------------
\* While a human is being asked there is a decision that says about what.
TypeInv == TypeOK /\ (pc = "ask" => decisions # <<>>)

\* TypeOK, with its sets named.
LEMMA TypeParts ==
    TypeOK <=> /\ vm \in Vms /\ power \in PowerStates /\ faults \in FaultSets
               /\ image \in Images /\ runs \in 0..MaxRuns /\ pc \in Labels
               /\ resolved \in ResolvedPaths /\ capacity \in BOOLEAN /\ copied \in CopyResults
               /\ converted \in [ok : BOOLEAN, file : Nat] /\ registered \in Results
               /\ decisions \in Seq(Decisions) /\ escalations \in Seq(Answered)
               /\ final_status \in Statuses
  BY Zenon DEF TypeOK, Labels, ResolvedPaths, CopyResults, Decisions, Answered

\* What a decision writes is well-formed, and leaves the decision on record.
LEMMA DecideTyped ==
    ASSUME TypeInv, NEW stage \in Stages, NEW kind \in Kinds, Decide(stage, kind)
    PROVE  /\ pc' \in Labels /\ final_status' \in Statuses
           /\ decisions' \in Seq(Decisions) /\ decisions' # <<>>
<1>1. decisions \in Seq(Decisions) /\ final_status \in Statuses
  BY TypeParts DEF TypeInv
<1>2. [stage |-> stage, kind |-> kind] \in Decisions
  BY DEF Decisions
<1>3. decisions' = Append(decisions, [stage |-> stage, kind |-> kind])
  BY DEF Decide
<1>4. pc' \in Labels /\ final_status' \in Statuses
  BY <1>1 DEF Decide, Continue, NextStage, Labels, Stages, Over, Statuses
<1> QED
  BY <1>1, <1>2, <1>3, <1>4

\* An exception leaves the record as it was.
LEMMA RaiseTyped ==
    ASSUME TypeInv, Raise
    PROVE  /\ pc' \in Labels /\ final_status' \in Statuses
           /\ decisions' \in Seq(Decisions) /\ pc' # "ask"
  BY TypeParts DEF TypeInv, Raise, Labels, Over

\* The value _pick_convert_source returns is a position, or 0.
LEMMA ConvertSourceTyped ==
    ASSUME NEW files \in Seq(Nat)
    PROVE  PickConvertSource(resolved, files) \in Nat
<1> DEFINE wanted == IF resolved.has_snapshot_chain
                     THEN "snapshot_descriptor" ELSE "base_descriptor"
           found == {k \in 1..Len(files) : resolved.disk_files[files[k]].role = wanted}
<1>1. CASE found = {}
  BY <1>1 DEF PickConvertSource
<1>2. CASE found # {}
  <2>1. found \in SUBSET Nat /\ found \in SUBSET (1..Len(files))
    BY DEF found
  <2>2. Least(found) \in found
    <3> HIDE DEF found
    <3> QED
      BY <1>2, <2>1, LeastIsThere
  <2>3. files[Least(found)] \in Nat
    BY <2>1, <2>2
  <2>4. PickConvertSource(resolved, files) = files[Least(found)]
    BY <1>2 DEF PickConvertSource
  <2> QED
    BY <2>3, <2>4
<1> QED
  BY <1>1, <1>2

\* A run_vm that was never started is well-formed.
LEMMA TypeInit == Init => TypeInv
<1> SUFFICES ASSUME Init PROVE TypeInv
  OBVIOUS
<1>1. Unresolved \in ResolvedPaths /\ Refused \in CopyResults
  BY DEF Unresolved, Refused, ResolvedPaths, CopyResults
<1>2. {} \in Results
  BY DEF Results
<1>3. NotConverted \in [ok : BOOLEAN, file : Nat]
  BY DEF NotConverted
<1>4. 0 \in 0..MaxRuns /\ <<>> \in Seq(Decisions) /\ <<>> \in Seq(Answered)
  BY RunsAssumption
<1>5. "none" \in Images /\ "idle" \in Labels /\ "pending" \in Statuses
  BY DEF Images, Labels, Over, Statuses
<1>6. TypeOK
  BY <1>1, <1>2, <1>3, <1>4, <1>5, TypeParts DEF Init
<1> QED
  BY <1>6 DEF TypeInv, Init

\* Every stage, answer, kill and change outside keeps the state well-formed.
LEMMA TypeStep == TypeInv /\ [Next]_vars => TypeInv'
<1> SUFFICES ASSUME TypeInv, [Next]_vars PROVE TypeInv'
  OBVIOUS
<1> USE DEF TypeInv
<1>p. TypeOK' <=>
          /\ vm' \in Vms /\ power' \in PowerStates /\ faults' \in FaultSets
          /\ image' \in Images /\ runs' \in 0..MaxRuns /\ pc' \in Labels
          /\ resolved' \in ResolvedPaths /\ capacity' \in BOOLEAN /\ copied' \in CopyResults
          /\ converted' \in [ok : BOOLEAN, file : Nat] /\ registered' \in Results
          /\ decisions' \in Seq(Decisions) /\ escalations' \in Seq(Answered)
          /\ final_status' \in Statuses
  BY Zenon DEF TypeOK, Labels, ResolvedPaths, CopyResults, Decisions, Answered
<1>1. CASE Start
  <2>1. Unresolved \in ResolvedPaths /\ Refused \in CopyResults
    BY DEF Unresolved, Refused, ResolvedPaths, CopyResults
  <2>2. {} \in Results
    BY DEF Results
  <2>3. NotConverted \in [ok : BOOLEAN, file : Nat]
    BY DEF NotConverted
  <2>4. runs' \in 0..MaxRuns
    BY <1>1, RunsAssumption, TypeParts DEF Start, NewRecord
  <2>5. image' \in Images /\ pc' \in Labels /\ pc' # "ask" /\ "pending" \in Statuses
    BY <1>1 DEF Start, NewRecord, Images, Labels, Stages, Over, Statuses
  <2>6. <<>> \in Seq(Decisions) /\ <<>> \in Seq(Answered)
    OBVIOUS
  <2> QED
    BY <1>1, <1>p, <2>1, <2>2, <2>3, <2>4, <2>5, <2>6, TypeParts DEF Start, NewRecord, source
<1>2. CASE ResolveStage
  <2>1. resolved' \in ResolvedPaths
    <3>1. \A s \in Reply(vm.home, "summary", {NoDatastore}) : s \in Datastores \cup {NoDatastore}
      BY TypeParts, VmAssumption DEF Reply
    <3>2. \A named \in Reply(TRUE, "unnamed", {FALSE}) : named \in BOOLEAN
      BY DEF Reply
    <3>3. PICK named, p, l, s : /\ named \in BOOLEAN /\ s \in Datastores \cup {NoDatastore}
                                /\ resolved' = Resolve(vm, named, p, l, s)
      BY <1>2, <3>1, <3>2, Zenon DEF ResolveStage
    <3> QED
      BY <3>3, ResolveTyped, TypeParts
  <2>2. DecideAfterResolve(resolved') \in Kinds
    BY DEF DecideAfterResolve, Kinds
  <2>3. Decide("resolve", DecideAfterResolve(resolved'))
    BY <1>2 DEF ResolveStage
  <2> QED
    BY <1>2, <1>p, <2>1, <2>2, <2>3, DecideTyped, TypeParts DEF ResolveStage, source, Stages
<1>3. CASE CapacityStage
  <2>1. \/ Raise /\ UNCHANGED capacity
        \/ capacity' \in BOOLEAN /\ Decide("capacity", DecideOn(capacity'))
    BY <1>3 DEF CapacityStage, Reply
  <2>2. \A ok : DecideOn(ok) \in Kinds
    BY DEF DecideOn, Kinds
  <2> QED
    BY <1>3, <1>p, <2>1, <2>2, DecideTyped, RaiseTyped, TypeParts
       DEF CapacityStage, source, Stages
<1>4. CASE CopyStage
  <2>1. PICK result \in StageResults(vm, resolved, "pull" \in faults) :
           IF result.raised THEN Raise /\ UNCHANGED copied
           ELSE copied' = result /\ Decide("copy", DecideOn(result.ok))
    BY <1>4 DEF CopyStage
  <2>2. result \in CopyResults
    <3>1. resolved.disk_files \in Seq(DiskFiles)
      BY TypeParts DEF ResolvedPaths
    <3> QED
      BY <3>1, StageResultsTyped
  <2>3. \A ok : DecideOn(ok) \in Kinds
    BY DEF DecideOn, Kinds
  <2>4. CASE result.raised
    BY <1>4, <1>p, <2>1, <2>4, RaiseTyped, TypeParts DEF CopyStage, source
  <2>5. CASE ~result.raised
    BY <1>4, <1>p, <2>1, <2>2, <2>3, <2>5, DecideTyped, TypeParts DEF CopyStage, source, Stages
  <2> QED
    BY <2>4, <2>5
<1>5. CASE ConvertStage
  <2> DEFINE file == PickConvertSource(resolved, copied.files)
  <2>1. \/ Raise /\ UNCHANGED <<image, converted>>
        \/ \E c \in Conversions(file) : /\ converted' = [ok |-> c.ok, file |-> file]
                                        /\ image' = c.image
                                        /\ Decide("convert", DecideOn(c.ok))
    BY <1>5 DEF ConvertStage
  <2>2. file \in Nat
    BY ConvertSourceTyped, TypeParts DEF CopyResults
  <2>3. \A c \in Conversions(file) : c.ok \in BOOLEAN /\ c.image \in Images
    BY DEF Conversions
  <2>4. \A ok : DecideOn(ok) \in Kinds
    BY DEF DecideOn, Kinds
  <2> HIDE DEF file
  <2>5. CASE Raise /\ UNCHANGED <<image, converted>>
    BY <1>5, <1>p, <2>5, RaiseTyped, TypeParts DEF ConvertStage, source
  <2>6. ASSUME NEW c \in Conversions(file), converted' = [ok |-> c.ok, file |-> file],
               image' = c.image, Decide("convert", DecideOn(c.ok))
        PROVE  TypeInv'
    BY <1>5, <1>p, <2>2, <2>3, <2>4, <2>6, DecideTyped, TypeParts DEF ConvertStage, source, Stages
  <2> QED
    BY <2>1, <2>5, <2>6
<1>6. CASE RegisterStage \/ RetryStage
  <2>1. registered' \in Results
    BY <1>6 DEF RegisterStage, RetryStage, Registrations
  <2>2. \A result, retried : DecideAfterRegister(result, retried) \in Kinds
    BY DEF DecideAfterRegister, Kinds
  <2>3. \E retried : Decide("register", DecideAfterRegister(registered', retried))
    BY <1>6 DEF RegisterStage, RetryStage
  <2>4. UNCHANGED <<source, image, runs, resolved, capacity, copied, converted, escalations>>
    BY <1>6 DEF RegisterStage, RetryStage
  <2> QED
    BY <1>p, <2>1, <2>2, <2>3, <2>4, DecideTyped, TypeParts DEF source, Stages
<1>7. CASE Answer
  <2>1. decisions \in Seq(Decisions) /\ decisions # <<>>
    BY <1>7, TypeParts DEF Answer
  <2>2. Asked \in Stages
    <3>1. Len(decisions) \in 1..Len(decisions)
      BY <2>1
    <3>2. decisions[Len(decisions)] \in Decisions
      BY <2>1, <3>1
    <3> QED
      BY <3>2 DEF Asked, Decisions
  <2>3. PICK answer \in Answers :
           /\ RecordAnswer(answer)
           /\ \/ answer = "proceed" /\ Continue(Asked)
              \/ answer # "proceed" /\ pc' = "returned" /\ final_status' = StatusOfRefusal(answer)
    BY <1>7 DEF Answer
  <2>4. escalations' \in Seq(Answered)
    BY <2>2, <2>3, TypeParts DEF RecordAnswer, Answered
  <2>5. pc' \in Labels /\ pc' # "ask"
    BY <2>2, <2>3 DEF Continue, NextStage, Labels, Stages, Over
  <2>6. final_status' \in Statuses
    BY <2>3, TypeParts DEF Continue, StatusOfRefusal, Statuses
  <2> QED
    BY <1>7, <1>p, <2>4, <2>5, <2>6, TypeParts DEF Answer, source, results
<1>8. CASE Kill
  BY <1>8, <1>p, TypeParts DEF Kill, source, record, results, Images, Labels, Over
<1>9. CASE PowerChange
  BY <1>9, <1>p, TypeParts DEF PowerChange, record, results
<1>10. CASE UNCHANGED vars
  BY <1>10, <1>p, TypeParts DEF vars
<1> QED
  BY <1>1, <1>2, <1>3, <1>4, <1>5, <1>6, <1>7, <1>8, <1>9, <1>10 DEF Next, Stage

\* The record of run_vm and its control state are well-formed in every
\* reachable state, whatever the tools return and the human answers.
THEOREM OrchestratorTyping == Spec => []TypeOK
<1>1. TypeInv => TypeOK
  BY DEF TypeInv
<1> QED
  BY <1>1, TypeInit, TypeStep, PTL DEF Spec

-----------------------------------------------------------------------------
(***************************************************************************)
(* A run gets past a stage only by that stage's evidence or by a human's   *)
(* "proceed" at it, and neither is lost while the run goes on.  That is    *)
(* inductive once the question a human is being asked counts as being at   *)
(* the stage it is about.                                                  *)
(***************************************************************************)
Later == [resolve |-> {"capacity", "copy", "convert", "register"},
          capacity |-> {"copy", "convert", "register"},
          copy |-> {"convert", "register"},
          convert |-> {"register"},
          register |-> {}]

Earned(stage) == Evidence(stage) \/ Consented(stage)

GateInv ==
    /\ \A stage \in Stages : At \in Later[stage] => Earned(stage)
    /\ final_status = "migrated" => pc = "returned" /\ \A stage \in Stages : Earned(stage)
    /\ pc \notin Over => final_status = "pending"

\* While a human is asked, run_vm is at one of its stages.
LEMMA AskedIsStage ==
    ASSUME TypeInv, pc = "ask"
    PROVE  Asked \in Stages
<1>1. decisions \in Seq(Decisions) /\ decisions # <<>>
  BY TypeParts DEF TypeInv
<1>2. Len(decisions) \in 1..Len(decisions)
  BY <1>1
<1>3. decisions[Len(decisions)] \in Decisions
  BY <1>1, <1>2
<1> QED
  BY <1>3 DEF Asked, Decisions

\* A decision stays at the stage, passes it, or ends the run unmigrated.
LEMMA DecideMoves ==
    ASSUME TypeInv, NEW stage \in Stages, NEW kind \in Kinds, Decide(stage, kind),
           kind = "apply_known_fix" => stage = "register"
    PROVE  \/ kind = "proceed" /\ Continue(stage)
           \/ /\ At' = stage /\ final_status' = final_status
              /\ pc' = IF kind = "apply_known_fix" THEN "retry" ELSE "ask"
           \/ pc' = "returned" /\ final_status' = "skipped"
<1>1. decisions \in Seq(Decisions)
  BY TypeParts DEF TypeInv
<1>2. [stage |-> stage, kind |-> kind] \in Decisions
  BY DEF Decisions
<1>3. decisions' = Append(decisions, [stage |-> stage, kind |-> kind])
  BY DEF Decide
<1>4. decisions'[Len(decisions')] = [stage |-> stage, kind |-> kind]
  BY <1>1, <1>2, <1>3
<1>5. Asked' = stage
  BY <1>4 DEF Asked
<1> QED
  BY <1>5 DEF Decide, At

\* What was consented to stays consented to, and the answer is added to it.
LEMMA AnswerConsents ==
    ASSUME TypeInv, NEW answer \in Answers, RecordAnswer(answer), pc = "ask"
    PROVE  /\ \A stage \in Stages : Consented(stage) => Consented(stage)'
           /\ \A stage \in Stages : answer = "proceed" /\ stage = Asked => Consented(stage)'
<1> DEFINE e == [stage |-> Asked, answer |-> answer]
<1>1. escalations \in Seq(Answered)
  BY TypeParts DEF TypeInv
<1>2. e \in Answered
  BY AskedIsStage DEF Answered
<1>3. escalations' = Append(escalations, e)
  BY DEF RecordAnswer
<1> HIDE DEF e
<1>4. /\ Len(escalations') = Len(escalations) + 1
      /\ Len(escalations) \in Nat
      /\ \A i \in 1..Len(escalations) : escalations'[i] = escalations[i]
      /\ escalations'[Len(escalations) + 1] = e
  BY <1>1, <1>2, <1>3
<1>5. \A stage \in Stages : Consented(stage) => Consented(stage)'
  BY <1>4 DEF Consented
<1>6. ASSUME NEW stage \in Stages, answer = "proceed", stage = Asked PROVE Consented(stage)'
  <2>1. Len(escalations) + 1 \in 1..Len(escalations')
    BY <1>4
  <2> QED
    BY <1>4, <1>6, <2>1 DEF Consented, e
<1> QED
  BY <1>5, <1>6

\* Before the first run nothing was passed.
LEMMA GateInit == Init => GateInv
  BY DEF Init, GateInv, At, Later, Stages, Over

\* Where a decision leaves the run, and what is established by then.
LEMMA DecideEarns ==
    ASSUME TypeInv, GateInv, NEW stage \in Stages, NEW kind \in Kinds, Decide(stage, kind),
           kind = "apply_known_fix" => stage = "register",
           At = stage, pc \notin Over,
           \A s \in Stages : stage \in Later[s] => (Earned(s) => Earned(s)'),
           kind = "proceed" => Earned(stage)'
    PROVE  GateInv'
<1>1. final_status = "pending"
  BY DEF GateInv
<1>2. \A s \in Stages : stage \in Later[s] => Earned(s)'
  BY DEF GateInv
<1>3. CASE kind = "proceed" /\ Continue(stage)
  <2>1. \A s \in Stages : s = stage \/ stage \in Later[s] => Earned(s)'
    BY <1>2, <1>3
  <2>2. pc' = NextStage[stage]
        /\ final_status' = IF stage = "register" THEN "migrated" ELSE "pending"
    BY <1>1, <1>3 DEF Continue
  <2>3. At' = NextStage[stage]
    BY <2>2 DEF At, NextStage, Stages
  <2>4. \A s \in Stages : NextStage[stage] \in Later[s] => s = stage \/ stage \in Later[s]
    BY DEF NextStage, Later, Stages
  <2>5. \A s \in Stages : s = "register" \/ "register" \in Later[s]
    BY DEF Later, Stages
  <2>6. stage = "register" => NextStage[stage] = "returned"
    BY DEF NextStage
  <2>7. stage # "register" => NextStage[stage] \notin Over
    BY DEF NextStage, Stages, Over
  <2>8. \A s \in Stages : At' \in Later[s] => Earned(s)'
    BY <2>1, <2>3, <2>4
  <2>9. final_status' = "migrated" => pc' = "returned" /\ \A s \in Stages : Earned(s)'
    BY <2>1, <2>2, <2>5, <2>6
  <2>10. pc' \notin Over => final_status' = "pending"
    BY <2>2, <2>6, <2>7 DEF Over
  <2> QED
    BY <2>8, <2>9, <2>10 DEF GateInv
<1>4. CASE At' = stage /\ pc' \in {"ask", "retry"} /\ final_status' = final_status
  BY <1>1, <1>2, <1>4 DEF GateInv
<1>5. CASE pc' = "returned" /\ final_status' = "skipped"
  <2>1. At' = "returned"
    BY <1>5 DEF At
  <2>2. \A s \in Stages : "returned" \notin Later[s]
    BY DEF Later, Stages
  <2> QED
    BY <1>5, <2>1, <2>2 DEF GateInv, Over
<1> QED
  BY <1>3, <1>4, <1>5, DecideMoves

\* A run that is over, and not migrated, has nothing to show for it.
LEMMA OverEarnsNothing ==
    ASSUME pc' \in Over, final_status' # "migrated"
    PROVE  GateInv'
<1>1. At' = pc'
  BY DEF At, Over
<1>2. \A s \in Stages : pc' \notin Later[s]
  BY DEF Later, Stages, Over
<1> QED
  BY <1>1, <1>2 DEF GateInv

\* A stage is passed with its evidence or by consent, and what was passed stays so.
LEMMA GateStep == TypeInv /\ GateInv /\ [Next]_vars => GateInv'
<1> SUFFICES ASSUME TypeInv, GateInv, [Next]_vars PROVE GateInv'
  OBVIOUS
<1>a. \A ok \in BOOLEAN : /\ DecideOn(ok) \in Kinds /\ DecideOn(ok) # "apply_known_fix"
                          /\ DecideOn(ok) = "proceed" => ok
  BY DEF DecideOn, Kinds
<1>b. ASSUME pc \notin Over, Raise PROVE GateInv'
  BY <1>b, OverEarnsNothing DEF Raise, Over, GateInv
<1>1. CASE Start
  <2>1. At' \in {"resolve", "raised"} /\ final_status' = "pending"
    BY <1>1 DEF Start, NewRecord, At
  <2>2. \A s \in Stages : "resolve" \notin Later[s] /\ "raised" \notin Later[s]
    BY DEF Later, Stages
  <2> QED
    BY <2>1, <2>2 DEF GateInv
<1>2. CASE ResolveStage
  <2> DEFINE kind == DecideAfterResolve(resolved')
  <2>1. kind \in Kinds /\ kind # "apply_known_fix"
    BY DEF DecideAfterResolve, Kinds
  <2>2. pc = "resolve" /\ vm' = vm /\ Decide("resolve", kind)
    BY <1>2 DEF ResolveStage, source
  <2>3. kind = "proceed" => Earned("resolve")'
    BY DEF DecideAfterResolve, Earned, Evidence
  <2>4. At = "resolve" /\ pc \notin Over /\ "resolve" \in Stages
    BY <2>2 DEF At, Over, Stages
  <2>5. \A s \in Stages : "resolve" \notin Later[s]
    BY DEF Later, Stages
  <2> HIDE DEF kind
  <2> QED
    BY <2>1, <2>2, <2>3, <2>4, <2>5, DecideEarns
<1>3. CASE CapacityStage
  <2>1. pc = "capacity" /\ UNCHANGED <<vm, resolved, escalations>>
    BY <1>3 DEF CapacityStage, source
  <2>2. At = "capacity" /\ pc \notin Over /\ "capacity" \in Stages
    BY <2>1 DEF At, Over, Stages
  <2>3. \A s \in Stages : "capacity" \in Later[s] => (Earned(s) => Earned(s)')
    BY <2>1 DEF Later, Stages, Earned, Evidence, Consented
  <2>4. CASE Raise
    BY <1>b, <2>2, <2>4
  <2>5. CASE capacity' \in BOOLEAN /\ Decide("capacity", DecideOn(capacity'))
    <3>1. DecideOn(capacity') = "proceed" => Earned("capacity")'
      BY <1>a, <2>5 DEF Earned, Evidence
    <3> QED
      BY <1>a, <2>2, <2>3, <2>5, <3>1, DecideEarns
  <2> QED
    BY <1>3, <2>4, <2>5 DEF CapacityStage, Reply
<1>4. CASE CopyStage
  <2>1. pc = "copy" /\ UNCHANGED <<vm, resolved, capacity, escalations>>
    BY <1>4 DEF CopyStage, source
  <2>2. At = "copy" /\ pc \notin Over /\ "copy" \in Stages
    BY <2>1 DEF At, Over, Stages
  <2>3. \A s \in Stages : "copy" \in Later[s] => (Earned(s) => Earned(s)')
    BY <2>1 DEF Later, Stages, Earned, Evidence, Consented
  <2>4. PICK result \in StageResults(vm, resolved, "pull" \in faults) :
           IF result.raised THEN Raise /\ UNCHANGED copied
           ELSE copied' = result /\ Decide("copy", DecideOn(result.ok))
    BY <1>4 DEF CopyStage
  <2>5. CASE result.raised
    BY <1>b, <2>2, <2>4, <2>5
  <2>6. CASE ~result.raised
    <3>1. result.ok \in BOOLEAN
      BY StageResultsTyped, TypeParts DEF TypeInv, ResolvedPaths, CopyResults
    <3>2. copied' = result /\ Decide("copy", DecideOn(result.ok))
      BY <2>4, <2>6
    <3>3. DecideOn(result.ok) = "proceed" => Earned("copy")'
      BY <1>a, <3>1, <3>2 DEF Earned, Evidence
    <3> QED
      BY <1>a, <2>2, <2>3, <3>1, <3>2, <3>3, DecideEarns
  <2> QED
    BY <2>5, <2>6
<1>5. CASE ConvertStage
  <2> DEFINE file == PickConvertSource(resolved, copied.files)
  <2>1. pc = "convert" /\ UNCHANGED <<vm, resolved, capacity, copied, escalations>>
    BY <1>5 DEF ConvertStage, source
  <2>2. At = "convert" /\ pc \notin Over /\ "convert" \in Stages
    BY <2>1 DEF At, Over, Stages
  <2>3. \A s \in Stages : "convert" \in Later[s] => (Earned(s) => Earned(s)')
    BY <2>1 DEF Later, Stages, Earned, Evidence, Consented
  <2>4. CASE Raise
    BY <1>b, <2>2, <2>4
  <2>5. ASSUME NEW c \in Conversions(file), converted' = [ok |-> c.ok, file |-> file],
               image' = c.image, Decide("convert", DecideOn(c.ok))
        PROVE  GateInv'
    <3>1. c.ok \in BOOLEAN /\ (c.ok => c.image = "verified")
      BY DEF Conversions
    <3>2. DecideOn(c.ok) = "proceed" => Earned("convert")'
      BY <1>a, <2>5, <3>1 DEF Earned, Evidence
    <3> QED
      BY <1>a, <2>2, <2>3, <2>5, <3>1, <3>2, DecideEarns
  <2> QED
    BY <1>5, <2>4, <2>5 DEF ConvertStage
<1>6. CASE RegisterStage \/ RetryStage
  <2>1. pc \in {"register", "retry"} /\ UNCHANGED <<vm, image, resolved, capacity, copied,
                                                   converted, escalations>>
    BY <1>6 DEF RegisterStage, RetryStage, source
  <2>2. At = "register" /\ pc \notin Over /\ "register" \in Stages
    BY <2>1 DEF At, Over, Stages
  <2>3. \A s \in Stages : "register" \in Later[s] => (Earned(s) => Earned(s)')
    BY <2>1 DEF Later, Stages, Earned, Evidence, Consented
  <2>4. PICK retried : Decide("register", DecideAfterRegister(registered', retried))
    BY <1>6 DEF RegisterStage, RetryStage
  <2>5. DecideAfterRegister(registered', retried) \in Kinds
    BY DEF DecideAfterRegister, Kinds
  <2>6. DecideAfterRegister(registered', retried) = "proceed" => Earned("register")'
    BY DEF DecideAfterRegister, Earned, Evidence
  <2> QED
    BY <2>2, <2>3, <2>4, <2>5, <2>6, DecideEarns
<1>7. CASE Answer
  <2>1. pc = "ask" /\ Asked \in Stages /\ At = Asked /\ final_status = "pending"
    BY <1>7, AskedIsStage DEF Answer, At, GateInv, Over
  <2>2. PICK answer \in Answers :
           /\ RecordAnswer(answer)
           /\ \/ answer = "proceed" /\ Continue(Asked)
              \/ answer # "proceed" /\ pc' = "returned" /\ final_status' = StatusOfRefusal(answer)
    BY <1>7 DEF Answer
  <2>3. \A s \in Stages : Earned(s) => Earned(s)'
    <3>1. UNCHANGED <<vm, image, resolved, capacity, copied, converted, registered>>
      BY <1>7 DEF Answer, source, results
    <3>2. \A s \in Stages : Consented(s) => Consented(s)'
      BY <2>1, <2>2, AnswerConsents
    <3> QED
      BY <3>1, <3>2 DEF Earned, Evidence
  <2>4. CASE answer = "proceed" /\ Continue(Asked)
    <3>2. \A s \in Stages : s = Asked \/ Asked \in Later[s] => Earned(s)'
      BY <2>1, <2>2, <2>3, <2>4, AnswerConsents DEF GateInv, Earned
    <3>3. PICK stage \in Stages : stage = Asked
      BY <2>1
    <3>4. pc' = NextStage[stage]
          /\ final_status' = IF stage = "register" THEN "migrated" ELSE "pending"
      BY <2>1, <2>4, <3>3 DEF Continue
    <3>5. At' = NextStage[stage]
      BY <3>4 DEF At, NextStage, Stages
    <3>6. \A s \in Stages : NextStage[stage] \in Later[s] => s = stage \/ stage \in Later[s]
      BY DEF NextStage, Later, Stages
    <3>7. \A s \in Stages : s = "register" \/ "register" \in Later[s]
      BY DEF Later, Stages
    <3>8. IF stage = "register" THEN NextStage[stage] = "returned" ELSE NextStage[stage] \notin Over
      BY DEF NextStage, Stages, Over
    <3>9. \A s \in Stages : At' \in Later[s] => Earned(s)'
      BY <3>2, <3>3, <3>5, <3>6
    <3>10. final_status' = "migrated" => pc' = "returned" /\ \A s \in Stages : Earned(s)'
      BY <3>2, <3>3, <3>4, <3>7, <3>8
    <3>11. pc' \notin Over => final_status' = "pending"
      BY <3>4, <3>8 DEF Over
    <3> QED
      BY <3>9, <3>10, <3>11 DEF GateInv
  <2>5. CASE pc' = "returned" /\ final_status' = StatusOfRefusal(answer)
    BY <2>5, OverEarnsNothing DEF StatusOfRefusal, Over
  <2> QED
    BY <2>2, <2>4, <2>5
<1>8. CASE Kill
  BY <1>8, OverEarnsNothing DEF Kill, record, GateInv, Over
<1>9. CASE PowerChange \/ UNCHANGED vars
  <2>1. UNCHANGED <<vm, image, pc, resolved, capacity, copied, converted, registered,
                    decisions, escalations, final_status>>
    BY <1>9 DEF PowerChange, record, results, vars
  <2>2. At' = At /\ \A s \in Stages : Earned(s)' <=> Earned(s)
    BY <2>1 DEF At, Asked, Earned, Evidence, Consented
  <2> QED
    BY <2>1, <2>2 DEF GateInv
<1> QED
  BY <1>1, <1>2, <1>3, <1>4, <1>5, <1>6, <1>7, <1>8, <1>9 DEF Next, Stage

\* Both hold in every reachable state.
LEMMA Gates == Spec => [](TypeInv /\ GateInv)
  BY TypeInit, TypeStep, GateInit, GateStep, PTL DEF Spec

\* A run that reports "migrated" has for each of its five stages the evidence
\* or a human's consent, whatever the tools return and the human answers.
THEOREM MigrationIsEarned == Spec => []MigratedIsEarned
<1>1. GateInv => MigratedIsEarned
  BY DEF GateInv, MigratedIsEarned, Earned
<1> QED
  BY <1>1, Gates, PTL

\* register_vm is given an image this run verified, or one a human let through,
\* never what an earlier run left in the staging directory.
THEOREM RegistrationIsOfVerifiedImage == Spec => []RegistersVerifiedImage
<1>1. GateInv => RegistersVerifiedImage
  <2> SUFFICES ASSUME GateInv, pc \in {"register", "retry"}
               PROVE  image = "verified" \/ Consented("convert")
    BY DEF RegistersVerifiedImage
  <2>1. At = "register"
    BY DEF At
  <2>2. Earned("convert")
    BY <2>1 DEF GateInv, Later, Stages
  <2> QED
    BY <2>2 DEF Earned, Evidence
<1> QED
  BY <1>1, Gates, PTL

-----------------------------------------------------------------------------
(***************************************************************************)
(* stage_vm_disk's own refusal.  A human can open the gate after RESOLVE;  *)
(* the refusal leaves nothing to convert, so the run cannot get further    *)
(* than CONVERT, which raises.                                             *)
(***************************************************************************)
Blocked == ~resolved.resolution_ok \/ resolved.likely_appliance

RefusalInv ==
    /\ Blocked =>
         /\ copied.files = <<>> /\ registered = {}
         /\ pc \notin {"register", "retry"} /\ final_status # "migrated"
         /\ pc = "ask" => Asked \in {"resolve", "capacity", "copy"}
    /\ pc = "resolve" => Blocked
    /\ vm.appliance /\ "unnamed" \notin faults => Blocked

\* A run that resolved nothing yet counts as refused.
LEMMA RefusalInit == Init => RefusalInv
  BY DEF Init, RefusalInv, Blocked, Unresolved, Refused

\* No decision before CONVERT gets a run to REGISTER or back to RESOLVE.
LEMMA DecideEarly ==
    ASSUME TypeInv, NEW stage \in {"resolve", "capacity", "copy"}, NEW kind \in Kinds,
           Decide(stage, kind), kind # "apply_known_fix"
    PROVE  /\ pc' \notin {"register", "retry", "resolve"}
           /\ final_status' \in {final_status, "skipped"}
           /\ pc' = "ask" => Asked' = stage
<1>1. \/ Continue(stage)
      \/ At' = stage /\ pc' = "ask" /\ final_status' = final_status
      \/ pc' = "returned" /\ final_status' = "skipped"
  BY DecideMoves DEF Stages
<1> QED
  BY <1>1 DEF Continue, NextStage, At

\* resolve() reports an appliance it is told the name of, or reports the paths
\* unresolved.
LEMMA ApplianceIsBlocked ==
    ASSUME NEW v, NEW p, NEW l, NEW s, v.appliance
    PROVE  LET path == Resolve(v, TRUE, p, l, s)
           IN  ~path.resolution_ok \/ path.likely_appliance
  BY DEF Resolve

\* Nothing of a refused VM is staged by any step, and CONVERT ends such a run.
LEMMA RefusalStep == TypeInv /\ RefusalInv /\ [Next]_vars => RefusalInv'
<1> SUFFICES ASSUME TypeInv, RefusalInv, [Next]_vars PROVE RefusalInv'
  OBVIOUS
<1>a. \A ok : DecideOn(ok) \in Kinds /\ DecideOn(ok) # "apply_known_fix"
  BY DEF DecideOn, Kinds
<1>b. ASSUME pc' \in Over, final_status' # "migrated" \/ ~Blocked,
             UNCHANGED <<vm, faults, resolved, registered>>, Blocked => copied' = copied
      PROVE  RefusalInv'
  BY <1>b DEF RefusalInv, Blocked, Over
<1>1. CASE Start
  BY <1>1 DEF Start, NewRecord, RefusalInv, Blocked, Unresolved, Refused
<1>2. CASE ResolveStage
  <2>1. PICK named, p, l, s : /\ named \in Reply(TRUE, "unnamed", {FALSE})
                              /\ resolved' = Resolve(vm, named, p, l, s)
    BY <1>2, Zenon DEF ResolveStage
  <2>2. pc = "resolve" /\ UNCHANGED <<vm, faults, copied, registered>>
        /\ Decide("resolve", DecideAfterResolve(resolved'))
    BY <1>2 DEF ResolveStage, source
  <2>3. DecideAfterResolve(resolved') \in Kinds
        /\ DecideAfterResolve(resolved') # "apply_known_fix"
    BY DEF DecideAfterResolve, Kinds
  <2>4. /\ pc' \notin {"register", "retry", "resolve"}
        /\ final_status' \in {final_status, "skipped"}
        /\ pc' = "ask" => Asked' = "resolve"
    BY <2>2, <2>3, DecideEarly
  <2>5. copied.files = <<>> /\ registered = {} /\ final_status # "migrated"
    BY <2>2 DEF RefusalInv
  <2>6. vm.appliance /\ "unnamed" \notin faults => Blocked'
    BY <2>1, ApplianceIsBlocked DEF Blocked, Reply
  <2> QED
    BY <2>2, <2>4, <2>5, <2>6 DEF RefusalInv
<1>3. CASE CapacityStage
  <2>1. pc = "capacity" /\ UNCHANGED <<vm, faults, resolved, copied, registered>>
    BY <1>3 DEF CapacityStage, source
  <2>2. CASE Raise
    BY <1>b, <2>1, <2>2 DEF Raise, Over, RefusalInv
  <2>3. CASE Decide("capacity", DecideOn(capacity'))
    BY <1>a, <2>1, <2>3, DecideEarly DEF RefusalInv, Blocked
  <2> QED
    BY <1>3, <2>2, <2>3 DEF CapacityStage
<1>4. CASE CopyStage
  <2>1. pc = "copy" /\ UNCHANGED <<vm, faults, resolved, registered>>
    BY <1>4 DEF CopyStage, source
  <2>2. PICK result \in StageResults(vm, resolved, "pull" \in faults) :
           IF result.raised THEN Raise /\ UNCHANGED copied
           ELSE copied' = result /\ Decide("copy", DecideOn(result.ok))
    BY <1>4 DEF CopyStage
  <2>3. Blocked => result = Refused
    BY StagingRefused DEF Blocked
  <2>4. CASE result.raised
    BY <1>b, <2>1, <2>2, <2>4 DEF Raise, Over, RefusalInv
  <2>5. CASE ~result.raised
    <3>1. Blocked' => copied'.files = <<>>
      BY <2>1, <2>2, <2>3, <2>5 DEF Blocked, Refused
    <3> QED
      BY <1>a, <2>1, <2>2, <2>5, <3>1, DecideEarly DEF RefusalInv, Blocked
  <2> QED
    BY <2>4, <2>5
<1>5. CASE ConvertStage
  <2>1. pc = "convert" /\ UNCHANGED <<vm, faults, resolved, copied, registered>>
    BY <1>5 DEF ConvertStage, source
  <2>2. CASE Raise
    BY <1>b, <2>1, <2>2 DEF Raise, Over, RefusalInv
  <2>3. CASE ~Raise
    <3>1. PickConvertSource(resolved, copied.files) # 0
      BY <1>5, <2>3 DEF ConvertStage
    <3>2. copied.files # <<>>
      <4> SUFFICES ASSUME copied.files = <<>> PROVE PickConvertSource(resolved, copied.files) = 0
        BY <3>1
      <4>1. Len(copied.files) = 0
        OBVIOUS
      <4> QED
        BY <4>1 DEF PickConvertSource
    <3>3. ~Blocked
      BY <3>2 DEF RefusalInv
    <3>4. \E c \in Conversions(PickConvertSource(resolved, copied.files)) : Decide("convert", DecideOn(c.ok))
      BY <1>5, <3>1 DEF ConvertStage
    <3>5. pc' # "resolve"
      BY <3>4 DEF Decide, Continue, NextStage
    <3> QED
      BY <2>1, <3>3, <3>5 DEF RefusalInv, Blocked
  <2> QED
    BY <2>2, <2>3
<1>6. CASE RegisterStage \/ RetryStage
  <2>1. pc \in {"register", "retry"} /\ UNCHANGED <<vm, faults, resolved>>
    BY <1>6 DEF RegisterStage, RetryStage, source
  <2>2. \E kind : Decide("register", kind)
    BY <1>6 DEF RegisterStage, RetryStage
  <2>3. pc' # "resolve"
    BY <2>2 DEF Decide, Continue, NextStage
  <2> QED
    BY <2>1, <2>3 DEF RefusalInv, Blocked
<1>7. CASE Answer
  <2>1. pc = "ask" /\ UNCHANGED <<vm, faults, resolved, copied, registered>> /\ Asked \in Stages
    BY <1>7, AskedIsStage DEF Answer, source, results
  <2>2. \/ Continue(Asked)
        \/ pc' = "returned" /\ \E answer \in Answers : final_status' = StatusOfRefusal(answer)
    BY <1>7 DEF Answer
  <2>3. CASE Continue(Asked)
    <3>1. pc' = NextStage[Asked]
          /\ final_status' = IF Asked = "register" THEN "migrated" ELSE final_status
      BY <2>3 DEF Continue
    <3>2. PICK stage \in Stages : stage = Asked
      BY <2>1
    <3>3. pc' \notin {"resolve", "retry", "ask"}
      BY <3>1, <3>2 DEF NextStage, Stages
    <3>4. stage \in {"resolve", "capacity", "copy"} =>
             pc' # "register" /\ final_status' = final_status
      BY <3>1, <3>2 DEF NextStage
    <3> QED
      BY <2>1, <3>2, <3>3, <3>4 DEF RefusalInv, Blocked
  <2>4. CASE pc' = "returned" /\ \E answer \in Answers : final_status' = StatusOfRefusal(answer)
    BY <1>b, <2>1, <2>4 DEF StatusOfRefusal, Over
  <2> QED
    BY <2>2, <2>3, <2>4
<1>8. CASE Kill
  BY <1>8, <1>b DEF Kill, source, record, results, RefusalInv, Over
<1>9. CASE PowerChange \/ UNCHANGED vars
  BY <1>9 DEF PowerChange, record, results, vars, RefusalInv, Blocked, Asked
<1> QED
  BY <1>1, <1>2, <1>3, <1>4, <1>5, <1>6, <1>7, <1>8, <1>9 DEF Next, Stage

\* The refusal holds in every reachable state.
LEMMA Refusals == Spec => []RefusalInv
  BY TypeInit, TypeStep, RefusalInit, RefusalStep, PTL DEF Spec

\* Whatever a human answers, a VM whose paths were not resolved is not staged,
\* registered or reported migrated.
THEOREM UnresolvedGoesNowhere == Spec => []NothingFromUnresolved
<1>1. RefusalInv => NothingFromUnresolved
  BY DEF RefusalInv, Blocked, NothingFromUnresolved
<1> QED
  BY <1>1, Refusals, PTL

\* A vendor appliance whose name is given is not staged or migrated, also when
\* the appliance check is skipped because the layout query failed.
THEOREM AppliancesAreExcluded == Spec => []NamedApplianceIsLeftAlone
<1>1. RefusalInv => NamedApplianceIsLeftAlone
  BY DEF RefusalInv, Blocked, NamedApplianceIsLeftAlone, ApplianceIsLeftAlone
<1> QED
  BY <1>1, Refusals, PTL

-----------------------------------------------------------------------------
\* As long as power.getstate answers and nobody touches the VM, what RESOLVE
\* read stays true for the rest of the run.
PowerInv ==
    faults \cap {"power", "repower"} = {} /\ pc \notin Over \cup {"resolve"}
        => resolved.power_state = power

\* Before the first run nothing was read.
LEMMA PowerInit == Init => PowerInv
  BY DEF Init, PowerInv, Over

\* Only RESOLVE writes the power state of the record, and it writes the truth.
LEMMA PowerStep == TypeInv /\ PowerInv /\ [Next]_vars => PowerInv'
<1> SUFFICES ASSUME TypeInv, PowerInv, [Next]_vars,
                    faults' \cap {"power", "repower"} = {}, pc' \notin Over \cup {"resolve"}
             PROVE  resolved'.power_state = power'
  BY DEF PowerInv
<1>1. CASE Start
  BY <1>1 DEF Start, Over
<1>2. CASE ResolveStage
  <2>1. PICK named, p, l, s : /\ p \in Reply(power, "power", {"unrecognised", "failed"})
                              /\ resolved' = Resolve(vm, named, p, l, s)
    BY <1>2, Zenon DEF ResolveStage
  <2>2. UNCHANGED <<power, faults>>
    BY <1>2 DEF ResolveStage, source
  <2>3. p = power
    BY <2>1, <2>2 DEF Reply
  <2>4. power \in PowerStates
    BY TypeParts DEF TypeInv
  <2>5. resolved'.power_state = ParsePowerState(p)
    BY <2>1 DEF Resolve
  <2> QED
    BY <2>2, <2>3, <2>4, <2>5 DEF ParsePowerState
<1>3. CASE CapacityStage \/ CopyStage \/ ConvertStage \/ RegisterStage \/ RetryStage \/ Answer
  <2>1. UNCHANGED <<power, faults, resolved>>
    BY <1>3 DEF CapacityStage, CopyStage, ConvertStage, RegisterStage, RetryStage, Answer,
                source, results
  <2>2. pc \notin Over \cup {"resolve"}
    BY <1>3 DEF CapacityStage, CopyStage, ConvertStage, RegisterStage, RetryStage, Answer, Over
  <2> QED
    BY <2>1, <2>2 DEF PowerInv
<1>4. CASE Kill
  BY <1>4 DEF Kill, Over
<1>5. CASE PowerChange
  BY <1>5 DEF PowerChange
<1>6. CASE UNCHANGED vars
  BY <1>6 DEF vars, PowerInv
<1> QED
  BY <1>1, <1>2, <1>3, <1>4, <1>5, <1>6 DEF Next, Stage

\* Nothing of a running or suspended VM is copied without a human's consent, as
\* long as power.getstate answers and nobody touches the VM meanwhile.
THEOREM RunningVmIsSafeWhenKnown == Spec => KnownRunningVmNeverCopied
<1> DEFINE Safe == copied'.files # copied.files /\ copied'.files # <<>>
                     => \/ power = "poweredOff" \/ Consented("resolve")
                        \/ faults \cap {"power", "repower"} # {}
<1>1. ASSUME TypeInv, GateInv, PowerInv, [Next]_vars PROVE [Safe]_vars
  <2> SUFFICES ASSUME copied'.files # copied.files, copied'.files # <<>>,
                      faults \cap {"power", "repower"} = {}
               PROVE  power = "poweredOff" \/ Consented("resolve")
    OBVIOUS
  <2>1. CopyStage
    <3>1. ~Start
      BY DEF Start, NewRecord, Refused
    <3>2. ~(ResolveStage \/ CapacityStage \/ ConvertStage \/ RegisterStage \/ RetryStage
              \/ Answer \/ Kill \/ PowerChange \/ UNCHANGED vars)
      BY DEF ResolveStage, CapacityStage, ConvertStage, RegisterStage, RetryStage, Answer, Kill,
             PowerChange, source, results, record, vars
    <3> QED
      BY <1>1, <3>1, <3>2 DEF Next, Stage
  <2>2. pc = "copy"
    BY <2>1 DEF CopyStage
  <2>3. Earned("resolve")
    BY <1>1, <2>2 DEF GateInv, At, Later, Stages
  <2>4. resolved.power_state = power
    BY <1>1, <2>2 DEF PowerInv, Over
  <2>5. power \in PowerStates
    BY <1>1, TypeParts DEF TypeInv
  <2> QED
    BY <2>3, <2>4, <2>5 DEF Earned, Evidence, PowerStates
<1>2. KnownRunningVmNeverCopied <=> [][Safe]_vars
  BY PTL DEF KnownRunningVmNeverCopied, Safe
<1> QED
  BY <1>1, <1>2, Gates, TypeInit, TypeStep, PowerInit, PowerStep, PTL DEF Spec
-----------------------------------------------------------------------------
\* As long as nothing fails, a VM that calls for no decision takes one path: all
\* of it is listed, staged and converted, and every decision is to proceed.
Healthy == Unproblematic /\ faults = {}
Listed == Resolve(vm, TRUE, "poweredOff", "listed", vm.home)

UnattendedInv ==
    Healthy =>
        /\ pc \in Stages \cup {"idle", "returned"}
        /\ pc = "returned" => final_status = "migrated"
        /\ escalations = <<>>
        /\ pc \notin {"idle", "returned", "resolve"} => resolved = Listed
        /\ pc = "convert" => copied = Staged(PullOrder(Listed))
        /\ pc = "register" => image = "verified"

\* What RESOLVE makes of the truth about such a VM.
LEMMA ListedFacts ==
    ASSUME TypeInv, Unproblematic
    PROVE  LET files == vm.files
               wanted == IF Listed.has_snapshot_chain
                         THEN "snapshot_descriptor" ELSE "base_descriptor"
           IN  /\ files \in Seq(DiskFiles) /\ Listed.disk_files = files
               /\ Listed.resolution_ok /\ ~Listed.likely_appliance
               /\ Listed.power_state = "poweredOff"
               /\ Listed.datastore = vm.home /\ vm.home # NoDatastore
               /\ WithRole(files, wanted) # {}
               /\ wanted = IF HasSnapshotChain(files)
                           THEN "snapshot_descriptor" ELSE "base_descriptor"
<1>1. vm.files \in Seq(DiskFiles) /\ vm.home \in Datastores
  BY TypeParts, VmAssumption DEF TypeInv
<1>2. vm.home # NoDatastore
  BY <1>1, NameAssumption
<1>3. /\ Listed.disk_files = vm.files /\ (vm.files # <<>> => Listed.resolution_ok)
      /\ Listed.power_state = ParsePowerState("poweredOff")
      /\ Listed.datastore = DatastoreOf(vm.files, vm.home)
      /\ Listed.likely_appliance => vm.appliance
      /\ Listed.has_snapshot_chain = HasSnapshotChain(vm.files)
  BY DEF Listed, Resolve
<1>4. DatastoreOf(vm.files, vm.home) = vm.home
  BY <1>2 DEF DatastoreOf
<1>5. ParsePowerState("poweredOff") = "poweredOff"
  BY DEF ParsePowerState, PowerStates
<1>6. ~vm.appliance
  BY DEF Unproblematic
<1> DEFINE wanted == IF HasSnapshotChain(vm.files)
                     THEN "snapshot_descriptor" ELSE "base_descriptor"
<1>7. WithRole(vm.files, wanted) # {}
  BY Zenon DEF Unproblematic, ExpectsRightSize
<1>8. vm.files # <<>>
  BY <1>7 DEF WithRole
<1> QED
  BY <1>1, <1>2, <1>3, <1>4, <1>5, <1>6, <1>7, <1>8

\* Without a fault all the pulls succeed: every file is where it is looked for.
LEMMA HealthyCopy ==
    ASSUME TypeInv, Unproblematic, NEW result \in StageResults(vm, Listed, FALSE)
    PROVE  result = Staged(PullOrder(Listed))
<1> DEFINE files == vm.files
           pulls == PullOrder(Listed)
           good == {k \in 0..Len(pulls) : \A i \in 1..k : Reachable(Listed, pulls[i])}
<1>1. files \in Seq(DiskFiles) /\ Listed.disk_files = files
  BY ListedFacts
<1>2. Listed.resolution_ok /\ ~Listed.likely_appliance
  BY ListedFacts
<1>3. Listed.datastore = vm.home /\ Listed.datastore # NoDatastore /\ vm.plain
  BY ListedFacts DEF Unproblematic
<1>4. ~Listed.has_snapshot_chain => WithRole(files, "base_descriptor") # {}
  BY ListedFacts
<1>5. pulls \in Seq(DOMAIN files)
  <2> DEFINE path == Listed
  <2>1. path.disk_files \in Seq(DiskFiles)
        /\ (~path.has_snapshot_chain => WithRole(path.disk_files, "base_descriptor") # {})
    BY <1>1, <1>4
  <2>2. PullOrder(path) \in Seq(DOMAIN path.disk_files)
    <3> HIDE DEF path
    <3>1. CASE path.has_snapshot_chain
      BY ONLY <2>1, <3>1, ChainPulls
    <3>2. CASE ~path.has_snapshot_chain
      BY ONLY <2>1, <3>2, PairPulls
    <3> QED
      BY <3>1, <3>2
  <2> QED
    BY <1>1, <2>2
<1>6. \A i \in 1..Len(pulls) : Reachable(Listed, pulls[i])
  <2> SUFFICES ASSUME NEW i \in 1..Len(pulls) PROVE Reachable(Listed, pulls[i])
    OBVIOUS
  <2>1. pulls[i] \in DOMAIN files
    <3> HIDE DEF pulls, files
    <3> QED
      BY <1>5
  <2>2. files[pulls[i]].datastore = vm.home
    BY <2>1 DEF Unproblematic
  <2> QED
    BY <1>1, <1>3, <2>2 DEF Reachable
<1>7. Len(pulls) \in Nat
  <2> HIDE DEF pulls, files
  <2> QED
    BY <1>5
<1>8. good = 0..Len(pulls)
  <2> HIDE DEF pulls
  <2> QED
    BY <1>6, <1>7
<1>9. /\ Len(pulls) \in good
      /\ {k \in good : k < Len(pulls) /\ (FALSE \/ k + 1 \notin good)} = {}
  <2> HIDE DEF pulls, good
  <2> QED
    BY <1>7, <1>8
<1> DEFINE simple == ~Listed.has_snapshot_chain
           stops == {Stopped(SubSeq(pulls, 1, k)) :
                       k \in {k \in good : k < Len(pulls) /\ (FALSE \/ k + 1 \notin good)}}
           stale == IF simple /\ FALSE /\ Len(pulls) = 2 /\ 2 \in good
                    THEN {Stopped(pulls)} ELSE {}
<1>10. stops = {} /\ stale = {}
  <2> HIDE DEF pulls, good
  <2> QED
    BY <1>9
<1>11. StageResults(vm, Listed, FALSE)
         = stops \cup stale \cup (IF Len(pulls) \in good THEN {Staged(pulls)} ELSE {})
  BY <1>1, <1>2, <1>3, <1>4, Zenon DEF StageResults
<1> HIDE DEF stops, stale, good, pulls
<1>12. result \in {Staged(pulls)}
  BY <1>9, <1>10, <1>11
<1> QED
  BY <1>12 DEF pulls

\* What is converted then is the disk whose size is expected.
LEMMA HealthyConversion ==
    ASSUME TypeInv, Unproblematic, faults = {}, resolved = Listed,
           copied = Staged(PullOrder(Listed))
    PROVE  LET file == PickConvertSource(resolved, copied.files)
           IN  /\ file # 0
               /\ \A c \in Conversions(file) : c.ok /\ c.image = "verified"
<1> DEFINE files == vm.files
           wanted == IF Listed.has_snapshot_chain
                     THEN "snapshot_descriptor" ELSE "base_descriptor"
           from == Least(WithRole(files, wanted))
           sized == {i \in DOMAIN files : files[i].role \in Sized}
           file == PickConvertSource(resolved, copied.files)
<1>1. /\ files \in Seq(DiskFiles) /\ Listed.disk_files = files
      /\ WithRole(files, wanted) # {}
  BY ListedFacts
<1>2. file = from /\ from # 0
  <2> DEFINE path == Listed
             staged == PullOrder(path)
  <2>1. path.disk_files \in Seq(DiskFiles) /\ WithRole(path.disk_files, wanted) # {}
        /\ wanted = IF path.has_snapshot_chain
                    THEN "snapshot_descriptor" ELSE "base_descriptor"
    BY <1>1
  <2>2. Len(staged) = Len(PullOrder(path))
        /\ \A k \in 1..Len(staged) : staged[k] = PullOrder(path)[k]
    OBVIOUS
  <2>3. PickConvertSource(path, staged) = Least(WithRole(path.disk_files, wanted))
        /\ Least(WithRole(path.disk_files, wanted)) # 0
    <3> HIDE DEF path, staged, wanted
    <3> QED
      BY ONLY <2>1, <2>2, SourceOfPulls
  <2>4. copied.files = staged
    BY DEF Staged
  <2> QED
    BY <1>1, <2>3, <2>4
<1>3. sized # {} => /\ files[Least(sized)].role = "base_flat"
                    /\ files[Least(sized)].disk = files[from].disk
  <2>1. wanted = IF HasSnapshotChain(files)
                 THEN "snapshot_descriptor" ELSE "base_descriptor"
    BY ListedFacts
  <2> QED
    BY <2>1, Zenon DEF Unproblematic, ExpectsRightSize
<1>4. SizesAgree(from) = {TRUE}
  <2>1. resolved.disk_files = files
    BY <1>1
  <2>2. SizesAgree(from) =
          IF sized = {} THEN {TRUE}
          ELSE IF files[Least(sized)].role = "base_flat"
                  /\ files[Least(sized)].disk = files[from].disk
               THEN {TRUE} ELSE BOOLEAN
    BY <2>1, Zenon DEF SizesAgree
  <2> HIDE DEF sized, files, from
  <2> QED
    BY <1>3, <2>2
<1>5. copied.ok
  BY DEF Staged
<1> HIDE DEF from, file
<1>6. ASSUME NEW c \in Conversions(from) PROVE c.ok /\ c.image = "verified"
  BY <1>4, <1>5 DEF Conversions
<1> QED
  BY <1>2, <1>6 DEF file

\* To proceed is to go to the next stage.
LEMMA ProceedMoves ==
    ASSUME NEW stage, Decide(stage, "proceed")
    PROVE  Continue(stage)
  BY DEF Decide

\* Such a run starts from nothing.
LEMMA UnattendedInit == Init => UnattendedInv
  BY DEF Init, UnattendedInv, Stages

\* Every stage of such a run proceeds to the next.
LEMMA UnattendedStep == TypeInv /\ UnattendedInv /\ [Next]_vars => UnattendedInv'
<1> SUFFICES ASSUME TypeInv, UnattendedInv, [Next]_vars, Healthy' PROVE UnattendedInv'
  BY DEF UnattendedInv
<1>1. faults = {} /\ vm' = vm /\ power' = power
  <2>1. faults' = {}
    BY DEF Healthy
  <2>2. faults' = faults
    BY Zenon DEF Next, Stage, Start, ResolveStage, CapacityStage, CopyStage, ConvertStage, RegisterStage,
           RetryStage, Answer, Kill, PowerChange, source, vars
  <2>3. ~PowerChange
    BY <2>1, <2>2 DEF PowerChange
  <2>4. UNCHANGED source \/ UNCHANGED vars
    BY <2>3, Zenon DEF Next, Stage, Start, ResolveStage, CapacityStage, CopyStage, ConvertStage,
           RegisterStage, RetryStage, Answer, Kill
  <2> QED
    BY <2>1, <2>2, <2>4 DEF source, vars
<1>2. Healthy /\ Unproblematic /\ Listed' = Listed
  BY <1>1 DEF Healthy, Unproblematic, ExpectsRightSize, Listed
<1>3. /\ pc \in Stages \cup {"idle", "returned"}
      /\ pc = "returned" => final_status = "migrated"
      /\ escalations = <<>>
      /\ pc \notin {"idle", "returned", "resolve"} => resolved = Listed
      /\ pc = "convert" => copied = Staged(PullOrder(Listed))
      /\ pc = "register" => image = "verified"
  BY <1>2, Zenon DEF UnattendedInv
<1>4. SUFFICES /\ pc' \in Stages \cup {"idle", "returned"}
               /\ pc' = "returned" => final_status' = "migrated"
               /\ escalations' = <<>>
               /\ pc' \notin {"idle", "returned", "resolve"} => resolved' = Listed
               /\ pc' = "convert" => copied' = Staged(PullOrder(Listed))
               /\ pc' = "register" => image' = "verified"
  BY <1>2, Zenon DEF UnattendedInv
<1>5. CASE Start
  BY <1>1, <1>5 DEF Start, NewRecord, MisplacedStaging, Stages
<1>6. CASE ResolveStage
  <2>1. power = "poweredOff"
    BY <1>2 DEF Unproblematic
  <2>2. PICK named \in Reply(TRUE, "unnamed", {FALSE}),
             powerReply \in Reply(power, "power", {"unrecognised", "failed"}),
             layoutReply \in Reply("listed", "layout", {"failed", "nothing"}),
             summary \in Reply(vm.home, "summary", {NoDatastore}) :
           resolved' = Resolve(vm, named, powerReply, layoutReply, summary)
    BY <1>6, Zenon DEF ResolveStage
  <2>3. named = TRUE /\ powerReply = "poweredOff" /\ layoutReply = "listed" /\ summary = vm.home
    BY <1>1, <2>1, <2>2 DEF Reply
  <2>4. resolved' = Listed
    BY <2>2, <2>3 DEF Listed
  <2>5. DecideAfterResolve(resolved') = "proceed"
    <3>1. resolved'.resolution_ok /\ ~resolved'.likely_appliance
          /\ resolved'.power_state = "poweredOff"
      BY <1>2, <2>4, ListedFacts
    <3> QED
      BY <3>1 DEF DecideAfterResolve
  <2>6. Continue("resolve")
    BY <1>6, <2>5, ProceedMoves DEF ResolveStage
  <2>7. pc' = "capacity" /\ escalations' = escalations
    BY <1>6, <2>6 DEF Continue, NextStage, ResolveStage
  <2> QED
    BY <1>3, <2>4, <2>7 DEF Stages
<1>7. CASE CapacityStage
  <2>1. pc = "capacity" /\ UNCHANGED <<resolved, escalations>>
    BY <1>7 DEF CapacityStage
  <2>2. ~(MeasurePathRefused \/ "staging" \in faults)
    BY <1>1, <1>2 DEF MeasurePathRefused, Unproblematic
  <2>3. capacity' \in Reply(TRUE, "capacity", {FALSE}) /\ Decide("capacity", DecideOn(capacity'))
    BY <1>7, <2>2, Zenon DEF CapacityStage
  <2>4. DecideOn(capacity') = "proceed"
    BY <1>1, <2>3 DEF Reply, DecideOn
  <2>5. pc' = "copy"
    BY <2>3, <2>4, ProceedMoves DEF Continue, NextStage
  <2> QED
    BY <1>3, <2>1, <2>5 DEF Stages
<1>8. CASE CopyStage
  <2>1. pc = "copy" /\ UNCHANGED <<resolved, escalations>>
    BY <1>8 DEF CopyStage
  <2>2. resolved = Listed /\ ("pull" \in faults) = FALSE
    BY <1>1, <1>3, <2>1
  <2>3. PICK result \in StageResults(vm, Listed, FALSE) :
           IF result.raised THEN Raise /\ UNCHANGED copied
           ELSE copied' = result /\ Decide("copy", DecideOn(result.ok))
    BY <1>8, <2>2 DEF CopyStage
  <2>4. result = Staged(PullOrder(Listed))
    BY <1>2, <2>3, HealthyCopy
  <2>5. ~result.raised /\ result.ok
    BY <2>4 DEF Staged
  <2>6. copied' = result /\ Decide("copy", "proceed")
    BY <2>3, <2>5 DEF DecideOn
  <2>7. pc' = "convert"
    BY <2>6, ProceedMoves DEF Continue, NextStage
  <2> QED
    BY <1>3, <2>1, <2>2, <2>4, <2>6, <2>7 DEF Stages
<1>9. CASE ConvertStage
  <2> DEFINE file == PickConvertSource(resolved, copied.files)
  <2>1. pc = "convert" /\ UNCHANGED <<resolved, escalations>>
    BY <1>9 DEF ConvertStage
  <2>2. resolved = Listed /\ copied = Staged(PullOrder(Listed))
    BY <1>3, <2>1
  <2>3. file # 0 /\ \A c \in Conversions(file) : c.ok /\ c.image = "verified"
    BY <1>1, <1>2, <2>2, HealthyConversion
  <2> HIDE DEF file
  <2>4. PICK c \in Conversions(file) : image' = c.image /\ Decide("convert", DecideOn(c.ok))
    BY <1>9, <2>3 DEF ConvertStage, file
  <2>5. image' = "verified" /\ Decide("convert", "proceed")
    BY <2>3, <2>4 DEF DecideOn
  <2>6. pc' = "register"
    BY <2>5, ProceedMoves DEF Continue, NextStage
  <2> QED
    BY <1>3, <2>1, <2>2, <2>5, <2>6 DEF Stages
<1>10. CASE RegisterStage
  <2>1. pc = "register" /\ UNCHANGED escalations /\ image = "verified"
    BY <1>3, <1>10 DEF RegisterStage
  <2>2. registered' = Checks
    BY <1>1, <1>10, <2>1 DEF RegisterStage, Registrations
  <2>3. Decide("register", "proceed")
    BY <1>10, <2>2 DEF RegisterStage, DecideAfterRegister, FullyVerified
  <2>4. pc' = "returned" /\ final_status' = "migrated"
    BY <2>3, ProceedMoves DEF Continue, NextStage
  <2> QED
    BY <1>3, <2>1, <2>4
<1>11. CASE RetryStage \/ Answer
  BY <1>3, <1>11 DEF RetryStage, Answer, Stages
<1>12. CASE Kill
  BY <1>1, <1>12 DEF Kill
<1>13. CASE PowerChange
  BY <1>1, <1>13 DEF PowerChange
<1>14. CASE UNCHANGED vars
  BY <1>3, <1>14 DEF vars
<1> QED
  BY <1>5, <1>6, <1>7, <1>8, <1>9, <1>10, <1>11, <1>12, <1>13, <1>14 DEF Next, Stage

\* As long as nothing fails, a powered-off VM that calls for no decision, with
\* or without snapshots and whatever earlier runs left behind, is migrated
\* without a question, a retry or an exception: run_vm's decision table stops no
\* run for nothing.
THEOREM HealthyRunsAreUnattended == Spec => []HealthyRunIsUnattended
<1>1. UnattendedInv => HealthyRunIsUnattended
  BY DEF UnattendedInv, Healthy, HealthyRunIsUnattended, Unattended, Stages
<1> QED
  BY <1>1, TypeInit, TypeStep, UnattendedInit, UnattendedStep, PTL DEF Spec
=============================================================================
