----------------------- MODULE OrchestratorRefinement -----------------------
(***************************************************************************)
(* Orchestrator implements MigrationGate, for every VM, fault and answer.  *)
(*                                                                         *)
(* GateInv of OrchestratorProofs says that what is behind a run was        *)
(* warranted.  The refinement needs the other half: nothing is warranted   *)
(* that the run has not passed yet, the stage it is at included.  Without  *)
(* it a stage could pass on what an earlier run left.                      *)
(***************************************************************************)
EXTENDS OrchestratorProofs

AheadInv ==
    pc \notin Over => \A s \in Stages : At \notin Later[s] => ~Earned(s)

GateAt == IF pc \in Over THEN "over" ELSE At

\* At a stage: under way, and not over.
LEMMA AtStage ==
    ASSUME TypeInv, pc \notin Over
    PROVE  At \in Stages /\ GateAt = At
<1>1. pc \in Labels
  BY TypeParts DEF TypeInv
<1> QED
  BY <1>1, AskedIsStage DEF At, GateAt, Labels, Stages

\* Warrants depend on the evidence and on the answers alone.
LEMMA WarrantsKept ==
    ASSUME \A s \in Stages : (Evidence(s)' <=> Evidence(s)) /\ (Consented(s)' <=> Consented(s))
    PROVE  Warrants' = Warrants
  BY DEF Warrants

\* Before the first run there is no warrant and no outcome.
LEMMA RefinesInit == Init => Gate!Init
<1> SUFFICES ASSUME Init PROVE Gate!Init
  OBVIOUS
<1>1. \A s \in Stages : ~Evidence(s) /\ ~Consented(s)
  BY DEF Init, Stages, Evidence, Consented, Unresolved, Refused, NotConverted, FullyVerified, Checks
<1> QED
  BY <1>1 DEF Init, Gate!Init, Gate!Unpassed, Warrants, Outcome, Over

\* Nor is there anything ahead.
LEMMA NothingAhead == Init => AheadInv
  BY DEF Init, AheadInv, Over

\* A run that stops at a stage, its evidence and answers left as they are.
LEMMA StopRefines ==
    ASSUME TypeInv, pc \notin Over, pc' \in Over, Warrants' = Warrants,
           Outcome' \in {"declined", "lost"}
    PROVE  [Gate!Next]_(Gate!gate) /\ AheadInv'
<1>1. GateAt \in Stages /\ GateAt # "over" /\ GateAt' = "over" /\ pc' # "ask"
  BY AtStage DEF GateAt, Stages, Over
<1> QED
  BY <1>1 DEF Gate!Next, Gate!Stop, AheadInv, GateAt

\* A decision at a stage whose evidence has just been written.
LEMMA DecideRefines ==
    ASSUME TypeInv, GateInv, AheadInv, NEW stage \in Stages, NEW kind \in Kinds,
           Decide(stage, kind), kind = "apply_known_fix" => stage = "register",
           At = stage, pc \notin Over, pc # "ask", UNCHANGED escalations,
           \A s \in Stages \ {stage} : Evidence(s)' <=> Evidence(s),
           kind = "proceed" <=> Evidence(stage)'
    PROVE  [Gate!Next]_(Gate!gate) /\ AheadInv'
<1>1. \A s \in Stages : Consented(s)' <=> Consented(s)
  BY DEF Consented
<1>2. ~Evidence(stage) /\ ~Consented(stage) /\ final_status = "pending"
  BY DEF AheadInv, GateInv, Earned, Later, Stages
<1>3. GateAt = stage /\ stage # "over"
  BY AtStage DEF Stages
<1>4. kind # "proceed" => Warrants' = Warrants
  BY <1>1, <1>2, WarrantsKept
<1>5. CASE kind = "proceed" /\ Continue(stage)
  <2>1. Warrants' = [Warrants EXCEPT ![stage] = "evidence"]
    BY <1>1, <1>5 DEF Warrants
  <2>2. pc' = NextStage[stage] /\ pc' # "ask" /\ pc' # "raised" /\ pc' # "killed"
        /\ final_status' = IF stage = "register" THEN "migrated" ELSE final_status
    BY <1>5 DEF Continue, NextStage, Stages
  <2>3. IF NextStage[stage] = "returned" THEN GateAt' = "over" /\ stage = "register"
        ELSE GateAt' = NextStage[stage] /\ stage # "register"
             /\ At' = NextStage[stage] /\ pc' \notin Over
    BY <2>2 DEF GateAt, At, NextStage, Stages, Over
  <2>4. IF stage = "register" THEN Outcome' = "migrated" ELSE Outcome' = Outcome
    BY <1>2, <2>2 DEF Outcome, Over
  <2>5. Gate!Pass
    BY <1>3, <2>1, <2>2, <2>3, <2>4 DEF Gate!Pass, GateAt
  <2>6. AheadInv'
    <3> SUFFICES ASSUME pc' \notin Over, NEW s \in Stages, At' \notin Later[s]
                 PROVE  ~Earned(s)'
      BY DEF AheadInv
    <3>1. At' = NextStage[stage] /\ NextStage[stage] # "returned"
      BY <2>2, <2>3 DEF Over
    <3>2. s # stage /\ stage \notin Later[s]
      BY <3>1 DEF NextStage, Later, Stages
    <3> QED
      BY <1>1, <3>2 DEF AheadInv, Earned
  <2> QED
    BY <2>5, <2>6 DEF Gate!Next
<1>6. CASE /\ At' = stage /\ final_status' = final_status
           /\ pc' = IF kind = "apply_known_fix" THEN "retry" ELSE "ask"
           /\ kind # "proceed"
  <2>1. Warrants' = Warrants /\ pc' \notin Over /\ GateAt' = stage
    BY <1>4, <1>6 DEF Over, GateAt
  <2>2. Outcome' = Outcome
    BY <1>2, <1>6 DEF Outcome, Over
  <2>3. AheadInv'
    BY <1>1, <1>6, <2>1 DEF AheadInv, Earned
  <2>4. CASE pc' = "ask"
    BY <1>3, <2>1, <2>2, <2>3, <2>4 DEF Gate!Next, Gate!Ask, GateAt
  <2>5. CASE pc' = "retry"
    BY <1>3, <2>1, <2>2, <2>3, <2>5 DEF Gate!gate, GateAt
  <2> QED
    BY <1>6, <2>4, <2>5
<1>7. CASE pc' = "returned" /\ final_status' = "skipped" /\ kind # "proceed"
  <2>1. Outcome' = "declined"
    BY <1>7 DEF Outcome
  <2> QED
    BY <1>4, <1>7, <2>1, StopRefines DEF Over
<1> QED
  BY <1>5, <1>6, <1>7, DecideMoves DEF Decide

\* An exception at a stage that has no evidence yet.
LEMMA RaiseRefines ==
    ASSUME TypeInv, AheadInv, pc \notin Over, Raise, UNCHANGED escalations,
           \A s \in Stages : Evidence(s)' <=> Evidence(s)
    PROVE  [Gate!Next]_(Gate!gate) /\ AheadInv'
<1>1. \A s \in Stages : Consented(s)' <=> Consented(s)
  BY DEF Consented
<1>2. Warrants' = Warrants
  BY <1>1, WarrantsKept
<1>3. pc' \in Over /\ Outcome' = "lost"
  BY DEF Raise, Over, Outcome
<1> QED
  BY <1>2, <1>3, StopRefines

\* An answer adds its consent at the stage asked about and nowhere else.
LEMMA AnswerConsentsOnly ==
    ASSUME TypeInv, NEW answer \in Answers, RecordAnswer(answer), pc = "ask"
    PROVE  \A s \in Stages :
             Consented(s)' <=> Consented(s) \/ (answer = "proceed" /\ s = Asked)
<1> DEFINE e == [stage |-> Asked, answer |-> answer]
<1>1. escalations \in Seq(Answered) /\ e \in Answered
  BY AskedIsStage, TypeParts DEF TypeInv, Answered
<1>2. escalations' = Append(escalations, e)
  BY DEF RecordAnswer
<1>3. \A s \in Stages : e = [stage |-> s, answer |-> "proceed"] <=> answer = "proceed" /\ s = Asked
  OBVIOUS
<1> HIDE DEF e
<1>4. /\ Len(escalations') = Len(escalations) + 1
      /\ Len(escalations) \in Nat
      /\ \A i \in 1..Len(escalations) : escalations'[i] = escalations[i]
      /\ escalations'[Len(escalations) + 1] = e
  BY <1>1, <1>2
<1>5. 1..Len(escalations') = 1..Len(escalations) \cup {Len(escalations) + 1}
  BY <1>4
<1>6. \A s \in Stages :
        Consented(s)' <=> Consented(s) \/ e = [stage |-> s, answer |-> "proceed"]
  BY <1>4, <1>5 DEF Consented
<1> QED
  BY <1>3, <1>6

\* Every step of run_vm is one step of the gate or none.
LEMMA RefinesStep ==
    TypeInv /\ GateInv /\ AheadInv /\ [Next]_vars => [Gate!Next]_(Gate!gate) /\ AheadInv'
<1> SUFFICES ASSUME TypeInv, GateInv, AheadInv, [Next]_vars
             PROVE  [Gate!Next]_(Gate!gate) /\ AheadInv'
  OBVIOUS
<1>a. \A ok \in BOOLEAN : /\ DecideOn(ok) \in Kinds /\ DecideOn(ok) # "apply_known_fix"
                          /\ DecideOn(ok) = "proceed" <=> ok
  BY DEF DecideOn, Kinds
<1>1. CASE Start
  <2>1. \A s \in Stages : ~Evidence(s)' /\ ~Consented(s)'
    BY <1>1 DEF Start, NewRecord, Stages, Evidence, Consented, Unresolved, Refused,
                NotConverted, FullyVerified, Checks
  <2>2. Warrants' = Gate!Unpassed /\ AheadInv'
    BY <2>1 DEF Warrants, Gate!Unpassed, AheadInv, Earned
  <2>3. pc \in Over /\ pc # "ask" /\ pc' # "ask" /\ GateAt = "over"
    BY <1>1 DEF Start, Over, GateAt
  <2>4. CASE pc' = "resolve"
    <3>1. GateAt' = "resolve" /\ Outcome' = "open"
      BY <1>1, <2>4 DEF Start, NewRecord, GateAt, At, Over, Outcome
    <3> QED
      BY <2>2, <2>3, <3>1 DEF Gate!Next, Gate!Begin, GateAt
  <2>5. CASE pc' = "raised"
    <3>1. GateAt' = "over" /\ Outcome' = "lost"
      BY <2>5 DEF GateAt, Over, Outcome
    <3> QED
      BY <2>2, <2>3, <3>1 DEF Gate!Next, Gate!Refuse, GateAt
  <2> QED
    BY <1>1, <2>4, <2>5 DEF Start
<1>2. CASE ResolveStage
  <2> DEFINE kind == DecideAfterResolve(resolved')
  <2>1. kind \in Kinds /\ kind # "apply_known_fix"
    BY DEF DecideAfterResolve, Kinds
  <2>2. pc = "resolve" /\ Decide("resolve", kind)
        /\ UNCHANGED <<image, capacity, copied, converted, registered, escalations>>
    BY <1>2 DEF ResolveStage
  <2>3. resolved' \in ResolvedPaths
    BY TypeStep DEF TypeInv, TypeOK, ResolvedPaths
  <2>4. kind = "proceed" <=> Evidence("resolve")'
    BY <2>3 DEF DecideAfterResolve, Evidence, ResolvedPaths
  <2>5. At = "resolve" /\ pc \notin Over /\ "resolve" \in Stages
    BY <2>2 DEF At, Over, Stages
  <2>6. \A s \in Stages \ {"resolve"} : Evidence(s)' <=> Evidence(s)
    BY <2>2 DEF Evidence, Stages
  <2> HIDE DEF kind
  <2> QED
    BY <2>1, <2>2, <2>4, <2>5, <2>6, DecideRefines
<1>3. CASE CapacityStage
  <2>1. pc = "capacity"
        /\ UNCHANGED <<image, resolved, copied, converted, registered, escalations>>
    BY <1>3 DEF CapacityStage
  <2>2. At = "capacity" /\ pc \notin Over /\ "capacity" \in Stages
    BY <2>1 DEF At, Over, Stages
  <2>3. \A s \in Stages \ {"capacity"} : Evidence(s)' <=> Evidence(s)
    BY <2>1 DEF Evidence, Stages
  <2>4. CASE Raise /\ UNCHANGED capacity
    <3>1. \A s \in Stages : Evidence(s)' <=> Evidence(s)
      BY <2>1, <2>4 DEF Evidence, Stages
    <3> QED
      BY <2>1, <2>2, <2>4, <3>1, RaiseRefines
  <2>5. CASE capacity' \in BOOLEAN /\ Decide("capacity", DecideOn(capacity'))
    <3>1. DecideOn(capacity') = "proceed" <=> Evidence("capacity")'
      BY <1>a, <2>5 DEF Evidence
    <3> QED
      BY <1>a, <2>1, <2>2, <2>3, <2>5, <3>1, DecideRefines
  <2> QED
    BY <1>3, <2>4, <2>5 DEF CapacityStage, Reply
<1>4. CASE CopyStage
  <2>1. pc = "copy"
        /\ UNCHANGED <<image, resolved, capacity, converted, registered, escalations>>
    BY <1>4 DEF CopyStage
  <2>2. At = "copy" /\ pc \notin Over /\ "copy" \in Stages
    BY <2>1 DEF At, Over, Stages
  <2>3. \A s \in Stages \ {"copy"} : Evidence(s)' <=> Evidence(s)
    BY <2>1 DEF Evidence, Stages
  <2>4. PICK result \in StageResults(vm, resolved, "pull" \in faults) :
           IF result.raised THEN Raise /\ UNCHANGED copied
           ELSE copied' = result /\ Decide("copy", DecideOn(result.ok))
    BY <1>4 DEF CopyStage
  <2>5. CASE result.raised
    <3>1. \A s \in Stages : Evidence(s)' <=> Evidence(s)
      BY <2>1, <2>4, <2>5 DEF Evidence, Stages
    <3> QED
      BY <2>1, <2>2, <2>4, <2>5, <3>1, RaiseRefines
  <2>6. CASE ~result.raised
    <3>1. result.ok \in BOOLEAN
      BY StageResultsTyped, TypeParts DEF TypeInv, ResolvedPaths, CopyResults
    <3>2. copied' = result /\ Decide("copy", DecideOn(result.ok))
      BY <2>4, <2>6
    <3>3. DecideOn(result.ok) = "proceed" <=> Evidence("copy")'
      BY <1>a, <3>1, <3>2 DEF Evidence
    <3> QED
      BY <1>a, <2>1, <2>2, <2>3, <3>1, <3>2, <3>3, DecideRefines
  <2> QED
    BY <2>5, <2>6
<1>5. CASE ConvertStage
  <2> DEFINE file == PickConvertSource(resolved, copied.files)
  <2>1. pc = "convert" /\ UNCHANGED <<resolved, capacity, copied, registered, escalations>>
    BY <1>5 DEF ConvertStage
  <2>2. At = "convert" /\ pc \notin Over /\ "convert" \in Stages
    BY <2>1 DEF At, Over, Stages
  <2>3. \A s \in Stages \ {"convert"} : Evidence(s)' <=> Evidence(s)
    BY <2>1 DEF Evidence, Stages
  <2>4. CASE Raise /\ UNCHANGED <<image, converted>>
    <3>1. \A s \in Stages : Evidence(s)' <=> Evidence(s)
      BY <2>1, <2>4 DEF Evidence, Stages
    <3> QED
      BY <2>1, <2>2, <2>4, <3>1, RaiseRefines
  <2>5. ASSUME NEW c \in Conversions(file), converted' = [ok |-> c.ok, file |-> file],
               image' = c.image, Decide("convert", DecideOn(c.ok))
        PROVE  [Gate!Next]_(Gate!gate) /\ AheadInv'
    <3>1. c.ok \in BOOLEAN /\ (c.ok => c.image = "verified")
      BY DEF Conversions
    <3>2. DecideOn(c.ok) = "proceed" <=> Evidence("convert")'
      BY <1>a, <2>5, <3>1 DEF Evidence
    <3> QED
      BY <1>a, <2>1, <2>2, <2>3, <2>5, <3>1, <3>2, DecideRefines
  <2> QED
    BY <1>5, <2>4, <2>5 DEF ConvertStage
<1>6. CASE RegisterStage \/ RetryStage
  <2>1. pc \in {"register", "retry"}
        /\ UNCHANGED <<image, resolved, capacity, copied, converted, escalations>>
    BY <1>6 DEF RegisterStage, RetryStage
  <2>2. At = "register" /\ pc \notin Over /\ pc # "ask" /\ "register" \in Stages
    BY <2>1 DEF At, Over, Stages
  <2>3. \A s \in Stages \ {"register"} : Evidence(s)' <=> Evidence(s)
    BY <2>1 DEF Evidence, Stages
  <2>4. PICK retried : Decide("register", DecideAfterRegister(registered', retried))
    BY <1>6 DEF RegisterStage, RetryStage
  <2>5. DecideAfterRegister(registered', retried) \in Kinds
    BY DEF DecideAfterRegister, Kinds
  <2>6. DecideAfterRegister(registered', retried) = "proceed" <=> Evidence("register")'
    BY DEF DecideAfterRegister, Evidence
  <2> QED
    BY <2>1, <2>2, <2>3, <2>4, <2>5, <2>6, DecideRefines
<1>7. CASE Answer
  <2>1. pc = "ask" /\ pc \notin Over /\ Asked \in Stages /\ At = Asked
        /\ final_status = "pending" /\ GateAt = Asked
    BY <1>7, AskedIsStage DEF Answer, At, GateInv, GateAt, Over
  <2>2. PICK answer \in Answers :
           /\ RecordAnswer(answer)
           /\ \/ answer = "proceed" /\ Continue(Asked)
              \/ answer # "proceed" /\ pc' = "returned" /\ final_status' = StatusOfRefusal(answer)
    BY <1>7 DEF Answer
  <2>3. \A s \in Stages : Evidence(s)' <=> Evidence(s)
    BY <1>7 DEF Answer, results, Evidence
  <2>4. \A s \in Stages :
          Consented(s)' <=> Consented(s) \/ (answer = "proceed" /\ s = Asked)
    BY <2>1, <2>2, AnswerConsentsOnly
  <2>5. ~Evidence(Asked)
    BY <2>1 DEF AheadInv, Earned, Later, Stages
  <2>6. CASE answer = "proceed" /\ Continue(Asked)
    <3>1. PICK stage \in Stages : stage = Asked
      BY <2>1
    <3>2. Warrants' = [Warrants EXCEPT ![stage] = "consent"]
      BY <2>3, <2>4, <2>5, <2>6, <3>1 DEF Warrants
    <3>3. pc' = NextStage[stage] /\ pc' # "ask" /\ pc' # "raised" /\ pc' # "killed"
          /\ final_status' = IF stage = "register" THEN "migrated" ELSE "pending"
      BY <2>1, <2>6, <3>1 DEF Continue, NextStage, Stages
    <3>4. IF NextStage[stage] = "returned" THEN GateAt' = "over" /\ stage = "register"
          ELSE GateAt' = NextStage[stage] /\ stage # "register"
               /\ At' = NextStage[stage] /\ pc' \notin Over
      BY <3>3 DEF GateAt, At, NextStage, Stages, Over
    <3>5. Outcome = "open" /\ Outcome' = IF stage = "register" THEN "migrated" ELSE "open"
      BY <2>1, <3>3 DEF Outcome, Over
    <3>6. Gate!Pass
      BY <2>1, <3>1, <3>2, <3>3, <3>4, <3>5 DEF Gate!Pass, GateAt, Stages
    <3>7. AheadInv'
      <4> SUFFICES ASSUME pc' \notin Over, NEW s \in Stages, At' \notin Later[s]
                   PROVE  ~Earned(s)'
        BY DEF AheadInv
      <4>1. At' = NextStage[stage] /\ NextStage[stage] # "returned"
        BY <3>3, <3>4 DEF Over
      <4>2. s # stage /\ stage \notin Later[s]
        BY <4>1 DEF NextStage, Later, Stages
      <4> QED
        BY <2>1, <2>3, <2>4, <3>1, <4>2 DEF AheadInv, Earned
    <3> QED
      BY <3>6, <3>7 DEF Gate!Next
  <2>7. CASE answer # "proceed" /\ pc' = "returned" /\ final_status' = StatusOfRefusal(answer)
    <3>1. Warrants' = Warrants
      BY <2>3, <2>4, <2>7, WarrantsKept
    <3>2. pc' \in Over /\ Outcome' = "declined"
      BY <2>7 DEF Over, Outcome, StatusOfRefusal
    <3> QED
      BY <2>1, <3>1, <3>2, StopRefines
  <2> QED
    BY <2>2, <2>6, <2>7
<1>8. CASE Kill
  <2>1. pc \notin Over /\ pc' = "killed" /\ UNCHANGED <<results, escalations>>
        /\ image' \in IF pc = "convert" THEN {image, "unverified"} ELSE {image}
    BY <1>8 DEF Kill, record
  <2>2. image' # image => ~Evidence("convert")
    BY <2>1 DEF AheadInv, Earned, At, Later, Stages
  <2>3. \A s \in Stages : Evidence(s)' <=> Evidence(s)
    BY <2>1, <2>2 DEF results, Evidence
  <2>4. \A s \in Stages : Consented(s)' <=> Consented(s)
    BY <2>1 DEF Consented
  <2>5. pc' \in Over /\ Outcome' = "lost"
    BY <2>1 DEF Over, Outcome
  <2> QED
    BY <2>1, <2>3, <2>4, <2>5, WarrantsKept, StopRefines
<1>9. CASE PowerChange \/ UNCHANGED vars
  <2>1. UNCHANGED <<image, pc, results, decisions, escalations, final_status>>
    BY <1>9 DEF PowerChange, record, results, vars
  <2>2. /\ \A s \in Stages : Evidence(s)' <=> Evidence(s)
        /\ \A s \in Stages : Consented(s)' <=> Consented(s)
        /\ At' = At /\ Outcome' = Outcome
    BY <2>1 DEF results, Evidence, Consented, At, Asked, Outcome
  <2>3. Warrants' = Warrants
    BY <2>2, WarrantsKept
  <2>4. UNCHANGED Gate!gate
    BY <2>1, <2>2, <2>3 DEF Gate!gate
  <2>5. AheadInv'
    BY <2>1, <2>2 DEF AheadInv, Earned
  <2> QED
    BY <2>4, <2>5
<1> QED
  BY <1>1, <1>2, <1>3, <1>4, <1>5, <1>6, <1>7, <1>8, <1>9 DEF Next, Stage

\* run_vm implements MigrationGate for every VM, every fault and every answer:
\* the stages are passed in order, each on its own evidence or on the consent
\* asked for at it, nothing is inherited from an earlier run of the same VM.
THEOREM MigrationGateRefinement == Spec => RefinesMigrationGate
  BY RefinesInit, NothingAhead, RefinesStep, Gates, PTL
     DEF Spec, RefinesMigrationGate, Gate!Spec
=============================================================================
