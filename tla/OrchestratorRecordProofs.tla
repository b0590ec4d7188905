---------------------- MODULE OrchestratorRecordProofs ----------------------
(***************************************************************************)
(* Proofs about what the record of a run says: its audit trail, the known  *)
(* fix, and the file it was converted from.                                *)
(*                                                                         *)
(* The audit trail is inductive only together with its order: what was     *)
(* decided and answered lies behind the stage the run is at, so that a     *)
(* question is never about a stage that was asked about before.            *)
(***************************************************************************)
EXTENDS OrchestratorProofs

\* What was decided, and the answers, are about stages that were passed; a
\* decision about the present stage is the known fix, or what is being asked.
BehindInv ==
    pc \notin Over =>
        /\ \A k \in 1..Len(decisions) :
             \/ At \in Later[decisions[k].stage]
             \/ /\ decisions[k].stage = At
                /\ \/ decisions[k].kind = "apply_known_fix" /\ pc # "register"
                   \/ k = Len(decisions) /\ pc = "ask"
        /\ \A i \in 1..Len(escalations) :
             At \in Later[escalations[i].stage] /\ escalations[i].answer = "proceed"

\* Answers and questions correspond.
AnswersInv ==
    /\ \A i \in 1..Len(escalations) : \E k \in 1..Len(decisions) :
         decisions[k] = Question(escalations[i].stage)
    /\ \A k \in 1..Len(decisions) : decisions[k].kind = "escalate" =>
         \/ \E i \in 1..Len(escalations) : escalations[i].stage = decisions[k].stage
         \/ k = Len(decisions) /\ pc \in {"ask", "killed"}
    /\ \A i, j \in 1..Len(escalations) : \A k, l \in 1..Len(decisions) :
         i < j /\ decisions[k] = Question(escalations[i].stage)
               /\ decisions[l] = Question(escalations[j].stage) => k < l
    /\ pc = "ask" => decisions[Len(decisions)].kind = "escalate"

\* The last decision or answer gives the status.
EndInv ==
    pc = "returned" =>
        /\ \A i \in 1..Len(escalations) :
             i < Len(escalations) => escalations[i].answer = "proceed"
        /\ \/ decisions[Len(decisions)].kind = "proceed" /\ final_status = "migrated"
           \/ decisions[Len(decisions)].kind = "skip" /\ final_status = "skipped"
           \/ /\ decisions[Len(decisions)].kind = "escalate"
              /\ \/ escalations[Len(escalations)].answer = "proceed" /\ final_status = "migrated"
                 \/ escalations[Len(escalations)].answer = "skip" /\ final_status = "skipped"
                 \/ escalations[Len(escalations)].answer = "abort" /\ final_status = "needs_human"

AuditInv == BehindInv /\ AnswersInv /\ EndInv
-----------------------------------------------------------------------------
\* What was on record stays where it is when an entry is added.
LEMMA Appended ==
    ASSUME NEW T, NEW s \in Seq(T), NEW e \in T
    PROVE  /\ Append(s, e) \in Seq(T) /\ Len(s) \in Nat
           /\ Len(Append(s, e)) = Len(s) + 1
           /\ \A k \in 1..Len(s) : Append(s, e)[k] = s[k]
           /\ Append(s, e)[Len(s) + 1] = e
  OBVIOUS

\* No stage comes after itself, and the next stage comes after all that came
\* before.
LEMMA StageOrder ==
    ASSUME NEW s \in Stages
    PROVE  /\ s \notin Later[s]
           /\ NextStage[s] # "returned" =>
                /\ NextStage[s] \in Later[s] /\ NextStage[s] \in Stages
                /\ \A t \in Stages : s \in Later[t] => NextStage[s] \in Later[t]
           /\ NextStage[s] = "returned" <=> s = "register"
           /\ NextStage[s] \notin {"ask", "retry", "idle", "raised", "killed"}
  BY DEF Stages, Later, NextStage

\* What a step of run_vm does to the audit trail.
LEMMA RecordSteps ==
    ASSUME TypeInv, [Next]_vars
    PROVE  \/ /\ pc' \in {"resolve", "raised"}
              /\ decisions' = <<>> /\ escalations' = <<>>
           \/ \E stage \in Stages \ {"register"}, kind \in Kinds \ {"apply_known_fix"} :
                pc = stage /\ Decide(stage, kind) /\ escalations' = escalations
           \/ \E retried \in BOOLEAN :
                /\ pc = IF retried THEN "retry" ELSE "register"
                /\ Decide("register", DecideAfterRegister(registered', retried))
                /\ escalations' = escalations
           \/ Answer
           \/ /\ pc \notin Over /\ (pc' = "killed" \/ (pc' = "raised" /\ pc # "ask"))
              /\ UNCHANGED <<decisions, escalations, final_status, registered>>
           \/ UNCHANGED <<pc, decisions, escalations, final_status, registered>>
<1>a. \A ok : DecideOn(ok) \in Kinds \ {"apply_known_fix"}
  BY DEF DecideOn, Kinds
<1>1. CASE Start
  BY <1>1 DEF Start, NewRecord
<1>2. CASE ResolveStage
  <2>1. DecideAfterResolve(resolved') \in Kinds \ {"apply_known_fix"}
    BY DEF DecideAfterResolve, Kinds
  <2>2. /\ pc = "resolve" /\ escalations' = escalations
        /\ Decide("resolve", DecideAfterResolve(resolved'))
    BY <1>2 DEF ResolveStage
  <2> QED
    BY <2>1, <2>2 DEF Stages
<1>3. CASE CapacityStage
  <2>1. /\ pc = "capacity" /\ UNCHANGED <<escalations, registered>>
        /\ Raise \/ Decide("capacity", DecideOn(capacity'))
    BY <1>3 DEF CapacityStage
  <2> QED
    BY <1>a, <2>1 DEF Raise, Stages, Over
<1>4. CASE CopyStage
  <2>1. /\ pc = "copy" /\ UNCHANGED <<escalations, registered>>
        /\ Raise \/ \E ok : Decide("copy", DecideOn(ok))
    BY <1>4 DEF CopyStage
  <2> QED
    BY <1>a, <2>1 DEF Raise, Stages, Over
<1>5. CASE ConvertStage
  <2>1. /\ pc = "convert" /\ UNCHANGED <<escalations, registered>>
        /\ Raise \/ \E ok : Decide("convert", DecideOn(ok))
    BY <1>5 DEF ConvertStage
  <2> QED
    BY <1>a, <2>1 DEF Raise, Stages, Over
<1>6. CASE RegisterStage
  BY <1>6 DEF RegisterStage
<1>7. CASE RetryStage
  BY <1>7 DEF RetryStage
<1>8. CASE Kill
  BY <1>8 DEF Kill, record, results
<1>9. CASE PowerChange \/ UNCHANGED vars
  BY <1>9 DEF PowerChange, record, results, vars
<1> QED
  BY <1>1, <1>2, <1>3, <1>4, <1>5, <1>6, <1>7, <1>8, <1>9 DEF Next, Stage

\* A record without entries explains itself.
LEMMA AuditInit == Init => AuditInv
<1> SUFFICES ASSUME Init PROVE AuditInv
  OBVIOUS
<1>1. pc = "idle" /\ Len(decisions) = 0 /\ Len(escalations) = 0
  BY DEF Init
<1>2. 1..Len(decisions) = {} /\ 1..Len(escalations) = {}
  BY <1>1
<1> QED
  BY <1>1, <1>2, Zenon DEF AuditInv, BehindInv, AnswersInv, EndInv, Over

\* A decision at the stage the run is at.
LEMMA AuditDecide ==
    ASSUME TypeInv, AuditInv, NEW stage \in Stages, NEW kind \in Kinds,
           Decide(stage, kind), escalations' = escalations, At = stage,
           pc \in Stages \cup {"retry"},
           kind = "apply_known_fix" => pc = "register"
    PROVE  AuditInv'
<1> DEFINE n == Len(decisions)
           d == [stage |-> stage, kind |-> kind]
<1>1. /\ decisions \in Seq(Decisions) /\ escalations \in Seq(Answered) /\ d \in Decisions
  BY TypeParts DEF TypeInv, Decisions
<1>2. decisions' = Append(decisions, d)
  BY DEF Decide
<1>3. /\ n \in Nat /\ Len(decisions') = n + 1
      /\ \A k \in 1..n : decisions'[k] = decisions[k]
      /\ decisions'[n + 1] = d
  <2> HIDE DEF d
  <2> QED
    BY <1>1, <1>2, Appended
<1>4. pc \notin Over /\ pc # "ask" /\ pc # "killed"
  BY DEF Stages, Over
<1>5. kind = "apply_known_fix" => stage = "register"
  BY DEF At
<1>6. \A k \in 1..(n + 1) : k \in 1..n \/ k = n + 1
  BY <1>3
<1>7. \A k \in 1..n : decisions[k].stage \in Stages
  <2>1. \A k \in 1..n : decisions[k] \in Decisions
    BY <1>1
  <2> QED
    BY <2>1 DEF Decisions
<1>8. \A i \in 1..Len(escalations) : escalations[i].stage \in Stages
  <2>1. \A i \in 1..Len(escalations) : escalations[i] \in Answered
    BY <1>1
  <2> QED
    BY <2>1 DEF Answered
<1>9. /\ pc' = (IF kind = "proceed" THEN NextStage[stage]
                ELSE IF kind = "apply_known_fix" THEN "retry"
                ELSE IF kind = "escalate" THEN "ask" ELSE "returned")
      /\ pc' \notin Over => At' = IF kind = "proceed" THEN NextStage[stage] ELSE stage
  <2>1. pc' = (IF kind = "proceed" THEN NextStage[stage]
               ELSE IF kind = "apply_known_fix" THEN "retry"
               ELSE IF kind = "escalate" THEN "ask" ELSE "returned")
    BY DEF Decide, Continue, Kinds
  <2>2. kind = "escalate" => At' = stage
    BY <1>5, <2>1, DecideMoves DEF Continue
  <2> QED
    BY <1>5, <2>1, <2>2, StageOrder DEF At, Over, Stages
<1> HIDE DEF n
<1>10. BehindInv'
  <2> SUFFICES ASSUME pc' \notin Over
               PROVE  /\ \A k \in 1..(n + 1) :
                           \/ At' \in Later[decisions'[k].stage]
                           \/ /\ decisions'[k].stage = At'
                              /\ \/ decisions'[k].kind = "apply_known_fix" /\ pc' # "register"
                                 \/ k = n + 1 /\ pc' = "ask"
                      /\ \A i \in 1..Len(escalations) :
                           At' \in Later[escalations[i].stage] /\ escalations[i].answer = "proceed"
    BY <1>3 DEF BehindInv
  <2>1. /\ At' = (IF kind = "proceed" THEN NextStage[stage] ELSE stage) /\ kind # "skip"
        /\ kind = "proceed" => NextStage[stage] # "returned"
    BY <1>9 DEF Over, Kinds
  <2>2. \A t \in Stages : stage \in Later[t] => At' \in Later[t]
    BY <2>1, StageOrder
  <2>3. ASSUME NEW k \in 1..n
        PROVE  \/ At' \in Later[decisions[k].stage]
               \/ /\ decisions[k].stage = At'
                  /\ decisions[k].kind = "apply_known_fix" /\ pc' # "register"
    <3>1. \/ stage \in Later[decisions[k].stage]
          \/ /\ decisions[k].stage = stage
             /\ decisions[k].kind = "apply_known_fix" /\ pc # "register"
      BY <1>4 DEF AuditInv, BehindInv, n
    <3>2. CASE stage \in Later[decisions[k].stage]
      BY <1>7, <2>2, <3>2
    <3>3. CASE /\ decisions[k].stage = stage
               /\ decisions[k].kind = "apply_known_fix" /\ pc # "register"
      <4>1. kind # "apply_known_fix"
        BY <3>3
      <4>2. kind = "proceed" => At' \in Later[stage]
        BY <2>1, StageOrder
      <4>3. kind = "escalate" => pc' = "ask" /\ At' = stage
        BY <1>9, <2>1
      <4> QED
        BY <2>1, <3>3, <4>1, <4>2, <4>3 DEF Kinds
    <3> QED
      BY <3>1, <3>2, <3>3
  <2>4. \/ At' \in Later[d.stage]
        \/ d.stage = At' /\ ((d.kind = "apply_known_fix" /\ pc' # "register") \/ pc' = "ask")
    <3>1. kind = "proceed" => At' \in Later[stage]
      BY <2>1, StageOrder
    <3>2. kind = "escalate" => pc' = "ask" /\ At' = stage
      BY <1>9, <2>1
    <3>3. kind = "apply_known_fix" => pc' = "retry" /\ At' = stage
      BY <1>9, <2>1
    <3> QED
      BY <2>1, <3>1, <3>2, <3>3 DEF Kinds
  <2>5. ASSUME NEW i \in 1..Len(escalations)
        PROVE  At' \in Later[escalations[i].stage] /\ escalations[i].answer = "proceed"
    BY <1>4, <1>8, <2>2 DEF AuditInv, BehindInv
  <2> HIDE DEF d
  <2> QED
    BY <1>3, <1>6, <2>3, <2>4, <2>5
<1>11. AnswersInv'
  <2>1. \A i \in 1..Len(escalations) : escalations[i].stage # stage
    BY <1>4, StageOrder DEF AuditInv, BehindInv
  <2>2. \A i \in 1..Len(escalations) : \E k \in 1..(n + 1) :
          decisions'[k] = Question(escalations[i].stage)
    BY <1>3 DEF AuditInv, AnswersInv, n
  <2>3. ASSUME NEW k \in 1..n, decisions[k].kind = "escalate"
        PROVE  \E i \in 1..Len(escalations) : escalations[i].stage = decisions[k].stage
    BY <1>4, <2>3 DEF AuditInv, AnswersInv, n
  <2>4. d.kind = "escalate" => pc' = "ask"
    BY <1>9
  <2>5. \A k \in 1..(n + 1) : decisions'[k].kind = "escalate" =>
          \/ \E i \in 1..Len(escalations) : escalations[i].stage = decisions'[k].stage
          \/ k = n + 1 /\ pc' \in {"ask", "killed"}
    <3> HIDE DEF d
    <3> QED
      BY <1>3, <1>6, <2>3, <2>4
  <2>6. ASSUME NEW i \in 1..Len(escalations), NEW k \in 1..(n + 1),
               decisions'[k] = Question(escalations[i].stage)
        PROVE  k \in 1..n /\ decisions[k] = Question(escalations[i].stage)
    <3>1. d # Question(escalations[i].stage)
      BY <2>1 DEF Question
    <3> HIDE DEF d
    <3> QED
      BY <1>3, <1>6, <2>6, <3>1
  <2>7. \A i, j \in 1..Len(escalations) : \A k, l \in 1..(n + 1) :
          i < j /\ decisions'[k] = Question(escalations[i].stage)
                /\ decisions'[l] = Question(escalations[j].stage) => k < l
    BY <2>6 DEF AuditInv, AnswersInv, n
  <2>8. pc' = "ask" => decisions'[n + 1].kind = "escalate"
    BY <1>3, <1>9, StageOrder
  <2> HIDE DEF d
  <2>9. Len(decisions') = n + 1
    BY <1>3
  <2> QED
    BY <2>2, <2>5, <2>7, <2>8, <2>9 DEF AnswersInv
<1>12. EndInv'
  <2> SUFFICES ASSUME pc' = "returned"
               PROVE  /\ \A i \in 1..Len(escalations) : escalations[i].answer = "proceed"
                      /\ \/ d.kind = "proceed" /\ final_status' = "migrated"
                         \/ d.kind = "skip" /\ final_status' = "skipped"
    BY <1>3 DEF EndInv
  <2>1. \A i \in 1..Len(escalations) : escalations[i].answer = "proceed"
    BY <1>4 DEF AuditInv, BehindInv
  <2>2. kind = "proceed" => stage = "register"
    BY <1>9, StageOrder
  <2>3. kind = "proceed" \/ kind = "skip"
    BY <1>9 DEF Kinds
  <2> QED
    BY <2>1, <2>2, <2>3 DEF Decide, Continue
<1> QED
  BY <1>10, <1>11, <1>12 DEF AuditInv

\* The answer to what is being asked.
LEMMA AuditAnswer == ASSUME TypeInv, AuditInv, Answer PROVE AuditInv'
<1> DEFINE n == Len(decisions)
           m == Len(escalations)
<1>1. PICK answer \in Answers :
          /\ RecordAnswer(answer)
          /\ \/ answer = "proceed" /\ Continue(Asked)
             \/ answer # "proceed" /\ pc' = "returned" /\ final_status' = StatusOfRefusal(answer)
  BY DEF Answer
<1> DEFINE e == [stage |-> Asked, answer |-> answer]
<1>2. pc = "ask" /\ decisions' = decisions /\ Asked \in Stages /\ At = Asked /\ pc \notin Over
  BY AskedIsStage DEF Answer, At, Over
<1>3. /\ decisions \in Seq(Decisions) /\ decisions # <<>>
      /\ escalations \in Seq(Answered) /\ e \in Answered
  BY <1>2, TypeParts DEF TypeInv, Answered
<1>4. escalations' = Append(escalations, e)
  BY <1>1 DEF RecordAnswer
<1>5. /\ m \in Nat /\ Len(escalations') = m + 1
      /\ \A i \in 1..m : escalations'[i] = escalations[i]
      /\ escalations'[m + 1] = e
  <2> HIDE DEF e
  <2> QED
    BY <1>3, <1>4, Appended
<1>6. \A i \in 1..(m + 1) : i \in 1..m \/ i = m + 1
  BY <1>5
<1>7. /\ n \in Nat /\ n \in 1..n
      /\ decisions[n] = Question(Asked)
  <2>1. n \in Nat /\ n \in 1..n /\ decisions[n] \in Decisions
    BY <1>3
  <2>2. decisions[n].kind = "escalate" /\ decisions[n].stage = Asked
    BY <1>2 DEF AuditInv, AnswersInv, Asked
  <2> QED
    BY <2>1, <2>2 DEF Decisions, Question
<1>8. \A i \in 1..m : escalations[i].stage \in Stages
  <2>1. \A i \in 1..m : escalations[i] \in Answered
    BY <1>3
  <2> QED
    BY <2>1 DEF Answered
<1>9. \A k \in 1..n : decisions[k].stage \in Stages
  <2>1. \A k \in 1..n : decisions[k] \in Decisions
    BY <1>3
  <2> QED
    BY <2>1 DEF Decisions
<1>10. \A i \in 1..m : Asked \in Later[escalations[i].stage] /\ escalations[i].answer = "proceed"
  BY <1>2 DEF AuditInv, BehindInv
<1>11. \A k \in 1..n : Asked \in Later[decisions[k].stage] \/ decisions[k].stage = Asked
  BY <1>2 DEF AuditInv, BehindInv
<1>12. \A k \in 1..n : decisions[k] = Question(Asked) => k = n
  BY <1>2, StageOrder DEF AuditInv, BehindInv, Question
<1>13. pc' = IF answer = "proceed" THEN NextStage[Asked] ELSE "returned"
  BY <1>1 DEF Continue
<1> HIDE DEF n, m
<1>14. BehindInv'
  <2> SUFFICES ASSUME pc' \notin Over
               PROVE  /\ \A k \in 1..n : At' \in Later[decisions[k].stage]
                      /\ \A i \in 1..(m + 1) :
                           At' \in Later[escalations'[i].stage] /\ escalations'[i].answer = "proceed"
    BY <1>2, <1>5 DEF BehindInv, n
  <2>1. answer = "proceed" /\ pc' = NextStage[Asked] /\ NextStage[Asked] # "returned"
    BY <1>13 DEF Over
  <2>2. At' = NextStage[Asked]
    BY <1>2, <2>1, StageOrder DEF At
  <2>3. /\ At' \in Later[Asked]
        /\ \A t \in Stages : Asked \in Later[t] => At' \in Later[t]
    BY <1>2, <2>1, <2>2, StageOrder
  <2>4. \A k \in 1..n : At' \in Later[decisions[k].stage]
    BY <1>9, <1>11, <2>3
  <2>5. \A i \in 1..m : At' \in Later[escalations[i].stage] /\ escalations[i].answer = "proceed"
    BY <1>8, <1>10, <2>3
  <2>6. At' \in Later[e.stage] /\ e.answer = "proceed"
    BY <2>1, <2>3
  <2> HIDE DEF e
  <2> QED
    BY <1>5, <1>6, <2>4, <2>5, <2>6
<1>15. AnswersInv'
  <2>1. \A i \in 1..(m + 1) : \E k \in 1..n : decisions[k] = Question(escalations'[i].stage)
    <3>1. \A i \in 1..m : \E k \in 1..n : decisions[k] = Question(escalations[i].stage)
      BY DEF AuditInv, AnswersInv, n, m
    <3>2. decisions[n] = Question(e.stage)
      BY <1>7
    <3> HIDE DEF e
    <3> QED
      BY <1>5, <1>6, <1>7, <3>1, <3>2
  <2>2. ASSUME NEW k \in 1..n, decisions[k].kind = "escalate"
        PROVE  \E i \in 1..(m + 1) : escalations'[i].stage = decisions[k].stage
    <3>1. (\E i \in 1..m : escalations[i].stage = decisions[k].stage) \/ k = n
      BY <2>2 DEF AuditInv, AnswersInv, n, m
    <3>2. k = n => decisions[k].stage = e.stage
      BY <1>7 DEF Question
    <3>3. m + 1 \in 1..(m + 1) /\ \A i \in 1..m : i \in 1..(m + 1)
      BY <1>5
    <3> HIDE DEF e
    <3> QED
      BY <1>5, <3>1, <3>2, <3>3
  <2>3. ASSUME NEW i \in 1..(m + 1), NEW j \in 1..(m + 1), NEW k \in 1..n, NEW l \in 1..n, i < j,
               decisions[k] = Question(escalations'[i].stage),
               decisions[l] = Question(escalations'[j].stage)
        PROVE  k < l
    <3>1. i \in 1..m
      BY <1>5, <2>3
    <3>2. escalations'[i] = escalations[i]
      BY <1>5, <3>1
    <3>3. CASE j \in 1..m
      <4>1. escalations'[j] = escalations[j]
        BY <1>5, <3>3
      <4> QED
        BY <2>3, <3>1, <3>2, <3>3, <4>1 DEF AuditInv, AnswersInv, n, m
    <3>4. CASE j = m + 1
      <4>1. decisions[l] = Question(Asked)
        BY <1>5, <2>3, <3>4
      <4>2. l = n
        BY <1>12, <4>1
      <4>3. decisions[k].stage = escalations[i].stage /\ decisions[n].stage = Asked
        BY <1>7, <2>3, <3>2 DEF Question
      <4>4. escalations[i].stage # Asked
        BY <1>2, <1>10, <3>1, StageOrder
      <4>5. k # n
        BY <4>3, <4>4
      <4> QED
        BY <1>7, <4>2, <4>5
    <3> QED
      BY <1>6, <3>3, <3>4
  <2>4. pc' # "ask"
    BY <1>2, <1>13, StageOrder
  <2> HIDE DEF e
  <2>5. n = Len(decisions) /\ n' = n /\ Len(escalations') = m + 1 /\ decisions' = decisions
    BY <1>2, <1>5 DEF n
  <2> QED
    BY <2>1, <2>2, <2>3, <2>4, <2>5 DEF AnswersInv
<1>16. EndInv'
  <2> SUFFICES ASSUME pc' = "returned"
               PROVE  /\ \A i \in 1..m : escalations[i].answer = "proceed"
                      /\ decisions[n].kind = "escalate"
                      /\ \/ e.answer = "proceed" /\ final_status' = "migrated"
                         \/ e.answer = "skip" /\ final_status' = "skipped"
                         \/ e.answer = "abort" /\ final_status' = "needs_human"
    <3>1. \A i \in 1..(m + 1) : i < m + 1 => i \in 1..m
      BY <1>5
    <3> HIDE DEF e
    <3> QED
      BY <1>2, <1>5, <3>1 DEF EndInv, n
  <2>1. decisions[n].kind = "escalate"
    BY <1>7 DEF Question
  <2>2. answer = "proceed" => Asked = "register" /\ final_status' = "migrated"
    BY <1>1, <1>2, <1>13, StageOrder DEF Continue
  <2>3. answer # "proceed" => final_status' = IF answer = "skip" THEN "skipped" ELSE "needs_human"
    BY <1>1 DEF StatusOfRefusal
  <2>4. answer \in {"proceed", "skip", "abort"}
    BY DEF Answers
  <2> QED
    BY <1>10, <2>1, <2>2, <2>3, <2>4
<1> QED
  BY <1>14, <1>15, <1>16 DEF AuditInv

\* Every entry a step makes keeps the record consistent.
LEMMA AuditStep == TypeInv /\ AuditInv /\ [Next]_vars => AuditInv'
<1> SUFFICES ASSUME TypeInv, AuditInv, [Next]_vars PROVE AuditInv'
  OBVIOUS
<1>1. CASE pc' \in {"resolve", "raised"} /\ decisions' = <<>> /\ escalations' = <<>>
  <2>1. 1..Len(decisions') = {} /\ 1..Len(escalations') = {}
    BY <1>1
  <2>2. pc' # "ask" /\ pc' # "returned"
    BY <1>1
  <2> QED
    BY <2>1, <2>2, Zenon DEF AuditInv, BehindInv, AnswersInv, EndInv
<1>2. ASSUME NEW stage \in Stages \ {"register"}, NEW kind \in Kinds \ {"apply_known_fix"},
             pc = stage, Decide(stage, kind), escalations' = escalations
      PROVE  AuditInv'
  <2>1. At = stage
    BY <1>2 DEF At, Stages
  <2> QED
    BY <1>2, <2>1, AuditDecide
<1>3. ASSUME NEW retried \in BOOLEAN, pc = IF retried THEN "retry" ELSE "register",
             Decide("register", DecideAfterRegister(registered', retried)),
             escalations' = escalations
      PROVE  AuditInv'
  <2>1. At = "register" /\ pc \in Stages \cup {"retry"} /\ "register" \in Stages
    BY <1>3 DEF At, Stages
  <2>2. /\ DecideAfterRegister(registered', retried) \in Kinds
        /\ DecideAfterRegister(registered', retried) = "apply_known_fix" => ~retried
    BY DEF DecideAfterRegister, Kinds
  <2> QED
    BY <1>3, <2>1, <2>2, AuditDecide
<1>4. CASE /\ pc \notin Over /\ (pc' = "killed" \/ (pc' = "raised" /\ pc # "ask"))
           /\ UNCHANGED <<decisions, escalations, final_status, registered>>
  <2>1. BehindInv' /\ EndInv'
    BY <1>4 DEF BehindInv, EndInv, Over
  <2>2. AnswersInv'
    BY <1>4 DEF AuditInv, AnswersInv, Over
  <2> QED
    BY <2>1, <2>2 DEF AuditInv
<1>5. CASE UNCHANGED <<pc, decisions, escalations, final_status, registered>>
  <2>1. At' = At
    BY <1>5 DEF At, Asked
  <2> QED
    BY <1>5, <2>1 DEF AuditInv, BehindInv, AnswersInv, EndInv
<1> QED
  BY <1>1, <1>2, <1>3, <1>4, <1>5, AuditAnswer, RecordSteps

\* The audit trail of a run that returned explains its status: questions and
\* answers correspond one to one and in order, only the last answer may be a
\* refusal, and the last decision or answer gives the status (_handle_decision,
\* orchestrator.py 318-341).
THEOREM RecordExplainsStatus == Spec => []AuditIsComplete
<1>1. TypeInv /\ AuditInv => AuditIsComplete
  <2> SUFFICES ASSUME TypeInv, AuditInv, pc = "returned" PROVE AuditIsComplete
    BY DEF AuditIsComplete
  <2>1. \A k \in 1..Len(decisions) : decisions[k] \in Decisions
    BY TypeParts DEF TypeInv
  <2>2. ASSUME NEW stage \in Stages
        PROVE  (\E k \in 1..Len(decisions) : decisions[k] = Question(stage))
                 <=> (\E i \in 1..Len(escalations) : escalations[i].stage = stage)
    <3>1. ASSUME NEW k \in 1..Len(decisions), decisions[k] = Question(stage)
          PROVE  \E i \in 1..Len(escalations) : escalations[i].stage = stage
      <4>1. decisions[k].kind = "escalate" /\ decisions[k].stage = stage
        BY <3>1 DEF Question
      <4> QED
        BY <4>1 DEF AuditInv, AnswersInv
    <3>2. ASSUME NEW i \in 1..Len(escalations), escalations[i].stage = stage
          PROVE  \E k \in 1..Len(decisions) : decisions[k] = Question(stage)
      BY <3>2 DEF AuditInv, AnswersInv
    <3> QED
      BY <3>1, <3>2
  <2>3. \A i, j \in 1..Len(escalations) : \A k, l \in 1..Len(decisions) :
          i < j /\ decisions[k] = Question(escalations[i].stage)
                /\ decisions[l] = Question(escalations[j].stage) => k < l
    BY DEF AuditInv, AnswersInv
  <2>4. EndInv
    BY DEF AuditInv
  <2> QED
    BY <2>2, <2>3, <2>4 DEF AuditIsComplete, EndInv
<1>2. Spec => [](TypeInv /\ AuditInv)
  BY TypeInit, TypeStep, AuditInit, AuditStep, PTL DEF Spec
<1> QED
  BY <1>1, <1>2, PTL
-----------------------------------------------------------------------------
(***************************************************************************)
(* The known fix.                                                          *)
(***************************************************************************)
IsFix(k) == decisions[k].kind = "apply_known_fix"
Fixed == \E k \in 1..Len(decisions) : IsFix(k)

FixInv ==
    /\ \A k \in 1..Len(decisions) : IsFix(k) => decisions[k].stage = "register"
    /\ \A k, l \in 1..Len(decisions) : IsFix(k) /\ IsFix(l) => k = l
    /\ pc = "retry" => Fixed
    /\ pc = "ask" /\ Asked = "register" /\ AttachmentNotVerified(registered) => Fixed

\* No fix was tried before the first run.
LEMMA FixInit == Init => FixInv
<1> SUFFICES ASSUME Init PROVE FixInv
  OBVIOUS
<1>1. pc = "idle" /\ 1..Len(decisions) = {}
  BY DEF Init
<1> QED
  BY <1>1, Zenon DEF FixInv

\* A decision that is added is the only fix, or none.
LEMMA FixDecide ==
    ASSUME TypeInv, FixInv, NEW stage \in Stages, NEW kind \in Kinds, Decide(stage, kind),
           kind = "apply_known_fix" => stage = "register" /\ ~Fixed,
           kind = "escalate" /\ stage = "register" /\ AttachmentNotVerified(registered)' => Fixed
    PROVE  FixInv'
<1> DEFINE n == Len(decisions)
           d == [stage |-> stage, kind |-> kind]
<1>1. /\ decisions \in Seq(Decisions) /\ d \in Decisions
      /\ decisions' = Append(decisions, d)
  BY TypeParts DEF TypeInv, Decisions, Decide
<1>2. /\ n \in Nat /\ Len(decisions') = n + 1
      /\ \A k \in 1..n : decisions'[k] = decisions[k]
      /\ decisions'[n + 1] = d
  <2> HIDE DEF d
  <2> QED
    BY <1>1, Appended
<1>3. \A k \in 1..(n + 1) : k \in 1..n \/ k = n + 1
  BY <1>2
<1>4. \A k \in 1..(n + 1) :
        IsFix(k)' <=> IF k = n + 1 THEN kind = "apply_known_fix" ELSE IsFix(k)
  BY <1>2, <1>3 DEF IsFix
<1>5. Fixed' <=> Fixed \/ kind = "apply_known_fix"
  <2>1. n + 1 \in 1..(n + 1) /\ \A k \in 1..n : k \in 1..(n + 1)
    BY <1>2
  <2> QED
    BY <1>2, <1>3, <1>4, <2>1 DEF Fixed, n
<1>6. pc' = "retry" => kind = "apply_known_fix"
  BY StageOrder DEF Decide, Continue
<1>7. pc' = "ask" => kind = "escalate" /\ Asked' = stage
  <2>1. pc' = "ask" => kind = "escalate"
    BY StageOrder DEF Decide, Continue
  <2> QED
    BY <1>2, <2>1 DEF Asked
<1> HIDE DEF d
<1>8. \A k \in 1..Len(decisions') : IsFix(k)' => decisions'[k].stage = "register"
  <2>1. kind = "apply_known_fix" => d.stage = "register"
    BY DEF d
  <2> QED
    BY <1>2, <1>3, <1>4, <2>1 DEF FixInv, n
<1>9. \A k, l \in 1..Len(decisions') : IsFix(k)' /\ IsFix(l)' => k = l
  <2>1. kind = "apply_known_fix" => \A k \in 1..n : ~IsFix(k)
    BY DEF Fixed, n
  <2> QED
    BY <1>2, <1>3, <1>4, <2>1 DEF FixInv, n
<1>10. pc' = "retry" => Fixed'
  BY <1>5, <1>6
<1>11. pc' = "ask" /\ Asked' = "register" /\ AttachmentNotVerified(registered)' => Fixed'
  BY <1>5, <1>7
<1> QED
  BY <1>8, <1>9, <1>10, <1>11 DEF FixInv

\* Only the first decision on REGISTER records a fix.
LEMMA FixStep == TypeInv /\ AuditInv /\ FixInv /\ [Next]_vars => FixInv'
<1> SUFFICES ASSUME TypeInv, AuditInv, FixInv, [Next]_vars PROVE FixInv'
  OBVIOUS
<1>1. CASE pc' \in {"resolve", "raised"} /\ decisions' = <<>> /\ escalations' = <<>>
  <2>1. 1..Len(decisions') = {} /\ pc' # "ask" /\ pc' # "retry"
    BY <1>1
  <2> QED
    BY <2>1, Zenon DEF FixInv
<1>2. ASSUME NEW stage \in Stages \ {"register"}, NEW kind \in Kinds \ {"apply_known_fix"},
             pc = stage, Decide(stage, kind), escalations' = escalations
      PROVE  FixInv'
  BY <1>2, FixDecide
<1>3. ASSUME NEW retried \in BOOLEAN, pc = IF retried THEN "retry" ELSE "register",
             Decide("register", DecideAfterRegister(registered', retried)),
             escalations' = escalations
      PROVE  FixInv'
  <2> DEFINE kind == DecideAfterRegister(registered', retried)
  <2>1. kind \in Kinds /\ "register" \in Stages
    BY DEF DecideAfterRegister, Kinds, Stages
  <2>2. CASE retried
    <3>1. kind # "apply_known_fix"
      BY <2>2 DEF DecideAfterRegister
    <3>2. Fixed
      BY <1>3, <2>2 DEF FixInv
    <3> QED
      BY <1>3, <2>1, <3>1, <3>2, FixDecide
  <2>3. CASE ~retried
    <3>1. pc = "register" /\ At = "register" /\ pc \notin Over /\ pc # "ask"
      BY <1>3, <2>3 DEF At, Over
    <3>2. \A k \in 1..Len(decisions) : decisions[k].stage # "register"
      BY <3>1 DEF AuditInv, BehindInv, Later
    <3>3. ~Fixed
      BY <3>2 DEF Fixed, FixInv
    <3>4. kind = "escalate" => ~AttachmentNotVerified(registered')
      BY <2>3 DEF DecideAfterRegister
    <3>5. AttachmentNotVerified(registered)' <=> AttachmentNotVerified(registered')
      BY DEF AttachmentNotVerified
    <3> HIDE DEF kind
    <3>6. Decide("register", kind)
      BY <1>3 DEF kind
    <3> QED
      BY <2>1, <3>3, <3>4, <3>5, <3>6, FixDecide
  <2> QED
    BY <2>2, <2>3
<1>4. CASE Answer
  <2>1. pc' # "ask" /\ pc' # "retry" /\ decisions' = decisions
    BY <1>4, AskedIsStage, StageOrder DEF Answer, Continue
  <2> QED
    BY <2>1 DEF FixInv, IsFix
<1>5. CASE /\ pc \notin Over /\ (pc' = "killed" \/ (pc' = "raised" /\ pc # "ask"))
           /\ UNCHANGED <<decisions, escalations, final_status, registered>>
  <2>1. pc' # "ask" /\ pc' # "retry" /\ decisions' = decisions
    BY <1>5
  <2> QED
    BY <2>1 DEF FixInv, IsFix
<1>6. CASE UNCHANGED <<pc, decisions, escalations, final_status, registered>>
  BY <1>6 DEF FixInv, IsFix, Fixed, Asked, AttachmentNotVerified
<1> QED
  BY <1>1, <1>2, <1>3, <1>4, <1>5, <1>6, RecordSteps

\* The known fix is tried once in a run, and a silent attachment failure does
\* not reach the human before it was (orchestrator.py 148-166, 286-297).
THEOREM FixIsTriedOnce == Spec => []SilentFailureIsRetriedOnce
<1>1. FixInv => SilentFailureIsRetriedOnce
  BY DEF FixInv, SilentFailureIsRetriedOnce, IsFix, Fixed
<1>2. Spec => [](TypeInv /\ AuditInv /\ FixInv)
  BY TypeInit, TypeStep, AuditInit, AuditStep, FixInit, FixStep, PTL DEF Spec
<1> QED
  BY <1>1, <1>2, PTL
-----------------------------------------------------------------------------
(***************************************************************************)
(* The file that was converted.  Positions in the record are positions in  *)
(* the VM's own list of files, or there are none.                          *)
(***************************************************************************)
Wanted == IF resolved.has_snapshot_chain THEN "snapshot_descriptor" ELSE "base_descriptor"

ImageInv ==
    /\ resolved.has_snapshot_chain = HasSnapshotChain(resolved.disk_files)
    /\ resolved.disk_files \in {<<>>, vm.files}
    /\ copied.files \in Seq(DOMAIN resolved.disk_files)
    /\ pc = "resolve" => copied.files = <<>> /\ ~converted.ok
    /\ converted.ok =>
         /\ converted.file \in DOMAIN resolved.disk_files
         /\ resolved.disk_files[converted.file].role = Wanted

\* Parts of a sequence.
LEMMA PartsOfSequence ==
    ASSUME NEW T
    PROVE  /\ <<>> \in Seq(T)
           /\ \A x \in T : <<x>> \in Seq(T)
           /\ \A s \in Seq(T) : /\ \A k \in 0..Len(s) : SubSeq(s, 1, k) \in Seq(T)
                               /\ \A k \in 1..Len(s) : s[k] \in T
  OBVIOUS

\* Without files there are no snapshots.
LEMMA NoFilesNoChain == HasSnapshotChain(<<>>) = FALSE
<1>1. \A role : WithRole(<<>>, role) = {}
  BY DEF WithRole
<1> QED
  BY <1>1 DEF HasSnapshotChain

\* stage_vm_disk pulls files that are listed.
LEMMA PullsAreListed ==
    ASSUME NEW path, path.disk_files \in Seq(DiskFiles)
    PROVE  PullOrder(path) \in Seq(DOMAIN path.disk_files)
<1> DEFINE files == path.disk_files
           first(role) == LET S == WithRole(files, role) IN IF S = {} THEN <<>> ELSE <<Least(S)>>
<1>1. [i \in DOMAIN files |-> i] \in Seq(DOMAIN files)
  BY IsASeq
<1>2. ASSUME NEW role PROVE first(role) \in Seq(DOMAIN files)
  <2>1. WithRole(files, role) \in SUBSET Nat /\ WithRole(files, role) \subseteq DOMAIN files
    BY DEF WithRole
  <2>2. CASE WithRole(files, role) = {}
    BY <2>2
  <2>3. CASE WithRole(files, role) # {}
    <3>1. Least(WithRole(files, role)) \in DOMAIN files
      BY <2>1, <2>3, LeastIsThere
    <3>2. <<Least(WithRole(files, role))>> \in Seq(DOMAIN files)
      <4> HIDE DEF files
      <4> QED
        BY <3>1, PartsOfSequence
    <3> QED
      BY <2>3, <3>2
  <2> QED
    BY <2>2, <2>3
<1>3. first("base_flat") \o first("base_descriptor") \in Seq(DOMAIN files)
  <2> HIDE DEF first
  <2> QED
    BY <1>2
<1> QED
  BY <1>1, <1>3 DEF PullOrder

\* So does it report them.
LEMMA StagedAreListed ==
    ASSUME NEW v, NEW path, path.disk_files \in Seq(DiskFiles), NEW u,
           NEW result \in StageResults(v, path, u)
    PROVE  result.files \in Seq(DOMAIN path.disk_files)
<1> DEFINE pulls == PullOrder(path)
<1>1. pulls \in Seq(DOMAIN path.disk_files)
  BY PullsAreListed
<1>2. \A k \in 0..Len(pulls) : SubSeq(pulls, 1, k) \in Seq(DOMAIN path.disk_files)
  <2> HIDE DEF pulls
  <2> QED
    BY <1>1, PartsOfSequence
<1>3. \/ result = Refused \/ result = Raised
      \/ result = Stopped(pulls) \/ result = Staged(pulls)
      \/ \E k \in 0..Len(pulls) : result = Stopped(SubSeq(pulls, 1, k))
  BY Zenon DEF StageResults
<1>4. Refused.files = <<>> /\ Raised.files = <<>>
  BY DEF Refused, Raised
<1>5. \A f : Stopped(f).files = f /\ Staged(f).files = f
  BY DEF Stopped, Staged
<1>6. <<>> \in Seq(DOMAIN path.disk_files)
  OBVIOUS
<1> HIDE DEF pulls
<1> QED
  BY <1>1, <1>2, <1>3, <1>4, <1>5, <1>6

\* _pick_convert_source finds a staged file of the kind it looks for.
LEMMA SourceIsListed ==
    ASSUME NEW T, copied.files \in Seq(T), PickConvertSource(resolved, copied.files) # 0
    PROVE  LET file == PickConvertSource(resolved, copied.files)
           IN  file \in T /\ resolved.disk_files[file].role = Wanted
<1> DEFINE found == {k \in 1..Len(copied.files) :
                       resolved.disk_files[copied.files[k]].role = Wanted}
<1>1. PickConvertSource(resolved, copied.files) =
        IF found = {} THEN 0 ELSE copied.files[Least(found)]
  BY DEF PickConvertSource, Wanted
<1>2. found # {} /\ found \in SUBSET Nat /\ found \in SUBSET (1..Len(copied.files))
  BY <1>1
<1>3. Least(found) \in found
  <2> HIDE DEF found
  <2> QED
    BY <1>2, LeastIsThere
<1>4. copied.files[Least(found)] \in T
  <2>1. Least(found) \in 1..Len(copied.files)
    BY <1>2, <1>3
  <2> HIDE DEF found
  <2> QED
    BY <2>1, PartsOfSequence
<1>5. resolved.disk_files[copied.files[Least(found)]].role = Wanted
  BY <1>3
<1> QED
  BY <1>1, <1>2, <1>4, <1>5

\* Nothing was copied or converted before the first run.
LEMMA ImageInit == Init => ImageInv
<1> SUFFICES ASSUME Init PROVE ImageInv
  OBVIOUS
<1>1. /\ resolved.has_snapshot_chain = FALSE /\ resolved.disk_files = <<>>
      /\ copied.files = <<>> /\ converted.ok = FALSE
  BY DEF Init, Unresolved, NotConverted, Refused
<1> QED
  BY <1>1, NoFilesNoChain, PartsOfSequence DEF ImageInv

\* Only a start leads back to RESOLVE.
LEMMA ResolveIsFirst ==
    ASSUME NEW stage \in Stages, NEW kind, Decide(stage, kind) \/ Continue(stage) \/ Raise
    PROVE  pc' # "resolve"
  BY DEF Decide, Continue, Raise, NextStage, Stages

\* Every step keeps what is copied and converted to the files resolved.
LEMMA ImageStep == TypeInv /\ ImageInv /\ [Next]_vars => ImageInv'
<1> SUFFICES ASSUME TypeInv, ImageInv, [Next]_vars PROVE ImageInv'
  OBVIOUS
<1> USE DEF ImageInv
<1>1. ASSUME UNCHANGED <<vm, resolved, copied, converted>>, pc' # "resolve" \/ pc' = pc
      PROVE  ImageInv'
  BY <1>1 DEF Wanted
<1>2. CASE Start
  <2>1. resolved' = Unresolved /\ copied' = Refused /\ converted' = NotConverted
    BY <1>2 DEF Start, NewRecord
  <2> QED
    BY <2>1, NoFilesNoChain, PartsOfSequence DEF Unresolved, NotConverted, Refused
<1>3. CASE ResolveStage
  <2>1. PICK named, p, l, s : resolved' = Resolve(vm, named, p, l, s)
    BY <1>3, Zenon DEF ResolveStage
  <2>2. /\ resolved'.has_snapshot_chain = HasSnapshotChain(resolved'.disk_files)
        /\ resolved'.disk_files \in {<<>>, vm.files}
    BY <2>1 DEF Resolve
  <2>3. copied.files = <<>> /\ ~converted.ok /\ UNCHANGED <<vm, copied, converted>>
    BY <1>3 DEF ResolveStage, source
  <2>4. pc' # "resolve"
    BY <1>3, ResolveIsFirst DEF ResolveStage, Stages
  <2>5. copied'.files \in Seq(DOMAIN resolved'.disk_files)
    BY <2>3, PartsOfSequence
  <2> QED
    BY <2>2, <2>3, <2>4, <2>5
<1>4. CASE CapacityStage
  <2>1. UNCHANGED <<vm, resolved, copied, converted>>
    BY <1>4 DEF CapacityStage, source
  <2>2. pc' # "resolve"
    BY <1>4, ResolveIsFirst DEF CapacityStage, Stages
  <2> QED
    BY <1>1, <2>1, <2>2
<1>5. CASE CopyStage
  <2>1. PICK result \in StageResults(vm, resolved, "pull" \in faults) :
           IF result.raised THEN Raise /\ UNCHANGED copied
           ELSE copied' = result /\ Decide("copy", DecideOn(result.ok))
    BY <1>5 DEF CopyStage
  <2>2. result.files \in Seq(DOMAIN resolved.disk_files)
    <3>1. resolved.disk_files \in Seq(DiskFiles)
      BY TypeParts DEF TypeInv, ResolvedPaths
    <3> QED
      BY <3>1, StagedAreListed
  <2>3. pc' # "resolve"
    BY <2>1, ResolveIsFirst DEF Stages
  <2>4. copied'.files \in Seq(DOMAIN resolved.disk_files)
    BY <2>1, <2>2
  <2>5. UNCHANGED <<vm, resolved, converted>>
    BY <1>5 DEF CopyStage, source
  <2> QED
    BY <2>3, <2>4, <2>5 DEF Wanted
<1>6. CASE ConvertStage
  <2> DEFINE file == PickConvertSource(resolved, copied.files)
  <2>1. /\ UNCHANGED <<vm, resolved, copied>>
        /\ \/ Raise /\ UNCHANGED converted
           \/ /\ file # 0
              /\ \E c : converted' = [ok |-> c.ok, file |-> file]
                        /\ Decide("convert", DecideOn(c.ok))
    BY <1>6 DEF ConvertStage, source
  <2>2. pc' # "resolve"
    BY <2>1, ResolveIsFirst DEF Stages
  <2>3. file # 0 => /\ file \in DOMAIN resolved.disk_files
                    /\ resolved.disk_files[file].role = Wanted
    BY SourceIsListed
  <2> HIDE DEF file
  <2>4. converted'.ok => /\ converted'.file \in DOMAIN resolved.disk_files
                         /\ resolved.disk_files[converted'.file].role = Wanted
    BY <2>1, <2>3
  <2>5. Wanted' = Wanted
    BY <2>1 DEF Wanted
  <2> QED
    BY <2>1, <2>2, <2>4, <2>5
<1>7. CASE RegisterStage \/ RetryStage
  <2>1. UNCHANGED <<vm, resolved, copied, converted>>
    BY <1>7 DEF RegisterStage, RetryStage, source
  <2>2. pc' # "resolve"
    BY <1>7, ResolveIsFirst DEF RegisterStage, RetryStage, Stages
  <2> QED
    BY <1>1, <2>1, <2>2
<1>8. CASE Answer
  <2>1. UNCHANGED <<vm, resolved, copied, converted>>
    BY <1>8 DEF Answer, source, results
  <2>2. pc' # "resolve"
    BY <1>8, AskedIsStage, ResolveIsFirst DEF Answer
  <2> QED
    BY <1>1, <2>1, <2>2
<1>9. CASE Kill \/ PowerChange \/ UNCHANGED vars
  BY <1>1, <1>9 DEF Kill, PowerChange, source, record, results, vars
<1> QED
  BY <1>2, <1>3, <1>4, <1>5, <1>6, <1>7, <1>8, <1>9 DEF Next, Stage

-----------------------------------------------------------------------------
(***************************************************************************)
(* What was staged by the time of a conversion that verifies.              *)
(***************************************************************************)
StagedInv ==
    /\ pc = "resolve" => ~copied.ok
    /\ copied.ok =>
         /\ copied.files = PullOrder(resolved)
         /\ resolved.has_snapshot_chain \/ WithRole(resolved.disk_files, "base_descriptor") # {}
    /\ converted.ok =>
         /\ At \in {"convert", "register"} \/ pc \in Over
         /\ copied.ok \/ (resolved.has_snapshot_chain /\ Consented("copy"))

\* A complete copy made every pull, of a layout stage_vm_disk accepts.
LEMMA CompleteCopy ==
    ASSUME NEW v, NEW path, NEW u, NEW result \in StageResults(v, path, u), result.ok
    PROVE  /\ result.files = PullOrder(path)
           /\ path.has_snapshot_chain \/ WithRole(path.disk_files, "base_descriptor") # {}
<1> DEFINE pulls == PullOrder(path)
<1>1. ~Refused.ok /\ ~Raised.ok
  BY DEF Refused, Raised
<1>2. \A f : ~Stopped(f).ok /\ Staged(f).ok /\ Staged(f).files = f
  BY DEF Stopped, Staged
<1>3. path.has_snapshot_chain \/ WithRole(path.disk_files, "base_descriptor") # {}
  BY <1>1, Zenon DEF StageResults
<1>4. \/ result = Refused \/ result = Raised
      \/ result = Stopped(pulls) \/ result = Staged(pulls)
      \/ \E k \in 0..Len(pulls) : result = Stopped(SubSeq(pulls, 1, k))
  BY Zenon DEF StageResults
<1> HIDE DEF pulls
<1>5. result.files = pulls
  BY <1>1, <1>2, <1>4
<1> QED
  BY <1>3, <1>5 DEF pulls

\* A decision on CONVERT or REGISTER leads to no earlier stage.
LEMMA LateStaysLate ==
    ASSUME TypeInv, NEW stage \in {"convert", "register"}, NEW kind \in Kinds,
           Decide(stage, kind) \/ Raise
    PROVE  At' \in {"convert", "register"} \/ pc' \in Over
<1>1. CASE Raise
  BY <1>1 DEF Raise, Over
<1>2. CASE Decide(stage, kind) /\ kind = "escalate"
  <2>1. pc' = "ask" /\ decisions' = Append(decisions, [stage |-> stage, kind |-> kind])
    BY <1>2 DEF Decide
  <2>2. decisions \in Seq(Decisions) /\ [stage |-> stage, kind |-> kind] \in Decisions
    BY TypeParts DEF TypeInv, Decisions, Stages
  <2>3. Asked' = stage
    <3> DEFINE d == [stage |-> stage, kind |-> kind]
    <3>1. d.stage = stage
      OBVIOUS
    <3> HIDE DEF d
    <3>2. decisions'[Len(decisions')] = d
      BY <2>1, <2>2 DEF d
    <3> QED
      BY <3>1, <3>2 DEF Asked
  <2> QED
    BY <2>1, <2>3 DEF At
<1>3. CASE Decide(stage, kind) /\ kind # "escalate"
  <2>1. pc' = "retry" \/ pc' = "returned" \/ pc' = NextStage[stage]
    BY <1>3 DEF Decide, Continue
  <2> QED
    BY <2>1 DEF At, Over, NextStage
<1> QED
  BY <1>1, <1>2, <1>3

\* Nothing was staged before the first run.
LEMMA StagedInit == Init => StagedInv
  BY DEF Init, StagedInv, Refused, NotConverted

\* Every step keeps to it: what verifies was copied, or waved through as a
\* chain.
LEMMA StagedStep == TypeInv /\ GateInv /\ StagedInv /\ [Next]_vars => StagedInv'
<1> SUFFICES ASSUME TypeInv, GateInv, StagedInv, [Next]_vars PROVE StagedInv'
  OBVIOUS
<1> USE DEF StagedInv
<1>1. CASE Start
  BY <1>1 DEF Start, NewRecord, Refused, NotConverted
<1>2. CASE ResolveStage
  <2>1. ~copied.ok /\ ~converted.ok /\ UNCHANGED <<copied, converted>>
    <3>1. pc = "resolve" /\ UNCHANGED <<copied, converted>>
      BY <1>2 DEF ResolveStage
    <3> QED
      BY <3>1 DEF At, Over
  <2> QED
    BY <2>1
<1>3. CASE CapacityStage
  <2>1. ~converted.ok /\ UNCHANGED <<resolved, copied, converted>>
    <3>1. pc = "capacity" /\ UNCHANGED <<resolved, copied, converted>>
      BY <1>3 DEF CapacityStage
    <3> QED
      BY <3>1 DEF At, Over
  <2>2. pc' # "resolve"
    BY <1>3, ResolveIsFirst DEF CapacityStage, Stages
  <2> QED
    BY <2>1, <2>2
<1>4. CASE CopyStage
  <2>1. ~converted.ok /\ UNCHANGED <<resolved, converted>>
    <3>1. pc = "copy" /\ UNCHANGED <<resolved, converted>>
      BY <1>4 DEF CopyStage
    <3> QED
      BY <3>1 DEF At, Over
  <2>2. PICK result \in StageResults(vm, resolved, "pull" \in faults) :
           IF result.raised THEN Raise /\ UNCHANGED copied
           ELSE copied' = result /\ Decide("copy", DecideOn(result.ok))
    BY <1>4 DEF CopyStage
  <2>3. pc' # "resolve"
    BY <2>2, ResolveIsFirst DEF Stages
  <2>4. result.ok =>
          /\ result.files = PullOrder(resolved)
          /\ resolved.has_snapshot_chain \/ WithRole(resolved.disk_files, "base_descriptor") # {}
    BY CompleteCopy
  <2>5. PullOrder(resolved)' = PullOrder(resolved)
    BY <2>1 DEF PullOrder
  <2> QED
    BY <2>1, <2>2, <2>3, <2>4, <2>5
<1>5. CASE ConvertStage
  <2> DEFINE file == PickConvertSource(resolved, copied.files)
  <2>1. /\ pc = "convert" /\ UNCHANGED <<resolved, copied, escalations>>
        /\ \/ Raise /\ UNCHANGED converted
           \/ \E c \in Conversions(file) :
                converted' = [ok |-> c.ok, file |-> file] /\ Decide("convert", DecideOn(c.ok))
    BY <1>5 DEF ConvertStage
  <2> HIDE DEF file
  <2>2. \A ok : DecideOn(ok) \in Kinds
    BY DEF DecideOn, Kinds
  <2>3. At' \in {"convert", "register"} \/ pc' \in Over
    BY <2>1, <2>2, LateStaysLate
  <2>4. pc' # "resolve"
    BY <2>1, ResolveIsFirst DEF Stages
  <2>5. copied.ok \/ Consented("copy")
    <3>1. At = "convert"
      BY <2>1 DEF At
    <3>2. Earned("copy")
      BY <3>1 DEF GateInv, Later, Stages
    <3> QED
      BY <3>2 DEF Earned, Evidence
  <2>6. converted'.ok => copied.ok \/ (resolved.has_snapshot_chain /\ Consented("copy"))
    <3>1. CASE UNCHANGED converted
      BY <3>1
    <3>2. CASE \E c \in Conversions(file) : converted' = [ok |-> c.ok, file |-> file]
      <4>1. PICK c \in Conversions(file) : converted' = [ok |-> c.ok, file |-> file]
        BY <3>2
      <4>2. c.ok => copied.ok \/ resolved.has_snapshot_chain
        BY DEF Conversions
      <4> QED
        BY <2>5, <4>1, <4>2
    <3> QED
      BY <2>1, <3>1, <3>2
  <2>7. Consented("copy")' = Consented("copy") /\ PullOrder(resolved)' = PullOrder(resolved)
    BY <2>1 DEF Consented, PullOrder
  <2> QED
    BY <2>1, <2>3, <2>4, <2>6, <2>7
<1>6. CASE RegisterStage \/ RetryStage
  <2>1. PICK retried : Decide("register", DecideAfterRegister(registered', retried))
    BY <1>6 DEF RegisterStage, RetryStage
  <2>2. DecideAfterRegister(registered', retried) \in Kinds
    BY DEF DecideAfterRegister, Kinds
  <2>3. At' \in {"convert", "register"} \/ pc' \in Over
    BY <2>1, <2>2, LateStaysLate
  <2>4. pc' # "resolve"
    BY <2>1, ResolveIsFirst DEF Stages
  <2>5. UNCHANGED <<resolved, copied, converted, escalations>>
    BY <1>6 DEF RegisterStage, RetryStage
  <2>6. Consented("copy")' = Consented("copy") /\ PullOrder(resolved)' = PullOrder(resolved)
    BY <2>5 DEF Consented, PullOrder
  <2> QED
    BY <2>3, <2>4, <2>5, <2>6
<1>7. CASE Answer
  <2>1. PICK answer \in Answers :
           /\ RecordAnswer(answer)
           /\ (answer = "proceed" /\ Continue(Asked)) \/ pc' = "returned"
    BY <1>7, Zenon DEF Answer
  <2>2. pc = "ask" /\ Asked \in Stages /\ UNCHANGED <<resolved, copied, converted>>
    BY <1>7, AskedIsStage DEF Answer, results
  <2>3. pc' # "resolve"
    BY <2>1, <2>2, ResolveIsFirst
  <2>4. Consented("copy") => Consented("copy")'
    BY <2>1, <2>2, AnswerConsents DEF Stages
  <2>5. Asked \in {"convert", "register"} => At' \in {"convert", "register"} \/ pc' \in Over
    BY <2>1 DEF Continue, NextStage, At, Over
  <2>6. converted.ok => Asked \in {"convert", "register"}
    BY <2>2 DEF At, Over
  <2>7. PullOrder(resolved)' = PullOrder(resolved)
    BY <2>2 DEF PullOrder
  <2> QED
    BY <2>2, <2>3, <2>4, <2>5, <2>6, <2>7
<1>8. CASE Kill
  <2>1. pc' = "killed" /\ UNCHANGED record
    BY <1>8 DEF Kill
  <2>2. Consented("copy")' = Consented("copy") /\ PullOrder(resolved)' = PullOrder(resolved)
    BY <2>1 DEF record, results, Consented, PullOrder
  <2> QED
    BY <2>1, <2>2 DEF record, results, Over
<1>9. CASE PowerChange \/ UNCHANGED vars
  <2>1. UNCHANGED <<pc, record>>
    BY <1>9 DEF PowerChange, record, results, vars
  <2>2. /\ At' = At /\ Consented("copy")' = Consented("copy")
        /\ PullOrder(resolved)' = PullOrder(resolved)
    BY <2>1 DEF record, results, At, Asked, Consented, PullOrder
  <2> QED
    BY <2>1, <2>2 DEF record, results
<1> QED
  BY <1>1, <1>2, <1>3, <1>4, <1>5, <1>6, <1>7, <1>8, <1>9 DEF Next, Stage

\* A complete copy of a VM with one disk and at most one snapshot has every
\* file of it: of a role that is listed once, the first is the only one.
LEMMA PullsCoverOneDisk ==
    ASSUME TypeInv, OneDisk, NEW path, path.disk_files = vm.files,
           path.has_snapshot_chain = HasSnapshotChain(vm.files),
           path.has_snapshot_chain \/ WithRole(path.disk_files, "base_descriptor") # {},
           NEW i \in DOMAIN vm.files
    PROVE  \E k \in 1..Len(PullOrder(path)) : PullOrder(path)[k] = i
<1> DEFINE files == vm.files
           pulls == PullOrder(path)
<1>1. files \in Seq(DiskFiles) /\ path.disk_files \in Seq(DiskFiles)
  BY TypeParts, VmAssumption DEF TypeInv
<1>2. CASE path.has_snapshot_chain
  <2>1. Len(pulls) = Len(files) /\ \A k \in 1..Len(pulls) : pulls[k] = k
    BY <1>1, <1>2, ChainPulls
  <2>2. i \in 1..Len(files)
    BY <1>1
  <2> QED
    BY <2>1, <2>2
<1>3. CASE ~path.has_snapshot_chain
  <2>1. PICK d \in DOMAIN files :
          /\ files[d].role = "base_descriptor"
          /\ \/ pulls = <<d>> /\ WithRole(files, "base_flat") = {}
             \/ \E f \in DOMAIN files : files[f].role = "base_flat" /\ pulls = <<f, d>>
    <3>1. WithRole(path.disk_files, "base_descriptor") # {}
      BY <1>3
    <3>2. \E d \in DOMAIN path.disk_files :
             /\ path.disk_files[d].role = "base_descriptor"
             /\ \/ pulls = <<d>> /\ WithRole(path.disk_files, "base_flat") = {}
                \/ \E f \in DOMAIN path.disk_files :
                      path.disk_files[f].role = "base_flat" /\ pulls = <<f, d>>
      BY ONLY <1>1, <1>3, <3>1, PairPulls
    <3> QED
      BY <3>2
  <2>2. files[i].role \in {"base_descriptor", "base_flat"}
    <3>1. files[i].role \notin {"snapshot_delta", "snapshot_descriptor"}
      BY <1>3 DEF HasSnapshotChain, WithRole
    <3>2. files[i] \in DiskFiles
      BY <1>1
    <3> QED
      BY <3>1, <3>2 DEF DiskFiles, Roles
  <2>3. \A j \in DOMAIN files : files[i].role = files[j].role => i = j
    BY DEF OneDisk
  <2>4. CASE pulls = <<d>> /\ WithRole(files, "base_flat") = {}
    <3>1. i = d
      BY <2>1, <2>2, <2>3, <2>4 DEF WithRole
    <3>2. Len(pulls) = 1 /\ pulls[1] = i
      BY <2>4, <3>1
    <3> QED
      BY <3>2
  <2>5. CASE \E f \in DOMAIN files : files[f].role = "base_flat" /\ pulls = <<f, d>>
    <3>1. PICK f \in DOMAIN files : files[f].role = "base_flat" /\ pulls = <<f, d>>
      BY <2>5
    <3>2. i = d \/ i = f
      BY <2>1, <2>2, <2>3, <3>1
    <3>3. Len(pulls) = 2 /\ pulls[1] = f /\ pulls[2] = d
      BY <3>1
    <3> QED
      BY <3>2, <3>3
  <2> QED
    BY <2>1, <2>4, <2>5
<1> QED
  BY <1>2, <1>3

\* Of a VM with one disk and at most one snapshot, a conversion that verifies
\* starts at the newest state and reads what this run staged, every file of it;
\* only a chain whose incomplete copy a human let pass may verify over files an
\* earlier run left (orchestrator.py 132-135, 371-394).
THEOREM OneDiskIsConvertedWhole == Spec => []OneDiskIsWhole
<1>1. TypeInv /\ ImageInv /\ StagedInv => OneDiskIsWhole
  <2> SUFFICES ASSUME TypeInv, ImageInv, StagedInv, OneDisk, converted.ok
               PROVE  /\ NoFileDropped
                      /\ EveryFileStaged \/ (HasSnapshotChain(vm.files) /\ Consented("copy"))
    BY DEF OneDiskIsWhole
  <2> DEFINE file == converted.file
  <2>1. /\ file \in DOMAIN vm.files /\ resolved.disk_files = vm.files
        /\ resolved.has_snapshot_chain = HasSnapshotChain(vm.files)
    BY DEF ImageInv
  <2>2. NoFileDropped
    <3> SUFFICES ASSUME NEW i \in DOMAIN vm.files
                 PROVE  /\ vm.files[i].disk = vm.files[file].disk
                        /\ vm.files[i].depth <= vm.files[file].depth
      BY <2>1 DEF NoFileDropped
    <3>1. vm.files[i] \in DiskFiles /\ vm.files[file] \in DiskFiles
      <4>1. vm.files \in Seq(DiskFiles)
        BY TypeParts, VmAssumption DEF TypeInv
      <4> QED
        BY <2>1, <4>1
    <3>2. vm.files[i].disk = vm.files[file].disk /\ vm.files[i].depth <= 1
      BY <2>1 DEF OneDisk
    <3>3. CASE HasSnapshotChain(vm.files)
      <4>1. vm.files[file].role = "snapshot_descriptor"
        BY <2>1, <3>3 DEF ImageInv, Wanted
      <4>2. vm.files[file].depth \in Nat \ {0} /\ vm.files[i].depth \in Nat
        BY <3>1, <4>1 DEF DiskFiles
      <4> QED
        BY <3>2, <4>2
    <3>4. CASE ~HasSnapshotChain(vm.files)
      <4>1. vm.files[i].role \notin {"snapshot_delta", "snapshot_descriptor"}
        BY <3>4 DEF HasSnapshotChain, WithRole
      <4>2. vm.files[i].depth = 0 /\ vm.files[file].depth \in Nat
        BY <3>1, <4>1 DEF DiskFiles, Roles
      <4> QED
        BY <3>2, <4>2
    <3> QED
      BY <3>3, <3>4
  <2>3. CASE copied.ok
    <3>1. /\ copied.files = PullOrder(resolved)
          /\ resolved.has_snapshot_chain \/ WithRole(resolved.disk_files, "base_descriptor") # {}
      BY <2>3 DEF StagedInv
    <3>2. \A i \in DOMAIN vm.files :
             \E k \in 1..Len(PullOrder(resolved)) : PullOrder(resolved)[k] = i
      BY <2>1, <3>1, PullsCoverOneDisk
    <3> QED
      BY <2>2, <3>1, <3>2 DEF EveryFileStaged
  <2>4. CASE ~copied.ok
    BY <2>1, <2>2, <2>4 DEF StagedInv
  <2> QED
    BY <2>3, <2>4
<1>2. Spec => [](TypeInv /\ GateInv /\ ImageInv /\ StagedInv)
  BY TypeInit, TypeStep, GateInit, GateStep, ImageInit, ImageStep, StagedInit, StagedStep, PTL
     DEF Spec
<1> QED
  BY <1>1, <1>2, PTL
=============================================================================
