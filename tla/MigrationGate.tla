---------------------------- MODULE MigrationGate ----------------------------
(***************************************************************************)
(* What run_vm promises for one VM, without its tools: the stages are      *)
(* passed in order, each on evidence of its own or, after a question, by a *)
(* human's consent, and a warrant given in a run stays until the run is    *)
(* over and counts for no other run.                                       *)
(***************************************************************************)
CONSTANTS
    Stages,     \* the stages of a run
    First,      \* the one it begins with
    After,      \* the stage after each, Finish after the last
    Finish

VARIABLES
    at,         \* the stage a run is at, or "over"
    asked,      \* whether a human is being asked about that stage
    warrant,    \* what each stage was passed on
    outcome     \* how the last run ended

gate == <<at, asked, warrant, outcome>>

Unpassed == [s \in Stages |-> "none"]

Init == at = "over" /\ asked = FALSE /\ warrant = Unpassed /\ outcome = "open"

\* A run begins with nothing to its credit.
Begin ==
    /\ at = "over"
    /\ at' = First /\ asked' = FALSE /\ warrant' = Unpassed /\ outcome' = "open"

\* It is refused before its first stage.
Refuse ==
    /\ at = "over"
    /\ warrant' = Unpassed /\ outcome' = "lost"
    /\ UNCHANGED <<at, asked>>

\* The stage is not passed on evidence, and a human is asked.
Ask ==
    /\ at # "over" /\ ~asked
    /\ asked' = TRUE
    /\ UNCHANGED <<at, warrant, outcome>>

\* The stage is passed: on evidence, or after a question by consent alone.
Pass ==
    /\ at # "over"
    /\ warrant' = [warrant EXCEPT ![at] = IF asked THEN "consent" ELSE "evidence"]
    /\ asked' = FALSE
    /\ IF After[at] = Finish THEN at' = "over" /\ outcome' = "migrated"
                             ELSE at' = After[at] /\ UNCHANGED outcome

\* The run ends at a stage it has not passed: declined by a rule or a human, or
\* lost with its record.
Stop ==
    /\ at # "over"
    /\ at' = "over" /\ asked' = FALSE
    /\ outcome' \in {"declined", "lost"}
    /\ UNCHANGED warrant

Next == Begin \/ Refuse \/ Ask \/ Pass \/ Stop

Spec == Init /\ [][Next]_gate
=============================================================================
