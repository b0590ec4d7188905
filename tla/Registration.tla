---------------------------- MODULE Registration ----------------------------
(***************************************************************************)
(* What register_vm promises its caller, without its commands.             *)
(*                                                                         *)
(* A Proxmox VM is the set of things settled about it.  Anybody may settle *)
(* more at any time, nobody unsettles anything, and a run may be told      *)
(* "verified" only in a step in which everything it asked for is settled:  *)
(* one atomic look at the node.                                            *)
(***************************************************************************)
CONSTANTS
    Runs,       \* register_vm argument sets
    Vmids,      \* Proxmox VMIDs
    Facts,      \* what can be settled about a VM
    Target,     \* [Runs -> Vmids]
    Wanted      \* [Runs -> SUBSET Facts], what a run asks for

VARIABLES
    settled,    \* [Vmids -> SUBSET Facts]
    verdict     \* what each run's last call reported

vars == <<settled, verdict>>

Verdicts == {"open", "verified", "unverified"}

Init ==
    /\ settled \in [Vmids -> SUBSET Facts]
    /\ verdict = [r \in Runs |-> "open"]

\* Commands act on the node while calls are open.
Settle ==
    /\ settled' \in [Vmids -> SUBSET Facts]
    /\ \A v \in Vmids : settled[v] \subseteq settled'[v]
    /\ UNCHANGED verdict

\* A call ends with a verdict, or an ended call is made again or lost.
Conclude(r) ==
    /\ verdict[r] = "open"
    /\ \E d \in {"verified", "unverified"} :
         /\ d = "verified" => Wanted[r] \subseteq settled[Target[r]]
         /\ verdict' = [verdict EXCEPT ![r] = d]
    /\ UNCHANGED settled

Reopen(r) ==
    /\ verdict' = [verdict EXCEPT ![r] = "open"]
    /\ UNCHANGED settled

Next == Settle \/ \E r \in Runs : Conclude(r) \/ Reopen(r)

Spec == Init /\ [][Next]_vars
=============================================================================
