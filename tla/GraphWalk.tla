------------------------------ MODULE GraphWalk ------------------------------
(***************************************************************************)
(* What recovering a control-flow graph promises, whatever the order of    *)
(* the work: nodes are found from Root, each is expanded at most once into *)
(* at most two successors that are never revised, and the walk ends when   *)
(* every found node is expanded or more than Budget nodes are found.       *)
(* CFGRecovery (recover) and VmCfg (recover_vm_cfg) implement it.          *)
(***************************************************************************)
EXTENDS Integers, FiniteSets, Functions

CONSTANTS Node, Root, Budget

\* What the theorems assume of them.
WalkAssumption == Root \in Node /\ Budget \in Int

VARIABLES
    found,      \* the nodes that have a block
    succ,       \* expanded node -> its successors
    finished

vars == <<found, succ, finished>>

Expanded == DOMAIN succ

WithinBudget == Cardinality(found) <= Budget

TypeOK ==
    /\ found \in SUBSET Node
    /\ Expanded \in SUBSET found
    /\ succ \in [Expanded -> SUBSET found]
    /\ finished \in BOOLEAN

Init ==
    /\ found = {Root}
    /\ succ = [v \in {} |-> {}]
    /\ finished = FALSE

\* Evaluating node v, which turns out to continue at the nodes of S.
Expand(v, S) ==
    /\ ~finished
    /\ WithinBudget
    /\ v \in found \ Expanded
    /\ found' = found \cup S
    /\ succ' = [u \in Expanded \cup {v} |-> IF u = v THEN S ELSE succ[u]]
    /\ UNCHANGED finished

Finish ==
    /\ ~finished
    /\ found = Expanded \/ ~WithinBudget
    /\ finished' = TRUE
    /\ UNCHANGED <<found, succ>>

Pairs == {{u, v} : u, v \in Node}

Next ==
    \/ \E v \in Node, S \in Pairs \cup {{}} : Expand(v, S)
    \/ Finish

Spec == Init /\ [][Next]_vars
FairSpec == Spec /\ WF_vars(Next)

-----------------------------------------------------------------------------

(* Nothing is found that the recovered successors do not lead to from the  *)
(* root: every set that holds Root and is closed under succ holds it all.  *)
FoundReachable ==
    \A S \in SUBSET Node :
        Root \in S /\ (\A u \in S \cap Expanded : succ[u] \subseteq S)
            => found \subseteq S

(* A walk that ended within its budget is complete: it found exactly the   *)
(* smallest set that holds Root and is closed under the recovered          *)
(* successors, and expanded all of it.                                     *)
CompleteWithinBudget ==
    finished /\ WithinBudget =>
        /\ Expanded = found
        /\ \A u \in found : succ[u] \subseteq found
=============================================================================
