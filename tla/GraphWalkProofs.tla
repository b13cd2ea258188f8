-------------------------- MODULE GraphWalkProofs --------------------------
(***************************************************************************)
(* Proofs about GraphWalk for every set of nodes and every budget: what a  *)
(* recovery promises follows from the shape of its steps alone.            *)
(***************************************************************************)
EXTENDS GraphWalk, TLAPS

\* The sets a walk cannot leave: they hold Root and the recovered successors
\* of their expanded members.
Closed(S) == Root \in S /\ \A u \in S \cap Expanded : succ[u] \subseteq S

LEMMA WalkTypedAtStart == WalkAssumption /\ Init => TypeOK
BY DEF WalkAssumption, Init, TypeOK, Expanded

LEMMA ExpandKeepsTypes ==
    ASSUME TypeOK, NEW v \in Node, NEW S \in SUBSET Node, Expand(v, S)
    PROVE  TypeOK' /\ Expanded' = Expanded \cup {v}
                   /\ succ'[v] = S
                   /\ \A u \in Expanded : succ'[u] = succ[u]
<1>1. v \in found /\ v \notin Expanded
  BY DEF Expand
<1>2. succ' = [u \in Expanded \cup {v} |-> IF u = v THEN S ELSE succ[u]]
      /\ found' = found \cup S /\ finished' = finished
  BY DEF Expand
<1>3. Expanded' = Expanded \cup {v}
  BY <1>2 DEF Expanded
<1>4. succ'[v] = S /\ \A u \in Expanded : succ'[u] = succ[u]
  BY <1>1, <1>2
<1>5. succ' \in [Expanded' -> SUBSET found']
  <2>1. \A u \in Expanded \cup {v} :
            (IF u = v THEN S ELSE succ[u]) \in SUBSET (found \cup S)
    BY DEF TypeOK
  <2> QED BY <1>2, <1>3, <2>1
<1>6. found' \in SUBSET Node /\ Expanded' \in SUBSET found'
  BY <1>1, <1>2, <1>3 DEF TypeOK
<1> QED BY <1>2, <1>3, <1>4, <1>5, <1>6 DEF TypeOK

LEMMA PairsAreSubsets == \A S \in Pairs \cup {{}} : S \in SUBSET Node
BY DEF Pairs

LEMMA WalkTypedStep == TypeOK /\ [Next]_vars => TypeOK'
<1> SUFFICES ASSUME TypeOK, [Next]_vars PROVE TypeOK'
  OBVIOUS
<1>1. CASE \E v \in Node, S \in Pairs \cup {{}} : Expand(v, S)
  BY <1>1, ExpandKeepsTypes, PairsAreSubsets
<1>2. CASE Finish
  BY <1>2 DEF Finish, TypeOK, Expanded
<1>3. CASE UNCHANGED vars
  BY <1>3 DEF vars, TypeOK, Expanded
<1> QED BY <1>1, <1>2, <1>3 DEF Next

(* Nothing is ever found that the recovered graph does not lead to: a set  *)
(* closed after a step was closed before it, held what was found then,     *)
(* and so holds the node that was expanded and its successors.             *)
LEMMA ReachableStep ==
    ASSUME TypeOK, FoundReachable, [Next]_vars
    PROVE  FoundReachable'
<1>1. SUFFICES ASSUME NEW S \in SUBSET Node, Closed(S)'
               PROVE  found' \subseteq S
  BY DEF FoundReachable, Closed
<1>2. ASSUME NEW v \in Node, NEW T \in SUBSET Node, Expand(v, T)
      PROVE  found' \subseteq S
  <2>1. /\ Expanded' = Expanded \cup {v} /\ succ'[v] = T
        /\ \A u \in Expanded : succ'[u] = succ[u]
    BY <1>2, ExpandKeepsTypes
  <2>2. Closed(S)
    BY <1>1, <2>1 DEF Closed
  <2>3. found \subseteq S
    BY <2>2 DEF FoundReachable, Closed
  <2>4. v \in S
    BY <1>2, <2>3 DEF Expand
  <2>5. T \subseteq S
    BY <1>1, <2>1, <2>4 DEF Closed
  <2> QED BY <1>2, <2>3, <2>5 DEF Expand
<1>3. CASE Finish \/ UNCHANGED vars
  <2>1. found' = found /\ succ' = succ /\ Expanded' = Expanded
    BY <1>3 DEF Finish, vars, Expanded
  <2>2. Closed(S)
    BY <1>1, <2>1 DEF Closed
  <2> QED BY <2>1, <2>2 DEF FoundReachable, Closed
<1> QED BY <1>2, <1>3, PairsAreSubsets DEF Next

LEMMA CompleteStep ==
    ASSUME TypeOK, CompleteWithinBudget, [Next]_vars
    PROVE  CompleteWithinBudget'
<1>1. ASSUME NEW v \in Node, NEW T \in SUBSET Node, Expand(v, T)
      PROVE  CompleteWithinBudget'
  BY <1>1 DEF Expand, CompleteWithinBudget
<1>2. CASE Finish
  <2>1. found' = found /\ succ' = succ /\ Expanded' = Expanded
        /\ WithinBudget' = WithinBudget
    BY <1>2 DEF Finish, Expanded, WithinBudget
  <2>2. SUFFICES ASSUME WithinBudget
                 PROVE  /\ Expanded = found
                        /\ \A u \in found : succ[u] \subseteq found
    BY <2>1 DEF CompleteWithinBudget
  <2>3. found = Expanded \/ ~WithinBudget
    BY <1>2 DEF Finish
  <2>4. CASE found = Expanded
    BY <2>4 DEF TypeOK
  <2> QED BY <2>2, <2>3, <2>4
<1>3. CASE UNCHANGED vars
  BY <1>3 DEF vars, Expanded, CompleteWithinBudget, WithinBudget
<1> QED BY <1>1, <1>2, <1>3, PairsAreSubsets DEF Next

THEOREM WalkTypeCorrect ==
    ASSUME WalkAssumption PROVE Spec => []TypeOK
BY WalkTypedAtStart, WalkTypedStep, PTL DEF Spec

(* A walk finds only what the successors it recovered lead to.             *)
THEOREM WalkFindsReachable ==
    ASSUME WalkAssumption PROVE Spec => []FoundReachable
<1>1. Init => TypeOK /\ FoundReachable
  BY WalkTypedAtStart DEF Init, FoundReachable
<1>2. TypeOK /\ FoundReachable /\ [Next]_vars => (TypeOK /\ FoundReachable)'
  BY WalkTypedStep, ReachableStep
<1> QED BY <1>1, <1>2, PTL DEF Spec

(* A walk that ends within its budget expanded everything it found.        *)
THEOREM WalkCompletes ==
    ASSUME WalkAssumption PROVE Spec => []CompleteWithinBudget
<1>1. Init => TypeOK /\ CompleteWithinBudget
  BY WalkTypedAtStart DEF Init, CompleteWithinBudget
<1>2. TypeOK /\ CompleteWithinBudget /\ [Next]_vars
        => (TypeOK /\ CompleteWithinBudget)'
  BY WalkTypedStep, CompleteStep
<1> QED BY <1>1, <1>2, PTL DEF Spec
=============================================================================
