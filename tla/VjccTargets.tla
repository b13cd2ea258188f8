---------------------------- MODULE VjccTargets -----------------------------
(***************************************************************************)
(* extract_vjcc_targets (src/eval/segment_eval.cpp): the two VPCs a        *)
(* virtual conditional jump may go to, found by folding a copy of the      *)
(* function under the assumption that its condition is 1, then that it is  *)
(* 0.                                                                      *)
(***************************************************************************)
EXTENDS Passes

CONSTANT
    Questions       \* records: the function f, vpc_value and condition

\* The condition is a symbol or an instruction's result: for a constant
\* extract_vjcc_targets returns nullopt at once.
ASSUME QuestionsAssumption ==
    \A q \in Questions :
        /\ WellFormed(q.f)
        /\ \/ \E r \in Symbols(q.f) : q.condition = Sym(r)
           \/ \E i \in DOMAIN q.f : q.f[i].op \in Valued /\ q.condition = Ref(i)

VARIABLES
    question,
    targets         \* taken and not_taken, as far as computed; NoTarget: nullopt

vjccVars == <<vars, question, targets>>

NoTarget == -1

\* Faulty variant of CondValue: the arms swapped.
CondValueSwapped(n) == n - 1

\* The value assumed for the n-th target.
CondValue(n) == 2 - n

\* The copy of f in which the condition is a constant.
Assume(f, condition, w) ==
    [i \in DOMAIN f |->
        IF condition = Ref(i) THEN [op |-> "CONST", args |-> <<Const(w)>>, private |-> FALSE]
        ELSE IF condition[1] = "ref" THEN f[i]
        ELSE [f[i] EXCEPT !.args = [k \in DOMAIN f[i].args |->
                    IF f[i].args[k] = condition THEN Const(w) ELSE f[i].args[k]]]]

AskedWith(n) == Assume(question.f, question.condition, CondValue(n))

\* The executions in which condition is w.
Where(w) == {e \in Executions(question.f, Memories) :
                Tame(question.f, e) /\ OperandValue(e, question.condition) = w}

VjccInit ==
    /\ question \in Questions
    /\ targets = <<>>
    /\ Begin(AskedWith(1), "fold") /\ pc = "pass"
    /\ executions = Where(CondValue(1))

\* A copy is folded: its target is noted, and the other copy made.
Compute ==
    /\ pc = "done" /\ Len(targets) < 2
    /\ targets' = Append(targets, LET r == Resolve(question.vpc)
                                  IN IF IsConst(r) THEN r[2] ELSE NoTarget)
    /\ IF targets = <<>>
       THEN /\ prog' = AskedWith(2) /\ original' = prog'
            /\ executions' = Where(CondValue(2))
            /\ Converge("fold")
       ELSE UNCHANGED vars
    /\ UNCHANGED question

VjccNext ==
    \/ Next /\ UNCHANGED <<question, targets>>
    \/ Compute

VjccSpec == VjccInit /\ [][VjccNext]_vjccVars

-----------------------------------------------------------------------------
(* Properties *)

\* The pair is returned.
Found == /\ Len(targets) = 2
         /\ NoTarget \notin {targets[1], targets[2]}
         /\ targets[1] # targets[2]

(* The pair that extract_vjcc_targets returns is where the function really *)
(* goes: whatever else the symbols and memory are, with the condition 1    *)
(* the VPC is the first, and with the condition 0 the second.  Two folds   *)
(* of two copies, each over many passes, have to agree with one execution. *)
TargetsAreExact ==
    Found => \A n \in 1 .. 2 : \A e \in Where(2 - n) :
                OperandValue(e, question.vpc) = targets[n]
=============================================================================
