----------------------------- MODULE GuidedEval -----------------------------
(***************************************************************************)
(* GuidedEvaluator::run (src/eval/guided_eval.cpp): evaluates protector    *)
(* code along one path.  It lifts the window of code at an address, looks  *)
(* for the target of the last jump in the IR, and goes there; an address   *)
(* that comes up again is a pass through the VM's dispatcher, or a loop.   *)
(*                                                                         *)
(* The code at an address is given by how much of it decodes and how that  *)
(* ends.  What it computes (jump targets, the VPC, the stack pointer)      *)
(* depends on registers and memory that the model leaves out, so each time *)
(* a window is lifted it may compute something else.                       *)
(***************************************************************************)
EXTENDS Integers, Sequences, FiniteSets

CONSTANTS
    Addr,           \* the addresses of the image jumps lead to
    Outside,        \* any address that is not in the image
    StartVa,
    MaxSteps, MaxVmInsns,   \* two ints
    Code,           \* the codes looked at: address -> window
    SafeCode,       \* the addresses that lie in a safe range: the stack's,
                    \* which is outside the image, is one
    VpcValue,       \* the values of the VPC register
    Unknown         \* what is not a constant

\* A window: the instructions lifted from it, and what stops the lifting.
\* "none" is the end of its 256 bytes or of what decodes, "unreadable" a
\* window that would reach over the end of the image.
Window == [len: Nat, ends: {"jmp", "ret", "none", "unreadable"}]

ASSUME GuidedAssumption ==
    /\ StartVa \in Addr /\ Outside \notin Addr /\ IsFiniteSet(Addr)
    /\ Unknown \notin Addr \cup {Outside} /\ Unknown \notin VpcValue
    /\ MaxSteps \in Int /\ MaxVmInsns \in Int
    /\ Code \subseteq [Addr -> Window]
    /\ \A c \in Code : \A a \in Addr :
            /\ c[a].ends \in {"jmp", "ret"} => c[a].len > 0
            /\ c[a].ends = "unreadable" => c[a].len = 0
    /\ SafeCode \subseteq Addr \cup {Outside}

VARIABLES
    code,
    va,             \* at the end, report.stop_va
    visited,
    dispatcher,     \* dispatcher_va_, a set of at most one address
    vpc,            \* what resolve_vpc returns
    lastVpc,
    vpcTrace,
    jmpTrace,
    handlerStart,   \* handler_ir_start_
    irLen,          \* func_.instrs.size()
    handlers,       \* with the fields of a HandlerRecord
    vmInsns,
    steps,
    jump,           \* the target of the last JMP or CALL of the IR
    rsp,            \* is it a constant, and how far it is from INIT_RSP
    result,
    pc

trace == <<lastVpc, vpcTrace, handlerStart, handlers, vmInsns>>
machine == <<vpc, irLen, steps, jump, rsp>>
vars == <<code, va, visited, dispatcher, trace, jmpTrace, machine, result, pc>>

InitialRsp == [constant |-> TRUE, delta |-> 0]

Init ==
    /\ code \in Code
    /\ va = StartVa
    /\ visited = {}
    /\ dispatcher = {}
    /\ vpc \in VpcValue \cup {Unknown}
    /\ lastVpc = Unknown
    /\ vpcTrace = <<>>
    /\ jmpTrace = <<>>
    /\ handlerStart = 0
    /\ irLen = 0
    /\ handlers = <<>>
    /\ vmInsns = 0
    /\ steps = 0
    /\ jump = Unknown
    /\ rsp = InitialRsp
    /\ result = "IN_PROGRESS"
    /\ pc = "visit"

Stop(r) == result' = r /\ pc' = "cleanup"

-----------------------------------------------------------------------------
(* An iteration up to its window *)

OutOfSteps ==
    /\ pc = "visit"
    /\ steps >= MaxSteps
    /\ Stop("MAX_STEPS")
    /\ UNCHANGED <<code, va, visited, dispatcher, trace, jmpTrace, machine>>

IsVisited == va \in visited

Enter ==
    /\ pc = "visit" /\ steps < MaxSteps
    /\ ~IsVisited
    /\ visited' = visited \cup {va}
    /\ pc' = "lift"
    /\ UNCHANGED <<code, va, dispatcher, trace, jmpTrace, machine, result>>

\* The first address that comes up again is the dispatcher.
Latched == IF dispatcher = {} THEN {va} ELSE dispatcher

InnerLoop ==
    /\ pc = "visit" /\ steps < MaxSteps
    /\ IsVisited /\ va \notin Latched
    /\ Stop("INNER_LOOP")
    /\ UNCHANGED <<code, va, visited, dispatcher, trace, jmpTrace, machine>>

Handler ==
    [before |-> lastVpc, after |-> vpc, handler |-> jmpTrace[Len(jmpTrace)],
     start |-> handlerStart, end |-> irLen]

\* Faulty variant of Catalog: the VPC before is not asked for.
CatalogAlways ==
    IF handlerStart < irLen THEN Append(handlers, Handler) ELSE handlers

\* What the catalog records at the dispatcher: the handler that led there.
Catalog ==
    IF lastVpc # Unknown /\ handlerStart < irLen
    THEN Append(handlers, Handler)
    ELSE handlers

Converged == vpc # Unknown /\ vpc = lastVpc
Symbolic == vpc = Unknown /\ lastVpc = Unknown /\ vmInsns > 0

\* Back at the dispatcher, with the VPC of the last time or none at all.
DispatchStop ==
    /\ pc = "visit" /\ steps < MaxSteps
    /\ IsVisited /\ va \in Latched
    /\ Converged \/ Symbolic
    /\ dispatcher' = Latched
    /\ handlers' = Catalog
    /\ Stop(IF Converged THEN "VPC_CONVERGED" ELSE "INNER_LOOP")
    /\ UNCHANGED <<code, va, visited, lastVpc, vpcTrace, handlerStart, vmInsns,
                   jmpTrace, machine>>

\* Faulty variants of NextStart and NextVpc: as they were set the last time.
SameStart == handlerStart
SameVpc == lastVpc

NextStart == irLen
NextVpc == vpc

\* Faulty variant of AfterDispatch: without the insertion.
NothingVisited == {}

\* visited_.clear(); visited_.insert(va)
AfterDispatch == {va}

Dispatch ==
    /\ pc = "visit" /\ steps < MaxSteps
    /\ IsVisited /\ va \in Latched
    /\ ~Converged /\ ~Symbolic
    /\ dispatcher' = Latched
    /\ handlers' = Catalog
    /\ lastVpc' = NextVpc
    /\ vpcTrace' = Append(vpcTrace, vpc)
    /\ handlerStart' = NextStart
    /\ vmInsns' = vmInsns + 1
    /\ IF vmInsns' >= MaxVmInsns
       THEN Stop("MAX_VM_INSNS") /\ UNCHANGED visited
       ELSE visited' = AfterDispatch /\ pc' = "lift" /\ UNCHANGED result
    /\ UNCHANGED <<code, va, jmpTrace, machine>>

-----------------------------------------------------------------------------
(* The window *)

OutOfBounds ==
    /\ pc = "lift"
    /\ code[va].ends = "unreadable"
    /\ jmpTrace' = Append(jmpTrace, va)
    /\ Stop("OUT_OF_BOUNDS")
    /\ UNCHANGED <<code, va, visited, dispatcher, trace, machine>>

\* What is known of the stack pointer after a window: pushes and pops make it
\* the result of an instruction, whose value check_vmexit does not look at; a
\* copy of the initial one may bring the constant back.
StackAfter == {rsp, InitialRsp} \cup [constant: {FALSE}, delta: {-16, -8, 0}]

\* check_vmexit, or RET.
RetResult(sp) ==
    CASE sp.constant /\ sp.delta = 0 -> "VMEXIT_RET"
      [] sp.constant /\ sp.delta = -16 -> "VMEXIT_CALL"
      [] OTHER -> "RET"

\* Where the last jump of the IR leads after a window: a window that ends in
\* no jump leaves the one of an earlier window, or has a conditional one that
\* branch_fold_pass turned into a jump.
Target == Addr \cup {Outside, Unknown}
JumpAfter(ends) == IF ends = "jmp" THEN Target
                   ELSE {jump} \cup (Target \ {Unknown})

\* A ret goes on at the last jump's target if that is in a safe range; if it
\* is not in the image, the run then stops there (Unresolved).
Continues(target) == target \in SafeCode /\ dispatcher = {}

\* The folding and promotion that follow work on the whole IR, so a window
\* of which nothing decodes may resolve more of what was lifted before.
Lift ==
    /\ pc = "lift"
    /\ code[va].ends # "unreadable"
    /\ jmpTrace' = Append(jmpTrace, va)
    /\ steps' = steps + code[va].len
    /\ vpc' \in VpcValue \cup {Unknown}
    /\ rsp' \in StackAfter
    /\ jump' \in JumpAfter(code[va].ends)
    /\ irLen' \in {irLen + n : n \in 0 .. code[va].len}
    /\ code[va].ends \in {"jmp", "ret"} => irLen' > irLen
    /\ IF code[va].ends = "ret" /\ ~Continues(jump')
       THEN Stop(RetResult(rsp'))
       ELSE pc' = "follow" /\ UNCHANGED result
    /\ UNCHANGED <<code, va, visited, dispatcher, trace>>

-----------------------------------------------------------------------------
(* The next address *)

Follow ==
    /\ pc = "follow"
    /\ jump \in Addr
    /\ va' = jump
    /\ pc' = "visit"
    /\ UNCHANGED <<code, visited, dispatcher, trace, jmpTrace, machine, result>>

Unresolved ==
    /\ pc = "follow"
    /\ jump \notin Addr
    /\ va' = IF jump = Outside /\ code[va].ends = "ret" THEN Outside ELSE va
    /\ Stop(IF jump = Unknown THEN "UNRESOLVED_TARGET"
            ELSE "TARGET_OUTSIDE_IMAGE")
    /\ UNCHANGED <<code, visited, dispatcher, trace, jmpTrace, machine>>

\* The last optimisation may remove instructions.
Cleanup ==
    /\ pc = "cleanup"
    /\ irLen' \in 0 .. irLen
    /\ pc' = "done"
    /\ UNCHANGED <<code, va, visited, dispatcher, trace, jmpTrace, vpc, steps,
                   jump, rsp, result>>

Next ==
    \/ OutOfSteps \/ Enter \/ InnerLoop \/ DispatchStop \/ Dispatch
    \/ OutOfBounds \/ Lift \/ Follow \/ Unresolved \/ Cleanup

Spec == Init /\ [][Next]_vars

-----------------------------------------------------------------------------
(* Properties *)

TypeOK ==
    /\ code \in Code
    /\ va \in Addr \/ (va = Outside /\ pc \in {"cleanup", "done"})
    /\ visited \in SUBSET Addr
    /\ dispatcher \in SUBSET Addr /\ Cardinality(dispatcher) <= 1
    /\ vpc \in VpcValue \cup {Unknown}
    /\ lastVpc \in VpcValue \cup {Unknown}
    /\ vpcTrace \in Seq(VpcValue \cup {Unknown})
    /\ jmpTrace \in Seq(Addr)
    /\ handlerStart \in Nat /\ irLen \in Nat
    /\ vmInsns \in Nat /\ steps \in Nat
    /\ jump \in Target
    /\ handlers \in Seq([before: VpcValue, after: VpcValue \cup {Unknown},
                         handler: Addr, start: Nat, end: Nat])
    /\ rsp \in [constant: BOOLEAN, delta: Int]
    /\ pc \in {"visit", "lift", "follow", "cleanup", "done"}

(* The work is bounded by the image and max_vm_insns, also where nothing   *)
(* decodes and max_steps never comes nearer: between two dispatches no     *)
(* address is lifted twice.  A run that does not lift stops, so runs end.  *)
WorkBounded ==
    /\ vmInsns <= IF MaxVmInsns < 1 THEN 1 ELSE MaxVmInsns
    /\ Len(jmpTrace) <= vmInsns * Cardinality(Addr) + Cardinality(visited)
    /\ pc = "lift" =>
            Len(jmpTrace) < vmInsns * Cardinality(Addr) + Cardinality(visited)

(* Every dispatch moves the VPC: two in a row with the same VPC, or both   *)
(* with none that is known, end the run.                                   *)
DispatchesMove ==
    \A i \in 1 .. Len(vpcTrace) - 1 : vpcTrace[i] # vpcTrace[i + 1]

(* The catalog of handlers describes the run: the IR ranges of its records *)
(* follow each other without overlap, and their VPCs are two successive    *)
(* ones of the trace, the second one being missing if the run ended there. *)
CatalogMatchesTrace ==
    \A h \in DOMAIN handlers :
        LET r == handlers[h]
        IN /\ r.start < r.end
           /\ h > 1 => handlers[h - 1].end <= r.start
           /\ pc \notin {"cleanup", "done"} => r.end <= handlerStart
           /\ \E i \in DOMAIN vpcTrace :
                /\ r.before = vpcTrace[i]
                /\ IF i < Len(vpcTrace) THEN r.after = vpcTrace[i + 1]
                   ELSE result \in {"VPC_CONVERGED", "INNER_LOOP"}
=============================================================================
