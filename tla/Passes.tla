------------------------------- MODULE Passes -------------------------------
(***************************************************************************)
(* The passes over one straight-line function (src/passes/transforms.cpp)  *)
(* and the two drivers that repeat them: run_to_convergence with dead code *)
(* elimination and run_fold_convergence without.                           *)
(*                                                                         *)
(* Instructions are emitted with ascending ids and the passes only rewrite *)
(* or remove them, so a function is a TLA+ function from the ids that are  *)
(* left to instructions, in the order of the ids.  A pass is a sweep with  *)
(* one step per instruction.                                               *)
(***************************************************************************)
EXTENDS IR, Functions

CONSTANTS
    Memories,       \* the contents memory may have at the start
    Programs,       \* the functions a driver is run on by itself
    MaxIters        \* max_iters, by driver

VARIABLES
    prog,           \* id -> instruction
    original,       \* the function as the driver got it
    executions,     \* and what it computes: see Executions
    driver,
    pass,           \* index in PassList
    rest,           \* the ids the pass has not reached
    lastStore,      \* last_store_const and last_store_ref
    any,            \* did a pass of this iteration change anything?
    iters,          \* report.iterations
    pc

vars == <<prog, original, executions, driver, pass, rest, lastStore, any,
          iters, pc>>

-----------------------------------------------------------------------------
(* What functions compute.  An execution is the symbols, memory at the     *)
(* start, and the value of every instruction that has one.                 *)

\* Cell a counted from the first cell of an access at address b.
Offset(a, b) == (a - b) % Size

\* The cell at a when control reaches instruction i.  A CALL leaves memory as it
\* is. So the passes take it, which forget nothing at a call; a function called
\* that is not lifted into this IR may store all the same.
CellBefore(p, e, i, a) ==
    LET address(j) == OperandValue(e, p[j].args[1])
        stores == {j \in DOMAIN p : /\ j < i /\ p[j].op = "STORE"
                                    /\ Offset(a, address(j)) \in Place}
        last == Max(stores)
    IN IF stores = {} THEN e.mem[a]
       ELSE Bit(OperandValue(e, p[last].args[2]), Offset(a, address(last)))

\* In e, instruction i of p has the value it computes.
Computes(p, e, i) ==
    LET op == p[i].op
        x(k) == OperandValue(e, p[i].args[k])
    IN CASE op \in Binary -> e.val[i] = BinaryValue(op, x(1), x(2))
         [] op \in Unary -> e.val[i] = UnaryValue(op, x(1))
         [] op \in {"CONST", "PASSTHROUGH"} -> e.val[i] = x(1)
         [] op = "SELECT" -> e.val[i] = IF x(1) # 0 THEN x(2) ELSE x(3)
         [] op = "LOAD" -> \A k \in Place :
                Bit(e.val[i], k) = CellBefore(p, e, i, (x(1) + k) % Size)
         [] OTHER -> TRUE

Operands(p) == UNION {Range(p[i].args) : i \in DOMAIN p}
Symbols(p) == {o[2] : o \in {s \in Operands(p) : s[1] = "sym"}}

Executions(p, memories) ==
    {e \in [sym: [Symbols(p) -> Word], mem: memories,
            val: [{i \in DOMAIN p : p[i].op \in Valued} -> Word]] :
        \A i \in DOMAIN p : Computes(p, e, i)}

\* What the passes rely on: two accesses overlap only if their addresses are
\* written the same, and no negative value is shifted right by 0, which
\* sar64 computes as a shift by 64 (see FoldedBinary).
Tame(p, e) ==
    LET address(i) == OperandValue(e, p[i].args[1])
        accesses == {i \in DOMAIN p : p[i].op \in {"LOAD", "STORE"}}
    IN /\ \A i, j \in accesses :
            \/ p[i].args[1] = p[j].args[1]
            \/ /\ Offset(address(i), address(j)) \notin Place
               /\ Offset(address(j), address(i)) \notin Place
       /\ \A i \in DOMAIN p : p[i].op = "SAR" =>
            \/ ~Negative(OperandValue(e, p[i].args[1]))
            \/ OperandValue(e, p[i].args[2]) % Bits # 0

-----------------------------------------------------------------------------
(* The functions the passes are run on *)

\* The operands instruction i of p may have, r being among symbols.
OperandsAt(p, symbols, i) ==
    {Const(w) : w \in Word} \cup {Sym(r) : r \in symbols}
    \cup {Ref(j) : j \in {k \in DOMAIN p : k < i /\ p[k].op \in Valued}}

\* How many operands operations take; a CONST has a constant.
HasOperands(insn) ==
    /\ insn.op \in Binary \cup {"STORE"} => Len(insn.args) = 2
    /\ insn.op \in Unary \cup {"CONST", "PASSTHROUGH", "LOAD"} => Len(insn.args) = 1
    /\ insn.op = "SELECT" => Len(insn.args) = 3
    /\ insn.op = "CJMP" => Len(insn.args) > 0
    /\ insn.op = "CONST" => IsConst(insn.args[1])

\* In SSA form, and an address is private to all that access it or to none.
WellFormed(p) ==
    LET accesses == {i \in DOMAIN p : p[i].op \in {"LOAD", "STORE"}}
    IN /\ DOMAIN p \subseteq Nat
       /\ \A i \in DOMAIN p :
            /\ p[i] \in [op: Op, args: Seq(OperandsAt(p, Symbols(p), i)),
                         private: BOOLEAN]
            /\ HasOperands(p[i])
       /\ \A i, j \in accesses :
            p[i].args[1] = p[j].args[1] => p[i].private = p[j].private

ASSUME PassesAssumption ==
    /\ \A p \in Programs : WellFormed(p)
    /\ \A d \in {"all", "fold"} : MaxIters[d] \in Nat \ {0}

-----------------------------------------------------------------------------
(* The drivers *)

\* run_to_convergence is "all", run_fold_convergence "fold" and, with 8
\* iterations, "fold8".
PassList ==
    IF driver = "all"
    THEN <<"const_promote", "mem_forward", "const_promote", "const_fold",
           "insn_combine", "dead_store_elim", "dead_dep_elim", "branch_fold">>
    ELSE <<"const_promote", "mem_forward", "const_promote", "const_fold",
           "insn_combine", "branch_fold">>

\* A driver is about to run on function p.
Begin(p, d) ==
    /\ prog = p
    /\ original = p
    /\ driver = d
    /\ pass = 1
    /\ rest = DOMAIN p
    /\ lastStore = <<>>
    /\ any = FALSE
    /\ iters = 0

Init ==
    /\ \E p \in Programs, d \in {"all", "fold"} :
        Begin(p, d) /\ executions = {e \in Executions(p, Memories) : Tame(p, e)}
    /\ pc = "pass"

\* Start a driver on the function as it is after this step.
Converge(d) ==
    /\ driver' = d
    /\ pass' = 1
    /\ rest' = DOMAIN prog'
    /\ lastStore' = <<>>
    /\ any' = FALSE
    /\ iters' = 0
    /\ pc' = "pass"

NextPass ==
    /\ pc = "pass"
    /\ rest = {}
    /\ lastStore' = <<>>
    /\ IF pass < Len(PassList)
       THEN /\ pass' = pass + 1
            /\ rest' = DOMAIN prog
            /\ UNCHANGED <<any, iters, pc>>
       ELSE /\ iters' = iters + 1
            /\ IF any /\ iters' < MaxIters[driver]
               THEN pass' = 1 /\ rest' = DOMAIN prog /\ any' = FALSE /\ pc' = pc
               ELSE pc' = "done" /\ UNCHANGED <<pass, rest, any>>
    /\ UNCHANGED <<prog, original, executions, driver>>

At == Min(rest)
Insn == prog[At]

InPass(name) == pc = "pass" /\ rest # {} /\ PassList[pass] = name

\* Faulty variant of Replace: an operand looked at counts as a change.
ReplaceAlways(new) ==
    /\ prog' = [prog EXCEPT ![At] = new]
    /\ any' = (any \/ new.args # <<>>)
    /\ rest' = rest \ {At}
    /\ UNCHANGED <<original, executions, driver, pass, iters, pc>>

\* The sweep is done with its instruction, having replaced it or not.
Replace(new) ==
    /\ prog' = [prog EXCEPT ![At] = new]
    /\ any' = (any \/ new # Insn)
    /\ rest' = rest \ {At}
    /\ UNCHANGED <<original, executions, driver, pass, iters, pc>>

\* The pass has left the instructions of K, all others being removed.
Keep(K) ==
    /\ prog' = Restrict(prog, K)
    /\ any' = (any \/ K # DOMAIN prog)
    /\ rest' = {}
    /\ UNCHANGED <<original, executions, driver, pass, lastStore, iters, pc>>

Becomes(insn, op, args) == [insn EXCEPT !.op = op, !.args = args]

-----------------------------------------------------------------------------
(* The passes *)

\* The instruction an operand refers to, if it is still there.
Defs(o) == {i \in DOMAIN prog : o = Ref(i)}

\* The instructions resolve goes through from operand o: from a PASSTHROUGH
\* to the one its operand refers to.
Resolved(o) ==
    {i \in DOMAIN prog :
        \A S \in SUBSET DOMAIN prog :
            (/\ Defs(o) \subseteq S
             /\ \A j \in S : prog[j].op = "PASSTHROUGH" =>
                                 Defs(prog[j].args[1]) \subseteq S)
            => i \in S}

\* Operands refer to earlier instructions, so the least is the last.
Resolve(o) ==
    IF Resolved(o) = {} THEN o
    ELSE LET last == Min(Resolved(o))
         IN IF prog[last].op \in {"CONST", "PASSTHROUGH"}
            THEN prog[last].args[1] ELSE Ref(last)

ConstPromote ==
    /\ InPass("const_promote")
    /\ Replace([Insn EXCEPT !.args =
                    [k \in DOMAIN Insn.args |-> Resolve(Insn.args[k])]])
    /\ UNCHANGED lastStore

\* Faulty variant of Remember: an earlier store to the address stays.
RememberFirst(o, v) ==
    IF o[1] = "sym" \/ o \in DOMAIN lastStore THEN lastStore
    ELSE [a \in DOMAIN lastStore \cup {o} |-> IF a = o THEN v ELSE lastStore[a]]

\* The maps are keyed by constant addresses and by instructions.
Remember(o, v) ==
    IF o[1] = "sym" THEN lastStore
    ELSE [a \in DOMAIN lastStore \cup {o} |-> IF a = o THEN v ELSE lastStore[a]]

MemForward ==
    /\ InPass("mem_forward")
    /\ LET address == Insn.args[1]
       IN CASE Insn.op = "STORE" ->
                 Replace(Insn) /\ lastStore' = Remember(address, Insn.args[2])
            [] Insn.op = "LOAD" /\ address \in DOMAIN lastStore ->
                 /\ LET v == lastStore[address]
                    IN Replace(Becomes(Insn, IF IsConst(v) THEN "CONST"
                                             ELSE "PASSTHROUGH", <<v>>))
                 /\ UNCHANGED lastStore
            [] OTHER -> Replace(Insn) /\ UNCHANGED lastStore

\* A shift by the width is undefined: the value stays, or all bits go.
ShiftedLeft(a, n) == IF n = Bits THEN {a, 0} ELSE {(a * Pow2[n]) % Size}
ShiftedRight(a, n) == IF n = Bits THEN {a, 0} ELSE {a \div Pow2[n]}
Ors(S, T) == {BitOr(s, t) : s \in S, t \in T}

\* What fold_binary may return.
FoldedBinary(op, a, b) ==
    LET n == b % Bits
    IN CASE op = "SHL" -> ShiftedLeft(a, n)
         [] op = "SHR" -> ShiftedRight(a, n)
         [] op = "ROL" -> Ors(ShiftedLeft(a, n), ShiftedRight(a, Bits - n))
         [] op = "ROR" -> Ors(ShiftedRight(a, n), ShiftedLeft(a, Bits - n))
         [] op = "SAR" /\ Negative(a) ->
              Ors(ShiftedRight(a, n), ShiftedLeft(AllOnes, Bits - n))
         [] op = "SAR" /\ ~Negative(a) -> ShiftedRight(a, n)
         [] OTHER -> {BinaryValue(op, a, b)}

\* What const_fold_pass may make of an instruction.
Folded(insn) ==
    LET x(k) == insn.args[k][2]
        constants == \A k \in DOMAIN insn.args : IsConst(insn.args[k])
        folds == CASE insn.op \in Binary -> FoldedBinary(insn.op, x(1), x(2))
                   [] insn.op \in Unary -> {UnaryValue(insn.op, x(1))}
                   [] OTHER -> {}
    IN CASE insn.op \in Binary \cup Unary /\ constants ->
              {Becomes(insn, "CONST", <<Const(w)>>) : w \in folds}
         [] insn.op = "SELECT" /\ IsConst(insn.args[1]) ->
              {Becomes(insn, "PASSTHROUGH",
                       <<IF x(1) # 0 THEN insn.args[2] ELSE insn.args[3]>>)}
         [] OTHER -> {insn}

ConstFold ==
    /\ InPass("const_fold")
    /\ \E new \in Folded(Insn) : Replace(new)
    /\ UNCHANGED lastStore

\* The operand x op y is equal to, by the identities with y a constant.
Identities(op, y) ==
    \/ y = 0 /\ op \in {"ADD", "SUB", "XOR", "OR",
                        "SHL", "SHR", "SAR", "ROL", "ROR"}
    \/ y = 1 /\ op = "MUL"
    \/ y = AllOnes /\ op = "AND"

\* a is (z AND b) XOR b, in any order; the second operand of the XOR is
\* looked at first.
IsMasked(a, b) ==
    \E i \in Defs(a) :
        LET m == IF prog[i].args[2] = b THEN 2 ELSE 1
        IN /\ prog[i].op = "XOR" /\ prog[i].args[m] = b
           /\ \E j \in Defs(prog[i].args[3 - m]) :
                prog[j].op = "AND" /\ b \in Range(prog[j].args)

\* The operand of the operand: NOT(NOT(x)) is x.
Undone(insn) ==
    {prog[i].args[1] : i \in {j \in Defs(insn.args[1]) :
                                insn.op \in Unary /\ prog[j].op = insn.op}}

\* What insn_combine_pass makes of an instruction.
Combined(insn) ==
    LET a == insn.args[1]
        b == insn.args[2]
        y == Resolve(b)
        Zero == Becomes(insn, "CONST", <<Const(0)>>)
        Same(o) == Becomes(insn, "PASSTHROUGH", <<o>>)
    IN CASE insn.op \in {"XOR", "SUB"} /\ a = b -> Zero
         [] insn.op \in {"AND", "MUL"} /\ y = Const(0) -> Zero
         [] /\ insn.op \in Binary /\ IsConst(y)
            /\ Identities(insn.op, y[2]) -> Same(a)
         [] insn.op \in Unary /\ Undone(insn) # {} ->
              Same(CHOOSE o \in Undone(insn) : TRUE)
         [] insn.op = "OR" /\ IsMasked(a, b) -> Same(b)
         [] insn.op = "OR" /\ (IsMasked(b, a) \/ a = b) -> Same(a)
         [] OTHER -> insn

InsnCombine ==
    /\ InPass("insn_combine")
    /\ Replace(Combined(Insn))
    /\ UNCHANGED lastStore

\* Looking back from the end, dead_store_elim_pass drops a private store to a
\* constant address unless a private load of it comes before the next one.
DeadStores ==
    LET private(op) == {i \in DOMAIN prog : /\ prog[i].op = op /\ prog[i].private
                                            /\ IsConst(prog[i].args[1])}
        Same(i, j) == prog[i].args[1] = prog[j].args[1]
    IN {i \in private("STORE") :
            \A j \in private("LOAD") : i < j /\ Same(i, j) =>
                \E k \in private("STORE") : i < k /\ k < j /\ Same(i, k)}

DeadStoreElim ==
    /\ InPass("dead_store_elim")
    /\ Keep(DOMAIN prog \ DeadStores)

\* Faulty variant of Referenced: the operands of side effects are not counted.
ReferencedByValues ==
    {i \in DOMAIN prog :
        \E j \in DOMAIN prog : /\ prog[j].op \in Valued
                               /\ Ref(i) \in Range(prog[j].args)}

Referenced ==
    {i \in DOMAIN prog : \E j \in DOMAIN prog : Ref(i) \in Range(prog[j].args)}

DeadDepElim ==
    /\ InPass("dead_dep_elim")
    /\ Keep({i \in DOMAIN prog : prog[i].op \in SideEffectful} \cup Referenced)

\* Faulty variant of JumpOf: the other arm.
JumpOfFalse(c) == IF c = 0 THEN "JMP" ELSE "NOP"

\* What a conditional jump on the constant c is.
JumpOf(c) == IF c # 0 THEN "JMP" ELSE "NOP"

BranchFold ==
    /\ InPass("branch_fold")
    /\ Replace(IF Insn.op = "CJMP" /\ IsConst(Insn.args[1])
               THEN Becomes(Insn, JumpOf(Insn.args[1][2]), Tail(Insn.args))
               ELSE Insn)
    /\ UNCHANGED lastStore

Next ==
    \/ ConstPromote \/ MemForward \/ ConstFold \/ InsnCombine
    \/ DeadStoreElim \/ DeadDepElim \/ BranchFold \/ NextPass

Spec == Init /\ [][Next]_vars

-----------------------------------------------------------------------------
(* Properties *)

\* The passes keep SSA: an operand refers to an earlier instruction.
OperandOf(i) == {Const(w) : w \in Word} \cup {Sym(r) : r \in Symbols(original)}
                \cup {Ref(j) : j \in {k \in DOMAIN prog : k < i}}

TypeOK ==
    /\ DOMAIN prog \subseteq DOMAIN original
    /\ \A i \in DOMAIN prog :
        /\ prog[i].op \in Op
        /\ \A k \in DOMAIN prog[i].args : prog[i].args[k] \in OperandOf(i)
    /\ rest \in SUBSET DOMAIN prog
    /\ pass \in 1 .. Len(PassList)
    /\ iters \in 0 .. MaxIters[driver]
    /\ pc \in {"pass", "done", "scan"}

(* README.md says that the original semantics are left: whatever the       *)
(* symbols and memory are, an instruction that remains has the value it    *)
(* had in the function the passes got.                                     *)
ValuesPreserved ==
    \A e \in executions : \A i \in DOMAIN prog : Computes(prog, e, i)

\* What instruction i does in an execution that does not show as a value.
Effect(p, e, i) ==
    LET x == [k \in DOMAIN p[i].args |-> OperandValue(e, p[i].args[k])]
    IN IF i \notin DOMAIN p THEN <<>>
       ELSE CASE p[i].op = "CJMP" -> IF x[1] # 0 THEN <<"JMP", Tail(x)>> ELSE <<>>
              [] p[i].op \in SideEffectful \ {"CJMP"} -> <<p[i].op, x>>
              [] OTHER -> <<>>

(* Stores, calls, returns and jumps stay, with the operands they had, in   *)
(* the order they had; a conditional jump may become the jump it makes, or *)
(* nothing, and only private stores may go.                                *)
EffectsPreserved ==
    \A e \in executions : \A i \in DOMAIN original :
        \/ Effect(prog, e, i) = Effect(original, e, i)
        \/ original[i].private /\ i \notin DOMAIN prog

\* The fewer steps an operation is from one that the passes leave alone.
Rank(op) == CASE op \in {"CONST", "NOP"} -> 0
              [] op \in {"PASSTHROUGH", "JMP"} -> 1
              [] OTHER -> 2

\* An operand is the same, or no longer refers to an instruction as late.
Resolves(new, o) ==
    \/ new = o
    \/ o[1] = "ref" /\ (new[1] = "ref" => new[2] < o[2])

Simpler(new, insn) ==
    \/ Rank(new.op) < Rank(insn.op)
    \/ /\ new.op = insn.op
       /\ DOMAIN new.args = DOMAIN insn.args
       /\ \A k \in DOMAIN new.args : Resolves(new.args[k], insn.args[k])

(* No pass undoes what another did, and a pass reports a change if and     *)
(* only if it made one: what it changes gets simpler, in an order without  *)
(* infinite descent, or is removed.  So the loop of a driver ends for      *)
(* every function, max_iters or not, and ends without max_iters only when  *)
(* no pass has anything left to do.                                        *)
ChangesSimplify ==
    [][pc = "pass" /\ rest # {} =>
        /\ DOMAIN prog' \subseteq DOMAIN prog
        /\ \A i \in DOMAIN prog' : Simpler(prog'[i], prog[i])
        /\ any' = \/ any
                  \/ DOMAIN prog' # DOMAIN prog
                  \/ \E i \in DOMAIN prog' : prog'[i] # prog[i]]_vars
=============================================================================
