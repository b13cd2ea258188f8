------------------------------ MODULE Emitter ------------------------------
(***************************************************************************)
(* LLVMEmitter (src/lower/llvm_emitter.cpp): a linear function or a CFG    *)
(* becomes LLVM text.  Once it is written, the CFG and the text are run    *)
(* side by side, a block at a time.                                        *)
(*                                                                         *)
(* Text is kept as lines [def, op, args], where def is the name a line     *)
(* defines.  Shifts are by less than the width of a word: LLVM leaves the  *)
(* others undefined, where the IR takes the amount modulo the width.       *)
(***************************************************************************)
EXTENDS IR, SequencesExt

CONSTANTS
    Sources,        \* what is emitted: [form, blocks]
    Inputs,         \* values of the symbols, and of what a call returns
    Memories,       \* memory at the start of a run
    MaxBlocks       \* blocks that are run

\* form is "function" (one block, which has no terminator) or "cfg".  A block
\* has an id, phis, instrs and term; a phi has incoming values by block.
VARIABLES
    source,
    at,             \* the block being emitted, as an index
    n,              \* its part being emitted: phis, instrs, then term
    out,            \* EmitCtx: val_names, tmp_counter and the text by block
    ir,             \* the run of the source
    ll,             \* the run of the text
    left            \* blocks still to be run

vars == <<source, at, n, out, ir, ll, left>>

-----------------------------------------------------------------------------
(* What the recoveries and the passes hand over *)

\* Phis and instructions are written in the order of their places.
Items(b) == b.phis \o b.instrs
Places(s) == UNION {{a} \X DOMAIN Items(s.blocks[a]) : a \in DOMAIN s.blocks}
Item(s, p) == Items(s.blocks[p[1]])[p[2]]
IsPhi(s, p) == p[2] <= Len(s.blocks[p[1]].phis)
HasValue(s, p) == IsPhi(s, p) \/ Item(s, p).op \notin {"STORE", "RET", "JMP", "CJMP"}

Precedes(p, q) == p[1] < q[1] \/ (p[1] = q[1] /\ p[2] < q[2])
RefersTo(s, o, S) == o[1] = "ref" => \E p \in S : HasValue(s, p) /\ Item(s, p).id = o[2]
Before(s, q) == {p \in Places(s) : Precedes(p, q)}

Arity(op) == CASE op \in Binary \cup {"STORE", "CJMP"} -> 2
               [] op = "SELECT" -> 3
               [] op = "NOP" -> 0
               [] OTHER -> 1
TermKind == {"JMP", "CJMP", "FALLTHROUGH", "RET", "UNREACHABLE"}

\* add_block numbers the blocks; both recoveries draw the ids of a graph from
\* one counter; a linear function is a block; instructions and conditions
\* refer to what comes before them, phis to any value.
WellFormed(s) ==
    /\ s.form \in {"function", "cfg"}
    /\ s.blocks \in Seq(ToSet(s.blocks))
    /\ s.form = "function" => Len(s.blocks) = 1 /\ s.blocks[1].phis = <<>>
    /\ \A a \in DOMAIN s.blocks :
          LET b == s.blocks[a]
          IN /\ b.phis \in Seq(ToSet(b.phis)) /\ b.instrs \in Seq(ToSet(b.instrs))
             /\ b.term.kind \in TermKind
             /\ b.term.kind = "CJMP" =>
                   RefersTo(s, b.term.condition, Before(s, <<a + 1, 1>>))
             /\ \A d \in DOMAIN s.blocks : b.id = s.blocks[d].id => a = d
    /\ \A p, q \in Places(s) : Item(s, p).id = Item(s, q).id => p = q
    /\ \A p \in Places(s) :
          IF IsPhi(s, p)
          THEN \A b \in DOMAIN Item(s, p).incoming :
                  RefersTo(s, Item(s, p).incoming[b], Places(s))
          ELSE /\ DOMAIN Item(s, p).args = 1 .. Arity(Item(s, p).op)
               /\ \A k \in DOMAIN Item(s, p).args :
                     RefersTo(s, Item(s, p).args[k], Before(s, p))

ASSUME SourcesAssumption == \A s \in Sources : WellFormed(s)
ASSUME RunsAssumption ==
    /\ \A sym \in Inputs : sym \in [DOMAIN sym -> Word] /\ "call" \in DOMAIN sym
    /\ Memories \subseteq [Word -> Word]

Put(f, k, v) == [j \in DOMAIN f \cup {k} |-> IF j = k THEN v ELSE f[j]]

Block == source.blocks[at]
BlockOf(b) == CHOOSE x \in ToSet(source.blocks) : x.id = b

-----------------------------------------------------------------------------
(* EmitCtx *)

\* Names are v<id>, t<k> and those of symbols; operands in the text are names,
\* numbers or labels.
V(id) == <<"v", id>>
T(k) == <<"t", k>>
NoName == <<"none">>
Num(w) == <<"num", w>>
Local(name) == <<"local", name>>
Label(b) == <<"label", b>>

Instrs == source.blocks[1].instrs
Definition(o) == {i \in ToSet(Instrs) : o = Ref(i.id)}

\* resolve, which follows constants and PASSTHROUGHs.
Resolve(o) ==
    LET Step(x, i) == IF \E d \in Definition(x) : d.op \in {"CONST", "PASSTHROUGH"}
                      THEN (CHOOSE d \in Definition(x) : TRUE).args[1] ELSE x
    IN FoldLeft(Step, o, Instrs)

Text(o) == CASE o[1] = "const" -> Num(o[2])
             [] o[1] = "sym" -> Local(o)
             [] OTHER -> Num(0)

\* val_ref.  Only emit_function has an instr_map.
ValRef(c, o) ==
    IF o[1] = "ref" /\ o[2] \in DOMAIN c.names THEN c.names[o[2]]
    ELSE IF o[1] = "ref" /\ source.form = "function" THEN Text(Resolve(o)) ELSE Text(o)

Named(c, id, x) == [c EXCEPT !.names = Put(@, id, x)]
Say(c, def, op, args) ==
    [c EXCEPT !.text[Block.id] = Append(@, [def |-> def, op |-> op, args |-> args])]

\* Faulty variant of NewTmp: the counter stays.
NewTmpAgain(c) == c

\* new_tmp takes the name T(c.temps).
NewTmp(c) == [c EXCEPT !.temps = @ + 1]

-----------------------------------------------------------------------------
(* emit_instr *)

LlvmBinop == [ADD |-> "add", SUB |-> "sub", MUL |-> "mul", XOR |-> "xor",
              AND |-> "and", OR |-> "or", SHL |-> "shl", SHR |-> "lshr",
              SAR |-> "ashr"]

\* Faulty variant of EmitLoad: the name is the pointer's.
EmitLoadUnnamed(s, id, x) ==
    Say(Say(NewTmp(s), V(id), "inttoptr", <<x>>), T(s.temps), "load", <<Local(V(id))>>)

EmitLoad(s, id, x) ==
    LET s1 == Say(NewTmp(s), V(id), "inttoptr", <<x>>)
        s2 == Say(s1, T(s.temps), "load", <<Local(V(id))>>)
    IN Named(s2, id, Local(T(s.temps)))

EmitStore(s, x, y) ==
    Say(Say(NewTmp(s), T(s.temps), "inttoptr", <<x>>), NoName, "store",
        <<y, Local(T(s.temps))>>)

EmitSelect(s, id, x, y, z) ==
    Say(Say(NewTmp(s), T(s.temps), "icmp ne", <<x, Num(0)>>), V(id), "select",
        <<Local(T(s.temps)), y, z>>)

\* A PASSTHROUGH writes nothing: its name is what it passes on.
Alias(s, id, o) ==
    Named(s, id, IF o[1] # "ref" THEN Text(o)
                 ELSE IF o[2] \in DOMAIN s.names THEN s.names[o[2]] ELSE Local(V(o[2])))

EmitInstr(c, i) ==
    LET s == Named(c, i.id, Local(V(i.id)))
        x(k) == ValRef(s, i.args[k])
    IN CASE i.op = "CONST" -> Say(s, V(i.id), "add", <<x(1), Num(0)>>)
         [] i.op \in DOMAIN LlvmBinop -> Say(s, V(i.id), LlvmBinop[i.op], <<x(1), x(2)>>)
         [] i.op = "NOT" -> Say(s, V(i.id), "xor", <<x(1), Num(AllOnes)>>)
         [] i.op = "NEG" -> Say(s, V(i.id), "sub", <<Num(0), x(1)>>)
         [] i.op = "LOAD" -> EmitLoad(s, i.id, x(1))
         [] i.op = "STORE" -> EmitStore(s, x(1), x(2))
         [] i.op = "RET" -> Say(s, NoName, "ret", <<x(1)>>)
         [] i.op = "CALL" -> Say(s, V(i.id), "call", <<x(1)>>)
         [] i.op = "PASSTHROUGH" -> Alias(s, i.id, i.args[1])
         [] i.op = "SELECT" -> EmitSelect(s, i.id, x(1), x(2), x(3))
         [] OTHER -> Say(s, V(i.id), "add", <<Num(0), Num(0)>>)

-----------------------------------------------------------------------------
(* emit_function and emit_cfg_function *)

\* What emit_function knows of the names before it emits: constants, what
\* PASSTHROUGHs resolve to, and 0 for NOPs.
Preregistered ==
    IF source.form = "cfg" THEN <<>>
    ELSE LET FinalValue(i) == IF i.op = "NOP" THEN Const(0) ELSE Resolve(i.args[1])
             Known == {i \in ToSet(Instrs) : /\ i.op \in {"NOP", "CONST", "PASSTHROUGH"}
                                             /\ FinalValue(i)[1] # "ref"}
         IN [id \in {i.id : i \in Known} |->
                Text(FinalValue(CHOOSE i \in Known : i.id = id))]

EmitPhi(c, p) ==
    LET s == Named(c, p.id, Local(V(p.id)))
    IN Say(s, V(p.id), "phi", [b \in DOMAIN p.incoming |-> ValRef(s, p.incoming[b])])

\* sym_regs: the parameters of the function that is written.
Parameters ==
    LET Written == UNION {ToSet(b.instrs) : b \in ToSet(source.blocks)}
        PhiNodes == UNION {ToSet(b.phis) : b \in ToSet(source.blocks)}
    IN {o \in (UNION {Range(i.args) : i \in Written})
               \cup (UNION {Range(p.incoming) : p \in PhiNodes})
               \cup {b.term.condition : b \in ToSet(source.blocks)} : o[1] = "sym"}

Returns(b) == \E i \in ToSet(b.instrs) : i.op = "RET"

\* Faulty variant of EmitTerm: the fallback `ret' is always there.
EmitTermTwice(c, b) == Say(c, NoName, "ret", <<Num(0)>>)

EmitTerm(c, b) ==
    CASE b.term.kind = "JMP" -> Say(c, NoName, "br", <<Label(b.term.target)>>)
      [] b.term.kind = "FALLTHROUGH" ->
            Say(c, NoName, "br", <<Label(b.term.fallthrough)>>)
      [] b.term.kind = "CJMP" ->
            Say(Say(NewTmp(c), T(c.temps), "icmp ne",
                    <<ValRef(c, b.term.condition), Num(0)>>),
                NoName, "br", <<Local(T(c.temps)), Label(b.term.target),
                                Label(b.term.fallthrough)>>)
      [] b.term.kind = "RET" ->
            IF Returns(b) THEN c ELSE Say(c, NoName, "ret", <<Num(0)>>)
      [] b.term.kind = "UNREACHABLE" -> Say(c, NoName, "unreachable", <<>>)

Emitting == at <= Len(source.blocks)

Phi ==
    /\ Emitting /\ n <= Len(Block.phis)
    /\ out' = EmitPhi(out, Block.phis[n])
    /\ n' = n + 1
    /\ UNCHANGED <<source, at, ir, ll, left>>

\* In a CFG's blocks jumps are left to the terminator.
Instr ==
    /\ Emitting /\ n - Len(Block.phis) \in DOMAIN Block.instrs
    /\ LET i == Block.instrs[n - Len(Block.phis)]
       IN out' = IF source.form = "cfg" /\ i.op \in {"JMP", "CJMP"} THEN out
                 ELSE EmitInstr(out, i)
    /\ n' = n + 1
    /\ UNCHANGED <<source, at, ir, ll, left>>

Term ==
    /\ Emitting /\ n > Len(Block.phis) + Len(Block.instrs)
    /\ out' = EmitTerm(out, Block)
    /\ at' = at + 1
    /\ n' = 1
    /\ IF at < Len(source.blocks) THEN UNCHANGED <<ir, ll>>
       ELSE \E sym \in Inputs, mem \in Memories :
              LET run == [sym |-> sym, val |-> <<>>, mem |-> mem, from |-> -1,
                          here |-> source.blocks[1].id, result |-> 0]
              IN ir' = run /\ ll' = run
    /\ UNCHANGED <<source, left>>

-----------------------------------------------------------------------------
(* The two runs *)

\* Where a run is that has returned, or come to what is unreachable.
Returned == -1
Trapped == -2
Stopped(r) == r.here \in {Returned, Trapped}

Computed(e, i) ==
    LET x(k) == OperandValue(e, i.args[k])
    IN CASE i.op \in Binary -> BinaryValue(i.op, x(1), x(2))
         [] i.op \in Unary -> UnaryValue(i.op, x(1))
         [] i.op \in {"CONST", "PASSTHROUGH"} -> x(1)
         [] i.op = "SELECT" -> IF x(1) # 0 THEN x(2) ELSE x(3)
         [] i.op = "LOAD" -> e.mem[x(1)]
         [] i.op = "CALL" -> e.sym["call"]

IrStep(e, i) ==
    LET x(k) == OperandValue(e, i.args[k])
    IN CASE i.op = "STORE" -> [e EXCEPT !.mem[x(1)] = x(2)]
         [] i.op = "RET" -> [e EXCEPT !.result = x(1)]
         [] i.op \in Valued \cup {"CALL"} -> [e EXCEPT !.val = Put(@, i.id, Computed(e, i))]
         [] OTHER -> e

\* e after each of the instructions is.
IrSteps(e, is) ==
    LET after[k \in 0 .. Len(is)] == IF k = 0 THEN e ELSE IrStep(after[k - 1], is[k])
    IN after

Phis(e, b) == [id \in {p.id : p \in ToSet(b.phis)} |->
                  OperandValue(e, (CHOOSE p \in ToSet(b.phis) : p.id = id)
                                      .incoming[e.from])]
Over(f, g) == [k \in DOMAIN f \cup DOMAIN g |-> IF k \in DOMAIN g THEN g[k] ELSE f[k]]

IrBlock(e, b) ==
    LET start == [e EXCEPT !.val = Over(@, Phis(e, b))]
        e1 == IrSteps(start, b.instrs)[Len(b.instrs)]
        to == CASE b.term.kind = "JMP" -> b.term.target
                [] b.term.kind = "FALLTHROUGH" -> b.term.fallthrough
                [] b.term.kind = "CJMP" ->
                      IF OperandValue(e1, b.term.condition) # 0 THEN b.term.target
                      ELSE b.term.fallthrough
                [] b.term.kind = "RET" -> Returned
                [] b.term.kind = "UNREACHABLE" -> Trapped
    IN [e1 EXCEPT !.from = e.here, !.here = to]

\* What an operand of the text is worth; a name that has no value yet is
\* worth 0.
Worth(e, x) ==
    IF x[1] = "num" THEN x[2]
    ELSE IF x[2][1] = "sym" THEN e.sym[x[2][2]]
    ELSE IF x[2] \in DOMAIN e.val THEN e.val[x[2]] ELSE 0

OpOf(line) == CHOOSE op \in DOMAIN LlvmBinop : LlvmBinop[op] = line.op

Value(e, line) ==
    LET x(k) == Worth(e, line.args[k])
    IN CASE \E op \in DOMAIN LlvmBinop : LlvmBinop[op] = line.op ->
                BinaryValue(OpOf(line), x(1), x(2))
         [] line.op = "icmp ne" -> IF x(1) # x(2) THEN 1 ELSE 0
         [] line.op = "select" -> IF x(1) # 0 THEN x(2) ELSE x(3)
         [] line.op = "inttoptr" -> x(1)
         [] line.op = "load" -> e.mem[x(1)]
         [] line.op = "call" -> e.sym["call"]

LlStep(e, line) ==
    CASE line.op = "store" ->
            [e EXCEPT !.mem[Worth(e, line.args[2])] = Worth(e, line.args[1])]
      [] line.op = "ret" ->
            [e EXCEPT !.result = Worth(e, line.args[1]), !.here = Returned]
      [] line.op = "unreachable" -> [e EXCEPT !.here = Trapped]
      [] line.op = "br" ->
            LET k == IF Len(line.args) = 1 THEN 1
                     ELSE IF Worth(e, line.args[1]) # 0 THEN 2 ELSE 3
            IN [e EXCEPT !.here = line.args[k][2]]
      [] line.op = "phi" -> e
      [] OTHER -> [e EXCEPT !.val = Put(@, line.def, Value(e, line))]

\* e after each of the lines.
LlSteps(e, lines) ==
    LET after[k \in 0 .. Len(lines)] ==
            IF k = 0 THEN e ELSE LlStep(after[k - 1], lines[k])
    IN after

LlPhis(e, lines) ==
    LET phis == {line \in ToSet(lines) : line.op = "phi"}
    IN [name \in {p.def : p \in phis} |->
           Worth(e, (CHOOSE p \in phis : p.def = name).args[e.from])]

LlBlock(e, lines) ==
    LET start == [e EXCEPT !.val = Over(@, LlPhis(e, lines))]
    IN [LlSteps(start, lines)[Len(lines)] EXCEPT !.from = e.here]

Run ==
    /\ ~Emitting /\ left > 0
    /\ ~Stopped(ir) /\ ~Stopped(ll)
    /\ ir' = IrBlock(ir, BlockOf(ir.here))
    /\ ll' = LlBlock(ll, out.text[ll.here])
    /\ left' = left - 1
    /\ UNCHANGED <<source, at, n, out>>

NoRun == [sym |-> <<>>, val |-> <<>>, mem |-> <<>>, from |-> -1, here |-> Returned,
          result |-> 0]

Init ==
    /\ source \in Sources
    /\ at = 1 /\ n = 1
    /\ out = [names |-> Preregistered, temps |-> 0,
              text |-> [b \in {x.id : x \in ToSet(source.blocks)} |-> <<>>]]
    /\ ir = NoRun /\ ll = NoRun
    /\ left = MaxBlocks

Next == Phi \/ Instr \/ Term \/ Run

Spec == Init /\ [][Next]_vars

-----------------------------------------------------------------------------
(* Dominance *)

Targets(b) ==
    CASE b.term.kind = "JMP" -> {b.term.target}
      [] b.term.kind = "FALLTHROUGH" -> {b.term.fallthrough}
      [] b.term.kind = "CJMP" -> {b.term.target, b.term.fallthrough}
      [] OTHER -> {}
Follows(s, a, d) == s.blocks[d].id \in Targets(s.blocks[a])

\* The blocks control can be in without having been in block d.
ClosedWithout(s, d, S) ==
    /\ 1 # d => 1 \in S
    /\ \A a \in S : \A b \in DOMAIN s.blocks \ {d} : Follows(s, a, b) => b \in S
Without(s, d) ==
    {a \in DOMAIN s.blocks : \A S \in SUBSET DOMAIN s.blocks : ClosedWithout(s, d, S) => a \in S}
Dominates(s, d, a) == a \notin Without(s, d)

-----------------------------------------------------------------------------
(* Properties *)

Lines == UNION {{b} \X DOMAIN out.text[b] : b \in DOMAIN out.text}
Line(p) == out.text[p[1]][p[2]]
Uses(line) == {line.args[k] : k \in DOMAIN line.args}

(* The text is in SSA form, as LLVM requires of a module: no name is        *)
(* defined twice, whichever blocks and helpers the definitions come from,  *)
(* and every name used is defined or a parameter.                          *)
SingleAssignment ==
    /\ \A p, q \in Lines : Line(p).def = Line(q).def => p = q \/ Line(p).def = NoName
    /\ ~Emitting =>
          \A p \in Lines : \A x \in Uses(Line(p)) :
              x[1] = "local" => x[2] \in {Line(q).def : q \in Lines} \cup Parameters

\* A RET that a run went past is followed by more text.
ReturnsLast(b) ==
    \A k \in DOMAIN b.instrs :
        b.instrs[k].op = "RET" => k = Len(b.instrs) /\ b.term.kind = "RET"
Ends(c, b) == {k \in DOMAIN c.text[b] : c.text[b][k].op \in {"br", "ret", "unreachable"}}

(* Each block ends with one br, ret or unreachable, wherever the return    *)
(* comes from: the body, the terminator or the end of the function.        *)
OneTerminator ==
    ~Emitting => \A b \in ToSet(source.blocks) :
        ReturnsLast(b) => Ends(out, b.id) = {Len(out.text[b.id])}

(* The text run beside its source goes through the same blocks, returns    *)
(* the same, leaves the same memory, and each value that a block which     *)
(* follows may read is what its name is worth: those of the block just run *)
(* and of the blocks that dominate it.                                     *)
SameExecution ==
    ~Emitting =>
        /\ ll.here = ir.here /\ ll.mem = ir.mem /\ ll.result = ir.result
        /\ \A a \in DOMAIN source.blocks, p \in Places(source) :
              LET id == Item(source, p).id
              IN /\ source.blocks[a].id = ir.from /\ id \in DOMAIN ir.val
                 /\ Dominates(source, p[1], a)
                 => Worth(ll, out.names[id]) = ir.val[id]

-----------------------------------------------------------------------------
(* Sources whose runs read nothing that was not computed *)

\* The operations that are written as what they compute.
Translated == DOMAIN LlvmBinop
    \cup {"NOT", "NEG", "CONST", "PASSTHROUGH", "SELECT", "LOAD", "CALL"}
Computes(s, p) == IsPhi(s, p) \/ Item(s, p).op \in Translated

\* o has a value at place q, wherever control came from.
AtEnd(s, a) == <<a, Len(Items(s.blocks[a])) + 1>>
Available(s, o, q) ==
    \/ o[1] = "const" /\ o[2] \in Word
    \/ o[1] = "sym" /\ \A sym \in Inputs : o[2] \in DOMAIN sym
    \/ /\ o[1] = "ref"
       /\ \E p \in Places(s) :
             /\ Computes(s, p) /\ Item(s, p).id = o[2]
             /\ IF p[1] = q[1] THEN p[2] < q[2] ELSE Dominates(s, p[1], q[1])

\* Jumps lead to blocks, none to the first; returns come last; operations are
\* ones that are translated, and their operands available.
Meaningful(s) ==
    /\ s.blocks # <<>> /\ s.blocks[1].phis = <<>>
    /\ \A a \in DOMAIN s.blocks :
          LET b == s.blocks[a]
          IN /\ b.id \in Nat /\ ReturnsLast(b)
             /\ Targets(b) \subseteq {s.blocks[d].id : d \in DOMAIN s.blocks \ {1}}
             /\ b.term.kind = "CJMP" => Available(s, b.term.condition, AtEnd(s, a))
    /\ \A p \in Places(s) :
          IF IsPhi(s, p)
          THEN \A a \in DOMAIN s.blocks :
                  Follows(s, a, p[1]) =>
                     /\ s.blocks[a].id \in DOMAIN Item(s, p).incoming
                     /\ Available(s, Item(s, p).incoming[s.blocks[a].id], AtEnd(s, a))
          ELSE /\ Item(s, p).op \in Translated \cup {"STORE", "RET", "JMP", "CJMP", "NOP"}
               /\ \A k \in DOMAIN Item(s, p).args : Available(s, Item(s, p).args[k], p)
               /\ Item(s, p).op \in {"SHL", "SHR", "SAR"} =>
                     \E w \in 0 .. Bits - 1 : Item(s, p).args[2] = Const(w)

\* What a phi takes over was written before it, or is the phi itself.
PhisLookBack(s) ==
    \A p \in Places(s) : IsPhi(s, p) =>
       \A a \in DOMAIN s.blocks : Follows(s, a, p[1]) =>
          RefersTo(s, Item(s, p).incoming[s.blocks[a].id], Before(s, p) \cup {p})
=============================================================================
