# DeHendrix in TLA+

TLA+ models of DeHendrix, a static devirtualizer for x86-64 code protected by a
bytecode VM. The program is sequential C++17: it evaluates protector code
symbolically, cuts it into VM basic blocks, builds a control-flow graph, and
lowers the graph to LLVM IR. There are no threads, messages or persistent
state. What is hard to test is protocol and order: worklists that must visit
every block once, fixpoints that must end, flags and tables filled at different
moments that must agree afterwards, in-place rewrites in the unspecified order
of hash maps, limits tested once per iteration, and state remembered from an
earlier step and used later.

All paths below are relative to the repository.

## Inventory of the system

| Component | State it keeps | Operations | Interacts with |
|---|---|---|---|
| CFGRecovery (`src/eval/cfg_recovery.cpp`) | block table, edges, incoming states, worklist, enqueued and processed sets, phi nodes, substitution map | `recover` | calls the segment oracle, fills a CFGFunction |
| CFG container (`src/ir/cfg.cpp`) | blocks, edges, next block id | `add_block`, `add_edge`, lookups | both recoveries, the emitter |
| VM CFG (`src/eval/segment_eval.cpp`) | block table, work items, processed set, latched dispatcher address, instruction id counter | `recover_vm_cfg`, `run_vm_segment`, `append_renumbered` | runs a GuidedEvaluator per segment |
| Native CFG (`src/eval/segment_eval.cpp`) | leaders, discovered targets | `recover_native_cfg`, `lift_and_optimize_segment` | CFGRecovery with an oracle of its own, passes |
| GuidedEvaluator (`src/eval/guided_eval.cpp`) | program, registers, memory, visited addresses, VPC trace, counters | `run`, `resolve_vpc`, `resolve_jmp_target`, `check_vmexit` | lifter, passes, ByteMemory |
| ByteMemory (`src/memory/byte_memory.cpp`) | known bytes, safe ranges | `store`, `load`, `add_safe_range` | GuidedEvaluator |
| Passes (`src/passes/transforms.cpp`) | the instruction list | promotion, folding, forwarding, dead code, combination, branch folding, stack rewrite | everything that evaluates |
| Virtual conditional jumps (`src/eval/segment_eval.cpp`) | a copy of the function | `extract_vjcc_targets` | passes; called for each segment |
| Lifter (`src/lifter/x64_lifter.cpp`, `src/ir/function.cpp`) | register map, instruction vector and id counter | `lift_insn`, `lift_block`, `emit` | Capstone; called by the evaluator and by native segments |
| IR (`include/deobf/ir.h`, `src/ir/value.cpp`) | none | operations, their classes | everything |
| LLVM emitter (`src/lower/llvm_emitter.cpp`) | emitted text, value names, counter of temporaries | `emit_function`, `emit_cfg_function` | CFGFunction, `resolve` of the passes |
| PE loader, IAT cracker, pipeline, CLI, Python, MCP and IDA bindings | files, options | I/O and glue | the components above |

What makes each of them correct, and what is hard about it:

* **CFGRecovery**: every reachable VPC is evaluated exactly once (within
  `max_blocks`), the four descriptions of the graph (terminators, edges,
  incoming states, block table) agree, back edges cut every cycle, and full SSA
  leaves no symbolic entry value and gives every block the right values. Hard:
  the flag of an edge and the state that drives a block depend on the order of
  discovery; the substitution map is rewritten while it is walked.
* **VM CFG**: the same walk with a work queue that may hold duplicates, a
  dispatcher address latched by the first segment that reports one, and
  instruction ids renumbered from one counter.
* **Native CFG**: a fixpoint over block leaders that must end, and whose last
  pass must split each block where control reaches another. Instructions have
  sizes, so a jump may lead into one, and two decodings of the same bytes fall
  into step again.
* **GuidedEvaluator**: the run must end, report the right reason, and never
  lift an address outside the image; loops are told from dispatch by the
  visited set and the dispatcher address.
* **ByteMemory and the promotion cycle**: a load may only be replaced by the
  value the program would read at that point. Hard: there is one memory for all
  program points, and every scan starts again at the first instruction.
* **Passes**: each rewrites the program without changing what it computes, and
  the fixpoints end. Hard: one pass works on what another left half done.
* **Virtual conditional jumps**: the pair found by folding two copies is where
  the function goes.
* **Lifter**: whatever comes before an instruction, the register map and the
  stores emitted say what the processor's registers and memory hold, and
  conditions and jumps are the processor's. Hard: each instruction reads what
  an earlier one left in the map; calls and pushes read through one stack
  pointer and write another; a reference to an emitted instruction is read
  after the vector may have moved.
* **LLVM emitter**: the text is in SSA form, every block ends once, and it does
  what the graph does. Hard: values are named in the order of writing, which is
  not the order of running.

## Modules and plan

| Module | Models | Checked by | Proofs |
|---|---|---|---|
| `GraphWalk` | what any recovery promises: a walk of a graph within a budget | as the abstract specification of the two below | `GraphWalkProofs` |
| `CFGRecovery` | `CFGRecovery::recover` with any oracle | `MCCFGRecovery` | `CFGRecoveryProofs` |
| `VmCfg` | `recover_vm_cfg`, `append_renumbered`, `remap_value` | `MCVmCfg` | `VmCfgProofs` |
| `NativeCfg` | `recover_native_cfg`, with `lift_and_optimize_segment` as the oracle of `CFGRecovery` (which it extends) | `MCNativeCfg` | `CFGRecoveryProofs` |
| `GuidedEval` | `GuidedEvaluator::run`: dispatch, loops, trace, catalog, exits | `MCGuidedEval` | `GuidedEvalProofs` |
| `IR` | values, operations and what they compute, at a word width `Bits` | with the next six | `IRProofs` |
| `Passes` | the passes of `transforms.cpp` and the drivers that repeat them (extends `IR`) | `MCOptimizer` | `PassesProofs` |
| `Promotion` | `ByteMemory` and the promotion rounds of `GuidedEvaluator::run` and of `promote_and_optimize` (extends `Passes`) | `MCOptimizer` | |
| `VjccTargets` | `extract_vjcc_targets` (extends `Passes`) | `MCOptimizer` | `PassesProofs` |
| `Optimizer` | the passes with everybody who runs them: composes the three above | `MCOptimizer` | |
| `Lifter` | `lift_block`, `lift_insn`, `Function::emit`, beside the processor (extends `IR`) | `MCLifter` | `LifterProofs` |
| `Emitter` | `emit_function`, `emit_cfg_function`, and a run of the text beside a run of the graph (extends `IR`) | `MCEmitter` | `EmitterProofs` |

They were built in that order, the recoveries first because everything else of
the program feeds them; the lifter and the emitter, the two ends of the
program, came last. What the plan has left, in order:

1. Proofs: SSA form and side effects while loads are promoted (`Promotion`).
2. `VmCfg` over `GuidedEval`: the segment as a run of the evaluator and no
   longer a nondeterministic result, so that which address is reported as the
   dispatcher's is a consequence and not a choice.
3. The lifter's code run through the passes: which of the forms the IR cannot
   express the optimiser then turns into constants.

## How the models correspond to the code

Block ids are positions in the block table, from 1 (the code's, from 0). A hash
map or set is a TLA+ function or set; where the code iterates over one, the
order is a nondeterministic choice. Pointers do not appear, and moves only in `Lifter`, where the vector left behind by one matters.

**GraphWalk** has one action for a node that is expanded with all its
successors, and one that ends the walk: when every node found is expanded, or
more than `Budget` were found.

**CFGRecovery**. `EvalStop`, `EvalGoto` and `EvalBranch` are one iteration of the
exploration loop each, by what the oracle returns; all of `recover`'s tables
(`label`, `term`, `incoming`, `edges`, `worklist`, `enqueued`, `processed`) change
in the order of the code, so the flags and states depend on it in the same way.
`BuildPhis` and `BuildSubst` are the two passes over the finished table, and
`PickKey`, `Follow`, `SettleKey` are the loops of `resolve_subst`, one rewritten map
entry at a time. A state of the registers is a function from registers to
values or "absent"; a block's IR is the values it read at its entry (`reads`).

**VmCfg**. `RunStop` and `RunBranch` are an iteration whose segment ends and one
whose segment ends at a virtual conditional jump, `SkipItem` the early
`continue`, `Finish` the end of the loop. A segment yields instruction ids with
gaps, an address to re-enter and possibly a dispatcher address; the condition
of a branch is a register or one of its instructions. Nothing else is carried
between blocks, as in the code: a segment gets the injected VPC and the safe
ranges, no register state.

**NativeCfg** runs CFGRecovery's actions within a pass (`Evaluate`), starts the
next with the leaders found (`Again`), and returns at a fixpoint or after
`MaxPasses` (`Return`). An instruction is `nop`, `ret`, `goto`, `jcc`, an indirect
jump, an undecodable one, or sets or decrements the one register. Each address
of the image has the instruction that decodes there and its size, so
instructions overlap where they do in the bytes. `Window` stands for the 256
bytes disassembled at once; an instruction that is not whole in them does not
decode. `Continued` is the walk over the decoded instructions, and compares only
their own addresses with the leaders, as the code does. A call is a jump to its callee, because the lifter emits JMP and CALL
alike and the oracle follows both.

**GuidedEval** has one action per way through the top of the loop (`Enter`,
`InnerLoop`, `DispatchStop`, `Dispatch`, `OutOfSteps`), one for the window (`Lift`,
`OutOfBounds`), one for each answer of `resolve_jmp_target` (`Follow`,
`Unresolved`) and the last optimisation. The code at an address is how much of it
decodes and what ends it; what a window computes (VPC, jump target, stack
pointer) is chosen each time it is lifted, so every run of the code is one of
the model's. That goes for a window of which nothing decodes too, since folding
and promotion work on the whole IR. A ret may go on at a target that is safe but
outside the image (the stack is), and the run then stops there. `jump` is the target of the last jump of the whole IR, as the code
looks it up, hence it survives a window that has none.

**Passes**. A function is a TLA+ function from result ids to instructions; a pass
is a sweep with one step per instruction (`ConstPromote`, `MemForward`,
`ConstFold`, `InsnCombine`, `BranchFold`) or one step that removes a set
(`DeadStoreElim`, `DeadDepElim`), and `NextPass` is the driver. Words have `Bits`
bits instead of 64, and an access covers `Bits` one-bit cells instead of eight
bytes, so that partial overlap exists and is small. BSWAP reverses the cells of
a word. What ZEXT and SEXT compute is left open, as they do not say from what
width. `executions` is a ghost: all symbol values, initial memories and
instruction values that are possible for the function the driver got, the
reference the rewritten function is compared with. A CALL changes no memory in
them: the passes forget nothing at a call either (`transforms.cpp:162-209`), so
what a called function stores that is not lifted into the same IR is neither in
the code's view nor in the model's.

**Promotion** alternates `Passes` with `Scan` steps, one per instruction, in up to
three rounds, then lifts the next window into the same function (`Lift`) or
optimises it (`Finish`). The evaluator folds before each scan (`ScanFolded`,
`FoldAgain`); `promote_and_optimize` scans before it folds (`FoldScanned`,
`ScanAgain`), although its comment says that it mirrors the evaluator's cycle
(`segment_eval.cpp:95-97`). `memory` is the partial map of known cells, seeded
from the image for the ranges that lie in it.

**VjccTargets** folds the copy in which the condition is 1, notes the target
(`Compute`), folds the copy in which it is 0, and notes the other. `executions`
are those of the function with that value of the condition.

**Optimizer** starts one of the four: a driver alone, either cycle, or the two
copies.

**Lifter**. One step lifts one machine instruction (`Lift`), by an operator for
each branch of `lift_insn`. `lift` is the LiftState: the emitted instructions
(`func`), the register map (`regs`), the room left in the vector and how often it
has moved; a reference returned by `emit` is a copy of the state after that
`emit`, and `LateRef` says what `ref()` gives when it is read later: the id, or,
if the vector has moved, any of `StaleIds`, the ids freed memory may hold; a
reference to no instruction counts as 0. `val` and `mem` are the IR executed as
it is emitted, and `cpu` the processor, which runs the same instruction. Some forms are lifted to something the processor does not do
(`Expressible` lists what is left; see "Deviations"): after one of those, `exact`
is false and only `TypeOK` says anything. `flags` notes whether rflags holds a
whole flags word, the result of the last test or cmp, or neither.

**Emitter**. `Phi`, `Instr` and `Term` write one phi, one instruction and one
terminator. `out` is the EmitCtx: names by value id, the counter of temporaries,
and the text, as one sequence of lines for each block. When all is written the
graph and the text are run side by side, one block a step (`Run`), for any
values of the parameters. `SameExecution` compares the values that can still be
read, those of the block just run and of its dominators: in a loop, an alias whose
block was not run again stands for the new value and the graph's for the old one.

## What the runs show

| Run | Instance | Question |
|---|---|---|
| `cfg_explore` | all graphs over six VPCs (out-degree at most 2), `max_blocks` 3, no registers | is every VPC evaluated once and in order of discovery; do terminators, edges and incoming states describe one graph; does every cycle have a flagged edge; how far is the cap overrun; is it a `GraphWalk`? |
| `cfg_full_ssa` | all graphs over three VPCs, one register that each block keeps, sets or derives, every rewrite order | is the SSA form closed and right, whatever the order of the map? |
| `vm_cfg` | entry and three VPCs (one collides with the entry's key), two stop addresses, ids with gaps, `max_blocks` 3 | is a key run once and never rewritten; are ids unique and conditions local; is each arm entered at the one dispatcher; does it end; is it a `GraphWalk`? |
| `native` | all code of four instructions without the register, five bytes in which instructions of one and two bytes overlap, and nine instructions in which two register values meet at an indirect jump, window of three bytes | does the code the blocks hold equal what control reaches, do two passes settle the leaders and each pass find some, do two blocks share an instruction only if one begins inside an instruction of the other, is a block driven by its first edge? |
| `guided_trace` | two addresses, every pair of six kinds of window, `max_steps` 5, three VM instructions | does the run end, move and describe itself? |
| `optimizer` | words of two bits; about 1250 functions of up to five instructions with both drivers; up to nine in up to three windows, promoted in either cycle, four choices of safe ranges; 64 virtual jumps | does every remaining instruction compute what it did, does every side effect stay, does each change make the function simpler and is it reported, are promoted loads right and is the byte memory up to date, do the two targets of a virtual jump hold for every execution? |
| `lifter` | every sequence of up to three of 73 instructions on two registers and four words of memory, two starts, a vector with room and one that moves at once, freed memory that gives one of two ids | do the register map and the stores match the processor, are conditions and jumps the processor's? |
| `emitter` | linear functions of up to four instructions, diamonds with two phis, a loop whose phis need no later definition, four choices of parameters | is the text in SSA form, does each block end once, does it do what its source does? |

`cfg_entry_loop`, `promotion_read_first`, `lifter_moved` and `emitter_loop` each show
a deviation (below).

`guided_trace` and `native` state facts that hold for every outcome of what the
models leave open. The bounds: six VPCs give joins, diamonds, self loops, loops
through two arms and a frontier beyond the cap; three VPCs with a register give
loops with and without a merge. Two addresses are enough for a dispatcher and a
handler, and a third would only add more handlers. Four instructions hold every
shape of one loop with a split in its middle, and five bytes with
instructions of two an entry inside an instruction from which both decodings go
on to a common one. Nine chained additions are one more than the 8 iterations of
a fold settle. Of the two ids freed memory gives, 2 exists once three
instructions were emitted and 99 never does. Two bits have a sign, a carry and
two shift amounts, and two words of memory can overlap. Three instructions are
enough for a producer, something in between and a consumer: a cmp, a push and a
jump; the proof covers sequences of any length. The diamond and the loop are
the two ways a phi gets its operands, from above and from below.

In `optimizer` the functions keep to a discipline, and what happens without it is
described under "Deviations": no negative value is shifted by 0; addresses that
differ as written do not overlap; no word is read before it is written or
seeded (with promotion), nor, in `promote_and_optimize`, after a constant in it
was overwritten by a value that is none. The first two are `Tame`, and the proofs assume them of
each execution. The functions themselves are `WellFormed`, which
`PassesAssumption` and `QuestionsAssumption` ask of the constants: operands refer to
earlier instructions that have a value, as `emit` and the register map make them
(`function.cpp:6-15`), operations have the operands the lifter gives them, and an
address is marked `vm_private` in all its accesses or in none, for it says where
the word lies (`transforms.cpp:218-223`). In `emitter` shifts are by less than the width, a RET is
the last of its block, and phis refer to what is written before them.

What `Emitter` is given is `WellFormed`: block ids and instruction ids are unique
(both recoveries draw them from one counter, `segment_eval.cpp:289,451`,
`cfg_recovery.cpp:190`), instructions and conditions refer to what comes before
them in the order of the blocks, phis to any value, and each operation has the
operands the lifter gives it. The backward references are what the recoveries
leave: a segment of the VM refers to itself only (`VmConditionIsLocal`), a native
block to its first predecessor, which has a smaller id (`FirstEdgeDrives`,
`EvaluationFollowsDiscovery`), and full SSA puts either a phi of the block or a
value from further up in the place of a symbol (`ResolutionIsOrderIndependent`).
`OneTerminator` speaks of the blocks whose RETs come last; the others are listed
under "Deviations".

### Fairness

The program is sequential: as long as the function runs, its next step comes,
which is `WF_vars(Next)`. It is used for `Termination` and for the liveness of
`GraphWalk`. The oracle of `CFGRecovery` and the segments of `VmCfg` are steps that
return; that `GuidedEvaluator::run` does is what `WorkBounded` says.

### Deviations

Runs with an expected violation show four places where the code does not do
what its documentation says:

* `cfg_entry_loop`: a loop back to the entry block, found by one edge only, gets
  no phi (`cfg_recovery.cpp:194,238`): the entry keeps the initial values.
* `promotion_read_first`: a load of a word that is not known yet is promoted in a
  later scan to the value a later store left there (`guided_eval.cpp:252`).
* `lifter_moved`: `emit` returns a reference into a `std::vector`; push, pop, call,
  pushfq, popfq and inc or dec of memory read it after a further `emit`, when the
  vector may have moved (`x64_lifter.cpp:145,156,248,263,285,294`).
* `emitter_loop`: a phi's operand that is defined further down has no name yet and
  is written as 0 (`llvm_emitter.cpp:37,305`): no loop-carried value survives.

Others were met while modelling and are in the models, without a run:

* an edge to an earlier evaluated block is flagged as a back edge also if no
  path leads back (`cfg_recovery.cpp:149`), so `CyclesFlagged` has no converse;
* a merge where one predecessor's state lacks a register is pinned to the first
  (`cfg_recovery.cpp:203-212`), so `EntryValuesSound` is stated for
  the registers that all edges of a block define;
* a window without a jump of its own follows the last jump of an earlier window,
  and `hit_term` is never read (`guided_eval.cpp:106,216`);
* a segment that stops at an unresolved branch reports the window it stopped in
  as the address to re-enter (`segment_eval.cpp:417`); `VmCfg` re-enters the first
  address reported, whichever it is, and 0 counts as unknown;
* a VPC equal to the entry address shares the entry's block (`segment_eval.cpp:463`);
* `mem_forward_pass` is not limited to private memory as its heading says, and
  knows addresses only as they are written: with t = 0 + 0, the sequence
  STORE [t], x; STORE [0], y; LOAD [t] yields x (`transforms.cpp:162-209`);
* the caps on the iterations are not enough for every function: of a chain of
  constant additions each iteration settles one, and of a chain of dead
  instructions it removes one, so nine use up the 8 of `run_fold_convergence`
  (`guided_eval.cpp:249`, `segment_eval.cpp:130`) and 33 the 32; what is left then
  waits for the next round, window or driver;
* `promote_and_optimize` scans before it folds: after STORE [a], 1; STORE [a], x
  the bytes of 1 are still in its memory, and LOAD [a] is promoted to 1 before
  mem_forward can give it x (`segment_eval.cpp:100-128`). The evaluator folds
  first and gets x, as `optimizer` checks (`Overwritten`);
* once the leaders have settled, a block may still run through another that
  begins inside one of its instructions, and hold the same instructions from
  where the two decodings fall into step (`segment_eval.cpp:181-190`);
* `sar64` of a negative value by 0 gives all ones on x86-64 (`transforms.cpp:82`);
* a native block is lifted once, with the constants of the edge found first, and
  loses its conditional jump if they decide it (`segment_eval.cpp:233`; the
  header, `segment_eval.h:75-76`, has both arms);
* after a push or a pop the stack pointer is no constant, and the exit is always
  reported as RET (`guided_eval.cpp:124`);
* `extract_vjcc_targets` asks what happens if the condition is 1, and any other
  value but 0 takes that arm too (`segment_eval.cpp:84`);
* a write to a part of a register replaces all of it, also where the comment says
  it zero-extends (`x64_lifter.cpp:48`), and ZEXT and SEXT do not say from what
  width;
* binary and unary operations, pop and setcc compute the value for a destination
  in memory and store nothing, xchg with memory does nothing
  (`x64_lifter.cpp:155,215,229,333,380`); mov, inc and dec drop the index of such a
  destination, and take a base rip for a register (`x64_lifter.cpp:166,243`);
* every condition is lifted as "rflags is not zero", which is right for `not
  equal` only, and only until the flags are set by something other than test or
  cmp (`x64_lifter.cpp:326,377,393`);
* an unsupported instruction leaves its destination as it was
  (`x64_lifter.cpp:400`), a segment prefix is ignored, and ret does not advance the
  stack pointer (`x64_lifter.cpp:268-273`);
* the emitter writes ROL, ROR, BSWAP, ZEXT and SEXT as 0 (`llvm_emitter.cpp:184`);
  LLVM leaves a shift by the width or more undefined where the IR takes the
  amount modulo the width (`llvm_emitter.cpp:81-87`); and a RET that a run went
  past stays in the body, followed by more text (`llvm_emitter.cpp:124`).

## What is proved

Every theorem has the form `Spec => []P` (`VjccSpec => []P` for `VjccTargets`) or says
that a specification implements an abstract one. It holds for every value of the
constants that satisfies the module's named assumption.

* **CFGRecovery**. `OrderInv` says that block ids are handed out in the order of
  discovery and used up in the order of the worklist: the evaluated blocks are a
  prefix of the table, the worklist is the rest, all labels differ, and each
  edge is flagged exactly if it does not ascend. `NoRework`, `DiscoveryOrder`,
  `BackEdgeOrder`, `CyclesFlagged` (a set of blocks without a flagged edge has a
  greatest block, which has no edge into the set) and `BlockBound` follow. The
  type invariant needs a separate one, `TypeInv`, over all phases.

  The second half is about what flows along the edges. `TermMatchesEdges` and
  `EdgesMatchIncoming` are inductive beside `TypeInv`: an evaluated block's edges are
  never touched again, and an edge and its predecessor entry come together.
  `FlowInv` says that every block but the entry was found along an edge from an
  earlier one and that a state holds no symbols but its own block's, `ReadsInv`
  that the state which drove a block is the one stored first
  (`DriveIsFirstEdge`), `PhiInv` which phis there are. `ChainInv` says that what a
  symbol of block b stands for is no symbol or one of a smaller block: chains
  descend through the block ids, so they end, and `OriginInv` that resolving one
  key moves the end of no chain. So the ends are the same in whatever order the
  map is rewritten (`ResolveOrderIrrelevant`), no symbol is left
  (`NoEntrySymbolLeft`) and each block reads what its edges bring
  (`EntryValuesSound`). `RecoverImplementsWalk` shows that every step is one of
  `GraphWalk` or a stutter.
* **VmCfg**. `Typed` is the type invariant with the table lengths made explicit.
  `IdInv` adds that all ids are below the counter, from which `IdsUnique` and
  `ConditionIsLocal` follow; `DispatchInv` that all queued arms hold the latched
  address, from which `ArmsReenterDispatcher` follows, provided no segment stops
  at address 0. `QueueInv` says that the work items lead to the blocks that were
  not run in the order of their ids, duplicates aside: `RunsFollowDiscovery`;
  `EdgeInv` that the edges of a block that was run are its terminator's:
  `EdgesDescribeTerms`. `VmImplementsWalk` is the safety part of `GraphWalk`
  under the mapping that takes the labels as the nodes found and the
  terminators' targets as their successors; its `WalkInv` says that every found
  key that was not run has a work item: without it the loop could end too early.
* **GraphWalk** itself: found nodes are reachable, and a walk that ends within
  its budget has expanded all it found.
* **NativeCfg**. `NativeInv` relates leaders, targets and blocks: every block starts
  at a target found in this pass and stops at the next leader. Once the leaders
  have settled, two blocks share an instruction only if one of them begins inside
  an instruction of the other (`SplitAtLeaders`): of two walks that share one, the
  one that begins first has an instruction at the other's start, where it would
  have stopped, or passes over it. Each pass but the last adds a leader, and with
  no more leaders than passes the loop ends settled.

  `PlainInv` is about code whose jumps depend on no register. Nothing is then known
  of the register on any edge (`UnknownStates`), so the oracle's targets are the
  exits of the segment, and every evaluated block has successors wherever control
  leaves it (`SegmentsLead`). `Found` is what the first pass would find without
  `max_blocks`: the least set that has the entry and the exits of its members'
  segments. Splitting segments at members of `Found` leads nowhere else: a
  shorter segment ends at a member or where the longer one did (`SplitFindsAll`).
  So a pass that runs dry has discovered exactly `Found`, one that is cut shows
  that there are more than `max_blocks` (`FoundAtOnce`), and the second pass finds
  nothing new (`TwoPassesSettle`); it takes `1 < MaxPasses`, which the code's 64
  is. A segment is reached as a whole and flows on within itself or to an exit,
  so the blocks hold what control reaches (`CoversReachableCode`).
* **Lifter**. `LInv` says that, as long as only forms the IR expresses were
  lifted, the register map refers to emitted instructions only (`Good`), and if
  moreover no stale reference was read, what the register map and the stores are
  worth is what the processor holds (`Agree`, with `Flags` for rflags). Each instruction has a lemma on how the lifter's state moves: `emit`
  changes no value that exists, so an operand read before keeps its worth, and the
  new operand is worth what the processor computes. `StateMatches`,
  `ConditionIsNotZero` and `JumpsMatch` follow for every word width, set of registers,
  code and number of instructions. `TypeInv` holds for whatever is lifted, also in forms the IR does not express:
  ids count the instructions emitted and each is worth a word. As long as no
  reference was read after the vector had moved, every operand in the map or in an
  instruction is moreover a number or an earlier id; after such a read it may be
  any id, for `StaleIds` is any set of numbers. `emit` keeps this if it is given
  such operands (`EmitTyped`), and each instruction's sequence of emits gives it
  such (`InsnTyped`); so the lifted function is in SSA form until freed memory is
  read (`LifterTypeCorrect`), and nothing is claimed of its operands afterwards.
* **Emitter**. `NameInv` says of the text so far (`Written`) that no name is defined
  twice, that the names defined are temporaries below the counter or those of
  items already written, that what is used is defined or a parameter, and that
  the names map leads from each item written to a defined name, a parameter or a
  number. The last is what an alias needs, which passes a name on and defines
  none; that ids are unique and references point back, what the next line needs.
  `EndInv` adds which lines of a block leave it. Each form of `emit_instr` has its
  case.

  `TextRunsAsItsSource` is about the two runs, of any length and through any
  loops: `SameExecution` holds for every source that is `Meaningful` and whose
  `PhisLookBack`. The first is what it takes for a run of the source to have a
  meaning in both languages: strict SSA (an operand's block dominates its use, a
  phi has a value for each predecessor), no jump into the entry block and no phi
  in it, RETs last in their block, shifts by constants below the width, and no
  operation that `emit_instr` writes as 0 (see "Deviations"). The second excludes
  what `emitter_loop` shows to be written wrongly: a phi whose operand is written
  further down. `MCEmitter` checks that the sources of `emitter` satisfy both, and the
  one of `emitter_loop` all but the second. Of the constants it is assumed that
  symbols and memory hold words (`RunsAssumption`).

  The proof has two invariants. `EmitInv` (`EmittedSo`) is about the text while it is
  written and speaks of all executions, not of one: whichever values the runs
  enter a block with, if they agree on what is available there, they agree at the
  end of what is written of it (`Sim`), and when the block is finished, also on
  where to go (`BlockSim`). Each instruction and the lines it becomes are one step of
  it (`InstrMirrors`). It also says in which block each name is defined (`HomeOf`):
  an alias is a name of another item, possibly one of a block that dominates. `RunInv` (`RunOk`) then
  carries agreement from block to block: what is available at the end of a block
  is what the block or a dominator of it computed (`AvailAfter`), a dominator of a
  block other than itself dominates its predecessors (`DominatesBefore`), and its
  names are not written again in between (`ElderSteady`).
* **Passes**. The theorems are about a driver on one function (`Spec`), for every
  width of a word, function, memory and number of iterations. `IInv` compares the
  function at hand with the one the driver got, instruction by instruction and
  execution by execution (`Preserves`): what is left has operands with the values
  they had, a copy is worth what the instruction was, a conditional jump has
  become what it does, and what is gone had no effect or was a private store that
  no load left reads (`Means`, `Gone`). That alone is not inductive. `Shape` adds that
  operands are in order, from which `resolve` ends and finds what an operand is
  worth (`ResolveValue`); `SameAddress`, that accesses with one address in the
  original are written alike, except where const_promote has not come yet, so
  comparing addresses as written misses no store; `Remembers`, that what
  mem_forward remembers was stored last. A load is then worth what the last store
  left (`LoadReads`, `LastStoreStays`), also after dead_store_elim has run.
  `TypeOK`, `ValuesPreserved` and `EffectsPreserved` follow.

  `PassesSimplify` is about why the drivers repeat: every change makes an
  instruction simpler (`Simpler`: its operation falls in `Rank`, or an operand
  refers less far down) or removes one, and is reported, so no two passes undo
  each other. It does not say that `max_iters` is enough, which is not so: see
  "Deviations".

  Below that are the words (`IRProofs`). tlapm knows no law of `^`, so `IR` defines powers of two
  by recursion; `BitsDetermine` and `BitsExist` say that words are their bits, and
  `ResultBits` gives each operation bit by bit. `FoldIsExact` is then a statement
  about `fold_binary` itself: shifts and rotations, put together from two shifts,
  give what the processor does at every amount but for `sar64` by 0; and the
  identities of insn_combine hold (`NeutralConstant`, `MaskedOr`).
* **Virtual conditional jumps**. `VInv` is `IInv` for the copy that is being folded and
  the executions in which the condition has its value, with the targets already
  found. A copy does in those executions what the function does (`AssumedFits`),
  so a constant found for the VPC is the VPC: `TargetsAreExact`.
* **GuidedEval**. `WorkInv` counts the windows lifted since the last dispatch by the
  visited set; `TraceInv` orders the catalog's IR ranges and ties them to the
  trace.

## What is only checked

Liveness under fairness and everything with ENABLED are out of the prover's
reach: `Termination`, the liveness of `ImplementsWalk`.

`MemoryUpToDate`, and the passes while loads are promoted: promotion is right only
for functions that read no word before it is written or seeded
(`promotion_read_first` shows what happens otherwise), and the instance has such
functions; the evaluator's cycle is checked with a constant overwritten by a
value that is none, and not with two accesses that overlap in part; the
theorems about `Passes` are about a driver alone and the copies of
`extract_vjcc_targets`. `SameExecution` is proved for the sources named above;
for those with a phi that looks ahead, `emitter_loop` shows that it can fail.

## What is not modelled

The mode of `recover_native_cfg` that follows direct jumps (tests only);
`dead_dep_analysis_pass` and the stack rewrite, which no driver runs; the vjcc
list and the handler histogram of the evaluator, which nothing reads back; 32-bit
memory accesses; operand widths other than a word; in the emitter, forms that
nothing produces (CONST_PTR, SymMem, operand lists of a wrong length) and the
wording of the text; Capstone's decoding; the PE loader, the IAT cracker,
targets, pipeline, command line and bindings, which are input, output and
sequences of calls.

## Running

    tlc -config MCVmCfg.cfg MCVmCfg.tla
    tlapm VmCfgProofs.tla
