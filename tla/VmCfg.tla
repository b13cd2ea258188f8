------------------------------- MODULE VmCfg -------------------------------
(***************************************************************************)
(* recover_vm_cfg (src/eval/segment_eval.cpp): the worklist that explores  *)
(* both arms of every virtual conditional jump by re-entering the          *)
(* dispatcher with the arm's VPC, and the renumbering of each segment's    *)
(* instructions into one id space.                                         *)
(*                                                                         *)
(* A segment run by a fresh GuidedEvaluator is a nondeterministic result:  *)
(* it ends at a return, at a branch with two distinct targets, or nowhere  *)
(* recovery can continue from.  Each key is run at most once               *)
(* (ImplementsWalk below), so choosing the result at the run loses nothing *)
(* against a result fixed in advance.  Block ids are positions from 1.     *)
(***************************************************************************)
EXTENDS Integers, Sequences, SequencesExt, FiniteSets

CONSTANTS
    Vpc,            \* the values of the VPC register a branch can yield
    EntryVa,        \* entry_va, which is also the key of the entry block
    StopVa,         \* the addresses a segment can end at
    SegmentIds,     \* the result ids a segment's instructions may have
    MaxBlocks       \* max_blocks

ASSUME ConstantsAssumption ==
    /\ Vpc \subseteq Nat /\ EntryVa \in Nat
    /\ StopVa \subseteq Nat
    /\ SegmentIds \subseteq SUBSET Nat
    /\ \A ids \in SegmentIds : IsFiniteSet(ids)
    /\ MaxBlocks \in Int

Keys == Vpc \cup {EntryVa}

VARIABLES
    label,          \* the key of block i
    term,           \* cfg.blocks[i].term
    instrs,         \* the result ids of block i's instructions
    edges,          \* cfg.edges
    wl,             \* the work items, a key possibly more than once
    processed,
    dispatcher,     \* dispatcher_va, 0 as long as it is not known
    nextId,         \* next_id
    pc

blocks == <<label, term, instrs>>
vars == <<blocks, edges, wl, processed, dispatcher, nextId, pc>>

NoCondition == <<"none">>
SymReg == <<"reg">>                 \* a register, by its name
InstrRef(i) == <<"instr", i>>

Ends(kind) == [kind |-> kind, target |-> 0, fallthrough |-> 0,
               condition |-> NoCondition]
CJmp(t, f, c) == [kind |-> "CJMP", target |-> t, fallthrough |-> f,
                  condition |-> c]

\* No VPC is injected into the run that starts at the entry.
NoVpc == <<"none">>
Inject(v) == <<"vpc", v>>
Item(v, start, inject, b) ==
    [key |-> v, start |-> start, inject |-> inject, block |-> b]

-----------------------------------------------------------------------------
(* The helpers of recover_vm_cfg *)

\* get_block, as the block table it leaves.
GetBlock(L, v) == IF Contains(L, v) THEN L ELSE Append(L, v)

\* vpc_to_block[v]
IdOf(L, v) == CHOOSE i \in DOMAIN L : L[i] = v

\* Faulty variant of Pad: the table does not grow with the blocks.
PadStale(s, n, default) == s

\* A per-block table brought to the length of the block table.
Pad(s, n, default) ==
    [i \in 1 .. n |-> IF i \in DOMAIN s THEN s[i] ELSE default]

\* append_renumbered, as the map from old to new ids: a segment's ids grow
\* along its instructions, and fresh ids are handed out in that order.
Renumbering(ids, next) ==
    [k \in ids |-> next + Cardinality({j \in ids : j < k})]

\* remap_value
Remapped(c, idmap) ==
    IF c[1] = "instr" /\ c[2] \in DOMAIN idmap
    THEN InstrRef(idmap[c[2]]) ELSE c

\* Faulty variant of Push: a stack instead of a queue.
PushFront(W, v, b) ==
    IF v \in processed' THEN W
    ELSE <<Item(v, dispatcher', Inject(v), b)>> \o W

\* Queueing an arm: a key that is queued but not processed is queued again.
Push(W, v, b) ==
    IF v \in processed' THEN W
    ELSE Append(W, Item(v, dispatcher', Inject(v), b))

-----------------------------------------------------------------------------
(* The exploration loop *)

Init ==
    /\ label = <<EntryVa>>
    /\ term = <<Ends("UNREACHABLE")>>
    /\ instrs = <<{}>>
    /\ edges = <<>>
    /\ wl = <<Item(EntryVa, EntryVa, NoVpc, 1)>>
    /\ processed = {}
    /\ dispatcher = 0
    /\ nextId = 1
    /\ pc = "explore"

\* Faulty variant of MayIterate: the cap takes effect one block early.
MayIterateEarly == pc = "explore" /\ wl # <<>> /\ Len(label) < MaxBlocks

MayIterate == pc = "explore" /\ wl # <<>> /\ Len(label) <= MaxBlocks

Work == Head(wl)

\* The test a work item must pass to be run.
IsFresh == Work.key \notin processed

\* Faulty variant of SkipItem: the item is looked at before it is popped.
SkipItemKept == MayIterate /\ ~IsFresh /\ UNCHANGED vars

\* `continue` for a key that was run since this item was queued.
SkipItem ==
    /\ MayIterate
    /\ ~IsFresh
    /\ wl' = Tail(wl)
    /\ UNCHANGED <<blocks, edges, processed, dispatcher, nextId, pc>>

\* Faulty variant of Latch: every segment moves the dispatcher.
LatchEach(stop) == dispatcher' = stop

\* The first segment that ends at an address other than 0 fixes where all
\* arms are entered.
Latch(stop) == dispatcher' = IF dispatcher = 0 THEN stop ELSE dispatcher

\* Faulty variants of IsBack: asked before the current key is marked, and of
\* Counter: a counter passed by value.
IsBackEarly(v) == v \in processed
CounterByValue(ids) == nextId

\* The flag of an edge to v: asked after the current key is marked.
IsBack(v) == v \in processed'

\* next_id after the segment's instructions are appended.
Counter(ids) == nextId + Cardinality(ids)

\* What every run does: mark the key, latch the dispatcher, and store the
\* terminator t and the renumbered instructions once the block table is L.
Store(L, t, ids, stop) ==
    LET b == Work.block
        idmap == Renumbering(ids, nextId)
    IN /\ MayIterate
       /\ IsFresh
       /\ processed' = processed \cup {Work.key}
       /\ Latch(stop)
       /\ label' = L
       /\ term' = [Pad(term, Len(L), Ends("UNREACHABLE")) EXCEPT
                     ![b] = [t EXCEPT !.condition = Remapped(@, idmap)]]
       /\ instrs' = [Pad(instrs, Len(L), {}) EXCEPT
                       ![b] = @ \cup {idmap[k] : k \in ids}]
       /\ nextId' = Counter(ids)
       /\ UNCHANGED pc

\* VmSegment::Ret and VmSegment::Unresolved.
RunStop(kind, ids, stop) ==
    /\ Store(label, Ends(kind), ids, stop)
    /\ wl' = Tail(wl)
    /\ UNCHANGED edges

\* VmSegment::Branch, from the last SELECT of the segment with condition c.
RunBranch(t, f, c, ids, stop) ==
    LET b == Work.block
        L == GetBlock(GetBlock(label, t), f)
        x == IdOf(L, t)
        y == IdOf(L, f)
    IN /\ Store(L, CJmp(x, y, c), ids, stop)
       /\ edges' = edges \o << [from |-> b, to |-> x, back |-> IsBack(t)],
                               [from |-> b, to |-> y, back |-> IsBack(f)] >>
       /\ wl' = Push(Push(Tail(wl), t, x), f, y)

\* The condition of a SELECT among ids: a register or an earlier result.
Conditions(ids) ==
    {SymReg} \cup {InstrRef(i) : i \in {k \in ids : \E j \in ids : k < j}}

Run ==
    \/ \E kind \in {"RET", "UNREACHABLE"}, ids \in SegmentIds, stop \in StopVa :
            RunStop(kind, ids, stop)
    \/ RunStop("UNREACHABLE", {}, 0)    \* the disassembler did not open
    \/ \E t, f \in Vpc, ids \in SegmentIds \ {{}}, stop \in StopVa :
        \E c \in Conditions(ids) :
            t # f /\ RunBranch(t, f, c, ids, stop)

\* Leaving the loop; stack_rewrite_instrs then only annotates instructions.
Finish ==
    /\ pc = "explore"
    /\ ~MayIterate
    /\ pc' = "done"
    /\ UNCHANGED <<blocks, edges, wl, processed, dispatcher, nextId>>

Next == Run \/ SkipItem \/ Finish

Spec == Init /\ [][Next]_vars
\* The program is sequential and every run of a segment returns.
FairSpec == Spec /\ WF_vars(Next)

-----------------------------------------------------------------------------
(* Properties *)

Block == DOMAIN label
Condition == {NoCondition, SymReg} \cup ({"instr"} \X Nat)

TypeOK ==
    /\ label \in Seq(Keys)
    /\ term \in [Block -> [kind: {"UNREACHABLE", "RET", "CJMP"},
                           target: Nat, fallthrough: Nat,
                           condition: Condition]]
    /\ instrs \in [Block -> SUBSET Nat]
    /\ edges \in Seq([from: Block, to: Block, back: BOOLEAN])
    /\ wl \in Seq([key: Keys, start: Nat,
                   inject: {NoVpc} \cup {Inject(v) : v \in Vpc},
                   block: Block])
    /\ processed \in SUBSET Keys
    /\ dispatcher \in Nat
    /\ nextId \in Nat
    /\ pc \in {"explore", "done"}

\* The blocks of the keys that were run.
Evaluated == {b \in Block : label[b] \in processed}

(* Although keys are queued again and again, blocks are run in the order   *)
(* they were found, and none is forgotten: a work item that will be run is *)
(* preceded by the items of all earlier blocks that still wait, and every  *)
(* block that still waits has one, with its own key.                       *)
RunsFollowDiscovery ==
    /\ Evaluated = 1 .. Cardinality(Evaluated)
    /\ \A i \in DOMAIN wl :
        /\ label[wl[i].block] = wl[i].key
        /\ \A b \in 1 .. wl[i].block : b \in Evaluated
                \/ \E j \in 1 .. i : wl[j].block = b
    /\ \A b \in Block \ Evaluated : \E i \in DOMAIN wl : wl[i].block = b

(* The edge list says what the terminators say: the two edges of a branch  *)
(* stand next to each other, taken arm first, behind those of all earlier  *)
(* blocks, and an edge is flagged exactly if it does not lead to a block   *)
(* found later: the unflagged edges have no cycle.                         *)
EdgesDescribeTerms ==
    /\ \A i, j \in DOMAIN edges : i <= j => edges[i].from <= edges[j].from
    /\ \A b \in Block :
        LET out == {i \in DOMAIN edges : edges[i].from = b}
            To(s) == [from |-> b, to |-> s, back |-> s <= b]
        IN IF term[b].kind = "CJMP"
           THEN \E i \in out : /\ out = {i, i + 1}
                               /\ edges[i] = To(term[b].target)
                               /\ edges[i + 1] = To(term[b].fallthrough)
           ELSE out = {}

(* Every arm is entered at the dispatcher the first segment stopped at,    *)
(* with the VPC of the arm's block; a dispatcher at address 0 is the       *)
(* exception, since 0 also says that none is known.                        *)
ArmsReenterDispatcher ==
    0 \notin StopVa =>
        \A i \in DOMAIN wl : wl[i].inject # NoVpc =>
            /\ wl[i].start = dispatcher
            /\ dispatcher \in StopVa
            /\ wl[i].inject = Inject(label[wl[i].block])

(* The ids of instructions are unique in the graph, as the emitter and     *)
(* the references between instructions need, although every segment        *)
(* numbers its own from 0.                                                 *)
IdsUnique ==
    /\ \A b \in Block : \A i \in instrs[b] : i < nextId
    /\ \A b, d \in Block : b # d => instrs[b] \cap instrs[d] = {}

(* A branch condition that is an instruction's result is the result of an  *)
(* instruction of the same block that does not come last.                  *)
ConditionIsLocal ==
    \A b \in Block : term[b].condition[1] = "instr" =>
        LET c == term[b].condition[2]
        IN c \in instrs[b] /\ \E j \in instrs[b] : c < j

\* The successors of the keys that were run, from their terminators.
Successors ==
    [v \in processed |->
        LET t == term[IdOf(label, v)]
        IN IF t.kind = "CJMP" THEN {label[t.target], label[t.fallthrough]}
           ELSE {}]

Walk == INSTANCE GraphWalk WITH
            Node <- Keys, Root <- EntryVa, Budget <- MaxBlocks,
            found <- ToSet(label), succ <- Successors,
            finished <- pc = "done"

(* recover_vm_cfg is a walk of the graph its segments describe: work items *)
(* that are queued twice make no difference.                               *)
ImplementsWalk == Walk!Spec

(* recover_vm_cfg returns, whatever its segments are.                      *)
Termination == <>(pc = "done")
=============================================================================
