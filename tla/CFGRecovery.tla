---------------------------- MODULE CFGRecovery ----------------------------
(***************************************************************************)
(* CFGRecovery::recover (src/eval/cfg_recovery.cpp): the worklist that     *)
(* turns a segment oracle into a control-flow graph, the construction of   *)
(* phi nodes, and the full-SSA rewrite of the symbolic entry values.       *)
(*                                                                         *)
(* Block ids are positions in the sequence of blocks: block i of this      *)
(* module is block i - 1 of the code, so the entry block is block 1 and 0  *)
(* stands for std::nullopt.  The oracle is a caller's callback: it may     *)
(* return any result for the block it is asked about.  It is asked at most *)
(* once per VPC (NoRework below), so choosing its answer at the call loses *)
(* nothing against fixing a function from VPCs to answers in advance.      *)
(***************************************************************************)
EXTENDS Integers, Sequences, FiniteSets, Functions

CONSTANTS
    Vpc,            \* the VPC values the bytecode can dispatch to
    EntryVpc,       \* config.entry_vpc
    Reg,            \* register names a VMState may hold
    Const,          \* the values a segment computes by itself
    TrackedRegs,    \* config.tracked_regs, as a set
    FullSSA,        \* config.full_ssa
    MaxBlocks,      \* config.max_blocks, an int: it may be negative
    InitialState,   \* the register state the caller passes in
    OutDomains      \* the register sets an oracle's out_state may define

VARIABLES
    label,          \* cfg.blocks[i].label, the VPC of block i
    term,           \* cfg.blocks[i].term
    reads,          \* the entry values block i's IR and condition refer to
    phis,           \* cfg.blocks[i].phis: register -> <<pred, value>> pairs
    edges,          \* cfg.edges
    incoming,       \* incoming[i]: predecessor edges with their states
    worklist, enqueued, processed,
    subst,          \* <<register, block>> -> value, of the rewrite
    pending,        \* keys resolve_subst has not visited yet
    key, cur, seen, \* its locals: kv.first, cur and seen
    pc

blocks  == <<label, term, reads>>
queue   == <<worklist, enqueued, processed>>
rewrite == <<subst, pending, key, cur, seen>>
vars == <<blocks, phis, edges, incoming, queue, rewrite, pc>>

-----------------------------------------------------------------------------
(* Values and register states *)

Sym(r, b) == <<"entry", r, b>>       \* SymReg(r + "@bb" + b)
Input(r)  == <<"input", r>>          \* SymReg(r)
PhiRef(b, r) == <<"phi", b, r>>      \* InstrRef of the phi of r in block b
Known(c) == <<"const", c>>           \* a constant or an instruction's result

Value == {Known(c) : c \in Const} \cup {Input(r) : r \in Reg}
         \cup ({"entry"} \X Reg \X Nat) \cup ({"phi"} \X Nat \X Reg)

\* A VMState: a register it does not hold (find returns nullptr) is Absent.
Absent == <<"absent">>
State == [Reg -> Value \cup {Absent}]
Empty == [r \in Reg |-> Absent]
Holds(s, r) == s[r] # Absent

\* A map without entries.
NoEntries == [k \in {} |-> Absent]

ASSUME ConstantsAssumption ==
    /\ EntryVpc \in Vpc
    /\ TrackedRegs \subseteq Reg
    /\ FullSSA \in BOOLEAN
    /\ MaxBlocks \in Int
    /\ InitialState \in State
    /\ \A r \in Reg : InitialState[r][1] # "entry"  \* the caller's names
    /\ OutDomains \subseteq SUBSET Reg

SSA == FullSSA /\ TrackedRegs # {}

Ends(kind) == [kind |-> kind, target |-> 0, fallthrough |-> 0]
Jmp(s) == [kind |-> "JMP", target |-> s, fallthrough |-> 0]
\* Faulty variant of CJmp: the arms swapped.
CJmpSwapped(t, f) == [kind |-> "CJMP", target |-> f, fallthrough |-> t]
CJmp(t, f) == [kind |-> "CJMP", target |-> t, fallthrough |-> f]
Terminator == [kind: {"UNREACHABLE", "JMP", "CJMP", "RET"},
               target: Nat, fallthrough: Nat]
Edge == [from: Nat, to: Nat, back: BOOLEAN]
Incoming == [pred: Nat, state: State]
Key == Reg \X Nat

-----------------------------------------------------------------------------
(* The helpers of recover *)

\* get_block: the block table after the call; a known VPC keeps its block.
GetBlock(L, v) == IF v \in Range(L) THEN L ELSE Append(L, v)

\* vpc_to_block[v]
IdOf(L, v) == CHOOSE i \in DOMAIN L : L[i] = v

\* Faulty variant of Pad: the table does not grow with the blocks.
PadStale(s, n, default) == s

\* A per-block table brought to the length of the block table.
Pad(s, n, default) ==
    [i \in 1 .. n |-> IF i \in DOMAIN s THEN s[i] ELSE default]

\* Faulty variants of Enqueue: a stack instead of a queue, and max_blocks
\* tested where work is queued.
EnqueueFront(W, known, v) == IF v \in known THEN W ELSE <<v>> \o W
EnqueueBounded(W, known, v) ==
    IF v \in known \/ Len(label) + 1 >= MaxBlocks THEN W ELSE Append(W, v)

\* The enqueue lambda, as the worklist it leaves.
Enqueue(W, known, v) == IF v \in known THEN W ELSE Append(W, v)

\* Faulty variants of Link: a predecessor recorded once, and a list built
\* from its front.
LinkOnce(inc, s, b, state) ==
    IF \E j \in DOMAIN inc[s] : inc[s][j].pred = b THEN inc
    ELSE [inc EXCEPT ![s] = Append(@, [pred |-> b, state |-> state])]
LinkFront(inc, s, b, state) ==
    [inc EXCEPT ![s] = <<[pred |-> b, state |-> state]>> \o @]

\* incoming[s].push_back({b, state})
Link(inc, s, b, state) ==
    [inc EXCEPT ![s] = Append(@, [pred |-> b, state |-> state])]

\* The state that drives the evaluation of block b.
Drive(b) ==
    IF SSA THEN [r \in Reg |-> IF r \in TrackedRegs THEN Sym(r, b) ELSE Absent]
    ELSE IF incoming[b] # <<>> THEN incoming[b][1].state
    ELSE IF b = 1 THEN InitialState
    ELSE Empty

\* What a segment driven by state d may hand to a successor: registers hold
\* values it computed or values it was entered with.
OutState(d) ==
    {s \in [Reg -> {Known(c) : c \in Const} \cup Range(d) \cup {Absent}] :
        {r \in Reg : Holds(s, r)} \in OutDomains}

-----------------------------------------------------------------------------
(* The exploration loop *)

Init ==
    /\ label = <<EntryVpc>>
    /\ term = <<Ends("UNREACHABLE")>>
    /\ reads = <<Empty>>
    /\ phis = <<NoEntries>>
    /\ edges = <<>>
    /\ incoming = << <<>> >>
    /\ worklist = <<EntryVpc>>
    /\ enqueued = {EntryVpc}
    /\ processed = {}
    /\ subst = NoEntries
    /\ pending = {}
    /\ key = <<>>
    /\ cur = Absent
    /\ seen = {}
    /\ pc = "explore"

\* Faulty variants of MayEvaluate: one block late and one block early.
MayEvaluateLate == worklist # <<>> /\ Len(label) <= MaxBlocks + 1
MayEvaluateEarly == worklist # <<>> /\ Len(label) < MaxBlocks

\* The loop condition; the int cast of the block count is exact here.
MayEvaluate == worklist # <<>> /\ Len(label) <= MaxBlocks

Current == IdOf(label, Head(worklist))

\* Taking the head of the worklist.  The code's `continue` for a processed
\* head has no transition here: NoRework shows it is never taken.
Dequeue ==
    /\ Head(worklist) \notin processed
    /\ processed' = processed \cup {Head(worklist)}

\* Faulty variant of IsBack: asked before the current VPC is marked processed.
IsBackEarly(v) == v \in processed

\* The flag of an edge to v: asked after the current VPC is marked processed.
IsBack(v) == v \in processed'

\* Storing the terminator t and the IR of block b once the block table is L.
Store(L, b, t) ==
    /\ label' = L
    /\ term' = [Pad(term, Len(L), Ends("UNREACHABLE")) EXCEPT ![b] = t]
    /\ reads' = [Pad(reads, Len(L), Empty) EXCEPT ![b] = Drive(b)]
    /\ phis' = Pad(phis, Len(L), NoEntries)
    /\ UNCHANGED <<rewrite, pc>>

\* A segment that returns, is unresolved, or lacks the targets its kind needs.
EvalStop(kind) ==
    /\ Dequeue
    /\ Store(label, Current, Ends(kind))
    /\ worklist' = Tail(worklist)
    /\ UNCHANGED <<edges, incoming, enqueued>>

\* SegmentKind::Goto with a next VPC v, reached in state out.
EvalGoto(v, out) ==
    /\ Dequeue
    /\ LET b == Current
           L == GetBlock(label, v)
           s == IdOf(L, v)
       IN /\ Store(L, b, Jmp(s))
          /\ edges' = Append(edges, [from |-> b, to |-> s, back |-> IsBack(v)])
          /\ incoming' = Link(Pad(incoming, Len(L), <<>>), s, b, out)
    /\ worklist' = Enqueue(Tail(worklist), enqueued, v)
    /\ enqueued' = enqueued \cup {v}

\* SegmentKind::Branch with both arms: taken to t, not taken to f.
EvalBranch(t, f, outT, outF) ==
    /\ Dequeue
    /\ LET b == Current
           L == GetBlock(GetBlock(label, t), f)
           x == IdOf(L, t)
           y == IdOf(L, f)
       IN /\ Store(L, b, CJmp(x, y))
          /\ edges' = edges \o << [from |-> b, to |-> x, back |-> IsBack(t)],
                                  [from |-> b, to |-> y, back |-> IsBack(f)] >>
          /\ incoming' = Link(Link(Pad(incoming, Len(L), <<>>), x, b, outT),
                              y, b, outF)
    /\ worklist' = Enqueue(Enqueue(Tail(worklist), enqueued, t),
                           enqueued \cup {t}, f)
    /\ enqueued' = enqueued \cup {t, f}

\* One iteration of the while loop: the oracle's answer for the head.
Explore ==
    /\ pc = "explore"
    /\ MayEvaluate
    /\ \/ \E kind \in {"RET", "UNREACHABLE"} : EvalStop(kind)
       \/ \E v \in Vpc, out \in OutState(Drive(Current)) : EvalGoto(v, out)
       \/ \E t, f \in Vpc, outT, outF \in OutState(Drive(Current)) :
            EvalBranch(t, f, outT, outF)

-----------------------------------------------------------------------------
(* Phi construction *)

\* The registers reconciled: the configured ones, or all that flow anywhere.
Reconciled ==
    IF TrackedRegs # {} THEN TrackedRegs
    ELSE {r \in Reg : \E i \in DOMAIN incoming : \E j \in DOMAIN incoming[i] :
                        Holds(incoming[i][j].state, r)}

\* Faulty variant of NeedsPhi: two predecessors do not make a merge.
NeedsPhiLate(b, r) ==
    /\ Len(incoming[b]) > 2
    /\ \A j \in DOMAIN incoming[b] : Holds(incoming[b][j].state, r)
    /\ \E j \in DOMAIN incoming[b] :
            incoming[b][j].state[r] # incoming[b][1].state[r]

\* Every predecessor edge of block b defines r, and they do not all agree.
NeedsPhi(b, r) ==
    /\ Len(incoming[b]) >= 2
    /\ \A j \in DOMAIN incoming[b] : Holds(incoming[b][j].state, r)
    /\ \E j \in DOMAIN incoming[b] :
            incoming[b][j].state[r] # incoming[b][1].state[r]

BuildPhis ==
    /\ pc = "explore"
    /\ ~MayEvaluate
    /\ phis' = [b \in DOMAIN label |->
                  [r \in {q \in Reconciled : NeedsPhi(b, q)} |->
                     [j \in DOMAIN incoming[b] |->
                        <<incoming[b][j].pred, incoming[b][j].state[r]>>]]]
    /\ pc' = IF SSA THEN "subst" ELSE "done"
    /\ UNCHANGED <<blocks, edges, incoming, queue, rewrite>>

-----------------------------------------------------------------------------
(* The full-SSA rewrite *)

\* What the entry symbol of r in block b is first mapped to.
Definition(b, r) ==
    IF r \in DOMAIN phis[b] THEN PhiRef(b, r)
    ELSE IF b = 1
         THEN IF Holds(InitialState, r) THEN InitialState[r] ELSE Input(r)
    ELSE IF incoming[b] # <<>> /\ Holds(incoming[b][1].state, r)
         THEN incoming[b][1].state[r]
    ELSE Input(r)

BuildSubst ==
    /\ pc = "subst"
    /\ subst' = [k \in TrackedRegs \X DOMAIN label |-> Definition(k[2], k[1])]
    /\ pending' = DOMAIN subst'
    /\ pc' = "resolve"
    /\ UNCHANGED <<blocks, phis, edges, incoming, queue, key, cur, seen>>

\* The key a value's name is looked up under, and whether it is one.
IsKey(val) == val[1] = "entry" /\ <<val[2], val[3]>> \in DOMAIN subst
KeyOf(val) == <<val[2], val[3]>>

\* Faulty variant of PickKey: the key is visited again and again.
PickKeyAgain(k) ==
    /\ pc = "resolve"
    /\ k \in pending
    /\ key' = k
    /\ cur' = subst[k]
    /\ seen' = {}
    /\ pc' = "chase"
    /\ UNCHANGED <<blocks, phis, edges, incoming, queue, subst, pending>>

\* resolve_subst visits the keys in the unspecified order of an unordered_map
\* and updates the map in place; for each key it follows the chain of
\* definitions, going through no key twice.
PickKey(k) ==
    /\ pc = "resolve"
    /\ k \in pending
    /\ pending' = pending \ {k}
    /\ key' = k
    /\ cur' = subst[k]
    /\ seen' = {}
    /\ pc' = "chase"
    /\ UNCHANGED <<blocks, phis, edges, incoming, queue, subst>>

\* Faulty variant of MayFollow: one step of the chain instead of the loop.
MayFollowOnce == IsKey(cur) /\ seen = {}

MayFollow == IsKey(cur) /\ KeyOf(cur) \notin seen

Follow ==
    /\ pc = "chase"
    /\ MayFollow
    /\ seen' = seen \cup {KeyOf(cur)}
    /\ cur' = subst[KeyOf(cur)]
    /\ UNCHANGED <<blocks, phis, edges, incoming, queue, subst, pending, key,
                   pc>>

SettleKey ==
    /\ pc = "chase"
    /\ ~MayFollow
    /\ subst' = [subst EXCEPT ![key] = cur]
    /\ pc' = "resolve"
    /\ UNCHANGED <<blocks, phis, edges, incoming, queue, pending, key, cur,
                   seen>>

\* apply_subst
Rewritten(val) == IF IsKey(val) THEN subst[KeyOf(val)] ELSE val

\* apply_subst over every block's IR, condition and phi operands.
Rewrite ==
    /\ pc = "resolve"
    /\ pending = {}
    /\ reads' = [b \in DOMAIN reads |->
                   [r \in Reg |-> Rewritten(reads[b][r])]]
    /\ phis' = [b \in DOMAIN phis |->
                  [r \in DOMAIN phis[b] |->
                     [j \in DOMAIN phis[b][r] |->
                        <<phis[b][r][j][1], Rewritten(phis[b][r][j][2])>>]]]
    /\ pc' = "done"
    /\ UNCHANGED <<label, term, edges, incoming, queue, rewrite>>

-----------------------------------------------------------------------------

Next ==
    \/ Explore
    \/ BuildPhis
    \/ BuildSubst
    \/ \E k \in pending : PickKey(k)
    \/ Follow
    \/ SettleKey
    \/ Rewrite

Spec == Init /\ [][Next]_vars

\* recover is one sequential call whose oracle returns: it never stands still
\* while a step is left.
FairSpec == Spec /\ WF_vars(Next)

-----------------------------------------------------------------------------
(* Properties *)

Blocks == DOMAIN label

\* Blocks are evaluated in the order of their ids: the first Evaluated ones.
Evaluated == Len(label) - Len(worklist)

TypeOK ==
    /\ label \in Seq(Vpc)
    /\ term \in Seq(Terminator)
    /\ reads \in Seq(State)
    /\ edges \in Seq(Edge)
    /\ incoming \in Seq(Seq(Incoming))
    /\ {DOMAIN term, DOMAIN reads, DOMAIN phis, DOMAIN incoming} = {Blocks}
    /\ worklist \in Seq(Vpc)
    /\ enqueued \in SUBSET Vpc
    /\ processed \in SUBSET Vpc
    /\ pending \in SUBSET Key
    /\ DOMAIN subst \in SUBSET Key
    /\ subst \in [DOMAIN subst -> Value]
    /\ pc = "chase" => key \in DOMAIN subst /\ cur \in Value
    /\ seen \in SUBSET Key
    /\ pc \in {"explore", "subst", "resolve", "chase", "done"}

(* No VPC is evaluated twice and none is queued twice: what waits in the   *)
(* worklist has a block, is not processed and occurs there once.  Hence    *)
(* the `if (processed.count(vpc)) continue` of the loop is never taken.    *)
NoRework ==
    \A i \in DOMAIN worklist :
        /\ worklist[i] \in Range(label) \ processed
        /\ \A j \in DOMAIN worklist : worklist[i] = worklist[j] => i = j

(* Evaluation follows discovery: the worklist is the part of the block     *)
(* table that is not evaluated yet, in the order of the block ids, and no  *)
(* two blocks stand for one VPC.                                           *)
DiscoveryOrder ==
    /\ Len(worklist) <= Len(label)
    /\ \A i \in DOMAIN worklist : worklist[i] = label[Evaluated + i]
    /\ processed = {label[i] : i \in 1 .. Evaluated}
    /\ enqueued = Range(label)
    /\ \A i, j \in Blocks : label[i] = label[j] => i = j

(* The flag add_edge receives (processed.count of the target, asked before *)
(* the target's block exists) marks exactly the edges that do not lead to  *)
(* a later block.                                                          *)
BackEdgeOrder ==
    \A i \in DOMAIN edges :
        /\ edges[i].from \in 1 .. Evaluated
        /\ edges[i].to \in Blocks
        /\ edges[i].back <=> edges[i].to <= edges[i].from

(* Removing the flagged edges leaves no cycle: no set of blocks has an     *)
(* unflagged edge from each of its members to a member.  A loop of the     *)
(* bytecode therefore always shows up as a back edge.                      *)
CyclesFlagged ==
    \A S \in (SUBSET Blocks) \ {{}} :
        \E b \in S : \A i \in DOMAIN edges :
            edges[i].from = b /\ edges[i].to \in S => edges[i].back

(* The predecessor states phi nodes are built from run parallel to the     *)
(* edges of the graph: one entry per edge into the block, in edge order.   *)
EdgesMatchIncoming ==
    \A b \in Blocks :
        LET into == {i \in DOMAIN edges : edges[i].to = b}
        IN /\ Len(incoming[b]) = Cardinality(into)
           /\ \A i \in into :
                LET j == Cardinality({k \in into : k <= i})
                IN incoming[b][j].pred = edges[i].from

(* The terminators and the edge list, filled at different places of an     *)
(* iteration, describe one graph: the edges out of a block are its         *)
(* terminator's targets, taken arm first and next to each other, and a     *)
(* block not evaluated yet has neither.                                    *)
TermMatchesEdges ==
    \A b \in Blocks :
        LET out == {i \in DOMAIN edges : edges[i].from = b}
        IN CASE term[b].kind = "JMP" ->
                  \E i \in out : out = {i} /\ edges[i].to = term[b].target
             [] term[b].kind = "CJMP" ->
                  \E i \in out :
                      /\ out = {i, i + 1}
                      /\ edges[i].to = term[b].target
                      /\ edges[i + 1].to = term[b].fallthrough
             [] OTHER -> out = {}

(* The state that drives a block never comes from nowhere, and a           *)
(* predecessor found later does not replace it: without full SSA every     *)
(* evaluated block but the entry was driven by what still is its first     *)
(* incoming edge, and that edge leaves an earlier block.                   *)
DriveIsFirstEdge ==
    \A b \in 2 .. Evaluated :
        /\ incoming[b] # <<>>
        /\ incoming[b][1].pred < b
        /\ ~SSA => reads[b] = incoming[b][1].state

(* max_blocks bounds the graph although it is tested once per iteration    *)
(* and an iteration adds up to two blocks: it is exceeded by two at most.  *)
BlockBound ==
    Len(label) <= IF MaxBlocks < 1 THEN 1 ELSE MaxBlocks + 2

\* The values block b is left with after the rewrite.
Operands(b) ==
    Range(reads[b]) \cup
    UNION {{phis[b][r][j][2] : j \in DOMAIN phis[b][r]} : r \in DOMAIN phis[b]}

(* Full SSA is closed: once recover returns, no IR operand, condition or   *)
(* phi operand still names a symbolic entry value reg@bbN.                 *)
NoEntrySymbolLeft ==
    pc = "done" /\ SSA =>
        \A b \in Blocks : \A val \in Operands(b) : val[1] # "entry"

(* Full SSA is right at every block but the entry, for every register that *)
(* all edges into the block define: the register's entry value is the      *)
(* block's phi of it, with the value of each incoming edge as an operand,  *)
(* or a value that every incoming edge carries.                            *)
EntryValuesSound ==
    pc = "done" /\ SSA =>
        \A b \in 2 .. Evaluated, r \in TrackedRegs :
            (\A j \in DOMAIN incoming[b] : Holds(incoming[b][j].state, r))
            => \A j \in DOMAIN incoming[b] :
                LET s == incoming[b][j].state
                IN IF r \in DOMAIN phis[b]
                   THEN /\ reads[b][r] = PhiRef(b, r)
                        /\ phis[b][r][j] =
                             <<incoming[b][j].pred, Rewritten(s[r])>>
                   ELSE reads[b][r] = Rewritten(s[r])

\* The reference for resolve_subst: definitions followed to their end, which
\* descends through the block ids.
Origin ==
    LET origin[b \in Blocks] ==
            [r \in TrackedRegs |->
                LET d == Definition(b, r)
                IN IF d[1] = "entry" THEN origin[d[3]][d[2]] ELSE d]
    IN origin

(* resolve_subst rewrites its map in place while it walks it, in the       *)
(* unspecified order of an unordered_map: the order does not matter, every *)
(* key ends at the value its chain of definitions leads to.                *)
ResolveOrderIrrelevant ==
    pc = "done" /\ SSA => \A k \in DOMAIN subst : subst[k] = Origin[k[2]][k[1]]

(* recover returns, whatever graph the oracle describes.                   *)
Termination == <>(pc = "done")

\* The successors recorded for the evaluated VPCs.
Successors ==
    [v \in processed |->
        {label[edges[i].to] : i \in {j \in DOMAIN edges :
                                        label[edges[j].from] = v}}]

Walk == INSTANCE GraphWalk WITH
            Node <- Vpc, Root <- EntryVpc, Budget <- MaxBlocks,
            found <- Range(label), succ <- Successors,
            finished <- pc # "explore"

(* recover is a walk of the graph the oracle describes: each VPC expanded  *)
(* once, its successors never revised, the walk left only when complete or *)
(* over max_blocks, and left in the end.                                   *)
ImplementsWalk == Walk!FairSpec

(* cfg_recovery.h says full SSA closes loop def-use chains: the entry      *)
(* block's registers, too, depend on every edge that leads back to it.     *)
EntryLoopClosed ==
    pc = "done" /\ SSA =>
        \A r \in TrackedRegs : \A j \in DOMAIN incoming[1] :
            Holds(incoming[1][j].state, r) =>
                \/ r \in DOMAIN phis[1]
                \/ reads[1][r] = Rewritten(incoming[1][j].state[r])
=============================================================================
