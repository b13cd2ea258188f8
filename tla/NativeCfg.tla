------------------------------ MODULE NativeCfg ------------------------------
(***************************************************************************)
(* recover_native_cfg (src/eval/segment_eval.cpp): CFGRecovery over native *)
(* code, repeated with a growing set of block leaders until a pass finds   *)
(* no new one.  The oracle of CFGRecovery is lift_and_optimize_segment,    *)
(* which lifts instructions from a block's start up to a leader, a         *)
(* terminator, or the end of the bytes it disassembles at once.            *)
(*                                                                         *)
(* Every address has the instruction that decodes there, with its size, so *)
(* instructions overlap and a jump may lead into one.  Of an instruction   *)
(* the model keeps where control continues and what it does to the one     *)
(* register, Ax, that its conditional and indirect jumps depend on.        *)
(***************************************************************************)
EXTENDS CFGRecovery, FiniteSetsExt

CONSTANTS
    ImageLen,       \* image_len
    Window,         \* how much is disassembled at once, 256 bytes
    MaxPasses,      \* the 64 passes of the fixpoint
    Images,         \* the images looked at: address -> instruction
    Words,          \* 2^64, the number of values of a register
    Ax              \* the register

\* Values that are not constants: what an instruction computed from unknown
\* operands, and the symbol of Ax that LiftState starts with.
Result == -1
Symbol == -2

Operation == {"nop", "set", "dec", "ret", "goto", "jcc", "jmpr", "invalid"}

ASSUME NativeAssumption ==
    /\ Words \in Nat /\ Vpc = 0 .. Words - 1
    /\ ImageLen \in Nat /\ 0 < ImageLen /\ ImageLen < Words
    /\ Window \in Nat \ {0} /\ MaxPasses \in Nat /\ 1 < MaxPasses
    /\ Images \subseteq [0 .. ImageLen - 1 ->
                            [op: Operation, arg: Vpc, size: 1 .. Window]]
    /\ Reg = {Ax} /\ TrackedRegs = {} /\ FullSSA = FALSE
    /\ Const = Vpc \cup {Result, Symbol}
    /\ InitialState = Empty /\ OutDomains = {{Ax}}

VARIABLES
    image,          \* address -> instruction
    leaders,        \* the block starts known before this pass
    discovered,     \* and those this pass adds to them
    lifted,         \* lifted[b]: the addresses of block b's instructions
    pass,
    returned

segments == <<image, leaders, discovered, lifted, pass, returned>>
nativeVars == <<vars, segments>>

-----------------------------------------------------------------------------
(* lift_and_optimize_segment, without following jumps *)

Address == 0 .. ImageLen - 1

\* The bytes disassembled for a segment at va.
Bytes(va) == {a \in Address : va <= a /\ a < va + Window}

\* An instruction of them that starts at a: all of it is there.
Decodes(va, a) ==
    /\ a \in Bytes(va)
    /\ image[a].op # "invalid"
    /\ a + image[a].size - 1 \in Bytes(va)

Terminates(a) == image[a].op \in {"ret", "goto", "jcc", "jmpr"}

\* Faulty variant of NextVa: the address of the instruction itself.
VaItself(a) == a

\* The address behind the instruction at a.
NextVa(a) == a + image[a].size

\* Faulty variant of HitsLeader: the segment runs over leaders.
HitsNoLeader(va, a) == FALSE

\* A segment at va ends before a leader other than va.  Only the addresses
\* of its instructions are compared: a leader inside one is passed over.
HitsLeader(va, a) == a # va /\ a \in leaders

\* S holds the first instruction of a segment at va, and with each one that
\* does not end the segment the next.
Continued(va, S) ==
    /\ Decodes(va, va) => va \in S
    /\ \A x \in S : LET next == NextVa(x)
                    IN ~Terminates(x) /\ Decodes(va, next) /\ ~HitsLeader(va, next)
                       => next \in S

\* The instructions lifted for a segment at va, by their addresses.
Lifted(va) ==
    {a \in Bytes(va) : \A S \in SUBSET Bytes(va) : Continued(va, S) => a \in S}

IsConstant(val) == val \in {Known(c) : c \in Vpc}

\* Ax after the instructions S, entered with val: what the last "set" left,
\* counted down by the "dec"s behind it.
ValueAfter(S, val) ==
    LET sets == {a \in S : image[a].op = "set"}
        start == IF sets = {} THEN val ELSE Known(image[Max(sets)].arg)
        decs == Cardinality({a \in S : /\ image[a].op = "dec"
                                       /\ \A s \in sets : s < a})
    IN IF decs = 0 THEN start
       ELSE IF IsConstant(start) THEN Known((start[2] - decs) % Words)
       ELSE Known(Result)

Unresolved == [kind |-> "UNREACHABLE"]
Goto(v) == [kind |-> "JMP", next |-> v]
Branch(t, f) == [kind |-> "CJMP", taken |-> t, not_taken |-> f]

\* What the terminator at a, reached with Ax = val, gives.  A conditional jump
\* on a constant was rewritten by branch_fold_pass: it is a jump, or it is
\* nothing at all and no target is found.
TerminatorResult(a, val) ==
    LET insn == image[a]
    IN CASE insn.op = "ret" -> [kind |-> "RET"]
         [] insn.op = "goto" -> Goto(insn.arg)
         [] insn.op = "jcc" ->
                IF ~IsConstant(val) THEN Branch(insn.arg, NextVa(a))
                ELSE IF val[2] # 0 THEN Goto(insn.arg)
                ELSE Unresolved
         [] insn.op = "jmpr" ->
                IF IsConstant(val) THEN Goto(val[2]) ELSE Unresolved

\* The oracle of recover_native_cfg for a block at va entered with Ax = val.
SegmentResult(va, val) ==
    LET S == Lifted(va)
        last == Max(S)
    IN IF S = {} THEN Unresolved                          \* OutOfBounds
       ELSE IF Terminates(last) THEN TerminatorResult(last, ValueAfter(S, val))
       ELSE IF Decodes(va, NextVa(last)) THEN Goto(NextVa(last))  \* HitLeader
       ELSE Unresolved                                    \* Limit

Targets(r) ==
    CASE r.kind = "JMP" -> {r.next}
      [] r.kind = "CJMP" -> {r.taken, r.not_taken}
      [] OTHER -> {}

-----------------------------------------------------------------------------
(* The passes *)

NativeInit ==
    /\ Init
    /\ image \in Images
    /\ leaders = {EntryVpc}
    /\ discovered = {EntryVpc}
    /\ lifted = <<{}>>
    /\ pass = 0
    /\ returned = FALSE

\* Ax as a segment starts with it: LiftState's symbol if the state has none.
EntryValue(state) == IF Holds(state, Ax) THEN state[Ax] ELSE Known(Symbol)

\* CFGRecovery asks for the block at the head of its worklist.
Evaluate ==
    /\ pc = "explore"
    /\ MayEvaluate
    /\ LET va == Head(worklist)
           val == EntryValue(Drive(Current))
           r == SegmentResult(va, val)
           out == [q \in Reg |-> ValueAfter(Lifted(va), val)]
       IN /\ CASE r.kind = "JMP" -> EvalGoto(r.next, out)
               [] r.kind = "CJMP" -> EvalBranch(r.taken, r.not_taken, out, out)
               [] OTHER -> EvalStop(r.kind)
          /\ lifted' = [Pad(lifted, Len(label'), {}) EXCEPT
                          ![Current] = Lifted(va)]
          /\ discovered' = discovered \cup Targets(r)
    /\ UNCHANGED <<image, leaders, pass, returned>>

\* recover leaves its loop; the registers' phi nodes are built.
EndPass == BuildPhis /\ UNCHANGED segments

Settled == discovered = leaders

\* Faulty variant of NextLeaders: those of the pass before.
SameLeaders == leaders

NextLeaders == discovered
LiftedAtStart == <<{}>>

\* leaders.swap(discovered), and recover starts anew.
Again ==
    /\ pc = "done" /\ ~returned
    /\ ~Settled /\ pass + 1 < MaxPasses
    /\ label' = <<EntryVpc>>
    /\ term' = <<Ends("UNREACHABLE")>>
    /\ reads' = <<Empty>>
    /\ phis' = <<NoEntries>>
    /\ edges' = <<>>
    /\ incoming' = << <<>> >>
    /\ worklist' = <<EntryVpc>>
    /\ enqueued' = {EntryVpc}
    /\ processed' = {}
    /\ pc' = "explore"
    /\ leaders' = NextLeaders
    /\ discovered' = NextLeaders
    /\ lifted' = LiftedAtStart
    /\ pass' = pass + 1
    /\ UNCHANGED <<rewrite, image, returned>>

\* The fixpoint is reached, or the passes are used up.
Return ==
    /\ pc = "done" /\ ~returned
    /\ Settled \/ pass + 1 >= MaxPasses
    /\ returned' = TRUE
    /\ UNCHANGED <<vars, image, leaders, discovered, lifted, pass>>

NativeNext == Evaluate \/ EndPass \/ Again \/ Return

NativeSpec == NativeInit /\ [][NativeNext]_nativeVars

-----------------------------------------------------------------------------
(* Properties *)

NativeTypeOK ==
    /\ image \in Images
    /\ leaders \in SUBSET Vpc
    /\ discovered \in SUBSET Vpc
    /\ lifted \in [Blocks -> SUBSET Address]
    /\ pass \in 0 .. MaxPasses - 1
    /\ returned \in BOOLEAN

(* Once the leaders are settled every block is split where another begins: *)
(* two blocks share an instruction only if one of them begins inside an    *)
(* instruction of the other, where the loop does not look for a leader.    *)
SplitAtLeaders ==
    returned /\ Settled =>
        \A b, d \in Blocks :
            label[b] < label[d] /\ lifted[b] \cap lifted[d] # {} =>
                \E x \in lifted[b] :
                    x < label[d] /\ label[d] < x + image[x].size

(* Each pass but the last finds a leader, so 64 passes are enough for all  *)
(* code with up to 64 block starts, however the values of registers change *)
(* what a pass can see; and within them the leaders settle.                *)
PassesFindLeaders ==
    /\ pass < Cardinality(leaders)
    /\ returned /\ Cardinality(discovered) <= MaxPasses => Settled

\* Where control goes from the instruction at a, if it does not depend on Ax.
Flow(a) ==
    LET behind == a + image[a].size
    IN CASE image[a].op = "ret" -> {}
         [] image[a].op = "goto" -> {image[a].arg}
         [] image[a].op = "jcc" -> {image[a].arg, behind}
         [] image[a].op = "jmpr" -> {}
         [] OTHER -> {behind}

\* The instructions control reaches from the entry.
Decodable ==
    {a \in Address : image[a].op # "invalid" /\ a + image[a].size <= ImageLen}
ReachableCode ==
    {a \in Decodable :
        \A S \in SUBSET Decodable :
            /\ EntryVpc \in Decodable => EntryVpc \in S
            /\ \A x \in S : Flow(x) \cap Decodable \subseteq S
            => a \in S}

\* No jump depends on what is known of Ax.
PlainCode == \A a \in Address : image[a].op \notin {"set", "dec", "jmpr"}

\* Block b ends before an instruction that its window does not hold.
CutByWindow(b) ==
    /\ lifted[b] # {}
    /\ LET last == Max(lifted[b])
           next == last + image[last].size
       IN ~Terminates(last) /\ next \in Decodable /\ ~Decodes(label[b], next)

(* The graph covers the code: if no block was cut at the window or by      *)
(* max_blocks and no jump depends on a register, the instructions of the   *)
(* blocks are exactly those that control reaches from the entry.           *)
CoversReachableCode ==
    /\ PlainCode /\ returned /\ Settled /\ worklist = <<>>
    /\ \A b \in Blocks : ~CutByWindow(b)
    => UNION Range(lifted) = ReachableCode

(* When no condition is ever a constant, one pass finds all leaders and a  *)
(* second one splits the blocks, whatever the window hides.                *)
TwoPassesSettle ==
    PlainCode /\ returned /\ worklist = <<>> => Settled /\ pass <= 1
=============================================================================
