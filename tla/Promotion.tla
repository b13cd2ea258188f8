----------------------------- MODULE Promotion ------------------------------
(***************************************************************************)
(* How loads are promoted in a function that grows window by window.  A    *)
(* scan goes over all instructions from the first, copies constant stores  *)
(* into a ByteMemory and replaces loads of bytes that memory knows by      *)
(* constants.  GuidedEvaluator::run (mode "guided") folds before each scan *)
(* and promote_and_optimize (segment_eval.cpp, mode "segment") after it,   *)
(* in up to three rounds.  When nothing is left to lift, the function is   *)
(* optimised once more.                                                    *)
(***************************************************************************)
EXTENDS Passes, TLC

CONSTANTS
    Seeded,         \* the contents memory may have, the image being part of it
    Image,          \* cell -> content, of the loaded image
    SafeRanges,     \* the sets of ranges that may be declared safe
    More,           \* mode, first window -> sequences of windows that may follow
    PromoteRounds   \* 3

VARIABLES
    mode,
    safe,           \* safe_ranges_
    memory,         \* bytes_: content of the cells it knows
    todo,           \* the windows that will be lifted
    round,          \* promote_round
    promoted        \* promoted_any

scanVars == <<mode, safe, memory, todo, round, promoted>>
promotionVars == <<vars, scanVars>>

Guided == mode = "guided"

\* The scan over the function as it is after this step.
BeginScan ==
    /\ rest' = DOMAIN prog'
    /\ pc' = "scan"
    /\ promoted' = FALSE
    /\ UNCHANGED <<driver, pass, lastStore, any, iters>>

PromotionInit ==
    /\ mode \in DOMAIN More
    /\ \E p \in DOMAIN More[mode] :
        /\ Begin(p, "fold8")
        /\ executions = Executions(p, Seeded)
        /\ todo \in More[mode][p]
    /\ \E ranges \in SafeRanges :
        /\ safe = UNION ranges
        /\ memory = Restrict(Image, UNION {r \in ranges : r \subseteq DOMAIN Image})
    /\ round = 1
    /\ promoted = FALSE
    /\ pc = IF Guided THEN "pass" ELSE "scan"

-----------------------------------------------------------------------------
(* ByteMemory *)

Cells(a) == {(a + k) % Size : k \in Place}

\* Faulty variant of Stored: bytes that are known stay.
StoredFirst(a, w) ==
    [b \in DOMAIN memory \cup Cells(a) |->
        IF b \in DOMAIN memory THEN memory[b] ELSE Bit(w, Offset(b, a))]

\* store_u64
Stored(a, w) ==
    [b \in DOMAIN memory \cup Cells(a) |->
        IF b \in Cells(a) THEN Bit(w, Offset(b, a)) ELSE memory[b]]

\* load_u64 has a value, and is_safe looks at the first byte.
Known(a) == a \in safe /\ Cells(a) \subseteq DOMAIN memory

Loaded(a) ==
    OfBits([k \in Place |-> LET b == (a + k) % Size
                            IN IF b \in DOMAIN memory THEN memory[b] ELSE 0])

-----------------------------------------------------------------------------
(* The scan *)

MayRepeat == promoted /\ round < PromoteRounds

Folded8 == pc = "done" /\ driver = "fold8"

\* Memory after a store.
Applied(insn) ==
    LET a == Resolve(insn.args[1])
        w == Resolve(insn.args[2])
    IN IF IsConst(a) /\ IsConst(w) /\ a[2] \in safe
       THEN Stored(a[2], w[2]) ELSE memory

\* A load: try_promote_load, and the same in promote_and_optimize.
Promote(insn) ==
    LET a == Resolve(insn.args[1])
    IN IF ~IsConst(a) THEN insn
       ELSE IF Known(a[2]) THEN [Becomes(insn, "CONST", <<Const(Loaded(a[2]))>>)
                                 EXCEPT !.private = TRUE]
       ELSE Becomes(insn, "LOAD", <<a>>)

Scan ==
    /\ pc = "scan" /\ rest # {}
    /\ memory' = IF Insn.op = "STORE" THEN Applied(Insn) ELSE memory
    /\ prog' = IF Insn.op = "LOAD" THEN [prog EXCEPT ![At] = Promote(Insn)]
               ELSE prog
    /\ promoted' = (promoted \/ prog'[At].op # Insn.op)
    /\ rest' = rest \ {At}
    /\ UNCHANGED <<original, executions, driver, pass, lastStore, any, iters,
                   pc, mode, safe, todo, round>>

Scanned == pc = "scan" /\ rest = {}

\* guided: the scan of a round, and the fold of the next one.
ScanFolded ==
    /\ Guided /\ Folded8
    /\ prog' = prog /\ BeginScan
    /\ UNCHANGED <<original, executions, mode, safe, memory, todo, round>>

FoldAgain ==
    /\ Guided /\ Scanned /\ MayRepeat
    /\ round' = round + 1
    /\ prog' = prog /\ Converge("fold8")
    /\ UNCHANGED <<original, executions, mode, safe, memory, todo, promoted>>

\* segment: the fold of a round, and the scan of the next one.
FoldScanned ==
    /\ ~Guided /\ Scanned
    /\ prog' = prog /\ Converge("fold8")
    /\ UNCHANGED <<original, executions, scanVars>>

ScanAgain ==
    /\ ~Guided /\ Folded8 /\ MayRepeat
    /\ round' = round + 1
    /\ prog' = prog /\ BeginScan
    /\ UNCHANGED <<original, executions, mode, safe, memory, todo>>

RoundsOver == (IF Guided THEN Scanned ELSE Folded8) /\ ~MayRepeat

\* The next window is lifted into the same function.
Lift ==
    /\ RoundsOver /\ todo # <<>>
    /\ prog' = prog @@ Head(todo)
    /\ original' = original @@ Head(todo)
    /\ executions' = Executions(original', Seeded)
    /\ todo' = Tail(todo)
    /\ round' = 1
    /\ IF Guided THEN Converge("fold8") /\ UNCHANGED promoted ELSE BeginScan
    /\ UNCHANGED <<mode, safe, memory>>

\* The last optimisation.
Finish ==
    /\ RoundsOver /\ todo = <<>>
    /\ prog' = prog
    /\ Converge(IF Guided THEN "all" ELSE "fold")
    /\ UNCHANGED <<original, executions, scanVars>>

PromotionNext ==
    \/ Next /\ UNCHANGED scanVars
    \/ Scan
    \/ ScanFolded \/ FoldAgain
    \/ FoldScanned \/ ScanAgain
    \/ Lift
    \/ Finish

-----------------------------------------------------------------------------
(* Properties *)

\* The stores that remain to the cell at a, all addresses being constants.
StoresTo(a) ==
    {i \in DOMAIN prog : /\ prog[i].op = "STORE" /\ IsConst(prog[i].args[1])
                         /\ Offset(a, prog[i].args[1][2]) \in Place}

(* The ByteMemory is brought up to date by going over all stores again, in  *)
(* each round and for each window, and it does not forget: when a scan ends *)
(* it has the content memory has after the last instruction, unless that    *)
(* was stored as a value that is no constant.                               *)
MemoryUpToDate ==
    Scanned => \A e \in executions : \A a \in DOMAIN memory :
        \/ memory[a] = CellBefore(original, e, Max(DOMAIN original) + 1, a)
        \/ StoresTo(a) # {} /\ ~IsConst(prog[Max(StoresTo(a))].args[2])
=============================================================================
