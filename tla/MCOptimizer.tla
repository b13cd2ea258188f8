---------------------------- MODULE MCOptimizer -----------------------------
(***************************************************************************)
(* Words of two bits, an access covering two cells.                        *)
(***************************************************************************)
EXTENDS Optimizer

x == Sym("x")
y == Sym("y")
c(w) == Const(w)
I(op, args) == [op |-> op, args |-> args, private |-> FALSE]
Private(op, args) == [op |-> op, args |-> args, private |-> TRUE]

\* The function with the instructions of s, the first having id n.
FunctionAt(n, s) == [i \in n .. n + Len(s) - 1 |-> s[i - n + 1]]
Function(s) == FunctionAt(0, s)

DefaultIters == [all |-> 32, fold |-> 32, fold8 |-> 8]

-----------------------------------------------------------------------------
(* Functions of up to five instructions for a driver alone *)

\* Memory at the start: all zero, and one cell set.
TwoMemories == {[a \in Word |-> 0], [a \in Word |-> IF a = 1 THEN 1 ELSE 0]}

\* One operation on a symbol or on the constant 2, and one on its result.
First == {I(op, <<a, b>>) : op \in Binary, a \in {x, c(2)},
                            b \in {x, c(0), c(1), c(3)}}
         \cup {I(op, <<a>>) : op \in Unary, a \in {x, c(2)}}
Second == {I(op, <<Ref(0), b>>) : op \in {"ADD", "AND", "SHL"},
                                  b \in {Ref(0), c(1)}}
          \cup {I("SAR", <<Ref(0), c(1)>>)}
          \cup {I("XOR", <<Ref(0), x>>)}
          \cup {I(op, <<Ref(0)>>) : op \in Unary}
          \cup {I("SELECT", <<Ref(0), x, c(1)>>), I("CJMP", <<Ref(0), x>>)}
Arithmetic == {Function(<<i, j, I("RET", <<Ref(1)>>)>>) :
                    i \in First,
                    j \in {k \in Second : k.op # "CJMP"}}
Branches == {Function(<<i, I("CJMP", <<Ref(0), x>>), I("RET", <<x>>)>>) :
                i \in First}

\* (x AND y) XOR y, OR y, the operands in any order and some of them others.
Masks == {Function(<<I("AND", <<x, m>>), I("XOR", a), I("OR", b),
                     I("RET", <<Ref(2)>>)>>) :
            m \in {y, c(1)}, a \in {<<Ref(0), y>>, <<y, Ref(0)>>, <<Ref(0), x>>},
            b \in {<<Ref(1), y>>, <<y, Ref(1)>>, <<Ref(1), x>>, <<Ref(1), Ref(1)>>}}

\* Two stores and a load through addresses that may be the same cells, 0
\* being private.
Accesses(op, tail) == {Private(op, <<c(0)>> \o tail)}
                      \cup {I(op, <<a>> \o tail) : a \in {c(2), x, Ref(0)}}
Memory == {Function(<<I("ADD", <<x, c(1)>>), i, j, k, I("RET", <<Ref(3)>>)>>) :
            i \in Accesses("STORE", <<x>>),
            j \in Accesses("STORE", <<c(1)>>) \cup Accesses("LOAD", <<>>),
            k \in Accesses("LOAD", <<>>)}

\* The same through an address that is not a constant.
Pointer == {Function(<<I("ADD", <<x, b>>), I("STORE", <<Ref(0), v>>),
                       I("STORE", <<Ref(0), w>>), I("LOAD", <<Ref(0)>>),
                       I("RET", <<Ref(3)>>)>>) :
            b \in {y, c(0)}, v \in {y, c(1)}, w \in {y, c(2)}}

\* What is done to a value that is not known.
Widened == {Function(<<I("ZEXT", <<x>>), I(op, <<Ref(0), b>>), I("STORE", <<c(1), Ref(0)>>),
                       I("RET", <<Ref(1)>>)>>) :
            op \in {"ADD", "XOR"}, b \in {Ref(0), c(0)}}

Functions == Arithmetic \cup Branches \cup Masks \cup Memory \cup Pointer \cup Widened

-----------------------------------------------------------------------------
(* Functions in windows of three instructions.  Memory has two words, at 0 *)
(* and at 2; the image holds the second, 2.                                *)

SecondWord == 2 :> 0 @@ 3 :> 1
AnyFirstWord == {0 :> a @@ 1 :> b @@ SecondWord : a \in {0, 1}, b \in {0, 1}}
SomeRanges == {{{0, 1}, {2, 3}}, {{0, 1}}, {{2, 3}}, {{0, 1}, {2}}}

\* A load through a pointer that is itself loaded and then moved by k.
Indirect(k) == Function(<<I("LOAD", <<c(2)>>), I("ADD", <<Ref(0), k>>),
                        I("LOAD", <<Ref(1)>>)>>)
SetPointer(v) == Function(<<I("STORE", <<c(0), v>>), I("LOAD", <<c(2)>>),
                          I("ADD", <<Ref(1), c(2)>>)>>)

\* Each load takes its address from the one before: one more round for each.
Chain == Function(<<I("LOAD", <<c(2)>>), I("MUL", <<Ref(0), c(3)>>),
                     I("LOAD", <<Ref(1)>>)>>)
         @@ FunctionAt(3, <<I("MUL", <<Ref(2), c(3)>>), I("LOAD", <<Ref(3)>>),
                        I("JMP", <<Ref(4)>>)>>)

\* Store to the first word and read it back.
StoreLoad(w) == FunctionAt(3, <<I("STORE", <<c(0), w>>), I("LOAD", <<c(0)>>),
                         I("JMP", <<Ref(4)>>)>>)
LoadStore(w) == FunctionAt(3, <<I("LOAD", <<Ref(2)>>), I("STORE", <<c(0), w>>),
                         I("JMP", <<Ref(3)>>)>>)

\* Nine constant additions, each of the one before: const_fold settles one in
\* an iteration, so the 8 iterations of a fold are used up.
Additions == Function([n \in 1 .. 9 |-> I("ADD", <<IF n = 1 THEN c(1) ELSE Ref(n - 2), c(1)>>)])
End == 6 :> I("RET", <<x>>)
Values == {x, c(1), c(2)}

\* A constant is overwritten by a value that is none, and memory keeps it: the
\* fold must settle the load before the scan comes to it.  The cycle that scans
\* first does not, so this is for the other.
Overwritten == Function(<<I("STORE", <<c(0), c(1)>>), I("STORE", <<c(0), x>>),
                          I("LOAD", <<c(0)>>)>>)

\* Functions that read no word before it was written or seeded.
Written == {Indirect(k) : k \in {c(0), c(2), x}} \cup {SetPointer(v) : v \in Values}
           \cup {Chain, Additions}
Windows(p) ==
    {<<>>} \cup
    CASE p \in {Indirect(c(0)), Indirect(x)} -> {<<StoreLoad(w), End>> : w \in Values}
      [] p = Overwritten -> {<<StoreLoad(w), End>> : w \in Values}
      [] p \in {Indirect(c(2)), Chain, Additions} -> {}
      [] OTHER -> {<<LoadStore(w), End>> : w \in Values}
WrittenMore ==
    [m \in {"guided", "segment"} |->
        [p \in Written \cup (IF m = "guided" THEN {Overwritten} ELSE {}) |-> Windows(p)]]

\* The first word is read, through the pointer, before it is written.
ReadFirstMore ==
    [m \in {"guided"} |-> Indirect(c(2)) :> {<<StoreLoad(c(1)), End>>}]

-----------------------------------------------------------------------------
(* Virtual conditional jumps: the VPC is computed from a flag, which is a  *)
(* symbol or an instruction's result                                       *)

Flag == {x, Ref(0)}
Flags == {I("SUB", <<x, c(1)>>), I("LOAD", <<c(0)>>)}
VpcFrom(flag) ==
    {<<I("SELECT", <<flag, a, b>>), I("ADD", <<Ref(1), k>>)>> :
        a \in {c(1), y}, b \in {c(1), c(2)}, k \in {c(3), flag}}
    \cup {<<I(op, <<flag, c(3)>>), I("XOR", <<k, Ref(1)>>)>> :
            op \in {"MUL", "SHL", "ADD"}, k \in {c(2), flag}}
    \cup {<<I("STORE", <<c(0), flag>>), I("LOAD", <<a>>)>> : a \in {c(0), c(2)}}

VirtualJumps ==
    UNION {{[f |-> Function(<<i>> \o s \o <<I("JMP", <<Ref(2)>>)>>),
             vpc |-> Ref(2), condition |-> flag] :
                i \in Flags, s \in VpcFrom(flag)} : flag \in Flag}
=============================================================================
