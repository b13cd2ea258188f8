----------------------------- MODULE MCEmitter -----------------------------
(* Words of two bits: an instruction of each kind on symbols, constants and *)
(* the result of another; a diamond and a loop with phis.                  *)
EXTENDS Emitter

x == Sym("x")
y == Sym("y")
c(w) == Const(w)
I(id, op, args) == [id |-> id, op |-> op, args |-> args]
B(id, phis, instrs, term) == [id |-> id, phis |-> phis, instrs |-> instrs, term |-> term]
Terminator(kind, target, fallthrough, condition) ==
    [kind |-> kind, target |-> target, fallthrough |-> fallthrough, condition |-> condition]
Jmp(b) == Terminator("JMP", b, b, c(0))
Fallthrough(b) == Terminator("FALLTHROUGH", b, b, c(0))
Cjmp(o, b, d) == Terminator("CJMP", b, d, o)
Ret == Terminator("RET", 0, 0, c(0))
Unreachable == Terminator("UNREACHABLE", 0, 0, c(0))
NoPhis == <<>>

Shifts == {"SHL", "SHR", "SAR"}
First == {<<op, <<x, y>>>> : op \in DOMAIN LlvmBinop \ Shifts}
    \cup {<<op, <<x, c(1)>>>> : op \in Shifts \cup {"SUB", "STORE"}}
    \cup {<<op, <<o>>>> : op \in {"NOT", "LOAD", "PASSTHROUGH"}, o \in {x, c(2)}}
    \cup {<<"NEG", <<y>>>>, <<"CALL", <<y>>>>, <<"CONST", <<c(3)>>>>, <<"NOP", <<>>>>,
          <<"SELECT", <<x, y, c(1)>>>>}
\* Those on the value of instruction 0, whatever it is.
Second == {<<op, <<Ref(0), x>>>> : op \in {"ADD", "STORE", "CJMP"}}
    \cup {<<op, <<c(1), Ref(0)>>>> : op \in {"SUB", "STORE"}}
    \cup {<<op, <<Ref(0)>>>> : op \in {"NOT", "LOAD", "PASSTHROUGH", "CALL", "JMP"}}
    \cup {<<"SELECT", <<Ref(0), Ref(0), y>>>>, <<"SHL", <<Ref(0), c(1)>>>>}
NoValue == {"STORE", "NOP", "JMP", "CJMP"}
Bodies == {<<I(0, i[1], i[2]), I(1, j[1], j[2]), I(2, "PASSTHROUGH", <<o>>)>> :
              i \in {k \in First : k[1] \notin NoValue}, j \in Second, o \in {Ref(0), y}}
    \cup {<<I(0, i[1], i[2]), I(1, "LOAD", <<y>>), I(2, "PASSTHROUGH", <<Ref(1)>>)>> :
              i \in First}
Return(o) == <<I(3, "RET", <<o>>)>>

Linear == {[form |-> "function", blocks |-> <<B(0, NoPhis, b \o r, Ret)>>] :
              b \in Bodies, r \in {<<>>, Return(Ref(2))}}

\* A diamond: blocks 1 and 2 join in 3.
Phi2(id, b, v, d, w) == [id |-> id, incoming |-> (b :> v) @@ (d :> w)]
Diamonds ==
    {[form |-> "cfg", blocks |->
        <<B(0, NoPhis, body, Cjmp(o, 1, 2)),
          B(1, NoPhis, <<I(4, "LOAD", <<Ref(2)>>)>>, Jmp(3)),
          B(2, NoPhis, <<I(5, "JMP", <<x>>)>>, last),
          B(3, <<Phi2(10, 1, v, 2, y), Phi2(11, 1, c(1), 2, Ref(2))>>, r, Ret)>>] :
        body \in {b \in Bodies : b[2].op \in {"LOAD", "ADD", "STORE", "CJMP"}},
        o \in {x, Ref(2)}, v \in {Ref(4), x},
        last \in {Fallthrough(3), Unreachable}, r \in {<<>>, Return(Ref(10))}}

\* A loop: block 1 has a phi for what comes from 0 and from 2.
Loop(v) == [form |-> "cfg", blocks |->
    <<B(0, NoPhis, <<>>, Fallthrough(1)),
      B(1, <<Phi2(10, 0, c(0), 2, v), Phi2(11, 0, x, 2, Ref(10))>>,
             <<I(1, "ADD", <<Ref(10), Ref(11)>>)>>, Cjmp(Ref(1), 2, 3)),
      B(2, NoPhis, <<I(2, "ADD", <<Ref(10), c(1)>>)>>, Jmp(1)),
      B(3, NoPhis, <<I(3, "RET", <<Ref(10)>>)>>, Ret)>>]
Loops == {Loop(v) : v \in {Ref(10), x, c(1)}}

AllSources == Linear \cup Diamonds \cup Loops
CountingLoop == {Loop(Ref(2))}
ASSUME \A s \in AllSources : Meaningful(s) /\ PhisLookBack(s)
ASSUME \A s \in CountingLoop : Meaningful(s) /\ ~PhisLookBack(s)

FourInputs == {[r \in {"x", "y", "call"} |-> CASE r = "x" -> a [] r = "y" -> b [] OTHER -> 2] :
                  a \in {0, 3}, b \in {1, 2}}
OneMemory == {[a \in Word |-> (3 * a + 1) % 4]}
=============================================================================
