----------------------------- MODULE MCNativeCfg -----------------------------
(* Instances of NativeCfg for TLC. *)
EXTENDS NativeCfg

Op(op) == [op |-> op, arg |-> 0, size |-> 1]
Set(c) == [op |-> "set", arg |-> c, size |-> 1]
GotoInsn(t) == [op |-> "goto", arg |-> t, size |-> 1]
Jcc(t) == [op |-> "jcc", arg |-> t, size |-> 1]
Wide(insn) == [insn EXCEPT !.size = 2]

\* What decodes at the first addresses; nothing does behind them.
Image(code, n) == [a \in 0 .. 8 |-> IF a < n THEN code[a] ELSE Op("invalid")]

\* All code of four instructions that does not use Ax.
PlainImages ==
    {Image(code, 4) :
        code \in [0 .. 3 -> {Op("nop"), Op("ret")} \cup {GotoInsn(t) : t \in 0 .. 3}
                                                  \cup {Jcc(t) : t \in 0 .. 4}]}

\* Five bytes in which instructions of one and two bytes overlap, entered at
\* two places behind the first.
OverlapImages ==
    {Image([a \in 0 .. 4 |-> IF a = 0 THEN Jcc(t) ELSE code[a]], 5) :
        t \in {2, 3},
        code \in [1 .. 4 -> {Op("nop"), Wide(Op("nop")), Op("ret"), Wide(Op("ret")),
                             Wide(GotoInsn(2)), Wide(Jcc(3))}]}

\* Two paths that set Ax meet at an indirect jump, at 5 or behind it.
MeetingCode ==
    {Jcc(3)} \X {Set(7), Set(8), Op("nop")} \X {GotoInsn(5), GotoInsn(6)}
    \X {Set(7), Set(0)} \X {Op("nop"), Op("dec"), Jcc(8)}
    \X {GotoInsn(6), Op("nop"), Op("invalid")} \X {Op("jmpr")}
    \X {GotoInsn(4), GotoInsn(5)} \X {Op("ret"), GotoInsn(3), Jcc(9)}
MeetingImages == {[a \in 0 .. 8 |-> code[a + 1]] : code \in MeetingCode}
AllImages == PlainImages \cup OverlapImages \cup MeetingImages

\* Registers of four bits.
Words4 == 0 .. 15
Constants == -2 .. 15
NoState == Empty
OnlyAx == {{Ax}}
=============================================================================
