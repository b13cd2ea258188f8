--------------------------- MODULE MCCFGRecovery ---------------------------
(* Instances of CFGRecovery for TLC. *)
EXTENDS CFGRecovery, TLC

CONSTANTS v1, v2, v3, v4, v5, v6, r1, c1

ThreeVpcs == {v1, v2, v3}
SixVpcs == {v1, v2, v3, v4, v5, v6}

\* No register flows anywhere: the shape of the graph alone.
NoRegisters == {{}}
\* Every out_state defines every register.
AllDefined == {{r1}}

NoState == Empty
FromCaller == [r \in {r1} |-> Input(r1)]
=============================================================================
