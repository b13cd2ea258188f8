---------------------------- MODULE MCGuidedEval ----------------------------
(* Instances of GuidedEval for TLC. *)
EXTENDS GuidedEval, TLC

Win(n, ends) == [len |-> n, ends |-> ends]

AllWindows == {Win(1, "jmp"), Win(2, "jmp"), Win(1, "ret"), Win(1, "none"),
               Win(0, "none"), Win(0, "unreadable")}
AllCode == [Addr -> AllWindows]
=============================================================================
