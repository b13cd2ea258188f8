------------------------------ MODULE MCVmCfg ------------------------------
(* An instance of VmCfg for TLC. *)
EXTENDS VmCfg

\* The entry, at address 10, is also a VPC: the keys of the two coincide.
ThreeVpcsAndEntry == 10 .. 13

TwoStops == {1, 2}

\* A SELECT on a register, and a SELECT on an instruction of the segment
\* with ids left out by dead code elimination.
SomeInstructions == {{}, {0}, {1, 3}}
=============================================================================
