--------------------------- MODULE MCBranchTargets ---------------------------
(* A uint64_t of 7 bits, PCs of 7 bits or of 6.                             *)
EXTENDS BranchTargets

WordSizes == [x86 |-> 6, amd64 |-> 7, aarch64 |-> 7, mips |-> 6]
NearDisps == -3 .. 3
==============================================================================
