------------------------------ MODULE MCImages ------------------------------
(***************************************************************************)
(* Machine code for the runs of TraceLifter and LiftedRun: one instruction *)
(* per address, each followed by the next address.                         *)
(***************************************************************************)
EXTENDS Naturals

\* An instruction at address a, possibly branching to t.
Insn(category, a, t, writes) ==
  [category |-> category, next |-> a + 1, taken |-> t, not_taken |-> a + 1,
   writes |-> writes]

\* All instructions at a of the given categories, branching to the targets.
Direct == {"DirectJump", "DirectFunctionCall", "ConditionalBranch"}

InsnsAt(a, categories, targets) ==
  {Insn(c, a, 0, FALSE) : c \in categories \ Direct}
  \cup {Insn(c, a, t, FALSE) : c \in categories \cap Direct, t \in targets}
=============================================================================
