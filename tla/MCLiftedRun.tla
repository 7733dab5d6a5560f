---------------------------- MODULE MCLiftedRun -----------------------------
(* The instances of TraceLifter and LiftedRun that TLC checks.             *)
EXTENDS LiftedRun, MCImages

Code(i0, i1, i2) == [a \in 0..2 |-> IF a = 0 THEN i0 ELSE IF a = 1 THEN i1 ELSE i2]

\* Anything at address 0, calls and branches to all places after it.
ControlImages ==
  {Code(i0, i1, i2) :
     i0 \in InsnsAt(0, Categories, Addresses),
     i1 \in InsnsAt(1, {"NoBytes", "Normal", "DirectFunctionCall",
              "ConditionalBranch", "FunctionReturn", "AsyncHyperCall"},
              Addresses),
     i2 \in InsnsAt(2, {"DirectFunctionCall", "FunctionReturn"}, {0, 1})
              \cup InsnsAt(2, {"DirectJump"}, {0, 1})}

Writing(i) == [i EXCEPT !.writes = TRUE]

\* "call f; mov [x], eax; ret" with "f: mov [y], ebx; ret".
WritingImages ==
  {[Code(Insn("DirectFunctionCall", 0, 2, FALSE),
         i1, i2) EXCEPT ![0].writes = w] :
     w \in BOOLEAN,
     i1 \in {Writing(Insn("FunctionReturn", 1, 0, FALSE))},
     i2 \in {Writing(Insn("FunctionReturn", 2, 0, FALSE))}}

RunImages == {[im EXCEPT ![0].writes = TRUE, ![2].writes = TRUE] :
                im \in ControlImages}
=============================================================================
