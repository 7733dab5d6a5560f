---------------------------- MODULE MCVisitBlock ----------------------------
(* The instances of VisitBlock that TLC checks. *)
EXTENDS VisitBlock, MCPrograms

Anything == {Load(1), Load(2), Write(1), Write(2), Patch(1), Call("g"),
             Extern({2})}

\* Up to three instructions in block 1, which branches, or one in block 3,
\* which exits.
BlockPrograms ==
  ProgramsOver({<<{2, 3}, {3}, {}, {}>>}, UpTo(Anything, 3), {<<>>}, {<<>>},
               {<<>>})
  \cup ProgramsOver({<<{2, 3}, {3}, {}, {}>>}, {<<>>}, {<<>>},
                    UpTo(Anything \cup {Compute({}), Unknown({2})}, 1), {<<>>})
=============================================================================
