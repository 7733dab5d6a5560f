--------------------------- MODULE MCDeadStoreRun ---------------------------
(* The instances of DeadStoreRun that TLC checks. *)
EXTENDS DeadStoreRun, MCPrograms

Accesses == {Load(1), Write(1), Patch(1)}

\* Every graph: loops, joins, calls out of a loop and recursion.
ControlRuns ==
  ProgramsOver({Diamond, Loop, TwoExits, Spin}, UpTo({Write(1)}, 1),
               UpTo(Accesses, 2), UpTo({Load(1)}, 1), {<<>>})
  \cup ProgramsOver({Loop, Spin, CalleeSpins}, {<<Write(1)>>},
               UpTo({Load(1), Write(1), Call("g")}, 2),
               {<<>>, <<Extern({1}), Write(1)>>, <<Unknown({1}), Write(1)>>},
               UpTo({Load(1), Write(1), Call("f")}, 1))

\* Results used in and across blocks, so that erasing a store cascades.
CascadeRuns ==
  ProgramsOver({Diamond, Loop},
    {<<Load(1), Compute({<<1, 1>>}), Copy(1, <<1, 2>>)>>,
     <<Load(1), Load(1), Compute({<<1, 1>>, <<1, 2>>})>>},
    UpTo({Copy(1, <<1, 1>>), Copy(1, <<1, 2>>), Emit(<<1, 2>>)}, 2),
    UpTo({Copy(1, <<1, 3>>), Write(1), Compute({<<1, 1>>})}, 1), {<<>>})

MCRuns == ControlRuns \cup CascadeRuns

\* f is "L: out dx, al; inc eax; jmp L" behind a branch that need not be
\* taken: the hyper call gets the State, then the register is updated.
PortLoops ==
  ProgramsOver({Spin}, {<<>>},
    {<<Extern(Bits), Load(1), Compute({<<2, 2>>}), Copy(1, <<2, 3>>)>>},
    UpTo({Load(1)}, 1), {<<>>})
=============================================================================
