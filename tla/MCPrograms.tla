----------------------------- MODULE MCPrograms -----------------------------
(***************************************************************************)
(* The programs the dead store eliminator's runs consider: ways to fill    *)
(* small control flow graphs with short instruction sequences.  Slots are  *)
(* the numbers from 1; bit 0 is one of the bits that no slot uses.         *)
(* Function f is the blocks 1 (its entry), 2 and 3; function g is block 4. *)
(***************************************************************************)
EXTENDS LiveSets

\* Instructions; the fields an op does not use have a fixed value.
Plain(op) == [op |-> op, args |-> {}, slot |-> 1, full |-> FALSE,
              func |-> "f", reads |-> {}, known |-> FALSE]

Load(x)     == [Plain("load") EXCEPT !.slot = x]
Write(x)    == [Plain("store") EXCEPT !.slot = x, !.full = TRUE]
Patch(x)    == [Plain("store") EXCEPT !.slot = x]
Copy(x, q)  == [Write(x) EXCEPT !.args = {q}]
Compute(qs) == [Plain("pure") EXCEPT !.args = qs]
Call(f)     == [Plain("call") EXCEPT !.func = f]
Unknown(r)  == [Plain("extern") EXCEPT !.reads = r]
Extern(r)   == [Unknown(r) EXCEPT !.known = TRUE]
Emit(q)     == [Extern({}) EXCEPT !.args = {q}]

\* Sequences over S of at most n elements, n <= 3.
UpTo(S, n) == {<<>>} \cup {<<a>> : a \in S}
              \cup (IF n < 2 THEN {} ELSE {<<a, c>> : a, c \in S})
              \cup (IF n < 3 THEN {} ELSE {<<a, c, d>> : a, c, d \in S})

\* Control flow graphs.  There is no way out of block 2 in Spin, nor out of
\* block 4 in CalleeSpins.
Diamond     == <<{2, 3}, {3}, {}, {}>>
Loop        == <<{2}, {2, 3}, {}, {}>>
TwoExits    == <<{2, 3}, {}, {2}, {}>>
Spin        == <<{2, 3}, {2}, {}, {}>>
CalleeSpins == <<{2}, {3}, {}, {4}>>

\* All ways to fill the graphs with a C1 in block 1, a C2 in block 2 and so on.
ProgramsOver(graphs, C1, C2, C3, C4) ==
  {p \in {[code   |-> <<c1, c2, c3, c4>>,
           succ   |-> g,
           parent |-> <<"f", "f", "f", "g">>,
           entry  |-> [f \in Funcs |-> IF f = "f" THEN 1 ELSE 4]] :
            c1 \in C1, c2 \in C2, c3 \in C3, c4 \in C4, g \in graphs} :
     IsProgram(p)}
=============================================================================
