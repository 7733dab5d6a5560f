---------------------------- MODULE MCStateAlias ----------------------------
(* The instances of StateAlias that TLC checks: a State of three bytes in   *)
(* two slots, functions of two or three values and an access or a call.     *)
EXTENDS StateAlias

TwoSlots == [o \in 0..2 |-> IF o = 2 THEN 1 ELSE 0]

Num(c) == [kind |-> "int", n |-> c]
Null == [kind |-> "const", n |-> 0]
Op(op, ops) == [op |-> op, ops |-> ops]

Ins(n) == {Result(i) : i \in 1..n}
Leaves3 == {Op("loadstate", <<>>), Op("gep", <<StatePtr, Num(2)>>)}
StoreTo(n) == Op("store", <<MemoryPtr, Result(n)>>)
Uses(n) == {Op("load", <<Result(n)>>), StoreTo(n),
            Op("call", <<Result(n - 1), Result(n)>>)}

\* SSA: a value can depend on itself only through a PHI node.
Deps(c) == {<<i, j>> \in (DOMAIN c) \X (DOMAIN c) :
              c[i].op # "phi" /\ \E k \in DOMAIN c[i].ops : c[i].ops[k] = Result(j)}
IsSSA(c) == LET d == Deps(c) IN
  \A i, j, k \in DOMAIN c :
    /\ <<i, i>> \notin d
    /\ ~(<<i, j>> \in d /\ <<j, i>> \in d)
    /\ ~(<<i, j>> \in d /\ <<j, k>> \in d /\ <<k, i>> \in d)

\* Two values: one of any kind and one that joins or moves.
Values2 == {StatePtr, MemoryPtr, Null} \cup Ins(2)
Join2 == {Op(o, <<v, w>>) : o \in {"phi", "select", "add"}, v \in Values2,
                            w \in Values2 \cup {Num(1)}}
Any2 == {Op("gep", <<v, x>>) : v \in Values2, x \in {Num(1), MemoryPtr}}
        \cup {Op("cast", <<v>>) : v \in Values2}
        \cup {Op("sub", <<v, w>>) : v \in Values2, w \in Values2 \cup {Num(1)}}
        \cup {Op("load", <<v>>) : v \in Values2}
        \cup {Op("other", <<>>), Op("loadstate", <<>>)}
        \cup {Op("phi", <<v, w>>) : v, w \in Ins(2) \cup {Null}}

\* Three values joined by PHI nodes.
Values3 == {StatePtr} \cup Ins(3)
Any3 == {Op("gep", <<v, Num(1)>>) : v \in Values3}
        \cup {Op("cast", <<v>>) : v \in Values3}
        \cup {Op("phi", <<v, w>>) : v, w \in Values3}

AllFunctions ==
  {f \in {<<a, b, u>> : a \in Any2, b \in Join2, u \in Uses(2)} : IsSSA(f)}
  \cup {f \in {<<a, b, c, u>> : a \in Any3 \cup Leaves3, b, c \in Any3,
                                u \in Uses(3) \ {StoreTo(3)}} : IsSSA(f)}

\* Three values in any order of blocks, and a load of the last one.
PointerLoops ==
  {f \in {<<a, b, c, Op("load", <<Result(3)>>)>> :
             a, b, c \in {d \in Any3 : d.op \in {"gep", "phi"}}} : IsSSA(f)}

\* A store to a field of State, then a load of an element that is computed.
IndexedLoads ==
  {<<Op(o, <<StatePtr, Num(1)>>), StoreTo(1), Op("gep", <<StatePtr, x>>),
     Op("load", <<Result(3)>>)>> :
     o \in {"gep", "add"}, x \in {Num(1), Num(2), Num(3), MemoryPtr}}
=============================================================================
