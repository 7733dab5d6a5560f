--------------------------- MODULE MCMoveFunctions ---------------------------
(* Three traces that use each other, an intrinsic, an internal function, an *)
(* alias, and variables with and without local linkage.                     *)
EXTENDS MoveFunctions, Naturals

CONSTANTS f1, f2, f3, intrinsic, inlined, alias, table, flag, blank, vtable

ThreeTraces == {f1, f2, f3}
TwoTraces == {f1, f2}
TwoHelpers == {intrinsic, inlined}
FourVariables == {table, flag, blank, vtable}
Internal == {inlined, table, blank, vtable}

Plain(os) == {[to |-> o, form |-> "plain"] : o \in os}
Cast(os) == {[to |-> o, form |-> "cast"] : o \in os}
Nested(os) == {[to |-> o, form |-> "nested"] : o \in os}
UpToTwo(S) == {s \in SUBSET S : Cardinality(s) <= 2}

Scenario(b, c) == [bodies |-> b, clones |-> c]

\* Bodies of f1 and f2 from a set; f3 is not used.
OfTwo(uses) == {[f \in ThreeTraces |-> IF f = f3 THEN {} ELSE u[f]] : u \in [TwoTraces -> uses]}

Moves ==
  {Scenario(b, {}) : b \in
     [ThreeTraces -> UpToTwo(Plain(ThreeTraces) \cup Cast({f1, flag}))
                     \cup {Plain({intrinsic}), Plain({f1, table}),
                           Plain({table}) \cup Cast({table})}]}
\* Operands that stop the tool.
Refused ==
  {Scenario(b, {}) : b \in OfTwo({Plain({o, f2}) : o \in Local \cup Others \cup {flag}}
                                 \cup {Cast({o}) : o \in Local \cup Others})}
\* The one or the other is cloned too.
Cloned ==
  {Scenario(b, c) : b \in OfTwo(SUBSET (Plain({f1, f2, intrinsic}) \cup Cast({f2}))
                                \cup {Plain({inlined}), Plain({alias}), Cast({alias})}),
                    c \in {{f1}, TwoTraces}}
\* Clones of functions that use a variable with local linkage.
LocalClones ==
  {Scenario(b, c) : b \in OfTwo(SUBSET (Plain({table, flag}) \cup Cast({table}))),
                    c \in {{f1}, TwoTraces}}
NestedUses ==
  {Scenario(b, {}) : b \in OfTwo(SUBSET (Plain({f1, table}) \cup Nested({f2, table})))}
MCScenarios == Moves \cup Refused \cup Cloned \cup LocalClones
==============================================================================
