--------------------------- MODULE MCLiftedAtomics ---------------------------
(* Two words, of which x comes first in each thread; two or three threads.  *)
EXTENDS LiftedAtomics

I(o, l) == [op |-> o, loc |-> l]

\* What may stand between two accesses, or change the word that counts.
Middles == {<<I(o, "lock")>> : o \in {"mfence", "sfence", "lfence", "xchg", "cmpxchg"}}
           \cup {<<I(o, "count")>> : o \in {"lock_add", "xadd"}}
Firsts == {I(o, "x") : o \in {"store", "load"}}
Lasts == {I(o, "y") : o \in {"store", "load"}}

X86Threads == {<<a>> \o m \o <<b>> : a \in Firsts, m \in Middles, b \in Lasts}
Swaps == {<<I(o, "lock"), I(p, "count")>> : o \in {"xchg", "cmpxchg"}, p \in {"lock_add", "xadd"}}
X86Programs ==
  {<<p, q>> : p \in X86Threads, q \in Swaps} \cup [1 .. 3 -> Swaps]
TotalStoreOrder == {<<"W", "R">>}

Words == {"x", "y", "lock", "count"}
\* AArch64: one thread with pairs of exclusive accesses, and one with plain
\* accesses around a barrier.
Pair(o, l) == <<I(o, l), I("stlxr", l)>>
Pairs == {Pair(o, l) : o \in {"ldxr", "ldaxr"}, l \in {"count", "lock"}}
Broken == {<<I("ldxr", "count"), I(o, "x")>> \o Pair("ldaxr", "lock") : o \in {"new_trace", "store"}}
          \cup {<<I("ldxr", "count"), I("new_trace", "x"), I("stlxr", "count")>>}
Around(ops) == {<<a, I(o, "lock"), b>> : a \in Firsts, b \in Lasts, o \in ops}
ArmPrograms ==
  {<<p, q>> : p \in Pairs \cup Broken \cup {<<I("store", "y"), I("load", "x")>>},
              q \in Around({"dmb", "stlr", "ldar"})}
  \cup {<<p, q>> : p, q \in Pairs}
Anything == {"R", "W"} \X {"R", "W"}

System(programs, order) == {[prog |-> p, relaxed |-> order] : p \in programs}
X86AndAArch64 == System(X86Programs, TotalStoreOrder) \cup System(ArmPrograms, Anything)
==============================================================================
