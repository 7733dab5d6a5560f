--------------------------- MODULE MCStoreModule ---------------------------
(* Runs of remill-lift that write to the same file.                         *)
EXTENDS StoreModule

CONSTANTS p1, p2, p3, old, none
ThreeRuns == {p1, p2, p3}

System(runs, flushed, renames) ==
  [runs |-> runs, flushed |-> flushed, renames |-> renames]

\* Three runs where renames work, two where they may not.
MCSystems == {System(ThreeRuns, 1, TRUE)}
             \cup {System({p1, p2}, k, r) : k \in 0..Chunks, r \in BOOLEAN}
=============================================================================
