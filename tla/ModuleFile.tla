----------------------------- MODULE ModuleFile -----------------------------
(***************************************************************************)
(* What readers may count on of a file that modules are stored in: there   *)
(* is always the beginning of one module in it, never a mixture; the file  *)
(* changes hands in one step; and a run that succeeds has put all of its   *)
(* module there, unless another has replaced it by then.  What a run that  *)
(* fails after its step leaves may be short, until another replaces it.    *)
(***************************************************************************)
EXTENDS Naturals

CONSTANTS Procs, Old, Chunks
VARIABLES file,     \* .of: whose module; .upto: how many chunks of it
          outcome

Init ==
  /\ file = [of |-> Old, upto |-> Chunks]
  /\ outcome = [p \in Procs |-> "running"]

Moves(p, from, to) == outcome[p] = from /\ outcome' = [outcome EXCEPT ![p] = to]

Replace(p) ==
  /\ Moves(p, "running", "replaced")
  /\ \E k \in 0..Chunks : file' = [of |-> p, upto |-> k]

\* The rest of it.
Complete(p) ==
  /\ Moves(p, "replaced", "stored")
  /\ file' = IF file.of = p THEN [of |-> p, upto |-> Chunks] ELSE file

Fail(p) ==
  /\ Moves(p, "running", "failed")
  /\ UNCHANGED file

FailLate(p) ==
  /\ Moves(p, "replaced", "failed")
  /\ \/ UNCHANGED file
     \/ file.of = p /\ \E k \in file.upto..Chunks : file' = [of |-> p, upto |-> k]

Next == \E p \in Procs : Replace(p) \/ Complete(p) \/ Fail(p) \/ FailLate(p)

Spec == Init /\ [][Next]_<<file, outcome>>
=============================================================================
