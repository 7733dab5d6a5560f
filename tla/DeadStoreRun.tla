---------------------------- MODULE DeadStoreRun ----------------------------
(***************************************************************************)
(* The eliminator composed with the code it rewrote: once the pass is done *)
(* the original and the optimised module are run side by side.  Both take  *)
(* the same branches as long as every read agrees, so one program counter  *)
(* serves both, and what matters of their States is which slots differ.    *)
(* The semantics of the instructions is LLVM's; what runs outside the      *)
(* lifted code (intrinsics, the runtime) may read every slot.              *)
(***************************************************************************)
EXTENDS DeadStoreEliminator

CONSTANT MaxDepth     \* bound on the nesting of lifted calls in a run
ASSUME MaxDepthIsNat == MaxDepth \in Nat

VARIABLES running,    \* "no" | "yes" | "left"
          at,         \* <<block, position>> of the next instruction
          stack,      \* where the pending calls of lifted functions return to
          stale       \* slots that differ because a store was erased

runVars == <<running, at, stack, stale>>
allVars == <<vars, runVars>>

RunInit ==
  /\ Init
  /\ running = "no"
  /\ at \in {<<prog.entry[f], 1>> : f \in Funcs}
  /\ stack = <<>>
  /\ stale = {}

\* The runtime enters some lifted function with equal States.
Enter ==
  /\ phase = "done" /\ running = "no"
  /\ \E f \in Funcs : at' = <<prog.entry[f], 1>>
  /\ running' = "yes"
  /\ UNCHANGED <<vars, stack, stale>>

AtEnd == at[2] = Len(prog.code[at[1]]) + 1
Step == <<at[1], at[2] + 1>>
Executing(ops) ==
  running = "yes" /\ ~AtEnd /\ Inst(prog, at).op \in ops

\* What neither writes State nor leaves the block.
RunOther ==
  /\ Executing({"load", "pure", "extern"})
  /\ at' = Step
  /\ UNCHANGED <<vars, running, stack, stale>>

RunStore ==
  /\ Executing({"store"})
  /\ LET inst == Inst(prog, at) IN
     stale' = IF at \in erased THEN stale \cup {inst.slot}
              ELSE IF inst.full THEN stale \ {inst.slot}
              ELSE stale
  /\ at' = Step
  /\ UNCHANGED <<vars, running, stack>>

RunCall ==
  /\ Executing({"call"})
  /\ Len(stack) < MaxDepth
  /\ stack' = Append(stack, Step)
  /\ at' = <<prog.entry[Inst(prog, at).func], 1>>
  /\ UNCHANGED <<vars, running, stale>>

RunBranch ==
  /\ running = "yes" /\ AtEnd
  /\ \E s \in prog.succ[at[1]] : at' = <<s, 1>>
  /\ UNCHANGED <<vars, running, stack, stale>>

RunReturn ==
  /\ running = "yes" /\ AtEnd /\ IsExit(prog, at[1])
  /\ IF stack = <<>>
     THEN running' = "left" /\ UNCHANGED <<at, stack>>
     ELSE /\ at' = stack[Len(stack)]
          /\ stack' = SubSeq(stack, 1, Len(stack) - 1)
          /\ UNCHANGED running
  /\ UNCHANGED <<vars, stale>>

RunNext == \/ Next /\ UNCHANGED runVars
           \/ Enter \/ RunOther \/ RunStore \/ RunCall \/ RunBranch
           \/ RunReturn

\* Nothing preempts the pass; what is run then may stop at any time.
RunSpec == RunInit /\ [][RunNext]_allVars /\ WF_vars(Next)

-----------------------------------------------------------------------------
RunTypeOK ==
  /\ TypeOK
  /\ running \in {"no", "yes", "left"}
  /\ at \in Blocks \X Nat
  /\ at[2] \in 1..Len(prog.code[at[1]]) + 1
  /\ stack \in Seq(Blocks \X Nat)
  /\ \A i \in 1..Len(stack) :
       stack[i][2] \in 1..Len(prog.code[stack[i][1]]) + 1
  /\ stale \subseteq Slots

\* The next instruction of the run observes slot x: a load that is still
\* there, an external callee, or whoever control returns to.
Reads(x) ==
  /\ running = "yes"
  /\ IF AtEnd THEN IsExit(prog, at[1]) /\ stack = <<>>
     ELSE LET inst == Inst(prog, at) IN
          \/ inst.op = "load" /\ inst.slot = x /\ at \notin erased
          \/ inst.op = "extern" /\ x \in inst.reads

(***************************************************************************)
(* RemoveDeadStores removes only dead stores: in no run, through loops,    *)
(* calls and recursion, is a slot read whose last store was erased.  Loops *)
(* that cannot be left are excepted (see EmptyLiveSetsAreFine).            *)
(***************************************************************************)
StaleNeverRead ==
  AlwaysExits(prog) => \A x \in stale : ~Reads(x)

(***************************************************************************)
(* "If a successors has not been visited yet then we will inherit an empty *)
(* live set. This is fine because our algorithm converges towards bits     *)
(* being set." (VisitBlock): what is inherited never costs a store that is *)
(* read, whatever the shape of the code.                                   *)
(***************************************************************************)
EmptyLiveSetsAreFine == \A x \in stale : ~Reads(x)
=============================================================================
