------------------------ MODULE DeadStoreEliminator -------------------------
(***************************************************************************)
(* RemoveDeadStores from the live set analysis on: FindLiveInsts,          *)
(* CollectDeadInsts and DeleteDeadInsts of LiveSetBlockVisitor             *)
(* (remill/BC/DeadStoreEliminator.cpp).  The results of the alias analysis *)
(* are part of the program (see LiveSets).                                 *)
(*                                                                         *)
(* A call of VisitBlock is one step here; module VisitBlock opens it up.   *)
(* The worklists are sets: the code's vectors follow the order of LLVM's   *)
(* predecessor and use lists, which nothing fixes, so any order is allowed *)
(* and a block, which may be queued several times, may be visited again in *)
(* the same round.  For the same reason CollectDeadInsts and               *)
(* DeleteDeadInsts take any order.                                         *)
(***************************************************************************)
EXTENDS LiveSets

CONSTANT Programs     \* the programs a run considers

ASSUME ProgramsAreWellFormed == \A p \in Programs : IsProgram(p)

VARIABLES prog,       \* the module that is optimised
          phase,      \* "find" | "collect" | "delete" | "done"
          curr_wl,    \* blocks FindLiveInsts still has to visit this round
          next_wl,    \* blocks it has to visit in the next round
          block_map,  \* live-on-entry set of every block
          todo,       \* blocks CollectDeadInsts has not visited yet
          to_remove,  \* positions of the instructions waiting to be erased
          erased      \* positions of the instructions erased so far

vars == <<prog, phase, curr_wl, next_wl, block_map, todo, to_remove, erased>>

Init ==
  /\ prog \in Programs
  /\ phase = "find"
  /\ curr_wl = {b \in Blocks : IsExit(prog, b)}
  /\ next_wl = {}
  /\ block_map = [b \in Blocks |-> {}]
  /\ todo = Blocks
  /\ to_remove = {}
  /\ erased = {}

-----------------------------------------------------------------------------
(* FindLiveInsts. *)

\* Faulty variant: everything is live.
VisitedMapFull(b) == [block_map EXCEPT ![b] = Bits]

VisitedMap(b) == [block_map EXCEPT ![b] = LiveOnEntry(prog, block_map, b)]

\* Faulty variant: callers are not told.
DependentsInFunction(b) == Preds(prog, b)

\* Whom a change to b's set concerns: its predecessors or, for an entry
\* block, which has none, the blocks that call its function.
Dependents(b) == IF Preds(prog, b) # {}
                 THEN Preds(prog, b)
                 ELSE CallBlocks(prog, prog.parent[b])

FindLiveInsts(b) ==
  /\ phase = "find" /\ b \in curr_wl
  /\ block_map' = VisitedMap(b)
  /\ curr_wl' \in {curr_wl, curr_wl \ {b}}
  /\ next_wl' = IF block_map' # block_map
                THEN next_wl \cup Dependents(b)
                ELSE next_wl
  /\ UNCHANGED <<prog, phase, todo, to_remove, erased>>

\* Faulty variant: next_wl is not cleared.
SwapWorkListsOnly ==
  /\ phase = "find" /\ curr_wl = {} /\ next_wl # {}
  /\ curr_wl' = next_wl
  /\ UNCHANGED <<prog, phase, next_wl, block_map, todo, to_remove, erased>>

\* curr_wl.swap(next_wl); next_wl.clear();
SwapWorkLists ==
  /\ phase = "find" /\ curr_wl = {} /\ next_wl # {}
  /\ curr_wl' = next_wl
  /\ next_wl' = {}
  /\ UNCHANGED <<prog, phase, block_map, todo, to_remove, erased>>

FindDone ==
  /\ phase = "find" /\ curr_wl = {} /\ next_wl = {}
  /\ phase' = "collect"
  /\ UNCHANGED <<prog, curr_wl, next_wl, block_map, todo, to_remove, erased>>

-----------------------------------------------------------------------------
(* CollectDeadInsts: VisitBlock once more on every block. *)

CollectDeadInsts(b) ==
  /\ phase = "collect" /\ b \in todo
  /\ to_remove' = to_remove \cup DeadStores(prog, block_map, b)
  /\ block_map' = VisitedMap(b)
  /\ todo' = todo \ {b}
  /\ UNCHANGED <<prog, phase, curr_wl, next_wl, erased>>

CollectDone ==
  /\ phase = "collect" /\ todo = {}
  /\ phase' = "delete"
  /\ UNCHANGED <<prog, curr_wl, next_wl, block_map, todo, to_remove, erased>>

-----------------------------------------------------------------------------
(* DeleteDeadInsts: erase, and follow the operands that lose their last    *)
(* user (llvm::isInstructionTriviallyDead).                                *)

Users(q, gone) == {u \in Positions(prog) \ gone : q \in Inst(prog, u).args}

\* Faulty variant: other users are not looked for.
DeadWithUsers(gone) ==
  {q \in Positions(prog) \ gone : HasResult(Inst(prog, q))}

TriviallyDead(gone) ==
  {q \in Positions(prog) \ gone :
     HasResult(Inst(prog, q)) /\ Users(q, gone) = {}}

DeleteDeadInsts(q) ==
  /\ phase = "delete" /\ q \in to_remove
  /\ erased' = erased \cup {q}
  /\ to_remove' = (to_remove \ {q})
                  \cup (Inst(prog, q).args \cap TriviallyDead(erased'))
  /\ UNCHANGED <<prog, phase, curr_wl, next_wl, block_map, todo>>

DeleteDone ==
  /\ phase = "delete" /\ to_remove = {}
  /\ phase' = "done"
  /\ UNCHANGED <<prog, curr_wl, next_wl, block_map, todo, to_remove, erased>>

-----------------------------------------------------------------------------
Next == \/ \E b \in Blocks : FindLiveInsts(b) \/ CollectDeadInsts(b)
        \/ SwapWorkLists \/ FindDone \/ CollectDone
        \/ \E q \in to_remove : DeleteDeadInsts(q)
        \/ DeleteDone

\* The three loops run to their ends: nothing preempts them.
Spec == Init /\ [][Next]_vars /\ WF_vars(Next)

-----------------------------------------------------------------------------
(* Properties. *)

TypeOK ==
  /\ IsProgram(prog)
  /\ phase \in {"find", "collect", "delete", "done"}
  /\ curr_wl \subseteq Blocks
  /\ next_wl \subseteq Blocks
  /\ block_map \in [Blocks -> SUBSET Bits]
  /\ todo \subseteq Blocks
  /\ to_remove \subseteq Positions(prog)
  /\ erased \subseteq Positions(prog)

(***************************************************************************)
(* When FindLiveInsts leaves its loop the live sets solve the dataflow     *)
(* equations of the whole module.  The loop starts from the exits and only *)
(* ever queues blocks whose successor or callee changed, so this needs a   *)
(* change to reach every block: every block can exit, and the first visit  *)
(* of an exit is a change because LiveSets have bits no slot uses, which   *)
(* no store kills.                                                         *)
(***************************************************************************)
LiveSetsSolved ==
  (phase # "find" /\ AlwaysExits(prog)) => Solves(prog, block_map)

(***************************************************************************)
(* The analysis never calls more live than it must: at every moment its    *)
(* sets are below every solution, so a store it keeps has, in the least    *)
(* solution too, a path to a read.                                         *)
(***************************************************************************)
LeastLiveSets ==
  \A m \in [Blocks -> SUBSET Bits] :
    Solves(prog, m) => \A b \in Blocks : block_map[b] \subseteq m[b]

(***************************************************************************)
(* "Our algorithm converges towards bits being set": a visit never takes a *)
(* bit out of a live set, though the store and call cases do.              *)
(***************************************************************************)
LiveSetsGrow ==
  [][\A b \in Blocks : block_map[b] \subseteq block_map'[b]]_vars

(***************************************************************************)
(* VisitBlock writes block_map on the remove pass as well, between blocks  *)
(* whose stores it judges by it; after a complete search that is harmless. *)
(***************************************************************************)
CollectLeavesLiveSets ==
  [][(phase = "collect" /\ AlwaysExits(prog)) => UNCHANGED block_map]_vars

(***************************************************************************)
(* Erasing never leaves a use of an erased instruction behind (eraseFrom-  *)
(* Parent of a value with uses aborts), and only stores, loads and         *)
(* computations go: calls keep their side effects.                         *)
(***************************************************************************)
NoDanglingUse ==
  \A q \in erased \cup to_remove :
    /\ Inst(prog, q).op \in {"store", "load", "pure"}
    /\ Users(q, erased) = {}

\* The stack to_remove never holds what is gone: no instruction is erased
\* twice, although it may lose several users in one cascade.
ErasedOnce == to_remove \cap erased = {}

\* FindLiveInsts' loop, and with it the pass, ends on every module.
Terminates == <>(phase = "done")
=============================================================================
