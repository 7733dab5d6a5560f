------------------------ MODULE DeadStoreRun_proofs -------------------------
(***************************************************************************)
(* The live set analysis and the removal, for every program; then that     *)
(* dead store elimination is sound: no run of any program that can always  *)
(* leave its loops reads what an erased store left behind.                 *)
(***************************************************************************)
EXTENDS DeadStoreRun, LiveSets_proofs, SequenceTheorems

-----------------------------------------------------------------------------
(* Types. *)

LEMMA DependentsAreBlocks ==
  ASSUME NEW b \in Blocks PROVE Dependents(b) \subseteq Blocks
BY DEF Dependents, Preds, CallBlocks

LEMMA VisitedMapType ==
  ASSUME TypeOK, NEW b \in Blocks PROVE VisitedMap(b) \in Maps
<1>1. LiveOnEntry(prog, block_map, b) \subseteq Bits
  BY DEF LiveOnEntry, LiveBefore
<1> QED BY <1>1 DEF VisitedMap, Maps, TypeOK

LEMMA TypeInductive == TypeOK /\ [Next]_vars => TypeOK'
<1> SUFFICES ASSUME TypeOK, [Next]_vars PROVE TypeOK' OBVIOUS
<1> USE DEF TypeOK
<1>1. ASSUME NEW b \in Blocks, FindLiveInsts(b) PROVE TypeOK'
  BY <1>1, DependentsAreBlocks, VisitedMapType DEF FindLiveInsts, Maps
<1>2. ASSUME NEW b \in Blocks, CollectDeadInsts(b) PROVE TypeOK'
  <2>1. DeadStores(prog, block_map, b) \subseteq Positions(prog)
    BY DeadStoresAreInBlock
  <2> QED BY <1>2, <2>1, VisitedMapType DEF CollectDeadInsts, Maps
<1>3. CASE SwapWorkLists BY <1>3 DEF SwapWorkLists
<1>4. CASE FindDone BY <1>4 DEF FindDone
<1>5. CASE CollectDone BY <1>5 DEF CollectDone
<1>6. ASSUME NEW q \in to_remove, DeleteDeadInsts(q) PROVE TypeOK'
  <2>1. TriviallyDead(erased') \subseteq Positions(prog) BY DEF TriviallyDead
  <2> QED BY <1>6, <2>1 DEF DeleteDeadInsts
<1>7. CASE DeleteDone BY <1>7 DEF DeleteDone
<1>8. CASE UNCHANGED vars BY <1>8 DEF vars
<1> QED BY <1>1, <1>2, <1>3, <1>4, <1>5, <1>6, <1>7, <1>8 DEF Next

LEMMA TypeInitially == Init => TypeOK
BY ProgramsAreWellFormed DEF Init, TypeOK

(***************************************************************************)
(* The worklists hold blocks, block_map holds LiveSets, and to_remove      *)
(* holds instructions of the program, whatever the program.                *)
(***************************************************************************)
THEOREM TypeCorrect == Spec => []TypeOK
BY TypeInitially, TypeInductive, PTL DEF Spec

-----------------------------------------------------------------------------
(***************************************************************************)
(* The scan is monotone in the live sets that it starts from: this is what *)
(* makes the iteration go one way, though stores and calls take bits out.  *)
(***************************************************************************)
Below(m1, m2) == \A b \in Blocks : m1[b] \subseteq m2[b]

LEMMA ScanIsMonotone ==
  ASSUME NEW p, IsProgram(p), NEW m1 \in Maps, NEW m2 \in Maps,
         Below(m1, m2), NEW b \in Blocks
  PROVE  LiveOnEntry(p, m1, b) \subseteq LiveOnEntry(p, m2, b)
<1>1. ASSUME NEW i \in 1..Len(p.code[b]) + 1
      PROVE  Gens(p, m1, b, i) \subseteq Gens(p, m2, b, i)
  <2>1. Len(p.code[b]) \in Nat BY ProgramTypes
  <2>2. CASE i = Len(p.code[b]) + 1
    <3>1. UNION {m1[s] : s \in p.succ[b]} \subseteq UNION {m2[s] : s \in p.succ[b]}
      BY ProgramTypes DEF Below
    <3>2. Gens(p, m1, b, i) = IF IsExit(p, b) THEN Bits
                              ELSE UNION {m1[s] : s \in p.succ[b]}
      BY <2>2, TerminatorEffects
    <3>3. Gens(p, m2, b, i) = IF IsExit(p, b) THEN Bits
                              ELSE UNION {m2[s] : s \in p.succ[b]}
      BY <2>2, TerminatorEffects
    <3> QED BY <3>1, <3>2, <3>3
  <2>3. CASE i # Len(p.code[b]) + 1
    <3>1. i \in 1..Len(p.code[b]) /\ p.code[b][i] \in Instructions
      BY <2>1, <2>3, ProgramTypes
    <3>2. p.code[b][i].op \in InstOps
          /\ p.entry[p.code[b][i].func] \in Blocks
      BY <3>1, InstructionTypes, EntryIsBlock
    <3>3. m1[p.entry[p.code[b][i].func]] \subseteq m2[p.entry[p.code[b][i].func]]
      BY <3>2 DEF Below
    <3>4. CASE p.code[b][i].op = "call"
      <4>1. Gens(p, m1, b, i) = m1[p.entry[p.code[b][i].func]]
        BY <3>1, <3>4, InstructionEffects DEF EffectsOf
      <4>2. Gens(p, m2, b, i) = m2[p.entry[p.code[b][i].func]]
        BY <3>1, <3>4, InstructionEffects DEF EffectsOf
      <4> QED BY <3>3, <4>1, <4>2
    <3>5. CASE p.code[b][i].op # "call"
      BY <2>1, <3>1, <3>5 DEF Gens
    <3> QED BY <3>4, <3>5
  <2> QED BY <2>2, <2>3
<1> QED BY <1>1, ProgramTypes DEF LiveOnEntry, LiveBefore

\* Every block's set is at most what its own scan would find.
Ascending == \A b \in Blocks : block_map[b] \subseteq LiveOnEntry(prog, block_map, b)

\* What a visit does to the live sets.
LEMMA VisitAscends ==
  ASSUME TypeOK, Ascending, NEW b \in Blocks,
         block_map' = VisitedMap(b), prog' = prog
  PROVE  Below(block_map, block_map') /\ Ascending'
<1>1. block_map \in Maps /\ block_map' \in Maps /\ IsProgram(prog)
  BY VisitedMapType DEF TypeOK, Maps
<1>2. \A c \in Blocks : block_map'[c] = IF c = b
                                        THEN LiveOnEntry(prog, block_map, b)
                                        ELSE block_map[c]
  BY DEF VisitedMap, TypeOK
<1>3. Below(block_map, block_map') BY <1>2 DEF Below, Ascending
<1>4. ASSUME NEW c \in Blocks
      PROVE  block_map'[c] \subseteq LiveOnEntry(prog, block_map', c)
  <2>1. LiveOnEntry(prog, block_map, c) \subseteq LiveOnEntry(prog, block_map', c)
    BY <1>1, <1>3, ScanIsMonotone
  <2> QED BY <1>2, <2>1 DEF Ascending
<1> QED BY <1>3, <1>4 DEF Ascending

\* Steps other than visits leave the live sets and the program alone.
LEMMA OtherSteps ==
  ASSUME [Next]_vars
  PROVE  /\ prog' = prog
         /\ \/ \E b \in Blocks : /\ FindLiveInsts(b) \/ CollectDeadInsts(b)
                                 /\ block_map' = VisitedMap(b)
            \/ UNCHANGED block_map
BY DEF Next, FindLiveInsts, CollectDeadInsts, SwapWorkLists, FindDone,
       CollectDone, DeleteDeadInsts, DeleteDone, vars

LEMMA AscendingInductive ==
  TypeOK /\ Ascending /\ [Next]_vars => Ascending' /\ Below(block_map, block_map')
<1> SUFFICES ASSUME TypeOK, Ascending, [Next]_vars
             PROVE  Ascending' /\ Below(block_map, block_map')
  OBVIOUS
<1>1. prog' = prog BY OtherSteps
<1>2. CASE UNCHANGED block_map BY <1>1, <1>2 DEF Ascending, Below
<1>3. ASSUME NEW b \in Blocks, block_map' = VisitedMap(b)
      PROVE  Ascending' /\ Below(block_map, block_map')
  BY <1>1, <1>3, VisitAscends
<1> QED BY <1>2, <1>3, OtherSteps

LEMMA AscendingInitially == Init => Ascending
BY DEF Init, Ascending

(***************************************************************************)
(* The live sets only grow: "our algorithm converges towards bits being    *)
(* set".                                                                   *)
(***************************************************************************)
THEOREM LiveSetsOnlyGrow == Spec => LiveSetsGrow
<1>1. TypeOK /\ Ascending /\ [Next]_vars
        => [\A b \in Blocks : block_map[b] \subseteq block_map'[b]]_vars
  BY AscendingInductive DEF Below
<1> QED BY <1>1, AscendingInitially, AscendingInductive, TypeCorrect, PTL
  DEF Spec, LiveSetsGrow

(***************************************************************************)
(* The analysis stays below every solution of the dataflow equations, so   *)
(* that the sets it ends with, when they are a solution, are the least.    *)
(***************************************************************************)
THEOREM LiveSetsAreLeast == Spec => []LeastLiveSets
<1>1. Init => LeastLiveSets BY DEF Init, LeastLiveSets
<1>2. TypeOK /\ LeastLiveSets /\ [Next]_vars => LeastLiveSets'
  <2> SUFFICES ASSUME TypeOK, LeastLiveSets, [Next]_vars,
                      NEW m \in Maps, Solves(prog', m), NEW c \in Blocks
               PROVE  block_map'[c] \subseteq m[c]
    BY DEF LeastLiveSets, Maps
  <2>1. prog' = prog BY OtherSteps
  <2>2. Below(block_map, m) BY <2>1 DEF LeastLiveSets, Below, Maps
  <2>3. CASE UNCHANGED block_map BY <2>2, <2>3 DEF Below
  <2>4. ASSUME NEW b \in Blocks, block_map' = VisitedMap(b)
        PROVE  block_map'[c] \subseteq m[c]
    <3>1. LiveOnEntry(prog, block_map, b) \subseteq LiveOnEntry(prog, m, b)
      BY <2>2, ScanIsMonotone DEF TypeOK, Maps
    <3>2. LiveOnEntry(prog, m, b) = m[b] BY <2>1 DEF Solves
    <3> QED BY <2>2, <2>4, <3>1, <3>2 DEF VisitedMap, TypeOK, Below
  <2> QED BY <2>3, <2>4, OtherSteps
<1> QED BY <1>1, <1>2, TypeCorrect, PTL DEF Spec

-----------------------------------------------------------------------------
(***************************************************************************)
(* The worklists miss nothing: a block that is not queued has its solution *)
(* or nothing has ever reached it.                                         *)
(***************************************************************************)
Solved(b) == block_map[b] = LiveOnEntry(prog, block_map, b)

Untouched(b) == ~IsExit(prog, b) /\ \A s \in prog.succ[b] : block_map[s] = {}

NothingMissed ==
  phase = "find" =>
    \A b \in Blocks : b \in curr_wl \cup next_wl \/ Solved(b) \/ Untouched(b)

\* FindLiveInsts queues whoever depends on a block that changed.
LEMMA DependentsCover ==
  ASSUME TypeOK, NEW b \in Blocks, NEW c \in Blocks,
         b \in prog.succ[c] \cup Callees(prog, c)
  PROVE  c \in Dependents(b)
<1>1. CASE b \in prog.succ[c] BY <1>1 DEF Dependents, Preds
<1>2. CASE b \in Callees(prog, c)
  <2>1. PICK i \in 1..Len(prog.code[c]) :
          /\ prog.code[c][i].op = "call"
          /\ b = prog.entry[prog.code[c][i].func]
    BY <1>2 DEF Callees
  <2>2. prog.code[c][i].func \in Funcs
    BY ProgramTypes, InstructionTypes DEF TypeOK
  <2>3. Preds(prog, b) = {} /\ prog.parent[b] = prog.code[c][i].func
    BY <2>1, <2>2 DEF TypeOK, IsProgram
  <2> QED BY <2>1, <2>3 DEF Dependents, CallBlocks
<1> QED BY <1>1, <1>2

LEMMA FindMissesNothing ==
  ASSUME TypeOK, NothingMissed, NEW b \in Blocks, FindLiveInsts(b)
  PROVE  NothingMissed'
<1> SUFFICES ASSUME NEW c \in Blocks
             PROVE  (c \in curr_wl \cup next_wl \/ Solved(c) \/ Untouched(c))'
  BY DEF NothingMissed
<1> USE DEF FindLiveInsts
<1>1. /\ \A d \in Blocks : block_map'[d] = IF d = b
                                           THEN LiveOnEntry(prog, block_map, b)
                                           ELSE block_map[d]
      /\ prog' = prog /\ IsProgram(prog)
      /\ prog.succ[c] \cup Callees(prog, c) \subseteq Blocks
  <2>1. Callees(prog, c) \subseteq Blocks
    BY ProgramTypes, InstructionTypes, EntryIsBlock DEF TypeOK, Callees
  <2> QED BY <2>1, ProgramTypes DEF VisitedMap, TypeOK
<1>2. CASE block_map' = block_map
  <2>1. c = b => Solved(c) BY <1>1, <1>2 DEF Solved
  <2>2. c \in curr_wl \cup next_wl \/ Solved(c) \/ Untouched(c)
    BY DEF NothingMissed
  <2>3. CASE Solved(c) BY <1>1, <1>2, <2>3 DEF Solved
  <2>4. CASE Untouched(c) BY <1>1, <1>2, <2>4 DEF Untouched
  <2>5. CASE c # b /\ c \in curr_wl \cup next_wl BY <2>5
  <2> QED BY <2>1, <2>2, <2>3, <2>4, <2>5
<1>3. CASE block_map' # block_map /\ b \in prog.succ[c] \cup Callees(prog, c)
  BY <1>3, DependentsCover
<1>4. CASE b \notin prog.succ[c] \cup Callees(prog, c)
  <2>1. LiveOnEntry(prog, block_map', c) = LiveOnEntry(prog, block_map, c)
    BY <1>1, <1>4, ScanDependsOn
  <2>2. CASE c = b BY <1>1, <2>1, <2>2 DEF Solved
  <2>3. CASE c # b /\ Solved(c) BY <1>1, <2>1, <2>3 DEF Solved
  <2>4. CASE Untouched(c) BY <1>1, <1>4, <2>4 DEF Untouched
  <2>5. CASE c # b /\ c \in curr_wl \cup next_wl BY <2>5
  <2> QED BY <2>2, <2>3, <2>4, <2>5 DEF NothingMissed
<1> QED BY <1>2, <1>3, <1>4

(***************************************************************************)
(* When both worklists are empty, a bit that no slot uses has reached      *)
(* every block of a program without inescapable loops, so no block is      *)
(* untouched.                                                              *)
(***************************************************************************)
LEMMA FoundIsSolved ==
  ASSUME TypeOK, NothingMissed, phase = "find", curr_wl = {}, next_wl = {},
         AlwaysExits(prog), NEW x \in Bits, x \notin Slots
  PROVE  Solves(prog, block_map)
<1> DEFINE S == {b \in Blocks : x \in block_map[b]}
<1>1. \A b \in Blocks : Solved(b) \/ Untouched(b) BY DEF NothingMissed
<1>2. ASSUME NEW b \in Blocks, CanLeave(prog, b, S) PROVE b \in S
  <2>1. prog.succ[b] \subseteq Blocks BY ProgramTypes DEF TypeOK
  <2>2. ~Untouched(b) BY <1>2, <2>1 DEF CanLeave, Untouched
  <2>3. x \in LiveOnEntry(prog, block_map, b)
    BY <1>2, SpareBitsPassThrough DEF CanLeave, TypeOK, Maps
  <2> QED BY <1>1, <2>2, <2>3 DEF Solved
<1>3. S = Blocks BY <1>2 DEF AlwaysExits
<1>4. ASSUME NEW b \in Blocks PROVE ~Untouched(b)
  <2>1. prog.succ[b] \subseteq Blocks BY ProgramTypes DEF TypeOK
  <2>2. CASE IsExit(prog, b) BY <2>2 DEF Untouched
  <2>3. CASE ~IsExit(prog, b)
    <3>1. PICK s \in prog.succ[b] : TRUE BY <2>3 DEF IsExit
    <3>2. block_map[s] # {} BY <1>3, <2>1
    <3> QED BY <3>2 DEF Untouched
  <2> QED BY <2>2, <2>3
<1> QED BY <1>1, <1>4 DEF Solves, Solved

LEMMA NothingMissedInductive == TypeOK /\ NothingMissed /\ [Next]_vars => NothingMissed'
<1> SUFFICES ASSUME TypeOK, NothingMissed, [Next]_vars PROVE NothingMissed'
  OBVIOUS
<1>1. ASSUME NEW b \in Blocks, FindLiveInsts(b) PROVE NothingMissed'
  BY <1>1, FindMissesNothing
<1>2. CASE SwapWorkLists
  BY <1>2 DEF SwapWorkLists, NothingMissed, Solved, Untouched
<1>3. CASE FindDone BY <1>3 DEF FindDone, NothingMissed
<1>4. ASSUME NEW b \in Blocks, CollectDeadInsts(b) PROVE NothingMissed'
  BY <1>4 DEF CollectDeadInsts, NothingMissed
<1>5. CASE CollectDone BY <1>5 DEF CollectDone, NothingMissed
<1>6. ASSUME NEW q \in to_remove, DeleteDeadInsts(q) PROVE NothingMissed'
  BY <1>6 DEF DeleteDeadInsts, NothingMissed
<1>7. CASE DeleteDone BY <1>7 DEF DeleteDone, NothingMissed
<1>8. CASE UNCHANGED vars
  BY <1>8 DEF vars, NothingMissed, Solved, Untouched
<1> QED BY <1>1, <1>2, <1>3, <1>4, <1>5, <1>6, <1>7, <1>8 DEF Next

LEMMA NothingMissedInitially == Init => NothingMissed
<1> SUFFICES ASSUME Init, NEW b \in Blocks
             PROVE  b \in curr_wl \/ Untouched(b)
  BY DEF NothingMissed
<1>1. prog.succ[b] \subseteq Blocks
  BY ProgramTypes, TypeInitially DEF TypeOK
<1> QED BY <1>1 DEF Init, Untouched

\* Visits after the search find what is there already.
LEMMA SolvedStaysSolved ==
  ASSUME TypeOK, Solves(prog, block_map), NEW b \in Blocks,
         block_map' = VisitedMap(b)
  PROVE  block_map' = block_map
BY DEF Solves, VisitedMap, TypeOK

LEMMA SolvedInductive ==
  ASSUME Bits \ Slots # {}
  PROVE  TypeOK /\ NothingMissed /\ LiveSetsSolved /\ [Next]_vars
           => LiveSetsSolved'
<1> SUFFICES ASSUME TypeOK, NothingMissed, LiveSetsSolved, [Next]_vars,
                    phase' # "find", AlwaysExits(prog')
             PROVE  Solves(prog', block_map')
  BY DEF LiveSetsSolved
<1>1. prog' = prog BY OtherSteps
<1>2. PICK x \in Bits : x \notin Slots OBVIOUS
<1>3. CASE FindDone BY <1>1, <1>2, <1>3, FoundIsSolved DEF FindDone
<1>4. CASE phase # "find"
  <2>1. Solves(prog, block_map) BY <1>1, <1>4 DEF LiveSetsSolved
  <2>2. block_map' = block_map BY <2>1, OtherSteps, SolvedStaysSolved
  <2> QED BY <1>1, <2>1, <2>2
<1>5. CASE phase = "find" /\ ~FindDone
  BY <1>5 DEF Next, FindLiveInsts, CollectDeadInsts, SwapWorkLists,
              CollectDone, DeleteDeadInsts, DeleteDone, vars
<1> QED BY <1>3, <1>4, <1>5

(***************************************************************************)
(* When FindLiveInsts has left its loop, the live sets solve the dataflow  *)
(* equations of every module without inescapable loops, provided that a    *)
(* LiveSet has a bit which no slot uses.                                   *)
(***************************************************************************)
THEOREM LiveSetsAreSolved ==
  ASSUME Bits \ Slots # {} PROVE Spec => []LiveSetsSolved
<1>1. Init => LiveSetsSolved BY DEF Init, LiveSetsSolved
<1> QED BY <1>1, SolvedInductive, TypeCorrect, NothingMissedInitially,
           NothingMissedInductive, PTL DEF Spec

(***************************************************************************)
(* On the same terms the remove pass changes no live set.                  *)
(***************************************************************************)
THEOREM CollectIsHarmless ==
  ASSUME Bits \ Slots # {} PROVE Spec => CollectLeavesLiveSets
<1>1. TypeOK /\ LiveSetsSolved /\ [Next]_vars
        => [(phase = "collect" /\ AlwaysExits(prog)) => UNCHANGED block_map]_vars
  BY OtherSteps, SolvedStaysSolved DEF LiveSetsSolved
<1> QED BY <1>1, TypeCorrect, LiveSetsAreSolved, PTL
  DEF Spec, CollectLeavesLiveSets

-----------------------------------------------------------------------------
(***************************************************************************)
(* Erasing in cascades.                                                    *)
(***************************************************************************)
NothingErasedYet == phase \in {"find", "collect"} => erased = {}

Erasure == NothingErasedYet /\ NoDanglingUse /\ ErasedOnce

\* A store has no users to begin with.
LEMMA StoresHaveNoUsers ==
  ASSUME TypeOK, NEW q, Inst(prog, q).op = "store", NEW gone
  PROVE  Users(q, gone) = {}
<1>1. ASSUME NEW u \in Users(q, gone) PROVE FALSE
  <2>1. u \in Positions(prog) /\ q \in Inst(prog, u).args
    BY <1>1 DEF Users
  <2>2. HasResult(Inst(prog, q)) BY <2>1 DEF TypeOK, IsProgram
  <2> QED BY <2>2 DEF HasResult
<1> QED BY <1>1

LEMMA DeletePreservesErasure ==
  ASSUME TypeOK, Erasure, NEW q \in to_remove, DeleteDeadInsts(q)
  PROVE  Erasure'
<1>1. /\ prog' = prog /\ phase' = phase /\ phase = "delete"
      /\ erased' = erased \cup {q}
      /\ to_remove' = (to_remove \ {q})
                      \cup (Inst(prog, q).args \cap TriviallyDead(erased'))
  BY DEF DeleteDeadInsts
<1>2. \A r : Users(r, erased') \subseteq Users(r, erased) BY <1>1 DEF Users
<1>3. \A r \in TriviallyDead(erased') :
        /\ r \notin erased'
        /\ Inst(prog, r).op \in {"load", "pure"}
        /\ Users(r, erased') = {}
  BY DEF TriviallyDead, HasResult
<1>4. NoDanglingUse'
  <2> SUFFICES ASSUME NEW r \in (erased \cup to_remove)'
               PROVE  /\ Inst(prog, r).op \in {"store", "load", "pure"}
                      /\ Users(r, erased') = {}
    BY <1>1 DEF NoDanglingUse, Users
  <2>1. CASE r \in erased \cup to_remove
    BY <1>2, <2>1 DEF Erasure, NoDanglingUse
  <2>2. CASE r \in TriviallyDead(erased') BY <1>3, <2>2
  <2> QED BY <1>1, <2>1, <2>2
<1>5. ErasedOnce' BY <1>1, <1>3 DEF Erasure, ErasedOnce
<1> QED BY <1>1, <1>4, <1>5 DEF Erasure, NothingErasedYet

LEMMA ErasureInductive == TypeOK /\ Erasure /\ [Next]_vars => Erasure'
<1> SUFFICES ASSUME TypeOK, Erasure, [Next]_vars PROVE Erasure' OBVIOUS
<1>1. ASSUME NEW b \in Blocks, CollectDeadInsts(b) PROVE Erasure'
  <2>1. /\ prog' = prog /\ phase' = phase /\ phase = "collect"
        /\ erased' = erased /\ erased = {}
        /\ to_remove' = to_remove \cup DeadStores(prog, block_map, b)
    BY <1>1 DEF CollectDeadInsts, Erasure, NothingErasedYet
  <2>2. ASSUME NEW q \in DeadStores(prog, block_map, b)
        PROVE  Inst(prog, q).op = "store" /\ Users(q, {}) = {}
    <3>1. Inst(prog, q).op = "store" BY DEF DeadStores, Inst
    <3> QED BY <3>1, StoresHaveNoUsers
  <2> QED BY <2>1, <2>2
    DEF Erasure, NothingErasedYet, NoDanglingUse, ErasedOnce, Users
<1>2. ASSUME NEW q \in to_remove, DeleteDeadInsts(q) PROVE Erasure'
  BY <1>2, DeletePreservesErasure
<1>3. ASSUME UNCHANGED <<prog, to_remove, erased>>,
             phase' \in {"find", "collect"} => phase \in {"find", "collect"}
      PROVE  Erasure'
  BY <1>3 DEF Erasure, NothingErasedYet, NoDanglingUse, ErasedOnce, Users
<1>4. ASSUME NEW b \in Blocks, FindLiveInsts(b) PROVE Erasure'
  BY <1>3, <1>4 DEF FindLiveInsts
<1>5. CASE SwapWorkLists BY <1>3, <1>5 DEF SwapWorkLists
<1>6. CASE FindDone BY <1>3, <1>6 DEF FindDone
<1>7. CASE CollectDone BY <1>3, <1>7 DEF CollectDone
<1>8. CASE DeleteDone BY <1>3, <1>8 DEF DeleteDone
<1>9. CASE UNCHANGED vars BY <1>3, <1>9 DEF vars
<1> QED BY <1>1, <1>2, <1>4, <1>5, <1>6, <1>7, <1>8, <1>9 DEF Next

LEMMA ErasureInitially == Init => Erasure
BY DEF Init, Erasure, NothingErasedYet, NoDanglingUse, ErasedOnce

LEMMA ErasureAlways == Spec => []Erasure
BY ErasureInitially, ErasureInductive, TypeCorrect, PTL DEF Spec

(***************************************************************************)
(* DeleteDeadInsts leaves no use of an erased instruction behind.          *)
(***************************************************************************)
THEOREM ErasedIsUnused == Spec => []NoDanglingUse
<1>1. Erasure => NoDanglingUse BY DEF Erasure
<1> QED BY <1>1, ErasureAlways, PTL

(***************************************************************************)
(* The removal stack never holds an erased instruction.                    *)
(***************************************************************************)
THEOREM NothingErasedTwice == Spec => []ErasedOnce
<1>1. Erasure => ErasedOnce BY DEF Erasure
<1> QED BY <1>1, ErasureAlways, PTL

-----------------------------------------------------------------------------
(***************************************************************************)
(* The eliminator's invariant: what it has proved itself, and that every   *)
(* store that is or will be erased is dead by the final live sets.         *)
(***************************************************************************)
OnlyDeadStores ==
  AlwaysExits(prog) =>
    \A q \in erased \cup to_remove :
      Inst(prog, q).op = "store" => q \in DeadStores(prog, block_map, q[1])

NothingToRemoveYet == phase = "find" => to_remove = {}

Elimination ==
  /\ TypeOK /\ NothingMissed /\ LiveSetsSolved /\ Erasure
  /\ NothingToRemoveYet /\ OnlyDeadStores

LEMMA OnlyDeadStoresInductive ==
  ASSUME Bits \ Slots # {}
  PROVE  Elimination /\ [Next]_vars => OnlyDeadStores'
<1> SUFFICES ASSUME Elimination, [Next]_vars, AlwaysExits(prog'),
                    NEW q \in (erased \cup to_remove)',
                    Inst(prog', q).op = "store"
             PROVE  q \in DeadStores(prog', block_map', q[1])
  BY DEF OnlyDeadStores
<1> USE DEF Elimination
<1>1. prog' = prog BY OtherSteps
<1>2. q \in erased \cup to_remove => q \in DeadStores(prog, block_map, q[1])
  BY <1>1 DEF OnlyDeadStores
<1>3. phase # "find" => block_map' = block_map
  BY <1>1, OtherSteps, SolvedStaysSolved DEF LiveSetsSolved
<1>4. ASSUME NEW b \in Blocks, CollectDeadInsts(b)
      PROVE  q \in DeadStores(prog, block_map, q[1]) /\ phase # "find"
  <2>1. CASE q \in erased \cup to_remove
    BY <1>2, <1>4, <2>1 DEF CollectDeadInsts
  <2>2. CASE q \in DeadStores(prog, block_map, b)
    BY <1>4, <2>2, DeadStoresAreInBlock DEF TypeOK, CollectDeadInsts
  <2> QED BY <1>4, <2>1, <2>2 DEF CollectDeadInsts
<1>5. ASSUME NEW r \in to_remove, DeleteDeadInsts(r)
      PROVE  q \in DeadStores(prog, block_map, q[1]) /\ phase # "find"
  <2>1. q \notin TriviallyDead(erased')
    BY <1>1 DEF TriviallyDead, HasResult
  <2> QED BY <1>2, <1>5, <2>1 DEF DeleteDeadInsts
<1>6. CASE UNCHANGED <<erased, to_remove>> /\ phase # "find"
  BY <1>1, <1>2, <1>3, <1>6
<1>7. CASE UNCHANGED <<erased, to_remove>> /\ phase = "find"
  BY <1>7 DEF NothingToRemoveYet, Erasure, NothingErasedYet
<1>8. \/ \E b \in Blocks : CollectDeadInsts(b)
      \/ \E r \in to_remove : DeleteDeadInsts(r)
      \/ UNCHANGED <<erased, to_remove>>
  BY DEF Next, FindLiveInsts, SwapWorkLists, FindDone, CollectDone,
         DeleteDone, vars
<1> QED BY <1>1, <1>3, <1>4, <1>5, <1>6, <1>7, <1>8

LEMMA EliminationInductive ==
  ASSUME Bits \ Slots # {}
  PROVE  Elimination /\ [Next]_vars => Elimination'
<1> SUFFICES ASSUME Elimination, [Next]_vars PROVE Elimination' OBVIOUS
<1>1. TypeOK' /\ NothingMissed' /\ LiveSetsSolved' /\ Erasure'
  BY TypeInductive, NothingMissedInductive, SolvedInductive, ErasureInductive
  DEF Elimination
<1>2. OnlyDeadStores' BY OnlyDeadStoresInductive
<1>3. NothingToRemoveYet'
  BY DEF Elimination, NothingToRemoveYet, Next, FindLiveInsts,
         CollectDeadInsts, SwapWorkLists, FindDone, CollectDone,
         DeleteDeadInsts, DeleteDone, vars
<1> QED BY <1>1, <1>2, <1>3 DEF Elimination

LEMMA EliminationInitially == Init => Elimination
<1> SUFFICES ASSUME Init PROVE Elimination OBVIOUS
<1>1. TypeOK /\ NothingMissed /\ Erasure
  BY TypeInitially, NothingMissedInitially, ErasureInitially
<1> QED BY <1>1 DEF Init, Elimination, LiveSetsSolved, NothingToRemoveYet,
                    OnlyDeadStores

-----------------------------------------------------------------------------
(* Types of the run. *)

RunStep == RunOther \/ RunStore \/ RunCall \/ RunBranch \/ RunReturn

\* The eliminator is done before the run begins.
LEMMA DoneIsDone == phase = "done" => ~Next
BY DEF Next, FindLiveInsts, SwapWorkLists, FindDone, CollectDeadInsts,
       CollectDone, DeleteDeadInsts, DeleteDone

\* A run step goes to a position of the program.
AtPosition(q) == /\ q \in Blocks \X Nat
                 /\ q[2] \in 1..Len(prog.code[q[1]]) + 1

RunTypes ==
  /\ running \in {"no", "yes", "left"}
  /\ AtPosition(at)
  /\ stack \in Seq(Blocks \X Nat)
  /\ \A i \in 1..Len(stack) : AtPosition(stack[i])
  /\ stale \subseteq Slots

LEMMA AtInstruction ==
  ASSUME TypeOK, AtPosition(at), ~AtEnd
  PROVE  /\ at[1] \in Blocks /\ at[2] \in 1..Len(prog.code[at[1]])
         /\ at = <<at[1], at[2]>>
         /\ Inst(prog, at) = prog.code[at[1]][at[2]]
         /\ Inst(prog, at) \in Instructions
         /\ AtPosition(Step)
<1>1. at[1] \in Blocks /\ Len(prog.code[at[1]]) \in Nat
  BY ProgramTypes DEF AtPosition, TypeOK
<1>2. at[2] \in 1..Len(prog.code[at[1]])
  BY <1>1 DEF AtPosition, AtEnd
<1>3. Inst(prog, at) \in Instructions
  BY <1>1, <1>2, ProgramTypes DEF Inst, TypeOK
<1> QED BY <1>1, <1>2, <1>3 DEF Inst, AtPosition, Step

LEMMA EntryPosition ==
  ASSUME TypeOK, NEW b \in Blocks PROVE AtPosition(<<b, 1>>)
<1>1. Len(prog.code[b]) \in Nat BY ProgramTypes DEF TypeOK
<1> QED BY <1>1 DEF AtPosition

\* What the stack is after a return.
LEMMA PopProperties ==
  ASSUME NEW S, NEW s \in Seq(S), NEW n \in Nat, Len(s) = n + 1
  PROVE  /\ SubSeq(s, 1, n) \in Seq(S)
         /\ Len(SubSeq(s, 1, n)) = n
         /\ \A i \in 1..n : SubSeq(s, 1, n)[i] = s[i]
OBVIOUS

LEMMA RunTypesInductive ==
  Elimination /\ RunTypes /\ [RunNext]_allVars => RunTypes'
<1> SUFFICES ASSUME TypeOK, RunTypes, [RunNext]_allVars PROVE RunTypes'
  BY DEF Elimination
<1>1. CASE UNCHANGED vars /\ RunStep
  <2>0. prog' = prog /\ at[1] \in Blocks
    BY <1>1 DEF vars, RunTypes, AtPosition
  <2>1. CASE RunOther
    BY <2>0, <2>1, AtInstruction DEF RunOther, Executing, RunTypes, AtPosition
  <2>2. CASE RunStore
    <3>1. /\ AtPosition(Step) /\ Inst(prog, at) \in Instructions
          /\ at' = Step /\ UNCHANGED <<running, stack>>
      BY <2>2, AtInstruction DEF RunStore, Executing, RunTypes
    <3>2. stale' \subseteq Slots
      BY <2>2, <3>1, InstructionTypes DEF RunStore, RunTypes
    <3> QED BY <2>0, <3>1, <3>2 DEF RunTypes, AtPosition
  <2>3. CASE RunCall
    <3>1. /\ AtPosition(Step) /\ Inst(prog, at) \in Instructions
      BY <2>3, AtInstruction DEF RunCall, Executing, RunTypes
    <3>2. AtPosition(at')
      BY <2>3, <3>1, InstructionTypes, EntryIsBlock, EntryPosition
      DEF RunCall, TypeOK
    <3>3. /\ stack' \in Seq(Blocks \X Nat)
          /\ \A i \in 1..Len(stack') : AtPosition(stack'[i])
      BY <2>3, <3>1 DEF RunCall, RunTypes, AtPosition
    <3> QED BY <2>0, <2>3, <3>2, <3>3 DEF RunCall, RunTypes, AtPosition
  <2>4. CASE RunBranch
    <3>1. PICK s \in prog.succ[at[1]] : at' = <<s, 1>>
      BY <2>4 DEF RunBranch
    <3>2. s \in Blocks BY <2>0, ProgramTypes DEF TypeOK
    <3>3. AtPosition(at') BY <3>1, <3>2, EntryPosition
    <3> QED BY <2>0, <2>4, <3>3 DEF RunBranch, RunTypes, AtPosition
  <2>5. CASE RunReturn
    <3>1. CASE stack = <<>>
      BY <2>0, <2>5, <3>1 DEF RunReturn, RunTypes, AtPosition
    <3>2. CASE stack # <<>>
      <4>1. Len(stack) \in Nat \ {0} BY <3>2 DEF RunTypes
      <4>2. at' = stack[Len(stack)]
            /\ stack' = SubSeq(stack, 1, Len(stack) - 1)
            /\ UNCHANGED <<running, stale>>
        BY <2>5, <3>2 DEF RunReturn
      <4>3. AtPosition(at') BY <4>1, <4>2 DEF RunTypes
      <4>4. /\ stack' \in Seq(Blocks \X Nat)
            /\ Len(stack') = Len(stack) - 1
            /\ \A i \in 1..Len(stack') : stack'[i] = stack[i]
        <5>1. PICK n \in Nat : Len(stack) = n + 1 /\ n = Len(stack) - 1 BY <4>1
        <5>2. stack \in Seq(Blocks \X Nat) BY DEF RunTypes
        <5> QED BY <4>2, <5>1, <5>2, PopProperties
      <4>5. \A i \in 1..Len(stack') : AtPosition(stack'[i])
        BY <4>1, <4>4 DEF RunTypes
      <4> QED BY <2>0, <4>2, <4>3, <4>4, <4>5 DEF RunTypes, AtPosition
    <3> QED BY <3>1, <3>2
  <2> QED BY <1>1, <2>1, <2>2, <2>3, <2>4, <2>5 DEF RunStep
<1>2. CASE Enter
  <2>1. PICK f \in Funcs : at' = <<prog.entry[f], 1>> BY <1>2 DEF Enter
  <2>2. AtPosition(at')
    BY <2>1, EntryIsBlock, EntryPosition DEF TypeOK
  <2> QED BY <1>2, <2>2 DEF Enter, RunTypes, AtPosition, vars
<1>3. CASE [Next]_vars /\ UNCHANGED runVars
  <2>1. prog' = prog BY <1>3, OtherSteps
  <2> QED BY <1>3, <2>1 DEF runVars, RunTypes, AtPosition
<1> QED BY <1>1, <1>2, <1>3 DEF RunNext, RunStep, allVars, vars, runVars,
  RunOther, RunStore, RunCall, RunBranch, RunReturn

LEMMA RunTypesInitially == RunInit => RunTypes
<1> SUFFICES ASSUME RunInit PROVE RunTypes OBVIOUS
<1>1. TypeOK BY TypeInitially DEF RunInit
<1>2. PICK f \in Funcs : at = <<prog.entry[f], 1>> BY DEF RunInit
<1>3. AtPosition(at) BY <1>1, <1>2, EntryIsBlock, EntryPosition DEF TypeOK
<1> QED BY <1>1, <1>3 DEF RunInit, RunTypes, AtPosition

-----------------------------------------------------------------------------
(***************************************************************************)
(* The argument: what is stale is dead where the run is.  A step that does *)
(* not kill a slot keeps it dead, an erased store stores to a dead slot,   *)
(* and control goes where the live sets flow from.                         *)
(***************************************************************************)
LiveHere == LiveBefore(prog, block_map, at[1], at[2])

StaleIsDead ==
  AlwaysExits(prog) =>
    /\ running = "no" => stale = {}
    /\ running # "no" => phase = "done"
    /\ running = "yes" => stale \cap LiveHere = {}
    /\ running = "left" => stale = {}

\* Live sets after the instruction at the position of the run.
LiveNext == LiveBefore(prog, block_map, at[1], at[2] + 1)

LEMMA HereAndNext ==
  ASSUME TypeOK, RunTypes
  PROVE  LiveHere = Gens(prog, block_map, at[1], at[2])
                    \cup (LiveNext \ Kills(prog, at[1], at[2]))
<1>1. at[1] \in Blocks /\ at[2] \in 1..Len(prog.code[at[1]]) + 1
  BY DEF RunTypes, AtPosition
<1>2. block_map \in Maps BY DEF TypeOK, Maps
<1> QED BY <1>1, <1>2, LiveBeforeStep DEF LiveHere, LiveNext, TypeOK

\* The table of effects for the instruction at the position of the run.
LEMMA EffectHere ==
  ASSUME TypeOK, RunTypes, ~AtEnd
  PROVE  LET inst == Inst(prog, at)
             gens == Gens(prog, block_map, at[1], at[2])
             kills == Kills(prog, at[1], at[2])
         IN /\ inst.op = "load" => gens = {inst.slot} /\ kills = {}
            /\ inst.op = "store" => /\ gens = {}
                                    /\ inst.full => kills = {inst.slot}
                                    /\ ~inst.full => kills = {}
            /\ inst.op = "call" => gens = block_map[prog.entry[inst.func]]
            /\ inst.op = "extern" => gens = LiveArgsOf(inst) /\ kills = {}
            /\ inst.op = "pure" => kills = {}
<1>1. AtPosition(at) BY DEF RunTypes
<1>2. /\ at[1] \in Blocks /\ at[2] \in 1..Len(prog.code[at[1]])
      /\ Inst(prog, at) = prog.code[at[1]][at[2]]
  BY <1>1, AtInstruction
<1>3. IsProgram(prog) BY DEF TypeOK
<1>4. PICK b \in Blocks : b = at[1] BY <1>2
<1>5. PICK i \in 1..Len(prog.code[b]) : i = at[2] BY <1>2, <1>4
<1>6. PICK inst : inst = prog.code[b][i] OBVIOUS
<1>7. /\ inst.op = "load" => /\ Gens(prog, block_map, b, i) = {inst.slot}
                             /\ Kills(prog, b, i) = {}
      /\ inst.op = "store" => /\ Gens(prog, block_map, b, i) = {}
                              /\ inst.full => Kills(prog, b, i) = {inst.slot}
                              /\ ~inst.full => Kills(prog, b, i) = {}
      /\ inst.op = "call" => Gens(prog, block_map, b, i)
                               = block_map[prog.entry[inst.func]]
      /\ inst.op = "extern" => /\ Gens(prog, block_map, b, i) = LiveArgsOf(inst)
                               /\ Kills(prog, b, i) = {}
      /\ inst.op = "pure" => Kills(prog, b, i) = {}
  <2>1. EffectsOf(prog, block_map, b, i) BY <1>3, InstructionEffects
  <2> QED BY <1>6, <2>1 DEF EffectsOf
<1> QED BY <1>2, <1>4, <1>5, <1>6, <1>7

\* At the end of a block.
LEMMA EndEffect ==
  ASSUME TypeOK, RunTypes, AtEnd
  PROVE  IF IsExit(prog, at[1]) THEN Bits \subseteq LiveHere
         ELSE \A s \in prog.succ[at[1]] : block_map[s] \subseteq LiveHere
<1>1. at[1] \in Blocks /\ at[2] = Len(prog.code[at[1]]) + 1
  BY DEF RunTypes, AtPosition, AtEnd
<1>2. /\ Gens(prog, block_map, at[1], at[2]) =
           IF IsExit(prog, at[1]) THEN Bits
           ELSE UNION {block_map[s] : s \in prog.succ[at[1]]}
      /\ Kills(prog, at[1], at[2]) = {}
  BY <1>1, TerminatorEffects DEF TypeOK
<1>3. LiveHere = Gens(prog, block_map, at[1], at[2]) \cup LiveNext
  BY <1>2, HereAndNext
<1>4. CASE IsExit(prog, at[1]) BY <1>2, <1>3, <1>4
<1>5. CASE ~IsExit(prog, at[1]) BY <1>2, <1>3, <1>5
<1> QED BY <1>4, <1>5

LEMMA StaleIsDeadStep ==
  ASSUME Elimination, RunTypes, StaleIsDead, AlwaysExits(prog),
         UNCHANGED vars, RunStep
  PROVE  StaleIsDead'
<1> DEFINE inst == Inst(prog, at)
<1>0. /\ TypeOK /\ AtPosition(at) /\ at[1] \in Blocks
      /\ running = "yes" /\ phase = "done"
      /\ stale \cap LiveHere = {} /\ stale \subseteq Bits
      /\ Solves(prog, block_map)
      /\ prog' = prog /\ phase' = phase /\ block_map' = block_map
  <2>1. running = "yes"
    BY DEF RunStep, RunOther, RunStore, RunCall, RunBranch, RunReturn,
           Executing
  <2> QED BY <2>1, SlotsAreBits DEF StaleIsDead, Elimination, RunTypes,
             AtPosition, LiveSetsSolved, vars
<1>1. ASSUME at' = Step, running' = running, stale' \cap LiveNext = {}
      PROVE  StaleIsDead'
  <2>1. LiveHere' = LiveNext BY <1>0, <1>1 DEF LiveHere, LiveNext, Step
  <2> QED BY <1>0, <1>1, <2>1 DEF StaleIsDead
<1>2. ASSUME NEW b \in Blocks, at' = <<b, 1>>, running' = running,
             stale' = stale, block_map[b] \subseteq LiveHere
      PROVE  StaleIsDead'
  <2>1. LiveHere' = block_map[b]
    BY <1>0, <1>2 DEF LiveHere, Solves, LiveOnEntry
  <2> QED BY <1>0, <1>2, <2>1 DEF StaleIsDead
<1>3. CASE RunOther
  <2>1. /\ ~AtEnd /\ inst.op \in {"load", "pure", "extern"}
        /\ at' = Step /\ running' = running /\ stale' = stale
    BY <1>3 DEF RunOther, Executing
  <2>2. Kills(prog, at[1], at[2]) = {} BY <1>0, <2>1, EffectHere
  <2>3. LiveNext \subseteq LiveHere BY <1>0, <2>2, HereAndNext
  <2> QED BY <1>0, <1>1, <2>1, <2>3
<1>4. CASE RunStore
  <2>1. /\ ~AtEnd /\ inst.op = "store"
        /\ at' = Step /\ running' = running
        /\ stale' = IF at \in erased THEN stale \cup {inst.slot}
                    ELSE IF inst.full THEN stale \ {inst.slot} ELSE stale
    BY <1>4 DEF RunStore, Executing
  <2>2. /\ inst.full => LiveNext \ {inst.slot} \subseteq LiveHere
        /\ ~inst.full => LiveNext \subseteq LiveHere
    BY <1>0, <2>1, EffectHere, HereAndNext
  <2>3. at \in erased => inst.slot \notin LiveNext
    <3> SUFFICES ASSUME at \in erased PROVE inst.slot \notin LiveNext
      OBVIOUS
    <3>1. at \in DeadStores(prog, block_map, at[1])
      BY <1>0, <2>1 DEF Elimination, OnlyDeadStores
    <3>2. PICK j \in 1..Len(prog.code[at[1]]) :
            /\ at = <<at[1], j>>
            /\ prog.code[at[1]][j].slot
                 \notin LiveBefore(prog, block_map, at[1], j + 1)
      BY <3>1 DEF DeadStores
    <3>3. j = at[2] BY <3>2
    <3> QED BY <3>2, <3>3 DEF LiveNext, Inst
  <2>4. stale' \cap LiveNext = {} BY <1>0, <2>1, <2>2, <2>3
  <2> QED BY <1>1, <2>1, <2>4
<1>5. CASE RunCall
  <2>1. /\ ~AtEnd /\ inst.op = "call"
        /\ at' = <<prog.entry[inst.func], 1>>
        /\ running' = running /\ stale' = stale
    BY <1>5 DEF RunCall, Executing
  <2>2. prog.entry[inst.func] \in Blocks
    BY <1>0, <2>1, AtInstruction, InstructionTypes, EntryIsBlock DEF TypeOK
  <2>3. block_map[prog.entry[inst.func]] \subseteq LiveHere
    BY <1>0, <2>1, EffectHere, HereAndNext
  <2> QED BY <1>2, <2>1, <2>2, <2>3
<1>6. CASE RunBranch
  <2>1. PICK s \in prog.succ[at[1]] :
          AtEnd /\ at' = <<s, 1>> /\ running' = running /\ stale' = stale
    BY <1>6 DEF RunBranch
  <2>2. s \in Blocks BY <1>0, ProgramTypes DEF TypeOK
  <2>3. block_map[s] \subseteq LiveHere
    BY <1>0, <2>1, EndEffect DEF IsExit
  <2> QED BY <1>2, <2>1, <2>2, <2>3
<1>7. CASE RunReturn
  <2>1. /\ AtEnd /\ IsExit(prog, at[1]) /\ stale' = stale
        /\ running' \in {running, "left"}
    BY <1>7 DEF RunReturn
  <2>2. Bits \subseteq LiveHere BY <1>0, <2>1, EndEffect
  <2>3. stale = {} BY <1>0, <2>2
  <2> QED BY <1>0, <2>1, <2>3 DEF StaleIsDead
<1> QED BY <1>3, <1>4, <1>5, <1>6, <1>7 DEF RunStep

LEMMA StaleIsDeadInductive ==
  Elimination /\ RunTypes /\ StaleIsDead /\ [RunNext]_allVars => StaleIsDead'
<1> SUFFICES ASSUME Elimination, RunTypes, StaleIsDead, [RunNext]_allVars,
                    AlwaysExits(prog')
             PROVE  StaleIsDead'
  BY DEF StaleIsDead
<1>1. prog' = prog /\ AlwaysExits(prog)
  BY OtherSteps DEF RunNext, allVars, vars, Enter, RunOther, RunStore,
     RunCall, RunBranch, RunReturn
<1>2. CASE UNCHANGED vars /\ RunStep BY <1>1, <1>2, StaleIsDeadStep
<1>3. CASE Enter BY <1>1, <1>3 DEF Enter, StaleIsDead, vars
<1>4. CASE Next /\ UNCHANGED runVars
  BY <1>1, <1>4, DoneIsDone DEF StaleIsDead, runVars
<1>5. CASE UNCHANGED allVars
  BY <1>5 DEF allVars, vars, runVars, StaleIsDead, LiveHere
<1> QED BY <1>2, <1>3, <1>4, <1>5 DEF RunNext, RunStep, RunOther, RunStore,
  RunCall, RunBranch, RunReturn

RunInvariant == Elimination /\ RunTypes /\ StaleIsDead

LEMMA RunInvariantHolds ==
  ASSUME Bits \ Slots # {} PROVE RunSpec => []RunInvariant
<1>1. RunInit => RunInvariant
  BY EliminationInitially, RunTypesInitially
  DEF RunInit, RunInvariant, StaleIsDead
<1>2. RunInvariant /\ [RunNext]_allVars => RunInvariant'
  <2> SUFFICES ASSUME RunInvariant, [RunNext]_allVars PROVE RunInvariant'
    OBVIOUS
  <2>1. [Next]_vars
    BY DEF RunNext, allVars, Enter, RunOther, RunStore, RunCall, RunBranch,
           RunReturn
  <2>2. Elimination' BY <2>1, EliminationInductive DEF RunInvariant
  <2>3. RunTypes' /\ StaleIsDead'
    BY RunTypesInductive, StaleIsDeadInductive DEF RunInvariant
  <2> QED BY <2>2, <2>3 DEF RunInvariant
<1> QED BY <1>1, <1>2, PTL DEF RunSpec

(***************************************************************************)
(* RemoveDeadStores removes only stores that are dead: whatever the        *)
(* program, however deep its calls nest, no run of the optimised code      *)
(* reads a register whose last store was erased.                           *)
(***************************************************************************)
THEOREM EliminationIsSound ==
  ASSUME Bits \ Slots # {} PROVE RunSpec => []StaleNeverRead
<1>1. RunInvariant => StaleNeverRead
  <2> SUFFICES ASSUME RunInvariant, AlwaysExits(prog), NEW x \in stale,
                      Reads(x)
               PROVE  FALSE
    BY DEF StaleNeverRead
  <2>1. /\ TypeOK /\ RunTypes /\ running = "yes"
        /\ x \notin LiveHere /\ x \in Bits
    BY SlotsAreBits DEF RunInvariant, Elimination, StaleIsDead, RunTypes, Reads
  <2>2. CASE AtEnd
    BY <2>1, <2>2, EndEffect DEF Reads
  <2>3. CASE ~AtEnd
    <3>1. Inst(prog, at).reads \subseteq LiveArgsOf(Inst(prog, at))
      <4>1. Inst(prog, at) \in Instructions
        BY <2>1, <2>3, AtInstruction, ProgramTypes DEF RunTypes, TypeOK
      <4> QED BY <4>1, InstructionTypes
    <3> QED BY <2>1, <2>3, <3>1, EffectHere, HereAndNext DEF Reads
  <2> QED BY <2>2, <2>3
<1> QED BY <1>1, RunInvariantHolds, PTL
=============================================================================
