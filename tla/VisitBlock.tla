----------------------------- MODULE VisitBlock -----------------------------
(***************************************************************************)
(* LiveSetBlockVisitor::VisitBlock (remill/BC/DeadStoreEliminator.cpp):    *)
(* the backward scan of one basic block, an instruction at a time, and the *)
(* update of block_map it ends with.                                       *)
(***************************************************************************)
EXTENDS LiveSets

CONSTANT Programs     \* the programs a run considers

ASSUME ProgramsAreWellFormed == \A p \in Programs : IsProgram(p)

VARIABLES prog,            \* the module that is analysed
          block,           \* the block that is scanned
          block_map,       \* live-on-entry sets found so far
          on_remove_pass,  \* called by CollectDeadInsts?
          inst_it,         \* the next instruction; Len + 1 is the terminator
          live,            \* the scan's live set
          to_remove,       \* dead stores pushed by this scan
          returned         \* "no" while scanning, then the result

vars == <<prog, block, block_map, on_remove_pass, inst_it, live, to_remove,
          returned>>

Init ==
  /\ prog \in Programs
  /\ block \in Blocks
  /\ block_map \in [Blocks -> SUBSET Bits]
  /\ on_remove_pass \in BOOLEAN
  /\ inst_it = Len(prog.code[block]) + 1
  /\ live = {}
  /\ to_remove = {}
  /\ returned = "no"

Scanning == returned = "no" /\ inst_it > 0

Current == prog.code[block][inst_it]

Fixed == UNCHANGED <<prog, block, block_map, on_remove_pass, returned>>

Back == inst_it' = inst_it - 1

\* ret, unreachable, resume make everything live; a branch joins what its
\* successors have so far.
VisitTerminator ==
  /\ Scanning /\ inst_it = Len(prog.code[block]) + 1
  /\ live' = IF IsExit(prog, block)
             THEN Bits
             ELSE live \cup UNION {block_map[s] : s \in prog.succ[block]}
  /\ Back /\ Fixed /\ UNCHANGED to_remove

AtInst(op) ==
  Scanning /\ inst_it <= Len(prog.code[block]) /\ Current.op = op

\* A call of a lifted function: the callee's entry block decides.
VisitLiftedCall ==
  /\ AtInst("call")
  /\ live' = block_map[prog.entry[Current.func]]
  /\ Back /\ Fixed /\ UNCHANGED to_remove

\* Code we lack: everything, or what the alias analysis saw passed to it.
VisitExternCall ==
  /\ AtInst("extern")
  /\ live' = live \cup LiveArgsOf(Current)
  /\ Back /\ Fixed /\ UNCHANGED to_remove

\* Faulty variant: a partial store kills the slot.
VisitStoreKilling ==
  /\ AtInst("store")
  /\ IF Current.slot \notin live
     THEN /\ to_remove' = IF on_remove_pass
                          THEN to_remove \cup {<<block, inst_it>>}
                          ELSE to_remove
          /\ UNCHANGED live
     ELSE /\ live' = live \ {Current.slot}
          /\ UNCHANGED to_remove
  /\ Back /\ Fixed

\* A store to a slot that is not live is dead; one that writes all of a live
\* slot kills it; a partial one leaves it live.
VisitStore ==
  /\ AtInst("store")
  /\ IF Current.slot \notin live
     THEN /\ to_remove' = IF on_remove_pass
                          THEN to_remove \cup {<<block, inst_it>>}
                          ELSE to_remove
          /\ UNCHANGED live
     ELSE /\ live' = IF Current.full THEN live \ {Current.slot} ELSE live
          /\ UNCHANGED to_remove
  /\ Back /\ Fixed

\* Faulty variant: loads are not looked at.
VisitLoadIgnored ==
  /\ AtInst("load")
  /\ Back /\ Fixed /\ UNCHANGED <<live, to_remove>>

VisitLoad ==
  /\ AtInst("load")
  /\ live' = live \cup {Current.slot}
  /\ Back /\ Fixed /\ UNCHANGED to_remove

VisitOther ==
  /\ AtInst("pure")
  /\ Back /\ Fixed /\ UNCHANGED <<live, to_remove>>

\* Faulty variant: "changed" only if there was a set before.
ReturnFirstSame ==
  /\ returned = "no" /\ inst_it = 0
  /\ returned' = IF block_map[block] \notin {live, {}} THEN "changed" ELSE "same"
  /\ block_map' = [block_map EXCEPT ![block] = live]
  /\ UNCHANGED <<prog, block, on_remove_pass, inst_it, live, to_remove>>

\* The end of the scan: store the result, and say whether it is new.
Return ==
  /\ returned = "no" /\ inst_it = 0
  /\ returned' = IF block_map[block] # live THEN "changed" ELSE "same"
  /\ block_map' = [block_map EXCEPT ![block] = live]
  /\ UNCHANGED <<prog, block, on_remove_pass, inst_it, live, to_remove>>

Next == \/ VisitTerminator \/ VisitLiftedCall \/ VisitExternCall
        \/ VisitStore \/ VisitLoad \/ VisitOther \/ Return

Spec == Init /\ [][Next]_vars /\ WF_vars(Next)

-----------------------------------------------------------------------------
TypeOK ==
  /\ IsProgram(prog)
  /\ block \in Blocks
  /\ block_map \in [Blocks -> SUBSET Bits]
  /\ on_remove_pass \in BOOLEAN
  /\ inst_it \in 0..Len(prog.code[block]) + 1
  /\ live \subseteq Bits
  /\ to_remove \subseteq Positions(prog)
  /\ returned \in {"no", "changed", "same"}

(***************************************************************************)
(* The running live set is what the instructions behind the scan say by    *)
(* the path definition, whatever mix of loads, partial and full stores and *)
(* calls the block has.  `live` starts empty, so the terminator must be    *)
(* seen first: hence the guard.                                            *)
(***************************************************************************)
ScanFollowsPaths ==
  (returned = "no" /\ inst_it <= Len(prog.code[block])) =>
     live = LiveBefore(prog, block_map, block, inst_it + 1)

(***************************************************************************)
(* VisitBlock pushes a store exactly if no path through the rest of the    *)
(* block, its successors or the callees makes its slot live, and only on   *)
(* the remove pass: "if (!live.test(slot_num)) ... to_remove.push_back".   *)
(***************************************************************************)
RemovesDeadStores ==
  returned = "no" =>
    to_remove = IF on_remove_pass
                THEN {q \in DeadStores(prog, block_map, block) :
                        q[2] > inst_it}
                ELSE {}

(***************************************************************************)
(* The step that returns stores the block's solution, reports a change iff *)
(* there is one, and leaves every other block's set alone.  FindLiveInsts  *)
(* relies on the report to queue the predecessors.                         *)
(***************************************************************************)
ReturnsEntrySet ==
  [][returned' # returned =>
       /\ block_map' = [block_map EXCEPT
            ![block] = LiveOnEntry(prog, block_map, block)]
       /\ (returned' = "changed") <=> (block_map' # block_map)]_vars
=============================================================================
