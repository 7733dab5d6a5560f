------------------------------ MODULE LiveSets ------------------------------
(***************************************************************************)
(* The lifted module as the dead store eliminator sees it, and what one    *)
(* backward scan of a basic block computes                                 *)
(* (remill/BC/DeadStoreEliminator.cpp).                                    *)
(*                                                                         *)
(* A program is a record                                                   *)
(*   code   : [Blocks -> Seq(Instructions)]  without the terminator        *)
(*   succ   : [Blocks -> SUBSET Blocks]      targets of the terminator;    *)
(*            no target stands for ret, unreachable and resume             *)
(*   parent : [Blocks -> Funcs]              the function of a block       *)
(*   entry  : [Funcs -> Blocks]              its entry block               *)
(* and an instruction is a record with the fields                          *)
(*   op   : "load" "store" "call" "extern" "pure"                          *)
(*   args : the positions <<block, index>> of the instructions whose       *)
(*          results it uses                                                *)
(*   slot : the State slot a load or store accesses                        *)
(*   full : does the store write every byte of the slot?                   *)
(*   func : the lifted function that is called                             *)
(*   reads: the State slots an external callee may read                    *)
(*   known: did the alias analysis leave live_args for the call?  They are *)
(*          reads then                                                     *)
(* of which only those of its op are meaningful.  "extern" stands for      *)
(* calls of functions without a body, and for indirect calls and __mcsema  *)
(* functions, which nothing is known of.  An access that is not to State   *)
(* is "pure" or "extern".                                                  *)
(***************************************************************************)
EXTENDS Naturals, Sequences, FiniteSets

CONSTANTS Blocks,     \* basic blocks of the module
          Funcs,      \* its lifted functions
          Slots,      \* the State slots in use
          Bits        \* the bits of a LiveSet: std::bitset<256>

\* A slot's index is a bit of every LiveSet.
ASSUME SlotsAreBits == Slots \subseteq Bits

-----------------------------------------------------------------------------
(* Programs. *)

InstOps == {"load", "store", "call", "extern", "pure"}

Instructions == [op    : InstOps,
                 args  : SUBSET (Blocks \X Nat),
                 slot  : Slots,
                 full  : BOOLEAN,
                 func  : Funcs,
                 reads : SUBSET Bits,
                 known : BOOLEAN]

Positions(p) == UNION {{b} \X (1..Len(p.code[b])) : b \in Blocks}

Inst(p, q) == p.code[q[1]][q[2]]

\* Loads and computations are the instructions whose result others use.
HasResult(inst) == inst.op \in {"load", "pure"}

Preds(p, b) == {c \in Blocks : b \in p.succ[c]}

\* Entry blocks have no predecessors: LLVM's verifier insists.
IsProgram(p) ==
  /\ p.code \in [Blocks -> Seq(Instructions)]
  /\ p.succ \in [Blocks -> SUBSET Blocks]
  /\ p.parent \in [Blocks -> Funcs]
  /\ p.entry \in [Funcs -> Blocks]
  /\ \A f \in Funcs : p.parent[p.entry[f]] = f /\ Preds(p, p.entry[f]) = {}
  /\ \A q \in Positions(p) : \A a \in Inst(p, q).args :
       a \in Positions(p) /\ HasResult(Inst(p, a))

\* llvm::succ_begin(&block) == llvm::succ_end(&block)
IsExit(p, b) == p.succ[b] = {}

\* The blocks that call function f.
CallBlocks(p, f) ==
  {b \in Blocks : \E i \in 1..Len(p.code[b]) :
                    p.code[b][i].op = "call" /\ p.code[b][i].func = f}

-----------------------------------------------------------------------------
\* Faulty variant: no entry of live_args counts as an empty one.
MissingIsEmpty(inst) == IF inst.known THEN inst.reads ELSE {}

\* What a call of code we lack makes live.
LiveArgsOf(inst) == IF inst.known THEN inst.reads ELSE Bits

(***************************************************************************)
(* The effect of the instruction at position i of block b on the live set, *)
(* given the live-on-entry sets m of the blocks.  Position Len + 1 is the  *)
(* terminator, which joins the successors, or makes everything live where  *)
(* control leaves for code that may read any register.  A call of a lifted *)
(* function replaces the live set by that of the callee's entry block.     *)
(***************************************************************************)
Gens(p, m, b, i) ==
  IF i > Len(p.code[b])
  THEN IF IsExit(p, b) THEN Bits ELSE UNION {m[s] : s \in p.succ[b]}
  ELSE LET inst == p.code[b][i] IN
       CASE inst.op = "load"   -> {inst.slot}
         [] inst.op = "extern" -> LiveArgsOf(inst)
         [] inst.op = "call"   -> m[p.entry[inst.func]]
         [] OTHER              -> {}

Kills(p, b, i) ==
  IF i > Len(p.code[b])
  THEN {}
  ELSE LET inst == p.code[b][i] IN
       CASE inst.op = "store" /\ inst.full -> {inst.slot}
         [] inst.op = "call"               -> Bits
         [] OTHER                          -> {}

(***************************************************************************)
(* What VisitBlock's scan has in `live` once it has come down to position  *)
(* i: a bit is live there iff, going forward, something makes it live      *)
(* before anything kills it.  Module VisitBlock has the scan itself, one   *)
(* instruction at a time, and shows that it computes this set.             *)
(***************************************************************************)
LiveBefore(p, m, b, i) ==
  {x \in Bits : \E j \in i..Len(p.code[b]) + 1 :
                  /\ x \in Gens(p, m, b, j)
                  /\ \A k \in i..j - 1 : x \notin Kills(p, b, k)}

LiveOnEntry(p, m, b) == LiveBefore(p, m, b, 1)

\* The stores of block b that the scan finds dead: nothing after them makes
\* their slot live.
DeadStores(p, m, b) ==
  {<<b, i>> : i \in {j \in 1..Len(p.code[b]) :
     /\ p.code[b][j].op = "store"
     /\ p.code[b][j].slot \notin LiveBefore(p, m, b, j + 1)}}

\* m assigns every block the live set its own scan computes from m.
Solves(p, m) == \A b \in Blocks : m[b] = LiveOnEntry(p, m, b)

(***************************************************************************)
(* Every block can reach an exit: the only set of blocks that holds the    *)
(* exits and is closed under predecessors is all of them.  A call has to   *)
(* return for the block to get past it, so a block with a call counts only *)
(* if the entry of the callee does.                                        *)
(***************************************************************************)
Callees(p, b) == {p.entry[p.code[b][i].func] :
                    i \in {j \in 1..Len(p.code[b]) : p.code[b][j].op = "call"}}

CanLeave(p, b, S) == /\ IsExit(p, b) \/ \E s \in p.succ[b] : s \in S
                     /\ Callees(p, b) \subseteq S

AlwaysExits(p) ==
  \A S \in SUBSET Blocks :
    (\A b \in Blocks : CanLeave(p, b, S) => b \in S) => S = Blocks
=============================================================================
