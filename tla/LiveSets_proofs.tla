--------------------------- MODULE LiveSets_proofs --------------------------
(***************************************************************************)
(* Facts about the operators of LiveSets, for the proofs about the modules *)
(* built from them.                                                        *)
(***************************************************************************)
EXTENDS LiveSets, WellFoundedInduction, TLAPS

\* The maps from blocks to live sets.
Maps == [Blocks -> SUBSET Bits]

(***************************************************************************)
(* What a program is, for one block, its successors and its instructions.  *)
(***************************************************************************)
LEMMA ProgramTypes ==
  ASSUME NEW p, IsProgram(p), NEW b \in Blocks
  PROVE  /\ p.code[b] \in Seq(Instructions)
         /\ Len(p.code[b]) \in Nat
         /\ p.succ[b] \subseteq Blocks
         /\ p.parent[b] \in Funcs
         /\ \A i \in 1..Len(p.code[b]) : p.code[b][i] \in Instructions
  BY DEF IsProgram

LEMMA InstructionTypes ==
  ASSUME NEW inst \in Instructions
  PROVE  /\ inst.op \in InstOps
         /\ inst.slot \in Slots /\ inst.slot \in Bits
         /\ inst.func \in Funcs
         /\ inst.reads \subseteq LiveArgsOf(inst)
         /\ LiveArgsOf(inst) \subseteq Bits
  BY SlotsAreBits DEF Instructions, LiveArgsOf

LEMMA EntryIsBlock ==
  ASSUME NEW p, IsProgram(p), NEW f \in Funcs
  PROVE  p.entry[f] \in Blocks
  BY DEF IsProgram

(***************************************************************************)
(* The effects of the terminator, and of the kinds of instruction.         *)
(***************************************************************************)
LEMMA TerminatorEffects ==
  ASSUME NEW p, IsProgram(p), NEW m, NEW b \in Blocks
  PROVE  LET i == Len(p.code[b]) + 1 IN
         /\ Gens(p, m, b, i) = IF IsExit(p, b) THEN Bits
                               ELSE UNION {m[s] : s \in p.succ[b]}
         /\ Kills(p, b, i) = {}
<1>1. Len(p.code[b]) \in Nat BY ProgramTypes
<1>2. Len(p.code[b]) + 1 > Len(p.code[b]) BY <1>1
<1> QED BY <1>2 DEF Gens, Kills

EffectsOf(p, m, b, i) ==
  LET inst == p.code[b][i] IN
  /\ inst.op = "load" => /\ Gens(p, m, b, i) = {inst.slot}
                         /\ Kills(p, b, i) = {}
  /\ inst.op = "store" =>
       /\ Gens(p, m, b, i) = {}
       /\ inst.full => Kills(p, b, i) = {inst.slot}
       /\ ~inst.full => Kills(p, b, i) = {}
  /\ inst.op = "call" => /\ Gens(p, m, b, i) = m[p.entry[inst.func]]
                         /\ Kills(p, b, i) = Bits
  /\ inst.op = "extern" => /\ Gens(p, m, b, i) = LiveArgsOf(inst)
                           /\ Kills(p, b, i) = {}
  /\ inst.op = "pure" => /\ Gens(p, m, b, i) = {}
                         /\ Kills(p, b, i) = {}

LEMMA InstructionEffects ==
  ASSUME NEW p, IsProgram(p), NEW m, NEW b \in Blocks,
         NEW i \in 1..Len(p.code[b])
  PROVE  EffectsOf(p, m, b, i)
<1> DEFINE inst == p.code[b][i]
<1>1. Len(p.code[b]) \in Nat BY ProgramTypes
<1>2. ~(i > Len(p.code[b])) BY <1>1
<1>3. Gens(p, m, b, i) = CASE inst.op = "load"   -> {inst.slot}
                           [] inst.op = "extern" -> LiveArgsOf(inst)
                           [] inst.op = "call"   -> m[p.entry[inst.func]]
                           [] OTHER              -> {}
  BY <1>2 DEF Gens
<1>4. Kills(p, b, i) = CASE inst.op = "store" /\ inst.full -> {inst.slot}
                         [] inst.op = "call"               -> Bits
                         [] OTHER                          -> {}
  BY <1>2 DEF Kills
<1> HIDE DEF inst
<1>5. inst.op = "load" => /\ Gens(p, m, b, i) = {inst.slot}
                          /\ Kills(p, b, i) = {}
  BY <1>3, <1>4
<1>6. inst.op = "store" =>
        /\ Gens(p, m, b, i) = {}
        /\ inst.full => Kills(p, b, i) = {inst.slot}
        /\ ~inst.full => Kills(p, b, i) = {}
  BY <1>3, <1>4
<1>7. inst.op = "call" => /\ Gens(p, m, b, i) = m[p.entry[inst.func]]
                          /\ Kills(p, b, i) = Bits
  BY <1>3, <1>4
<1>8. inst.op = "extern" => /\ Gens(p, m, b, i) = LiveArgsOf(inst)
                            /\ Kills(p, b, i) = {}
  BY <1>3, <1>4
<1>9. inst.op = "pure" => /\ Gens(p, m, b, i) = {}
                          /\ Kills(p, b, i) = {}
  BY <1>3, <1>4
<1> QED BY <1>5, <1>6, <1>7, <1>8, <1>9 DEF inst, EffectsOf

(***************************************************************************)
(* An instruction makes only bits of a LiveSet live.                       *)
(***************************************************************************)
LEMMA GensAreBits ==
  ASSUME NEW p, IsProgram(p), NEW m \in Maps, NEW b \in Blocks,
         NEW i \in 1..Len(p.code[b]) + 1
  PROVE  Gens(p, m, b, i) \subseteq Bits
<1>1. Len(p.code[b]) \in Nat BY ProgramTypes
<1>2. CASE i > Len(p.code[b])
  BY <1>2, ProgramTypes DEF Gens, Maps
<1>3. CASE ~(i > Len(p.code[b]))
  <2>1. p.code[b][i] \in Instructions
    BY <1>1, <1>3, ProgramTypes
  <2>2. p.entry[p.code[b][i].func] \in Blocks
    BY <2>1, InstructionTypes, EntryIsBlock
  <2>3. m[p.entry[p.code[b][i].func]] \subseteq Bits
    BY <2>2 DEF Maps
  <2> QED
    BY <1>3, <2>1, <2>3, InstructionTypes DEF Gens
<1> QED
  BY <1>2, <1>3

(***************************************************************************)
(* One step of the backward scan: what is live before an instruction is    *)
(* what it makes live, and what is live behind it and not killed by it.    *)
(***************************************************************************)
LEMMA LiveBeforeStep ==
  ASSUME NEW p, IsProgram(p), NEW m \in Maps, NEW b \in Blocks,
         NEW i \in 1..Len(p.code[b]) + 1
  PROVE  LiveBefore(p, m, b, i) =
           Gens(p, m, b, i) \cup (LiveBefore(p, m, b, i + 1) \ Kills(p, b, i))
<1> DEFINE n == Len(p.code[b])
<1>1. n \in Nat BY ProgramTypes
<1>2. Gens(p, m, b, i) \subseteq Bits BY GensAreBits
<1>3. ASSUME NEW x \in LiveBefore(p, m, b, i)
      PROVE  x \in Gens(p, m, b, i)
                   \cup (LiveBefore(p, m, b, i + 1) \ Kills(p, b, i))
  <2>1. PICK j \in i..n + 1 : /\ x \in Gens(p, m, b, j)
                              /\ \A k \in i..j - 1 : x \notin Kills(p, b, k)
    BY <1>3 DEF LiveBefore
  <2>2. x \in Bits BY <1>3 DEF LiveBefore
  <2>3. CASE j = i BY <2>1, <2>3
  <2>4. CASE j # i
    <3>1. j \in i + 1..n + 1 BY <1>1, <2>4
    <3>2. x \notin Kills(p, b, i) BY <1>1, <2>1, <3>1
    <3>3. \A k \in i + 1..j - 1 : x \notin Kills(p, b, k) BY <1>1, <2>1
    <3>4. x \in LiveBefore(p, m, b, i + 1)
      BY <2>1, <2>2, <3>1, <3>3 DEF LiveBefore
    <3> QED BY <3>2, <3>4
  <2> QED BY <2>3, <2>4
<1>4. ASSUME NEW x \in Gens(p, m, b, i)
      PROVE  x \in LiveBefore(p, m, b, i)
  <2>1. i \in i..n + 1 /\ (i..i - 1) = {} BY <1>1
  <2> QED BY <1>2, <2>1 DEF LiveBefore
<1>5. ASSUME NEW x \in LiveBefore(p, m, b, i + 1), x \notin Kills(p, b, i)
      PROVE  x \in LiveBefore(p, m, b, i)
  <2>1. PICK j \in i + 1..n + 1 :
          /\ x \in Gens(p, m, b, j)
          /\ \A k \in i + 1..j - 1 : x \notin Kills(p, b, k)
    BY <1>5 DEF LiveBefore
  <2>2. j \in i..n + 1 BY <1>1, <2>1
  <2>3. \A k \in i..j - 1 : x \notin Kills(p, b, k)
    BY <1>1, <1>5, <2>1
  <2>4. x \in Bits BY <1>5 DEF LiveBefore
  <2> QED BY <2>1, <2>2, <2>3, <2>4 DEF LiveBefore
<1> QED BY <1>3, <1>4, <1>5

(***************************************************************************)
(* A scan that comes down to an instruction finds at most that instruction *)
(* dead, and only a store whose slot is not live behind it.                *)
(***************************************************************************)
LEMMA DeadStoresStep ==
  ASSUME NEW p, IsProgram(p), NEW m, NEW b \in Blocks,
         NEW i \in 1..Len(p.code[b])
  PROVE  {q \in DeadStores(p, m, b) : q[2] > i - 1} =
           {q \in DeadStores(p, m, b) : q[2] > i}
           \cup {q \in {<<b, i>>} :
                   /\ p.code[b][i].op = "store"
                   /\ p.code[b][i].slot \notin LiveBefore(p, m, b, i + 1)}
<1> DEFINE n == Len(p.code[b])
           Dead(j) == /\ p.code[b][j].op = "store"
                      /\ p.code[b][j].slot \notin LiveBefore(p, m, b, j + 1)
<1>1. n \in Nat BY ProgramTypes
<1>2. DeadStores(p, m, b) = {<<b, j>> : j \in {k \in 1..n : Dead(k)}}
  BY DEF DeadStores
<1> HIDE DEF Dead
<1>3. \A q : q \in DeadStores(p, m, b) <=>
               \E j \in 1..n : q = <<b, j>> /\ Dead(j)
  BY <1>2
<1>4. \A j \in 1..n : j > i - 1 <=> (j > i \/ j = i) BY <1>1
<1> QED BY <1>1, <1>3, <1>4 DEF Dead

\* The scan finds instructions of its block dead.
LEMMA DeadStoresAreInBlock ==
  ASSUME NEW p, IsProgram(p), NEW m, NEW b \in Blocks,
         NEW q \in DeadStores(p, m, b)
  PROVE  /\ q[1] = b /\ q[2] \in 1..Len(p.code[b])
         /\ q \in Positions(p)
<1>1. PICK j \in 1..Len(p.code[b]) : q = <<b, j>> BY DEF DeadStores
<1>2. q \in {b} \X (1..Len(p.code[b])) BY <1>1
<1> QED BY <1>1, <1>2 DEF Positions

\* Nothing is behind the terminator.
LEMMA NothingBehindTheEnd ==
  ASSUME NEW p, IsProgram(p), NEW m, NEW b \in Blocks
  PROVE  LiveBefore(p, m, b, Len(p.code[b]) + 2) = {}
<1>1. Len(p.code[b]) \in Nat BY ProgramTypes
<1>2. (Len(p.code[b]) + 2)..(Len(p.code[b]) + 1) = {} BY <1>1
<1> QED BY <1>2 DEF LiveBefore

-----------------------------------------------------------------------------
(* Bits that no slot uses. *)

LessThan == {ss \in Nat \X Nat : ss[1] < ss[2]}

LEMMA LeastElement ==
  ASSUME NEW T, T \subseteq Nat, T # {}
  PROVE  \E x \in T : \A y \in T : x <= y
<1>1. IsWellFoundedOn(LessThan, Nat)
  BY NatLessThanWellFounded DEF OpToRel, LessThan
<1>2. PICK x \in T : \A y \in T : ~ (<<y, x>> \in LessThan)
  BY <1>1, WFMin
<1>3. \A y \in T : x <= y
  <2> SUFFICES ASSUME NEW y \in T PROVE x <= y OBVIOUS
  <2>1. x \in Nat /\ y \in Nat OBVIOUS
  <2>2. <<y, x>> \notin LessThan BY <1>2
  <2>3. ~ (y < x) BY <2>1, <2>2 DEF LessThan
  <2> QED BY <2>1, <2>3
<1> QED BY <1>3

(***************************************************************************)
(* A bit that is no slot is live on entry of a block as soon as it is live *)
(* on entry of one successor, or of nothing but an exit, and of every      *)
(* function the block calls: stores cannot kill it, and the first call     *)
(* passes on what its callee needs.                                        *)
(***************************************************************************)
LEMMA SpareBitsPassThrough ==
  ASSUME NEW p, IsProgram(p), NEW m \in Maps, NEW b \in Blocks,
         NEW x \in Bits, x \notin Slots,
         IsExit(p, b) \/ \E s \in p.succ[b] : x \in m[s],
         \A c \in Callees(p, b) : x \in m[c]
  PROVE  x \in LiveOnEntry(p, m, b)
<1> DEFINE n == Len(p.code[b])
           Calls == {i \in 1..n : p.code[b][i].op = "call"}
<1>1. n \in Nat BY ProgramTypes
<1>2. ASSUME NEW i \in 1..n, p.code[b][i].op # "call"
      PROVE  x \notin Kills(p, b, i)
  <2>1. p.code[b][i].op \in InstOps /\ p.code[b][i].slot \in Slots
    BY <1>1, ProgramTypes, InstructionTypes
  <2> QED BY <1>1, <1>2, <2>1 DEF Kills
<1>3. CASE Calls = {}
  <2>1. x \in Gens(p, m, b, n + 1)
    <3>1. Gens(p, m, b, n + 1) = IF IsExit(p, b) THEN Bits
                                 ELSE UNION {m[s] : s \in p.succ[b]}
      BY TerminatorEffects
    <3>2. CASE IsExit(p, b) BY <3>1, <3>2
    <3>3. CASE ~IsExit(p, b) BY <3>1, <3>3
    <3> QED BY <3>2, <3>3
  <2>2. \A k \in 1..(n + 1) - 1 : x \notin Kills(p, b, k)
    BY <1>1, <1>2, <1>3
  <2> QED BY <1>1, <2>1, <2>2 DEF LiveOnEntry, LiveBefore
<1>4. CASE Calls # {}
  <2>1. Calls \subseteq Nat BY <1>1
  <2>2. PICK j \in Calls : \A i \in Calls : j <= i
    BY <1>4, <2>1, LeastElement
  <2>3. j \in 1..n /\ p.code[b][j].op = "call" OBVIOUS
  <2>4. p.entry[p.code[b][j].func] \in Callees(p, b) BY <2>3 DEF Callees
  <2>5. x \in Gens(p, m, b, j) BY <2>3, <2>4, InstructionEffects DEF EffectsOf
  <2>6. ASSUME NEW k \in 1..j - 1 PROVE x \notin Kills(p, b, k)
    <3>1. k \in 1..n /\ ~(j <= k) BY <1>1, <2>3
    <3>2. k \notin Calls BY <2>2, <3>1
    <3> QED BY <1>2, <3>1, <3>2
  <2> QED BY <1>1, <2>3, <2>5, <2>6 DEF LiveOnEntry, LiveBefore
<1> QED BY <1>3, <1>4

(***************************************************************************)
(* The scan depends on the live sets of the successors and of the callees  *)
(* only.                                                                   *)
(***************************************************************************)
LEMMA ScanDependsOn ==
  ASSUME NEW p, IsProgram(p), NEW m1, NEW m2, NEW b \in Blocks,
         \A c \in p.succ[b] \cup Callees(p, b) : m1[c] = m2[c]
  PROVE  LiveOnEntry(p, m1, b) = LiveOnEntry(p, m2, b)
<1> DEFINE n == Len(p.code[b])
<1>1. n \in Nat BY ProgramTypes
<1>2. ASSUME NEW i \in 1..n + 1 PROVE Gens(p, m1, b, i) = Gens(p, m2, b, i)
  <2>1. CASE i = n + 1
    <3>1. UNION {m1[s] : s \in p.succ[b]} = UNION {m2[s] : s \in p.succ[b]}
      OBVIOUS
    <3>2. Gens(p, m1, b, i) = IF IsExit(p, b) THEN Bits
                              ELSE UNION {m1[s] : s \in p.succ[b]}
      BY <2>1, TerminatorEffects
    <3>3. Gens(p, m2, b, i) = IF IsExit(p, b) THEN Bits
                              ELSE UNION {m2[s] : s \in p.succ[b]}
      BY <2>1, TerminatorEffects
    <3>4. CASE IsExit(p, b) BY <3>2, <3>3, <3>4
    <3>5. CASE ~IsExit(p, b) BY <3>1, <3>2, <3>3, <3>5
    <3> QED BY <3>4, <3>5
  <2>2. CASE i # n + 1 /\ p.code[b][i].op = "call"
    <3>1. i \in 1..n BY <1>1, <2>2
    <3>2. p.entry[p.code[b][i].func] \in Callees(p, b)
      BY <2>2, <3>1 DEF Callees
    <3>3. Gens(p, m1, b, i) = m1[p.entry[p.code[b][i].func]]
      BY <2>2, <3>1, InstructionEffects DEF EffectsOf
    <3>4. Gens(p, m2, b, i) = m2[p.entry[p.code[b][i].func]]
      BY <2>2, <3>1, InstructionEffects DEF EffectsOf
    <3> QED BY <3>2, <3>3, <3>4
  <2>3. CASE i # n + 1 /\ p.code[b][i].op # "call"
    BY <1>1, <2>3 DEF Gens
  <2> QED BY <2>1, <2>2, <2>3
<1> QED BY <1>1, <1>2 DEF LiveOnEntry, LiveBefore
=============================================================================
