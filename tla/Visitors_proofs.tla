-------------------------- MODULE Visitors_proofs ---------------------------
(***************************************************************************)
(* Proofs about the two visitors that decide which stores are dead.  The   *)
(* first part is about VisitBlock: the backward scan computes what         *)
(* LiveSets says, for every program and every state of block_map.  The     *)
(* second is about StateAlias: what ForwardAliasVisitor has found when     *)
(* Analyze returns true holds whenever the function runs.                  *)
(***************************************************************************)
EXTENDS VisitBlock, StateAlias, LiveSets_proofs, SequenceTheorems, FiniteSetTheorems

\* Before the terminator is seen nothing is live.
StartsEmpty ==
  (returned = "no" /\ inst_it = Len(prog.code[block]) + 1) =>
    live = {} /\ to_remove = {}

Scan == TypeOK /\ StartsEmpty /\ ScanFollowsPaths

(***************************************************************************)
(* An instruction that is visited at inst_it turns the live set behind it  *)
(* into the one before it.                                                 *)
(***************************************************************************)
LEMMA ScanStep ==
  ASSUME Scan, Scanning, Back, Fixed,
         live' = Gens(prog, block_map, block, inst_it)
                 \cup (live \ Kills(prog, block, inst_it))
  PROVE  /\ inst_it' \in 0..Len(prog.code[block])
         /\ live' = LiveBefore(prog, block_map, block, inst_it)
         /\ live' \subseteq Bits
         /\ (StartsEmpty /\ ScanFollowsPaths)'
<1> DEFINE n == Len(prog.code[block])
<1>1. /\ IsProgram(prog) /\ block \in Blocks /\ block_map \in Maps
      /\ returned = "no" /\ inst_it \in 1..n + 1
  BY DEF Scan, TypeOK, Scanning, Maps
<1>2. n \in Nat BY <1>1, ProgramTypes
<1>3. inst_it' = inst_it - 1 /\ inst_it' \in 0..n /\ inst_it' + 1 = inst_it
  BY <1>1, <1>2 DEF Back
<1>4. UNCHANGED <<prog, block, block_map, returned>> BY DEF Fixed
<1>5. live = LiveBefore(prog, block_map, block, inst_it + 1)
  <2>1. CASE inst_it = n + 1
    <3>1. live = {} BY <1>1, <2>1 DEF Scan, StartsEmpty
    <3>2. inst_it + 1 = n + 2 BY <1>2, <2>1
    <3> QED BY <1>1, <3>1, <3>2, NothingBehindTheEnd
  <2>2. CASE inst_it # n + 1
    BY <1>1, <1>2, <2>2 DEF Scan, ScanFollowsPaths
  <2> QED BY <2>1, <2>2
<1>6. live' = LiveBefore(prog, block_map, block, inst_it)
  BY <1>1, <1>5, LiveBeforeStep
<1>7. live' \subseteq Bits BY <1>6 DEF LiveBefore
<1>8. StartsEmpty' BY <1>2, <1>3, <1>4 DEF StartsEmpty
<1>9. ScanFollowsPaths' BY <1>3, <1>4, <1>6 DEF ScanFollowsPaths
<1> QED BY <1>3, <1>6, <1>7, <1>8, <1>9

\* At an instruction, and at which kind.
LEMMA AtInstTypes ==
  ASSUME TypeOK, NEW op, AtInst(op)
  PROVE  /\ inst_it \in 1..Len(prog.code[block])
         /\ Current \in Instructions /\ Current.op = op
         /\ Current = prog.code[block][inst_it]
         /\ ~(inst_it > Len(prog.code[block]))
<1>1. Len(prog.code[block]) \in Nat BY ProgramTypes DEF TypeOK
<1>2. inst_it \in 1..Len(prog.code[block])
  BY <1>1 DEF TypeOK, AtInst, Scanning
<1>3. prog.code[block][inst_it] \in Instructions
  BY <1>2, ProgramTypes DEF TypeOK
<1> QED BY <1>1, <1>2, <1>3 DEF AtInst, Current

(***************************************************************************)
(* Every step keeps the scan on the path definition.                       *)
(***************************************************************************)
LEMMA ScanInductive == Scan /\ [Next]_vars => Scan'
<1> SUFFICES ASSUME Scan, [Next]_vars PROVE Scan' OBVIOUS
<1> DEFINE n == Len(prog.code[block])
<1> USE DEF Scan
<1>0. /\ n \in Nat /\ block_map \in Maps
      /\ UNION {block_map[s] : s \in prog.succ[block]} \subseteq Bits
  BY ProgramTypes DEF TypeOK, Maps
<1>1. CASE VisitTerminator
  <2>1. Scanning /\ Back /\ Fixed /\ UNCHANGED to_remove /\ inst_it = n + 1
    BY <1>1 DEF VisitTerminator
  <2>2. live = {} BY <2>1 DEF StartsEmpty, Scanning
  <2>3. Gens(prog, block_map, block, inst_it)
          = IF IsExit(prog, block) THEN Bits
            ELSE UNION {block_map[s] : s \in prog.succ[block]}
    BY <2>1, TerminatorEffects DEF TypeOK
  <2>4. live' = Gens(prog, block_map, block, inst_it)
                \cup (live \ Kills(prog, block, inst_it))
    BY <1>1, <2>2, <2>3 DEF VisitTerminator
  <2> QED BY <1>0, <2>1, <2>4, ScanStep DEF TypeOK, Fixed
<1>2. CASE VisitLiftedCall
  <2>1. Scanning /\ Back /\ Fixed /\ UNCHANGED to_remove
    BY <1>2 DEF VisitLiftedCall, AtInst
  <2>2. live' = Gens(prog, block_map, block, inst_it)
                \cup (live \ Kills(prog, block, inst_it))
    <3>1. AtInst("call") /\ live' = block_map[prog.entry[Current.func]]
      BY <1>2 DEF VisitLiftedCall
    <3>2. inst_it \in 1..n /\ Current.op = "call"
      BY <3>1, AtInstTypes
    <3>3. /\ Gens(prog, block_map, block, inst_it)
               = block_map[prog.entry[Current.func]]
          /\ Kills(prog, block, inst_it) = Bits
      BY <3>2, InstructionEffects DEF TypeOK, Current, EffectsOf
    <3>4. live \subseteq Bits BY DEF TypeOK
    <3> QED BY <3>1, <3>3, <3>4
  <2> QED BY <1>0, <2>1, <2>2, ScanStep DEF TypeOK, Fixed
<1>3. CASE VisitExternCall
  <2>1. Scanning /\ Back /\ Fixed /\ UNCHANGED to_remove
    BY <1>3 DEF VisitExternCall, AtInst
  <2>2. live' = Gens(prog, block_map, block, inst_it)
                \cup (live \ Kills(prog, block, inst_it))
    <3>1. AtInst("extern") /\ live' = live \cup LiveArgsOf(Current)
      BY <1>3 DEF VisitExternCall
    <3>2. /\ Gens(prog, block_map, block, inst_it) = LiveArgsOf(Current)
          /\ Kills(prog, block, inst_it) = {}
      BY <3>1, AtInstTypes, InstructionEffects DEF TypeOK, EffectsOf
    <3> QED BY <3>1, <3>2
  <2> QED BY <1>0, <2>1, <2>2, ScanStep DEF TypeOK, Fixed
<1>4. CASE VisitStore
  <2>1. Scanning /\ Back /\ Fixed
    BY <1>4 DEF VisitStore, AtInst
  <2>2. live' = Gens(prog, block_map, block, inst_it)
                \cup (live \ Kills(prog, block, inst_it))
    <3>1. /\ AtInst("store")
          /\ live' = IF Current.full THEN live \ {Current.slot} ELSE live
      BY <1>4 DEF VisitStore
    <3>2. /\ Gens(prog, block_map, block, inst_it) = {}
          /\ Kills(prog, block, inst_it)
               = IF Current.full THEN {Current.slot} ELSE {}
      BY <3>1, AtInstTypes, InstructionEffects DEF TypeOK, EffectsOf
    <3> QED BY <3>1, <3>2
  <2>3. to_remove' \subseteq Positions(prog)
    <3>1. inst_it \in 1..n BY <1>4, AtInstTypes DEF VisitStore
    <3>2. <<block, inst_it>> \in Positions(prog)
      BY <3>1 DEF Positions, TypeOK
    <3> QED BY <1>4, <3>2 DEF VisitStore, TypeOK
  <2> QED BY <1>0, <2>1, <2>2, <2>3, ScanStep DEF TypeOK, Fixed
<1>5. CASE VisitLoad
  <2>1. Scanning /\ Back /\ Fixed /\ UNCHANGED to_remove
    BY <1>5 DEF VisitLoad, AtInst
  <2>2. live' = Gens(prog, block_map, block, inst_it)
                \cup (live \ Kills(prog, block, inst_it))
    <3>1. AtInst("load") /\ live' = live \cup {Current.slot}
      BY <1>5 DEF VisitLoad
    <3>2. /\ Gens(prog, block_map, block, inst_it) = {Current.slot}
          /\ Kills(prog, block, inst_it) = {}
      BY <3>1, AtInstTypes, InstructionEffects DEF TypeOK, EffectsOf
    <3> QED BY <3>1, <3>2
  <2> QED BY <1>0, <2>1, <2>2, ScanStep DEF TypeOK, Fixed
<1>6. CASE VisitOther
  <2>1. Scanning /\ Back /\ Fixed /\ UNCHANGED <<live, to_remove>>
    BY <1>6 DEF VisitOther, AtInst
  <2>2. live' = Gens(prog, block_map, block, inst_it)
                \cup (live \ Kills(prog, block, inst_it))
    <3>1. AtInst("pure") BY <1>6 DEF VisitOther
    <3>2. /\ Gens(prog, block_map, block, inst_it) = {}
          /\ Kills(prog, block, inst_it) = {}
      BY <3>1, AtInstTypes, InstructionEffects DEF TypeOK, EffectsOf
    <3> QED BY <2>1, <3>2
  <2> QED BY <1>0, <2>1, <2>2, ScanStep DEF TypeOK, Fixed
<1>7. CASE Return
  <2>1. /\ UNCHANGED <<prog, block, on_remove_pass, inst_it, live, to_remove>>
        /\ returned' \in {"changed", "same"}
        /\ block_map' = [block_map EXCEPT ![block] = live]
    BY <1>7 DEF Return
  <2>2. TypeOK' BY <2>1 DEF TypeOK
  <2> QED BY <2>1, <2>2 DEF StartsEmpty, ScanFollowsPaths
<1>8. CASE UNCHANGED vars
  BY <1>8 DEF vars, TypeOK, StartsEmpty, ScanFollowsPaths
<1> QED
  BY <1>1, <1>2, <1>3, <1>4, <1>5, <1>6, <1>7, <1>8 DEF Next

LEMMA ScanInitially == Init => Scan
<1> SUFFICES ASSUME Init PROVE Scan OBVIOUS
<1>1. IsProgram(prog) BY ProgramsAreWellFormed DEF Init
<1>2. Len(prog.code[block]) \in Nat BY <1>1, ProgramTypes DEF Init
<1>3. TypeOK BY <1>1, <1>2 DEF Init, TypeOK
<1>4. StartsEmpty /\ ScanFollowsPaths
  BY <1>2 DEF Init, StartsEmpty, ScanFollowsPaths
<1> QED BY <1>3, <1>4 DEF Scan

LEMMA ScanAlways == Spec => []Scan
BY ScanInitially, ScanInductive, PTL DEF Spec

(***************************************************************************)
(* The scan's variables keep their types: it stays within the block, and   *)
(* what it collects are positions of the program.                          *)
(***************************************************************************)
THEOREM TypeCorrect == Spec => []TypeOK
<1>1. Scan => TypeOK BY DEF Scan
<1> QED BY <1>1, ScanAlways, PTL

(***************************************************************************)
(* VisitBlock's running live set follows the path definition.              *)
(***************************************************************************)
THEOREM ScanCorrect == Spec => []ScanFollowsPaths
<1>1. Scan => ScanFollowsPaths BY DEF Scan
<1> QED BY <1>1, ScanAlways, PTL

(***************************************************************************)
(* VisitBlock pushes the dead stores of the block, and nothing else.       *)
(***************************************************************************)
LEMMA RemovedInductive ==
  Scan /\ RemovesDeadStores /\ [Next]_vars => RemovesDeadStores'
<1> SUFFICES ASSUME Scan, RemovesDeadStores, [Next]_vars
             PROVE  RemovesDeadStores'
  OBVIOUS
<1> DEFINE n == Len(prog.code[block])
           Dead == DeadStores(prog, block_map, block)
           DeadHere == {q \in {<<block, inst_it>>} :
                          /\ prog.code[block][inst_it].op = "store"
                          /\ prog.code[block][inst_it].slot \notin
                               LiveBefore(prog, block_map, block, inst_it + 1)}
<1>0. TypeOK /\ ScanFollowsPaths /\ IsProgram(prog) /\ block \in Blocks
  BY DEF Scan, TypeOK
<1>1. n \in Nat BY <1>0, ProgramTypes
<1>2. ASSUME Fixed, Back, returned = "no", inst_it \in 1..n,
             to_remove' = IF on_remove_pass THEN to_remove \cup DeadHere
                          ELSE to_remove
      PROVE  RemovesDeadStores'
  <2>1. {q \in Dead : q[2] > inst_it - 1}
          = {q \in Dead : q[2] > inst_it} \cup DeadHere
    BY <1>0, <1>2, DeadStoresStep
  <2>2. to_remove = IF on_remove_pass THEN {q \in Dead : q[2] > inst_it} ELSE {}
    BY <1>2 DEF RemovesDeadStores
  <2>3. to_remove' = IF on_remove_pass THEN {q \in Dead : q[2] > inst_it - 1}
                     ELSE {}
    BY <1>2, <2>1, <2>2
  <2> QED BY <1>2, <2>3 DEF RemovesDeadStores, Fixed, Back
<1>3. ASSUME NEW op, AtInst(op), op # "store", Fixed, Back,
             UNCHANGED to_remove
      PROVE  RemovesDeadStores'
  <2>1. inst_it \in 1..n /\ DeadHere = {} BY <1>0, <1>3, AtInstTypes
  <2> QED BY <1>2, <1>3, <2>1 DEF AtInst, Scanning
<1>4. CASE VisitTerminator
  <2>1. {q \in Dead : q[2] > n} = {} BY <1>0, <1>1, DeadStoresAreInBlock
  <2>2. {q \in Dead : q[2] > n + 1} = {} BY <1>0, <1>1, DeadStoresAreInBlock
  <2>3. to_remove = {}
    BY <1>4, <2>2 DEF VisitTerminator, RemovesDeadStores, Scanning
  <2>4. inst_it' = n BY <1>1, <1>4 DEF VisitTerminator, Back
  <2> QED BY <1>4, <2>1, <2>3, <2>4
    DEF VisitTerminator, RemovesDeadStores, Fixed
<1>5. CASE VisitStore
  <2>1. AtInst("store") /\ Fixed /\ Back BY <1>5 DEF VisitStore
  <2>2. /\ inst_it \in 1..n
        /\ Current.op = "store" /\ Current = prog.code[block][inst_it]
    BY <1>0, <2>1, AtInstTypes
  <2>3. returned = "no" BY <2>1 DEF AtInst, Scanning
  <2>4. live = LiveBefore(prog, block_map, block, inst_it + 1)
    BY <1>0, <1>1, <2>2, <2>3 DEF ScanFollowsPaths
  <2>5. to_remove' = IF on_remove_pass THEN to_remove \cup DeadHere
                     ELSE to_remove
    <3>1. CASE Current.slot \notin live
      BY <1>5, <2>2, <2>4, <3>1 DEF VisitStore
    <3>2. CASE Current.slot \in live
      BY <1>5, <2>2, <2>4, <3>2 DEF VisitStore
    <3> QED BY <3>1, <3>2
  <2> QED BY <1>2, <2>1, <2>2, <2>3, <2>5
<1>6. CASE VisitLiftedCall BY <1>3, <1>6 DEF VisitLiftedCall
<1>7. CASE VisitExternCall BY <1>3, <1>7 DEF VisitExternCall
<1>8. CASE VisitLoad BY <1>3, <1>8 DEF VisitLoad
<1>9. CASE VisitOther BY <1>3, <1>9 DEF VisitOther
<1>10. CASE Return BY <1>10 DEF Return, RemovesDeadStores
<1>11. CASE UNCHANGED vars BY <1>11 DEF vars, RemovesDeadStores
<1> QED
  BY <1>4, <1>5, <1>6, <1>7, <1>8, <1>9, <1>10, <1>11 DEF Next

THEOREM RemovalCorrect == Spec => []RemovesDeadStores
<1>1. Init => RemovesDeadStores
  <2> SUFFICES ASSUME Init PROVE RemovesDeadStores OBVIOUS
  <2>1. IsProgram(prog) /\ block \in Blocks
    BY ScanInitially DEF Scan, TypeOK
  <2>2. Len(prog.code[block]) \in Nat BY <2>1, ProgramTypes
  <2>3. {q \in DeadStores(prog, block_map, block) :
           q[2] > Len(prog.code[block]) + 1} = {}
    BY <2>1, <2>2, DeadStoresAreInBlock
  <2> QED BY <2>3 DEF Init, RemovesDeadStores
<1> QED BY <1>1, RemovedInductive, ScanAlways, PTL DEF Spec

(***************************************************************************)
(* VisitBlock's last step stores the block's solution and reports whether  *)
(* it is new.                                                              *)
(***************************************************************************)
THEOREM ReturnCorrect == Spec => ReturnsEntrySet
<1> DEFINE Returns == returned' # returned =>
       /\ block_map' = [block_map EXCEPT
            ![block] = LiveOnEntry(prog, block_map, block)]
       /\ (returned' = "changed") <=> (block_map' # block_map)
<1>1. Scan /\ [Next]_vars => [Returns]_vars
  <2> SUFFICES ASSUME Scan, Next, returned' # returned PROVE Returns
    BY DEF vars
  <2>1. Return
    BY DEF Next, VisitTerminator, VisitLiftedCall, VisitExternCall, VisitStore,
           VisitLoad, VisitOther, Fixed
  <2>2. live = LiveOnEntry(prog, block_map, block)
    <3>1. Len(prog.code[block]) \in Nat BY ProgramTypes DEF Scan, TypeOK
    <3>2. returned = "no" /\ inst_it = 0 BY <2>1 DEF Return
    <3> QED BY <3>1, <3>2 DEF Scan, ScanFollowsPaths, LiveOnEntry
  <2>3. block_map' = [block_map EXCEPT ![block] = live] BY <2>1 DEF Return
  <2>4. block_map' # block_map <=> block_map[block] # live
    BY <2>3 DEF Scan, TypeOK
  <2> QED BY <2>1, <2>2, <2>3, <2>4 DEF Return
<1> QED BY <1>1, ScanAlways, PTL DEF Spec, ReturnsEntrySet

-----------------------------------------------------------------------------
(***************************************************************************)
(* StateAlias.  The reference first: MayBe is contained in every set that  *)
(* is closed under execution.                                              *)
(***************************************************************************)
Round(X) == UNION {{i} \X Executed(X, code[i]) : i \in DOMAIN code}

\* f counts rounds up to n.
Counts(f, n) ==
  /\ DOMAIN f = 0..n /\ f[0] = {}
  /\ \A k \in 1..n : f[k] = Round(f[k - 1])

LEMMA CountsExist == \A n \in Nat : \E f : Counts(f, n)
<1> DEFINE T == {n \in Nat : ~ \E f : Counts(f, n)}
<1> SUFFICES ASSUME T # {} PROVE FALSE
  OBVIOUS
<1>1. PICK m \in T : \A n \in T : m <= n
  BY LeastElement
<1>2. CASE m = 0
  <2>1. Counts([k \in 0..0 |-> {}], 0)
    BY DEF Counts
  <2>2. QED
    BY <1>1, <1>2, <2>1
<1>3. CASE m # 0
  <2>1. m - 1 \in Nat /\ m - 1 \notin T
    BY <1>1, <1>3
  <2>2. PICK f : Counts(f, m - 1)
    BY <2>1
  <2> DEFINE g == [k \in 0..m |-> IF k = m THEN Round(f[m - 1]) ELSE f[k]]
  <2>3. \A k \in 0..m - 1 : k \in 0..m /\ k # m /\ g[k] = f[k]
    BY <2>1
  <2>4. g[m] = Round(g[m - 1])
    <3>1. g[m] = Round(f[m - 1])
      BY <2>1
    <3>2. g[m - 1] = f[m - 1]
      BY <2>1, <2>3
    <3>3. QED
      BY <3>1, <3>2
  <2>5. DOMAIN g = 0..m
    OBVIOUS
  <2> HIDE DEF g
  <2>6. g[0] = {}
    BY <2>1, <2>2, <2>3 DEF Counts
  <2>7. ASSUME NEW k \in 1..m PROVE g[k] = Round(g[k - 1])
    <3>1. CASE k = m
      BY <2>4, <3>1
    <3>2. CASE k # m
      <4>1. k \in 1..m - 1 /\ k \in 0..m - 1 /\ k - 1 \in 0..m - 1
        BY <2>1, <3>2
      <4>2. f[k] = Round(f[k - 1])
        BY <2>2, <4>1 DEF Counts
      <4>3. QED
        BY <2>3, <4>1, <4>2
    <3>3. QED
      BY <3>1, <3>2
  <2>8. QED
    BY <1>1, <2>5, <2>6, <2>7 DEF Counts
<1>4. QED
  BY <1>2, <1>3

LEMMA CountsAgree ==
  ASSUME NEW m \in Nat, NEW n \in Nat, NEW f, NEW g, Counts(f, m), Counts(g, n)
  PROVE  \A k \in Nat : k <= m /\ k <= n => f[k] = g[k]
<1> DEFINE T == {k \in Nat : k <= m /\ k <= n /\ f[k] # g[k]}
<1> SUFFICES ASSUME T # {} PROVE FALSE
  OBVIOUS
<1>1. PICK k \in T : \A j \in T : k <= j
  BY LeastElement
<1>2. k # 0
  BY DEF Counts
<1>3. k - 1 \in Nat /\ k - 1 \notin T /\ k \in 1..m /\ k \in 1..n
  BY <1>1, <1>2
<1>4. f[k - 1] = g[k - 1]
  BY <1>3
<1>5. f[k] = Round(f[k - 1]) /\ g[k] = Round(g[k - 1])
  BY <1>3 DEF Counts
<1>6. QED
  BY <1>4, <1>5

LEMMA MayBeIsRounds ==
  ASSUME Len(code) * Size \in Nat
  PROVE  \E f : /\ MayBe = f[Len(code) * Size] /\ f[0] = {}
                /\ \A n \in Nat \ {0} : f[n] = Round(f[n - 1])
<1> DEFINE after[n \in Nat] ==
             IF n = 0 THEN {}
             ELSE LET S == after[n - 1] IN
                  UNION {{i} \X Executed(S, code[i]) : i \in DOMAIN code}
           chosen(n) == CHOOSE f : Counts(f, n)
           h == [n \in Nat |-> chosen(n)[n]]
<1>1. MayBe = after[Len(code) * Size]
  BY DEF MayBe
<1>2. \A n \in Nat : Counts(chosen(n), n)
  BY CountsExist
<1> HIDE DEF chosen
<1>3. h[0] = {}
  <2>1. 0 \in Nat /\ Counts(chosen(0), 0)
    BY <1>2
  <2>2. QED
    BY <2>1 DEF Counts
<1>4. ASSUME NEW n \in Nat \ {0} PROVE h[n] = Round(h[n - 1])
  <2>1. n \in Nat /\ n - 1 \in Nat /\ n \in 1..n
    OBVIOUS
  <2>2. Counts(chosen(n), n) /\ Counts(chosen(n - 1), n - 1)
    BY <1>2, <2>1
  <2>3. chosen(n)[n] = Round(chosen(n)[n - 1])
    BY <2>1, <2>2 DEF Counts
  <2>4. chosen(n)[n - 1] = chosen(n - 1)[n - 1]
    BY <2>1, <2>2, CountsAgree
  <2>5. QED
    BY <2>1, <2>3, <2>4
<1>5. h = [n \in Nat |-> IF n = 0 THEN {} ELSE Round(h[n - 1])]
  <2>1. \A n \in Nat : h[n] = IF n = 0 THEN {} ELSE Round(h[n - 1])
    BY <1>3, <1>4
  <2>2. h = [n \in Nat |-> h[n]]
    OBVIOUS
  <2> HIDE DEF h
  <2>3. QED
    BY <2>1, <2>2
<1> HIDE DEF h
<1>6. after = [n \in Nat |-> IF n = 0 THEN {} ELSE Round(after[n - 1])]
  BY <1>5, Zenon DEF Round
<1> HIDE DEF after
<1>7. after[0] = {} /\ \A n \in Nat \ {0} : after[n] = Round(after[n - 1])
  BY <1>6
<1>8. QED
  BY <1>1, <1>7

LEMMA MayBeIsLeast ==
  ASSUME NEW S, Len(code) * Size \in Nat, \A X \in SUBSET S : Round(X) \subseteq S
  PROVE  MayBe \subseteq S
<1>1. PICK f : /\ MayBe = f[Len(code) * Size] /\ f[0] = {}
               /\ \A n \in Nat \ {0} : f[n] = Round(f[n - 1])
  BY MayBeIsRounds
<1> DEFINE T == {n \in Nat : ~(f[n] \subseteq S)}
<1>2. ASSUME T # {} PROVE FALSE
  <2>1. PICK m \in T : \A n \in T : m <= n
    BY <1>2, LeastElement
  <2>2. m # 0
    BY <1>1
  <2>3. m - 1 \in Nat /\ m - 1 \notin T
    BY <2>1, <2>2
  <2>4. f[m - 1] \in SUBSET S /\ f[m] = Round(f[m - 1])
    BY <1>1, <2>2, <2>3
  <2>5. f[m] \subseteq S
    BY <2>4
  <2>6. QED
    BY <2>5
<1>3. QED
  BY <1>1, <1>2
-----------------------------------------------------------------------------
(***************************************************************************)
(* What the rounds maintain.  A value that is known and not excluded       *)
(* Points somewhere; that it does is never taken back.                     *)
(***************************************************************************)
Points(v) == Known(v) /\ ~Excluded(v)
Settled(v) == IsConstant(v) \/ Known(v) \/ Excluded(v)

Movers == {"loadstate", "gep", "cast", "add", "sub", "select", "phi"}
Pointers == {StatePtr} \cup {Result(i) : i \in {j \in DOMAIN code : code[j].op \in Movers}}
Constants == {v \in Operands : IsConstant(v)}
Arg(i, k) == code[i].ops[k]
Sign(op) == IF op = "sub" THEN -1 ELSE 1

\* An offset o of instruction i comes from an operand that points.
Source(i, o) ==
  CASE code[i].op = "loadstate" -> o = 0
    [] code[i].op = "cast" -> Points(Arg(i, 1)) /\ o = state_offset[Arg(i, 1)]
    [] code[i].op = "gep" -> /\ Points(Arg(i, 1)) /\ Arg(i, 2).kind = "int"
                             /\ o = state_offset[Arg(i, 1)] + Arg(i, 2).n
    [] code[i].op \in {"add", "sub"} ->
         \/ Arg(i, 1).kind = "int"
         \/ /\ Points(Arg(i, 1))
            /\ o = state_offset[Arg(i, 1)] + Sign(code[i].op) * Arg(i, 2).n
    [] OTHER -> \E k \in DOMAIN code[i].ops :
                  Points(Arg(i, k)) /\ o = state_offset[Arg(i, k)]

\* Instruction i is excluded on account of an operand.
Cause(i) ==
  CASE code[i].op = "loadstate" -> FALSE
    [] code[i].op \in {"gep", "cast", "add", "sub"} -> Excluded(Arg(i, 1))
    [] code[i].op \in {"select", "phi"} ->
         \E k \in DOMAIN code[i].ops : Excluded(Arg(i, k)) \/ IsConstant(Arg(i, k))
    [] OTHER -> TRUE

OffsetsHaveSources ==
  \A i \in DOMAIN code : Known(Result(i)) => Source(i, state_offset[Result(i)])
ExclusionsHaveCauses ==
  \A i \in DOMAIN code : Excluded(Result(i)) => Cause(i)
AccessesHaveAddresses ==
  /\ DOMAIN state_access_offset \subseteq {i \in DOMAIN code : IsAccess(i)}
  /\ \A i \in DOMAIN state_access_offset :
       Known(Address(i)) /\ state_access_offset[i] = state_offset[Address(i)]

Findings ==
  /\ code \in Functions
  /\ state_offset \in [DOMAIN state_offset -> Bytes]
  /\ DOMAIN state_offset \subseteq Pointers
  /\ Known(StatePtr) /\ state_offset[StatePtr] = 0 /\ ~Excluded(StatePtr)
  /\ exclude \subseteq {MemoryPtr} \cup Constants \cup {Result(i) : i \in DOMAIN code}
  /\ Excluded(MemoryPtr)
  /\ \A v \in exclude : v.kind # "int"
  /\ \A i \in DOMAIN code \ Listed : Excluded(Result(i))
  /\ OffsetsHaveSources /\ ExclusionsHaveCauses /\ AccessesHaveAddresses

\* What a visit with Progress has settled for good.
Agrees(i) == /\ Known(Result(i))
             /\ \A k \in DOMAIN code[i].ops :
                  \/ IsConstant(Arg(i, k))
                  \/ /\ Points(Arg(i, k))
                     /\ state_offset[Arg(i, k)] = state_offset[Result(i)]
Outside(i) == \A k \in DOMAIN code[i].ops : IsConstant(Arg(i, k)) \/ Excluded(Arg(i, k))

Done(i) ==
  /\ IsAccess(i) => Excluded(Address(i)) \/ i \in DOMAIN state_access_offset
  /\ code[i].op = "loadstate" => Known(Result(i))
  /\ code[i].op \in {"gep", "cast", "add", "sub"} =>
       Known(Result(i)) \/ Excluded(Arg(i, 1))
  /\ i \in Joins => Agrees(i) \/ Outside(i)

Elems(s) == {s[k] : k \in DOMAIN s}
Lists == /\ todo \in Seq(Listed) /\ pending_wl \in Seq(Listed)
         /\ next_wl \in Seq(Listed) /\ order_of_progress \in Seq(Listed)

\* No instruction is lost.
Coverage ==
  \/ /\ stage = "rounds"
     /\ Listed = Elems(todo) \cup LeftOver \cup Elems(order_of_progress)
  \/ /\ stage \in {"final", "true"}
     /\ \A i \in Listed : i \in Elems(todo) \/ i \in LeftOver \/ Done(i)
     /\ \A i \in LeftOver : code[i].op # "loadstate"

\* In a reverse postorder the first round settles everything.
Values == {i \in DOMAIN code : code[i].op # "store"}
Unsettled == {i \in Values : ~Settled(Result(i))}
Increasing(s) == \A k, l \in DOMAIN s : k < l => s[k] < s[l]
OneRoundIsEnough ==
  InOrder =>
    \/ stage = "rounds" /\ Unsettled \subseteq Elems(todo) /\ Increasing(todo)
    \/ /\ stage \in {"rounds", "final", "true"} /\ Unsettled = {}
       /\ stage # "rounds" =>
            \A i \in LeftOver : code[i].op = "select" /\ i \notin Joins

ArgumentsLooked ==
  stage = "true" =>
    live_args = [i \in {j \in DOMAIN code : code[j].op = "call"} |-> LiveArgs(code[i])]

Progressing ==
  /\ Findings /\ Lists /\ Coverage /\ OneRoundIsEnough /\ ArgumentsLooked
  /\ stage = "true" => todo = <<>>
AInv == (ConstantArithmetic /\ stage # "false") => Progressing
-----------------------------------------------------------------------------
LEMMA CodeTypes ==
  ASSUME code \in Functions
  PROVE  /\ Len(code) \in Nat /\ DOMAIN code = 1..Len(code)
         /\ \A i \in DOMAIN code :
              /\ i \in Nat /\ code[i].op \in Opcodes
              /\ code[i].ops \in Seq(Operands)
              /\ DOMAIN code[i].ops = 1..Len(code[i].ops)
              /\ Len(code[i].ops) \in Arity(code[i].op)
<1>1. /\ code \in Seq([op : Opcodes, ops : Seq(Operands)])
      /\ \A i \in DOMAIN code : Len(code[i].ops) \in Arity(code[i].op)
  BY FunctionsAssumption
<1>2. Len(code) \in Nat /\ DOMAIN code = 1..Len(code)
  BY <1>1, LenProperties
<1>3. \A i \in DOMAIN code : code[i] \in [op : Opcodes, ops : Seq(Operands)]
  BY <1>1, <1>2, ElementOfSeq
<1>4. \A i \in DOMAIN code : DOMAIN code[i].ops = 1..Len(code[i].ops)
  BY <1>3, LenProperties
<1>5. QED
  BY <1>1, <1>2, <1>3, <1>4

LEMMA OperandTypes ==
  ASSUME code \in Functions, NEW i \in DOMAIN code, NEW k \in DOMAIN code[i].ops
  PROVE  /\ Arg(i, k) \in Operands
         /\ \/ Arg(i, k) \in {StatePtr, MemoryPtr} \cup Constants
            \/ Arg(i, k).n \in Values /\ Arg(i, k) = Result(Arg(i, k).n)
<1> DEFINE v == Arg(i, k)
<1>1. /\ code[i].ops \in Seq(Operands) /\ k \in 1..Len(code[i].ops)
  BY CodeTypes
<1>2. v \in Operands
  BY <1>1, ElementOfSeq DEF Arg
<1>3. /\ v.kind = "inst" => v.n \in DOMAIN code /\ code[v.n].op # "store"
      /\ v.kind = "arg" => v.n \in {0, 1}
  BY FunctionsAssumption DEF Arg
<1>4. ASSUME NEW w \in Operands,
             w.kind = "inst" => w.n \in Values, w.kind = "arg" => w.n \in {0, 1}
      PROVE  w \in {StatePtr, MemoryPtr} \cup Constants
             \/ (w.n \in Values /\ w = Result(w.n))
  <2>1. w = [kind |-> w.kind, n |-> w.n] /\ w.kind \in {"inst", "arg", "int", "const"}
    BY DEF Operands
  <2>2. CASE w.kind = "inst"
    BY <1>4, <2>1, <2>2 DEF Result
  <2>3. CASE w.kind = "arg"
    BY <1>4, <2>1, <2>3 DEF StatePtr, MemoryPtr
  <2>4. CASE w.kind \in {"int", "const"}
    BY <2>4 DEF Constants, IsConstant
  <2>5. QED
    BY <2>1, <2>2, <2>3, <2>4
<1>5. v \in {StatePtr, MemoryPtr} \cup Constants \/ (v.n \in Values /\ v = Result(v.n))
  <2>1. v.kind = "inst" => v.n \in Values
    BY <1>3 DEF Values
  <2> HIDE DEF v
  <2>2. QED
    BY <1>2, <1>3, <1>4, <2>1
<1>6. QED
  BY <1>2, <1>5

LEMMA Arities ==
  ASSUME code \in Functions, NEW i \in DOMAIN code
  PROVE  /\ code[i].op \in {"load", "cast"} => DOMAIN code[i].ops = {1}
         /\ code[i].op \in {"store", "gep", "add", "sub", "select"} =>
              DOMAIN code[i].ops = {1, 2}
<1>1. /\ DOMAIN code[i].ops = 1..Len(code[i].ops)
      /\ Len(code[i].ops) \in Arity(code[i].op)
  BY CodeTypes
<1>2. 1..1 = {1} /\ 1..2 = {1, 2}
  OBVIOUS
<1>3. CASE code[i].op \in {"load", "cast"}
  BY <1>1, <1>2, <1>3 DEF Arity
<1>4. CASE code[i].op \in {"store", "gep", "add", "sub", "select"}
  BY <1>1, <1>2, <1>4 DEF Arity
<1>5. QED
  BY <1>3, <1>4

\* Constants are never known, integers never excluded.
LEMMA OperandFacts ==
  ASSUME Findings
  PROVE  /\ \A v : Known(v) => ~IsConstant(v) /\ state_offset[v] \in Bytes
         /\ \A v : v.kind = "int" => ~Excluded(v)
         /\ \A v : Points(v) => ~IsConstant(v)
         /\ Points(StatePtr) /\ Excluded(MemoryPtr)
         /\ \A i \in DOMAIN code : Known(Result(i)) => code[i].op \in Movers
         /\ \A i \in DOMAIN code : ~IsConstant(Result(i)) /\ Result(i).n = i
<1>1. ~IsConstant(StatePtr) /\ \A i : ~IsConstant(Result(i))
  BY DEF IsConstant, StatePtr, Result
<1>2. ASSUME NEW v, Known(v) PROVE ~IsConstant(v) /\ state_offset[v] \in Bytes
  BY <1>1, <1>2 DEF Findings, Known, Pointers
<1>3. ASSUME NEW i \in DOMAIN code, Known(Result(i)) PROVE code[i].op \in Movers
  <2>1. Result(i) \in Pointers /\ Result(i) # StatePtr
    BY <1>3 DEF Findings, Known, Result, StatePtr
  <2>2. PICK j \in DOMAIN code : code[j].op \in Movers /\ Result(i) = Result(j)
    BY <2>1 DEF Pointers
  <2>3. QED
    BY <2>2 DEF Result
<1>4. \A v : v.kind = "int" => ~Excluded(v)
  BY DEF Findings, Excluded
<1>5. QED
  BY <1>1, <1>2, <1>3, <1>4 DEF Findings, Points, Result
-----------------------------------------------------------------------------
(***************************************************************************)
(* What one visit does, whatever the instruction: it only adds, what it    *)
(* adds has a source or a cause, and what points stays so.                 *)
(***************************************************************************)
Visited(j, r) ==
  /\ Visit(j).result = r
  /\ state_offset' = Visit(j).offsets
  /\ exclude' = Visit(j).excluded
  /\ state_access_offset' = Visit(j).accesses
  /\ code' = code

Opaque == {v \in Operands : v.kind = "const"}

FindsOffsets(j) ==
  \/ state_offset' = state_offset
  \/ /\ code[j].op \in Movers
     /\ \E o \in Bytes : Source(j, o) /\ state_offset' = WithOffset(Result(j), o)
AddsExclusions(j) ==
  /\ exclude \subseteq exclude' /\ exclude' \subseteq exclude \cup Opaque \cup {Result(j)}
  /\ (Excluded(Result(j))' /\ ~Excluded(Result(j))) => (~Known(Result(j)) /\ Cause(j)')
AddsAccesses(j) ==
  \/ state_access_offset' = state_access_offset
  \/ /\ IsAccess(j) /\ Known(Address(j))
     /\ state_access_offset' =
          [x \in DOMAIN state_access_offset \cup {j} |->
             IF x = j THEN state_offset[Address(j)] ELSE state_access_offset[x]]

Effect(j) == FindsOffsets(j) /\ AddsExclusions(j) /\ AddsAccesses(j) /\ code' = code

Grows ==
  /\ code' = code
  /\ \A v : Known(v) => Known(v)' /\ state_offset'[v] = state_offset[v]
  /\ exclude \subseteq exclude'
  /\ \A v : Points(v) => Points(v)'
  /\ DOMAIN state_access_offset \subseteq DOMAIN state_access_offset'

LEMMA OffsetsStay ==
  ASSUME NEW v, NEW o, state_offset' = WithOffset(v, o)
  PROVE  /\ \A x : Known(x)' <=> (Known(x) \/ x = v)
         /\ \A x : Known(x) => state_offset'[x] = state_offset[x]
         /\ ~Known(v) => state_offset'[v] = o
BY DEF WithOffset, Known

LEMMA EffectGrows ==
  ASSUME Findings, NEW j \in DOMAIN code, Effect(j)
  PROVE  Grows
<1>1. ASSUME NEW v, Known(v) PROVE Known(v)' /\ state_offset'[v] = state_offset[v]
  <2>1. CASE state_offset' = state_offset
    BY <1>1, <2>1 DEF Known
  <2>2. CASE \E o \in Bytes : state_offset' = WithOffset(Result(j), o)
    <3>1. PICK o \in Bytes : state_offset' = WithOffset(Result(j), o)
      BY <2>2
    <3>2. QED
      BY <1>1, <3>1, OffsetsStay
  <2>3. QED
    BY <2>1, <2>2 DEF Effect, FindsOffsets
<1>2. exclude \subseteq exclude' /\ code' = code
  BY DEF Effect, AddsExclusions
<1>3. ASSUME NEW v, Points(v) PROVE Points(v)'
  <2>1. Known(v) /\ ~Excluded(v) /\ ~IsConstant(v)
    BY <1>3, OperandFacts DEF Points
  <2>2. v \notin Opaque
    BY <2>1 DEF Opaque, IsConstant
  <2>3. v \notin exclude'
    BY <2>1, <2>2 DEF Effect, AddsExclusions, Excluded
  <2>4. QED
    BY <1>1, <2>1, <2>3 DEF Points, Excluded
<1>4. DOMAIN state_access_offset \subseteq DOMAIN state_access_offset'
  BY DEF Effect, AddsAccesses
<1>5. QED
  BY <1>1, <1>2, <1>3, <1>4 DEF Grows

LEMMA SourcesStay ==
  ASSUME Grows, NEW i \in DOMAIN code, Source(i, state_offset'[Result(i)])
  PROVE  Source(i, state_offset[Result(i)])'
<1>1. /\ \A v : Points(v) => Points(v)' /\ state_offset'[v] = state_offset[v]
      /\ code' = code
  BY DEF Grows, Points
<1>2. QED
  BY <1>1 DEF Source, Arg, Result

LEMMA CausesStay ==
  ASSUME Grows, NEW i \in DOMAIN code
  PROVE  Cause(i) => Cause(i)'
<1>1. code' = code /\ \A v : Excluded(v) => Excluded(v)'
  BY DEF Grows, Excluded
<1>2. QED
  BY <1>1 DEF Cause, Arg

LEMMA DoneStays ==
  ASSUME Grows, NEW i \in DOMAIN code
  PROVE  Done(i) => Done(i)'
<1>1. /\ code' = code
      /\ \A v : Excluded(v) => Excluded(v)'
      /\ \A v : Known(v) => Known(v)' /\ state_offset'[v] = state_offset[v]
      /\ \A v : Points(v) => Points(v)'
      /\ \A v : v \in DOMAIN state_access_offset => v \in DOMAIN state_access_offset'
  BY DEF Grows, Excluded
<1>2. Agrees(i) => Agrees(i)'
  BY <1>1 DEF Agrees, Arg, Points
<1>3. Outside(i) => Outside(i)'
  BY <1>1 DEF Outside, Arg
<1>4. Joins' = Joins /\ (IsAccess(i)' <=> IsAccess(i)) /\ Address(i)' = Address(i)
  BY <1>1 DEF Joins, IsAccess, Address
<1>5. QED
  BY <1>1, <1>2, <1>3, <1>4 DEF Done, Arg

LEMMA EffectFindings ==
  ASSUME Findings, NEW j \in Listed, Effect(j)
  PROVE  Findings'
<1>1. Grows /\ j \in DOMAIN code /\ code' = code
  BY EffectGrows DEF Listed, Grows
<1>2. /\ state_offset' \in [DOMAIN state_offset' -> Bytes]
      /\ DOMAIN state_offset' \subseteq Pointers
      /\ OffsetsHaveSources'
  <2>1. CASE state_offset' = state_offset
    <3>1. ASSUME NEW i \in DOMAIN code, Known(Result(i))'
          PROVE  Source(i, state_offset[Result(i)])'
      <4>1. Known(Result(i))
        BY <2>1, <3>1 DEF Known
      <4>2. Source(i, state_offset'[Result(i)])
        BY <2>1, <4>1 DEF Findings, OffsetsHaveSources
      <4>3. QED
        BY <1>1, <4>2, SourcesStay
    <3>2. OffsetsHaveSources'
      BY <1>1, <3>1 DEF OffsetsHaveSources, Result
    <3>3. QED
      BY <1>1, <2>1, <3>2 DEF Findings
  <2>2. CASE /\ code[j].op \in Movers
             /\ \E o \in Bytes : Source(j, o) /\ state_offset' = WithOffset(Result(j), o)
    <3>1. PICK o \in Bytes : Source(j, o) /\ state_offset' = WithOffset(Result(j), o)
      BY <2>2
    <3>2. Result(j) \in Pointers
      BY <1>1, <2>2 DEF Pointers
    <3>3. /\ state_offset' \in [DOMAIN state_offset' -> Bytes]
          /\ DOMAIN state_offset' \subseteq Pointers
      BY <3>1, <3>2 DEF Findings, WithOffset, Known
    <3>4. ASSUME NEW i \in DOMAIN code, Known(Result(i))'
          PROVE  Source(i, state_offset[Result(i)])'
      <4>1. CASE Known(Result(i))
        <5>1. Source(i, state_offset[Result(i)])
          BY <4>1 DEF Findings, OffsetsHaveSources
        <5>2. state_offset'[Result(i)] = state_offset[Result(i)]
          BY <1>1, <4>1 DEF Grows
        <5>3. QED
          BY <1>1, <5>1, <5>2, SourcesStay
      <4>2. CASE ~Known(Result(i))
        <5>1. Result(i) = Result(j)
          BY <3>1, <3>4, <4>2, OffsetsStay
        <5>2. i = j
          BY <5>1 DEF Result
        <5>3. state_offset'[Result(i)] = o
          BY <3>1, <4>2, <5>1, OffsetsStay
        <5>4. QED
          BY <1>1, <3>1, <5>2, <5>3, SourcesStay
      <4>3. QED
        BY <4>1, <4>2
    <3>5. OffsetsHaveSources'
      BY <1>1, <3>4 DEF OffsetsHaveSources, Result
    <3>6. QED
      BY <3>3, <3>5
  <2>3. QED
    BY <2>1, <2>2 DEF Effect, FindsOffsets
<1>3. ExclusionsHaveCauses'
  <2>1. ASSUME NEW i \in DOMAIN code, Excluded(Result(i))' PROVE Cause(i)'
    <3>1. CASE Excluded(Result(i))
      BY <1>1, <3>1, CausesStay DEF Findings, ExclusionsHaveCauses
    <3>2. CASE ~Excluded(Result(i))
      <4>1. Result(i) \notin Opaque
        BY DEF Opaque, Result
      <4>2. Result(i) = Result(j)
        BY <2>1, <3>2, <4>1 DEF Effect, AddsExclusions, Excluded
      <4>3. i = j
        BY <4>2 DEF Result
      <4>4. QED
        BY <2>1, <3>2, <4>3 DEF Effect, AddsExclusions
    <3>3. QED
      BY <3>1, <3>2
  <2>2. QED
    BY <1>1, <2>1 DEF ExclusionsHaveCauses, Result
<1>4. AccessesHaveAddresses'
  <2>1. AccessesHaveAddresses
    BY DEF Findings
  <2>2. \A i \in DOMAIN code : Known(Address(i)) =>
          Known(Address(i))' /\ state_offset'[Address(i)] = state_offset[Address(i)]
    BY <1>1 DEF Grows, Address
  <2>3. CASE state_access_offset' = state_access_offset
    BY <1>1, <2>1, <2>2, <2>3 DEF AccessesHaveAddresses, IsAccess, Address
  <2>4. CASE /\ IsAccess(j) /\ Known(Address(j))
             /\ state_access_offset' =
                  [x \in DOMAIN state_access_offset \cup {j} |->
                     IF x = j THEN state_offset[Address(j)] ELSE state_access_offset[x]]
    BY <1>1, <2>1, <2>2, <2>4 DEF AccessesHaveAddresses, IsAccess, Address
  <2>5. QED
    BY <2>3, <2>4 DEF Effect, AddsAccesses
<1>5. /\ Known(StatePtr)' /\ state_offset'[StatePtr] = 0 /\ ~Excluded(StatePtr)'
      /\ Excluded(MemoryPtr)'
      /\ \A i \in DOMAIN code \ Listed : Excluded(Result(i))'
  <2>1. Points(StatePtr)
    BY OperandFacts
  <2>2. QED
    BY <1>1, <2>1 DEF Findings, Grows, Points, Excluded, Known, StatePtr, MemoryPtr, Result
<1>6. /\ exclude' \subseteq {MemoryPtr} \cup Constants \cup {Result(i) : i \in DOMAIN code}
      /\ \A v \in exclude' : v.kind # "int"
  <2>1. Opaque \subseteq Constants /\ \A v \in Opaque : v.kind # "int"
    BY DEF Opaque, Constants, IsConstant
  <2>2. Result(j).kind # "int"
    BY DEF Result
  <2>3. QED
    BY <1>1, <2>1, <2>2 DEF Findings, Effect, AddsExclusions
<1>7. /\ Pointers' = Pointers /\ Bytes' = Bytes /\ Constants' = Constants
      /\ MemoryPtr' = MemoryPtr /\ StatePtr' = StatePtr /\ Listed' = Listed
      /\ {Result(i) : i \in DOMAIN code}' = {Result(i) : i \in DOMAIN code}
  BY <1>1 DEF Pointers, Bytes, Constants, MemoryPtr, StatePtr, Listed, Result, IsConstant
<1>8. code' \in Functions
  BY <1>1 DEF Findings
<1>9. QED
  BY <1>1, <1>2, <1>3, <1>4, <1>5, <1>6, <1>7, <1>8 DEF Findings
-----------------------------------------------------------------------------
(***************************************************************************)
(* The visit methods, one by one.                                          *)
(***************************************************************************)
HasAddress(j) ==
  code[j].op \in {"load", "store", "gep", "cast"} => ~IsConstant(Address(j))
AllSettled(j) == /\ HasAddress(j)
                 /\ \A k \in DOMAIN code[j].ops : Settled(Arg(j, k))
SomeSettled(j) ==
  IF code[j].op = "phi" THEN \E k \in DOMAIN code[j].ops : Settled(Arg(j, k))
  ELSE AllSettled(j)

Outcomes(j, r) ==
  /\ Effect(j)
  /\ r = "Progress" => Done(j)'
  /\ (SomeSettled(j) /\ code[j].op # "store") => Settled(Result(j))'
  /\ /\ AllSettled(j) /\ SomeSettled(j) /\ (code[j].op = "select" => j \in Joins)
     => r = "Progress"
  /\ code[j].op = "loadstate" => r = "Progress"

LEMMA Leaving ==
  ASSUME NEW j \in Listed, NEW r, NEW q, Visited(j, r), Visit(j) = Leaves(q)
  PROVE  /\ r = q /\ Effect(j)
         /\ UNCHANGED <<code, state_offset, exclude, state_access_offset>>
BY DEF Visited, Leaves, Outcome, Effect, FindsOffsets, AddsExclusions,
       AddsAccesses, Excluded

LEMMA Excluding ==
  ASSUME NEW j \in Listed, NEW r, NEW q, NEW vs, Visited(j, r),
         Visit(j) = Excludes(q, vs)
  PROVE  /\ r = q /\ exclude' = exclude \cup vs
         /\ UNCHANGED <<code, state_offset, state_access_offset>>
         /\ (vs \subseteq Opaque \cup {Result(j)} /\ ~Points(Result(j)) /\ Cause(j)')
              => Effect(j)
<1>1. /\ r = q /\ exclude' = exclude \cup vs
      /\ UNCHANGED <<code, state_offset, state_access_offset>>
  BY DEF Visited, Excludes, Outcome
<1>2. QED
  BY <1>1 DEF Effect, FindsOffsets, AddsExclusions, AddsAccesses, Points, Excluded

LEMMA Finding ==
  ASSUME NEW j \in Listed, NEW r, NEW q, NEW o, Visited(j, r),
         Visit(j) = Finds(q, j, o)
  PROVE  /\ r = q /\ state_offset' = WithOffset(Result(j), o)
         /\ UNCHANGED <<code, exclude, state_access_offset>>
         /\ (code[j].op \in Movers /\ o \in Bytes /\ Source(j, o)) => Effect(j)
         /\ Known(Result(j))'
<1>1. /\ r = q /\ state_offset' = WithOffset(Result(j), o)
      /\ UNCHANGED <<code, exclude, state_access_offset>>
  BY DEF Visited, Finds, Outcome
<1>2. Known(Result(j))'
  BY <1>1, OffsetsStay
<1>3. QED
  BY <1>1, <1>2 DEF Effect, FindsOffsets, AddsExclusions, AddsAccesses, Excluded

LEMMA Accessing ==
  ASSUME NEW j \in Listed, NEW r, NEW vs, Visited(j, r),
         IsAccess(j), Known(Address(j)), ~Known(Result(j)), vs \subseteq {Result(j)},
         Visit(j) = Accesses(j, state_offset[Address(j)], vs)
  PROVE  /\ r = "Progress" /\ Effect(j) /\ exclude' = exclude \cup vs
         /\ j \in DOMAIN state_access_offset'
<1>1. /\ r = "Progress" /\ exclude' = exclude \cup vs
      /\ UNCHANGED <<code, state_offset>>
      /\ state_access_offset' =
           IF j \in DOMAIN state_access_offset THEN state_access_offset
           ELSE [x \in DOMAIN state_access_offset \cup {j} |->
                   IF x = j THEN state_offset[Address(j)] ELSE state_access_offset[x]]
  BY DEF Visited, Accesses, Outcome
<1>2. AddsAccesses(j) /\ j \in DOMAIN state_access_offset'
  BY <1>1 DEF AddsAccesses
<1>3. Cause(j)'
  BY <1>1 DEF Cause, IsAccess
<1>4. QED
  BY <1>1, <1>2, <1>3 DEF Effect, FindsOffsets, AddsExclusions, Excluded

LEMMA VisitLoadOutcomes ==
  ASSUME Findings, NEW j \in Listed, NEW r, Visited(j, r), r # "Error",
         code[j].op = "load"
  PROVE  Outcomes(j, r)
<1> DEFINE p == Arg(j, 1)
<1>1. j \in DOMAIN code /\ Address(j) = p /\ IsAccess(j) /\ 1 \in DOMAIN code[j].ops
  BY Arities DEF Listed, Address, IsAccess, Arg, Findings
<1>2. Visit(j) = VisitLoadInst(j, p)
  BY DEF Visit, Arg
<1>3. ~Known(Result(j)) /\ code' = code
  BY <1>1, OperandFacts DEF Movers, Visited
<1>4. IsAccess(j)' /\ Address(j)' = p /\ Cause(j)'
  BY <1>1, <1>3 DEF IsAccess, Address, Cause, Arg
<1> HIDE DEF p
<1>5. CASE Excluded(p)
  <2>1. Visit(j) = Excludes("Progress", {Result(j)})
    BY <1>2, <1>5 DEF VisitLoadInst
  <2>2. r = "Progress" /\ exclude' = exclude \cup {Result(j)} /\ Effect(j)
    BY <1>3, <1>4, <2>1, Excluding DEF Points
  <2>3. Done(j)' /\ Settled(Result(j))'
    BY <1>3, <1>4, <1>5, <2>2 DEF Done, IsAccess, Joins, Settled, Excluded, Result
  <2>4. QED
    BY <2>2, <2>3 DEF Outcomes
<1>6. CASE ~Excluded(p) /\ ~Known(p)
  <2>1. Visit(j) = Leaves("NoProgress")
    BY <1>2, <1>6 DEF VisitLoadInst
  <2>2. r = "NoProgress" /\ Effect(j)
    BY <2>1, Leaving
  <2>3. ~AllSettled(j) /\ ~SomeSettled(j)
    BY <1>1, <1>6 DEF AllSettled, SomeSettled, HasAddress, Settled, p
  <2>4. QED
    BY <2>2, <2>3 DEF Outcomes
<1>7. CASE ~Excluded(p) /\ Known(p)
  <2>1. Visit(j) = Accesses(j, state_offset[Address(j)], {Result(j)})
    BY <1>1, <1>2, <1>7 DEF VisitLoadInst
  <2>2. /\ r = "Progress" /\ Effect(j) /\ exclude' = exclude \cup {Result(j)}
        /\ j \in DOMAIN state_access_offset'
    BY <1>1, <1>3, <1>7, <2>1, Accessing
  <2>3. Done(j)' /\ Settled(Result(j))'
    BY <1>3, <1>4, <2>2 DEF Done, IsAccess, Joins, Settled, Excluded, Result
  <2>4. QED
    BY <2>2, <2>3 DEF Outcomes
<1>8. QED
  BY <1>5, <1>6, <1>7

LEMMA VisitStoreOutcomes ==
  ASSUME Findings, NEW j \in Listed, NEW r, Visited(j, r), r # "Error",
         code[j].op = "store"
  PROVE  Outcomes(j, r)
<1> DEFINE v == Arg(j, 1)
           p == Arg(j, 2)
<1>1. j \in DOMAIN code /\ Address(j) = p /\ IsAccess(j) /\ 2 \in DOMAIN code[j].ops
  BY Arities DEF Listed, Address, IsAccess, Arg, Findings
<1>2. Visit(j) = VisitStoreInst(j, v, p)
  BY DEF Visit, Arg
<1>3. ~Known(Result(j)) /\ code' = code
  BY <1>1, OperandFacts DEF Movers, Visited
<1>4. IsAccess(j)' /\ Address(j)' = p /\ Cause(j)'
  BY <1>1, <1>3 DEF IsAccess, Address, Cause, Arg
<1> HIDE DEF p, v
<1>5. CASE ~Known(v) /\ Excluded(p)
  <2>1. Visit(j) = Excludes("Progress", {Result(j)})
    BY <1>2, <1>5 DEF VisitStoreInst
  <2>2. r = "Progress" /\ exclude' = exclude \cup {Result(j)} /\ Effect(j)
    BY <1>3, <1>4, <2>1, Excluding DEF Points
  <2>3. Done(j)'
    BY <1>3, <1>4, <1>5, <2>2 DEF Done, IsAccess, Joins, Excluded
  <2>4. QED
    BY <2>2, <2>3 DEF Outcomes
<1>6. CASE ~Known(v) /\ ~Excluded(p) /\ ~Known(p)
  <2>1. Visit(j) = Leaves("NoProgress")
    BY <1>2, <1>6 DEF VisitStoreInst
  <2>2. r = "NoProgress" /\ Effect(j)
    BY <2>1, Leaving
  <2>3. ~AllSettled(j)
    BY <1>1, <1>6 DEF AllSettled, HasAddress, Settled, p
  <2>4. QED
    BY <2>2, <2>3 DEF Outcomes
<1>7. CASE ~Known(v) /\ ~Excluded(p) /\ Known(p)
  <2>1. Visit(j) = Accesses(j, state_offset[Address(j)], {})
    BY <1>1, <1>2, <1>7 DEF VisitStoreInst
  <2>2. r = "Progress" /\ Effect(j) /\ j \in DOMAIN state_access_offset'
    BY <1>1, <1>3, <1>7, <2>1, Accessing
  <2>3. Done(j)'
    BY <1>3, <1>4, <2>2 DEF Done, IsAccess, Joins
  <2>4. QED
    BY <2>2, <2>3 DEF Outcomes
<1>8. CASE Known(v)
  <2>1. Visit(j) = Leaves("Error")
    BY <1>2, <1>8 DEF VisitStoreInst
  <2>2. QED
    BY <2>1, Leaving
<1>9. QED
  BY <1>5, <1>6, <1>7, <1>8

LEMMA VisitLoadStateOutcomes ==
  ASSUME Findings, NEW j \in Listed, NEW r, Visited(j, r), r # "Error",
         code[j].op = "loadstate"
  PROVE  Outcomes(j, r)
<1>1. Visit(j) = Finds("Progress", j, 0)
  BY DEF Visit
<1>2. 0 \in Bytes
  BY EveryByteHasASlot DEF Bytes
<1>3. Source(j, 0) /\ code[j].op \in Movers
  BY DEF Source, Movers
<1>4. r = "Progress" /\ code' = code /\ Effect(j) /\ Known(Result(j))'
  BY <1>1, <1>2, <1>3, Finding
<1>5. Done(j)' /\ Settled(Result(j))'
  BY <1>4 DEF Done, IsAccess, Joins, Settled, Result
<1>6. QED
  BY <1>4, <1>5 DEF Outcomes

LEMMA VisitOtherOutcomes ==
  ASSUME Findings, NEW j \in Listed, NEW r, Visited(j, r), r # "Error",
         code[j].op = "other"
  PROVE  Outcomes(j, r)
<1>1. Visit(j) = Excludes("Progress", {Result(j)})
  BY DEF Visit
<1>2. code' = code /\ ~Known(Result(j))
  BY OperandFacts DEF Visited, Movers, Listed
<1>3. Cause(j)'
  BY <1>2 DEF Cause
<1>4. r = "Progress" /\ Effect(j) /\ Excluded(Result(j))'
  BY <1>1, <1>2, <1>3, Excluding DEF Points, Excluded
<1>5. Done(j)' /\ Settled(Result(j))'
  BY <1>2, <1>4 DEF Done, IsAccess, Joins, Settled, Result
<1>6. QED
  BY <1>4, <1>5 DEF Outcomes

LEMMA VisitCastOutcomes ==
  ASSUME Findings, NEW j \in Listed, NEW r, Visited(j, r), r # "Error",
         code[j].op = "cast"
  PROVE  Outcomes(j, r)
<1> DEFINE p == Arg(j, 1)
<1>1. /\ j \in DOMAIN code /\ Address(j) = p /\ 1 \in DOMAIN code[j].ops /\ code' = code
      /\ Visit(j) = VisitCastInst(j, p)
  BY Arities DEF Listed, Address, Arg, Findings, Visited, Visit
<1>2. Known(Result(j)) => Points(p)
  BY <1>1 DEF Findings, OffsetsHaveSources, Source
<1>3. (Excluded(p)' => Cause(j)') /\ p' = p
  BY <1>1 DEF Cause, Arg
<1>4. (Known(Result(j))' \/ Excluded(p)') => Done(j)'
  BY <1>1 DEF Done, IsAccess, Joins, Arg, Result
<1> HIDE DEF p
<1>5. CASE Excluded(p)
  <2>1. Visit(j) = Excludes("Progress", {Result(j)})
    BY <1>1, <1>5 DEF VisitCastInst
  <2>2. r = "Progress" /\ exclude' = exclude \cup {Result(j)}
    BY <2>1, Excluding
  <2>3. Excluded(p)' /\ ~Points(Result(j)) /\ Settled(Result(j))'
    BY <1>2, <1>3, <1>5, <2>2 DEF Excluded, Points, Settled, Result
  <2>4. Effect(j)
    BY <1>3, <2>1, <2>3, Excluding
  <2>5. QED
    BY <1>4, <2>2, <2>3, <2>4 DEF Outcomes
<1>6. CASE ~Excluded(p) /\ ~Known(p)
  <2>1. Visit(j) = Leaves("NoProgress")
    BY <1>1, <1>6 DEF VisitCastInst
  <2>2. r = "NoProgress" /\ Effect(j)
    BY <2>1, Leaving
  <2>3. ~AllSettled(j) /\ ~SomeSettled(j)
    BY <1>1, <1>6 DEF AllSettled, SomeSettled, HasAddress, Settled, p
  <2>4. QED
    BY <2>2, <2>3 DEF Outcomes
<1>7. CASE Points(p)
  <2>1. Visit(j) = Finds("Progress", j, state_offset[p])
    BY <1>1, <1>7 DEF VisitCastInst, Points
  <2>2. state_offset[p] \in Bytes
    BY <1>7, OperandFacts DEF Points
  <2>3. Source(j, state_offset[p]) /\ code[j].op \in Movers
    BY <1>7 DEF Source, Movers, p
  <2>4. r = "Progress" /\ Effect(j) /\ Known(Result(j))'
    BY <2>1, <2>2, <2>3, Finding
  <2>5. Settled(Result(j))'
    BY <2>4 DEF Settled, Result
  <2>6. QED
    BY <1>4, <2>4, <2>5 DEF Outcomes
<1>8. QED
  BY <1>5, <1>6, <1>7 DEF Points

LEMMA VisitGetElementPtrOutcomes ==
  ASSUME Findings, NEW j \in Listed, NEW r, Visited(j, r), r # "Error",
         code[j].op = "gep"
  PROVE  Outcomes(j, r)
<1> DEFINE p == Arg(j, 1)
           x == Arg(j, 2)
<1>1. /\ j \in DOMAIN code /\ Address(j) = p /\ DOMAIN code[j].ops = {1, 2}
      /\ code' = code /\ Visit(j) = VisitGetElementPtrInst(j, p, x)
  BY Arities DEF Listed, Address, Arg, Findings, Visited, Visit
<1>2. Known(Result(j)) => Points(p)
  BY <1>1 DEF Findings, OffsetsHaveSources, Source
<1>3. (Excluded(p)' => Cause(j)') /\ p' = p
  BY <1>1 DEF Cause, Arg
<1>4. (Known(Result(j))' \/ Excluded(p)') => Done(j)'
  BY <1>1 DEF Done, IsAccess, Joins, Arg, Result
<1>5. x \in Operands
  BY <1>1, OperandTypes DEF Findings
<1> HIDE DEF p, x
<1>6. CASE Excluded(p)
  <2>1. Visit(j) = Excludes("Progress", {Result(j)})
    BY <1>1, <1>6 DEF VisitGetElementPtrInst
  <2>2. r = "Progress" /\ exclude' = exclude \cup {Result(j)}
    BY <2>1, Excluding
  <2>3. Excluded(p)' /\ ~Points(Result(j)) /\ Settled(Result(j))'
    BY <1>2, <1>3, <1>6, <2>2 DEF Excluded, Points, Settled, Result
  <2>4. Effect(j)
    BY <1>3, <2>1, <2>3, Excluding
  <2>5. QED
    BY <1>4, <2>2, <2>3, <2>4 DEF Outcomes
<1>7. CASE ~Excluded(p) /\ ~Known(p)
  <2>1. Visit(j) = Leaves("NoProgress")
    BY <1>1, <1>7 DEF VisitGetElementPtrInst
  <2>2. r = "NoProgress" /\ Effect(j)
    BY <2>1, Leaving
  <2>3. ~AllSettled(j) /\ ~SomeSettled(j)
    BY <1>1, <1>7 DEF AllSettled, SomeSettled, HasAddress, Settled, p
  <2>4. QED
    BY <2>2, <2>3 DEF Outcomes
<1>8. CASE Points(p)
  <2> DEFINE o == state_offset[p] + x.n
  <2>1. \/ Visit(j) = Leaves("Error")
        \/ /\ x.kind = "int" /\ InBounds(o)
           /\ Visit(j) = Finds("Progress", j, o)
    BY <1>1, <1>8 DEF VisitGetElementPtrInst, Points
  <2>2. Visit(j) # Leaves("Error")
    BY Leaving
  <2>3. o \in Bytes
    <3>1. state_offset[p] \in Int /\ x.n \in Int
      BY <1>5, <1>8, OperandFacts DEF Points, Bytes, Operands
    <3>2. QED
      BY <2>1, <2>2, <3>1, EveryByteHasASlot DEF InBounds, Bytes
  <2>4. Source(j, o) /\ code[j].op \in Movers
    BY <1>8, <2>1, <2>2 DEF Source, Movers, p, x
  <2> HIDE DEF o
  <2>5. r = "Progress" /\ Effect(j) /\ Known(Result(j))'
    BY <2>1, <2>2, <2>3, <2>4, Finding
  <2>6. Settled(Result(j))'
    BY <2>5 DEF Settled, Result
  <2>7. QED
    BY <1>4, <2>5, <2>6 DEF Outcomes
<1>9. QED
  BY <1>6, <1>7, <1>8 DEF Points

Combined(a, b, sign) == (IF a.kind = "int" THEN a.n ELSE state_offset[a]) + sign * b.n

\* What is left of visitBinaryOp_ where the right operand is an integer.
LEMMA BinaryCases ==
  ASSUME NEW i, NEW a, NEW b, NEW sign, b.kind = "int", ~Excluded(b),
         a.kind = "int" => ~Excluded(a)
  PROVE  /\ (Excluded(a) \/ a.kind = "const") =>
              VisitBinaryOp(i, a, b, sign) =
                Excludes("Progress", (IF ~Excluded(a) THEN {a} ELSE {}) \cup {Result(i)})
         /\ (~Excluded(a) /\ ~IsConstant(a) /\ ~Known(a)) =>
              VisitBinaryOp(i, a, b, sign) = Leaves("Incomplete")
         /\ (a.kind = "int" \/ (Points(a) /\ ~IsConstant(a))) =>
              \/ VisitBinaryOp(i, a, b, sign) = Leaves("Error")
              \/ /\ InBounds(Combined(a, b, sign))
                 /\ VisitBinaryOp(i, a, b, sign) =
                      Finds("Progress", i, Combined(a, b, sign))
<1>1. b.kind # "const" /\ IsConstant(b)
  BY DEF IsConstant
<1>2. CASE Excluded(a) \/ a.kind = "const"
  <2>1. CASE Excluded(a)
    BY <1>1, <2>1 DEF VisitBinaryOp, Combined, IsConstant, Points
  <2>2. CASE ~Excluded(a) /\ a.kind = "const"
    BY <1>1, <2>2 DEF VisitBinaryOp, Combined, IsConstant, Points
  <2>3. QED
    BY <1>2, <2>1, <2>2
<1>3. CASE ~Excluded(a) /\ ~IsConstant(a) /\ ~Known(a)
  BY <1>1, <1>3 DEF VisitBinaryOp, Combined, IsConstant, Points
<1>4. CASE a.kind = "int" \/ (Points(a) /\ ~IsConstant(a))
  BY <1>1, <1>4 DEF VisitBinaryOp, Combined, IsConstant, Points
<1>5. QED
  BY <1>2, <1>3, <1>4 DEF IsConstant, Points

LEMMA VisitBinaryOpOutcomes ==
  ASSUME Findings, ConstantArithmetic, NEW j \in Listed, NEW r, Visited(j, r),
         r # "Error", code[j].op \in {"add", "sub"}
  PROVE  Outcomes(j, r)
<1> DEFINE a == Arg(j, 1)
           b == Arg(j, 2)
           sign == Sign(code[j].op)
           sum == Combined(a, b, sign)
<1>1. /\ j \in DOMAIN code /\ DOMAIN code[j].ops = {1, 2} /\ code' = code
      /\ Visit(j) = VisitBinaryOp(j, a, b, sign) /\ sign \in {1, -1}
  BY Arities DEF Listed, Arg, Findings, Visited, Visit, Sign
<1>2. b.kind = "int" /\ ~Excluded(b) /\ (a.kind = "int" => ~Excluded(a))
  BY <1>1, OperandFacts DEF ConstantArithmetic, Arg
<1>3. Known(Result(j)) => a.kind = "int" \/ Points(a)
  BY <1>1 DEF Findings, OffsetsHaveSources, Source
<1>4. (Excluded(a)' => Cause(j)') /\ a' = a
  BY <1>1 DEF Cause, Arg
<1>5. (Known(Result(j))' \/ Excluded(a)') => Done(j)'
  BY <1>1 DEF Done, IsAccess, Joins, Arg, Result
<1>6. a \in Operands /\ b \in Operands
  BY <1>1, OperandTypes DEF Findings
<1>7. \/ Excluded(a) \/ a.kind = "const"
      \/ ~Excluded(a) /\ ~IsConstant(a) /\ ~Known(a)
      \/ a.kind = "int" \/ (Points(a) /\ ~IsConstant(a))
  BY DEF Points, IsConstant
<1>8. CASE Excluded(a) \/ a.kind = "const"
  <2> DEFINE vs == (IF ~Excluded(a) THEN {a} ELSE {}) \cup {Result(j)}
  <2>1. Visit(j) = Excludes("Progress", vs)
    BY <1>1, <1>2, <1>8, BinaryCases
  <2>2. r = "Progress" /\ exclude' = exclude \cup vs
    BY <2>1, Excluding
  <2>3. Excluded(a)' /\ Excluded(Result(j))'
    BY <1>4, <2>2 DEF Excluded, Result
  <2>4. ~Points(Result(j))
    BY <1>2, <1>3, <1>8, OperandFacts DEF Points, IsConstant
  <2>5. vs \subseteq Opaque \cup {Result(j)}
    BY <1>6, <1>8 DEF Opaque
  <2>6. Settled(Result(j))'
    BY <2>3 DEF Settled, Result
  <2> HIDE DEF vs
  <2>7. Effect(j)
    BY <1>4, <2>1, <2>3, <2>4, <2>5, Excluding
  <2>8. QED
    BY <1>5, <2>2, <2>3, <2>6, <2>7 DEF Outcomes
<1>9. CASE ~Excluded(a) /\ ~IsConstant(a) /\ ~Known(a)
  <2>1. Visit(j) = Leaves("Incomplete")
    BY <1>1, <1>2, <1>9, BinaryCases
  <2>2. r = "Incomplete" /\ Effect(j)
    BY <2>1, Leaving
  <2>3. ~AllSettled(j) /\ ~SomeSettled(j)
    BY <1>1, <1>9 DEF AllSettled, SomeSettled, Settled
  <2>4. QED
    BY <2>2, <2>3 DEF Outcomes
<1>10. CASE a.kind = "int" \/ (Points(a) /\ ~IsConstant(a))
  <2>1. \/ Visit(j) = Leaves("Error")
        \/ InBounds(sum) /\ Visit(j) = Finds("Progress", j, sum)
    BY <1>1, <1>2, <1>10, BinaryCases
  <2>2. Visit(j) # Leaves("Error")
    BY Leaving
  <2>3. sum \in Bytes
    <3>1. a.n \in Int /\ b.n \in Int /\ (Points(a) => state_offset[a] \in Int)
      BY <1>6, OperandFacts DEF Points, Bytes, Operands
    <3>2. sign * b.n \in Int
      BY <1>1, <3>1
    <3>3. sum \in Int
      BY <1>10, <3>1, <3>2 DEF Combined
    <3>4. QED
      BY <2>1, <2>2, <3>3, EveryByteHasASlot DEF InBounds, Bytes
  <2>4. Source(j, sum) /\ code[j].op \in Movers
    BY <1>10 DEF Source, Movers, Combined
  <2> HIDE DEF sum
  <2>5. r = "Progress" /\ Effect(j) /\ Known(Result(j))'
    BY <2>1, <2>2, <2>3, <2>4, Finding
  <2>6. Settled(Result(j))'
    BY <2>5 DEF Settled, Result
  <2>7. QED
    BY <1>5, <2>5, <2>6 DEF Outcomes
<1>11. QED
  BY <1>7, <1>8, <1>9, <1>10

LEMMA JoinFinds ==
  ASSUME Findings, NEW j \in Listed, NEW r, NEW q, NEW w, Visited(j, r),
         code[j].op \in {"select", "phi"},
         w \in {Arg(j, k) : k \in DOMAIN code[j].ops}, Points(w),
         \A k \in DOMAIN code[j].ops :
           Points(Arg(j, k)) => state_offset[Arg(j, k)] = state_offset[w],
         Visit(j) = Finds(q, j, state_offset[w])
  PROVE  /\ r = q /\ Effect(j) /\ Settled(Result(j))'
         /\ (\A k \in DOMAIN code[j].ops : IsConstant(Arg(j, k)) \/ Points(Arg(j, k)))
              => Done(j)'
<1> DEFINE o == state_offset[w]
<1>1. o \in Bytes /\ j \in DOMAIN code
  BY OperandFacts DEF Points, Listed
<1>2. Source(j, o) /\ code[j].op \in Movers
  BY DEF Source, Movers
<1> HIDE DEF o
<1>3. Visit(j) = Finds(q, j, o)
  BY DEF o
<1>4. /\ r = q /\ state_offset' = WithOffset(Result(j), o)
      /\ Effect(j) /\ Known(Result(j))'
  BY <1>1, <1>2, <1>3, Finding
<1>5. Settled(Result(j))'
  BY <1>4 DEF Settled, Result
<1>6. Grows
  BY <1>1, <1>4, EffectGrows
<1>7. state_offset'[Result(j)] = o
  <2>1. CASE Known(Result(j))
    <3>1. Source(j, state_offset[Result(j)])
      BY <1>1, <2>1 DEF Findings, OffsetsHaveSources
    <3>2. \E k \in DOMAIN code[j].ops :
            Points(Arg(j, k)) /\ state_offset[Result(j)] = state_offset[Arg(j, k)]
      BY <3>1 DEF Source
    <3>3. state_offset[Result(j)] = o
      BY <3>2 DEF o
    <3>4. QED
      BY <1>4, <2>1, <3>3, OffsetsStay
  <2>2. CASE ~Known(Result(j))
    BY <1>4, <2>2, OffsetsStay
  <2>3. QED
    BY <2>1, <2>2
<1>8. ASSUME \A k \in DOMAIN code[j].ops : IsConstant(Arg(j, k)) \/ Points(Arg(j, k))
      PROVE  Done(j)'
  <2>1. \A k \in DOMAIN code[j].ops :
          Points(Arg(j, k)) => /\ Points(Arg(j, k))'
                               /\ state_offset'[Arg(j, k)] = o
    BY <1>6 DEF Grows, Points, Arg, o
  <2>2. code' = code /\ \A k \in DOMAIN code[j].ops : Arg(j, k)' = Arg(j, k)
    BY <1>6 DEF Grows, Arg
  <2>3. Agrees(j)'
    BY <1>4, <1>7, <1>8, <2>1, <2>2 DEF Agrees, Result
  <2>4. QED
    BY <2>2, <2>3 DEF Done, IsAccess
<1>9. QED
  BY <1>4, <1>5, <1>8

LEMMA JoinExcludes ==
  ASSUME Findings, NEW j \in Listed, NEW r, NEW q, Visited(j, r),
         code[j].op \in {"select", "phi"},
         \A k \in DOMAIN code[j].ops : ~Points(Arg(j, k)),
         \E k \in DOMAIN code[j].ops : Excluded(Arg(j, k)) \/ IsConstant(Arg(j, k)),
         Visit(j) = Excludes(q, {Result(j)})
  PROVE  /\ r = q /\ Effect(j) /\ Settled(Result(j))'
         /\ (\/ \A k \in DOMAIN code[j].ops : IsConstant(Arg(j, k)) \/ Excluded(Arg(j, k))
             \/ j \notin Joins) => Done(j)'
<1>1. r = q /\ exclude' = exclude \cup {Result(j)} /\ code' = code
  BY Excluding
<1>2. Settled(Result(j))'
  BY <1>1 DEF Settled, Excluded, Result
<1>3. ~Points(Result(j))
  <2>1. ASSUME Known(Result(j)) PROVE FALSE
    <3>1. Source(j, state_offset[Result(j)])
      BY <2>1 DEF Findings, OffsetsHaveSources, Listed
    <3>2. QED
      BY <3>1 DEF Source
  <2>2. QED
    BY <2>1 DEF Points
<1>4. \A k \in DOMAIN code[j].ops : /\ Arg(j, k)' = Arg(j, k)
                                    /\ Excluded(Arg(j, k)) => Excluded(Arg(j, k))'
  BY <1>1 DEF Arg, Excluded
<1>5. Cause(j)'
  BY <1>1, <1>4 DEF Cause
<1>6. Effect(j)
  BY <1>3, <1>5, Excluding
<1>7. ASSUME \A k \in DOMAIN code[j].ops : IsConstant(Arg(j, k)) \/ Excluded(Arg(j, k))
      PROVE  Done(j)'
  <2>1. Outside(j)'
    BY <1>1, <1>4, <1>7 DEF Outside
  <2>2. QED
    BY <1>1, <2>1 DEF Done, IsAccess
<1>8. ASSUME j \notin Joins PROVE Done(j)'
  BY <1>1, <1>8 DEF Done, IsAccess, Joins
<1>9. QED
  BY <1>1, <1>2, <1>6, <1>7, <1>8

LEMMA VisitSelectOutcomes ==
  ASSUME Findings, NEW j \in Listed, NEW r, Visited(j, r), r # "Error",
         code[j].op = "select"
  PROVE  Outcomes(j, r)
<1> DEFINE t == Arg(j, 1)
           f == Arg(j, 2)
           ins == {t, f}
           found == {v \in ins : Known(v)}
           out == {v \in ins : Excluded(v)}
<1>1. /\ j \in DOMAIN code /\ DOMAIN code[j].ops = {1, 2}
      /\ Visit(j) = VisitSelect(j, t, f)
  BY Arities DEF Listed, Arg, Findings, Visit
<1>2. ins = {Arg(j, k) : k \in DOMAIN code[j].ops}
  BY <1>1
<1>3. j \in Joins <=> \A v \in ins : ~IsConstant(v)
  BY <1>1 DEF Joins, Arg
<1>4. Visit(j) # Leaves("Error")
  BY Leaving
<1>5. \A k \in DOMAIN code[j].ops : Arg(j, k) \in ins
  BY <1>2
<1>6. (AllSettled(j) \/ SomeSettled(j)) <=> \A v \in ins : Settled(v)
  BY <1>1 DEF AllSettled, SomeSettled, HasAddress
<1> HIDE DEF ins
<1>7. CASE found # {} /\ out # {}
  BY <1>1, <1>4, <1>7 DEF VisitSelect, ins
<1>8. CASE found # {} /\ out = {}
  <2> DEFINE w == CHOOSE v \in found : TRUE
             q == IF found = ins THEN "Progress" ELSE "Incomplete"
  <2>1. \/ \E v, x \in found : state_offset[v] # state_offset[x]
        \/ Visit(j) = Finds(q, j, state_offset[w])
    BY <1>1, <1>8 DEF VisitSelect, ins
  <2>2. (\E v, x \in found : state_offset[v] # state_offset[x]) => Visit(j) = Leaves("Error")
    BY <1>1, <1>8 DEF VisitSelect, ins
  <2>3. w \in found
    BY <1>8
  <2>4. \A v \in ins : Points(v) <=> v \in found
    BY <1>8 DEF Points
  <2>5. /\ Visit(j) = Finds(q, j, state_offset[w])
        /\ \A v \in ins : Points(v) => state_offset[v] = state_offset[w]
    BY <1>4, <2>1, <2>2, <2>3, <2>4
  <2>6. w \in ins /\ Points(w)
    BY <2>3, <2>4
  <2> HIDE DEF w
  <2>7. /\ r = q /\ Effect(j) /\ Settled(Result(j))'
        /\ (\A k \in DOMAIN code[j].ops : IsConstant(Arg(j, k)) \/ Points(Arg(j, k)))
             => Done(j)'
    BY <1>2, <1>5, <2>5, <2>6, JoinFinds
  <2>8. r = "Progress" => Done(j)'
    BY <1>5, <2>4, <2>7
  <2>9. (AllSettled(j) /\ j \in Joins) => r = "Progress"
    <3>1. ASSUME AllSettled(j), j \in Joins PROVE found = ins
      BY <1>3, <1>6, <1>8, <3>1 DEF Settled
    <3>2. QED
      BY <2>7, <3>1
  <2>10. QED
    BY <2>7, <2>8, <2>9 DEF Outcomes
<1>9. CASE found = {} /\ out # {}
  <2> DEFINE q == IF out = ins THEN "Progress" ELSE "Incomplete"
  <2>1. Visit(j) = Excludes(q, {Result(j)})
    BY <1>1, <1>9 DEF VisitSelect, ins
  <2>2. \A k \in DOMAIN code[j].ops : ~Points(Arg(j, k))
    BY <1>5, <1>9 DEF Points
  <2>3. \E k \in DOMAIN code[j].ops : Excluded(Arg(j, k)) \/ IsConstant(Arg(j, k))
    BY <1>2, <1>9
  <2>4. /\ r = q /\ Effect(j) /\ Settled(Result(j))'
        /\ (\A k \in DOMAIN code[j].ops : IsConstant(Arg(j, k)) \/ Excluded(Arg(j, k)))
             => Done(j)'
    BY <2>1, <2>2, <2>3, JoinExcludes
  <2>5. r = "Progress" => Done(j)'
    BY <1>5, <2>4
  <2>6. (AllSettled(j) /\ j \in Joins) => r = "Progress"
    <3>1. ASSUME AllSettled(j), j \in Joins PROVE out = ins
      BY <1>3, <1>6, <1>9, <3>1 DEF Settled
    <3>2. QED
      BY <2>4, <3>1
  <2>7. QED
    BY <2>4, <2>5, <2>6 DEF Outcomes
<1>10. CASE found = {} /\ out = {} /\ \E v \in ins : IsConstant(v)
  <2>1. Visit(j) = Excludes("Progress", {Result(j)})
    BY <1>1, <1>10 DEF VisitSelect, ins
  <2>2. \A k \in DOMAIN code[j].ops : ~Points(Arg(j, k))
    BY <1>5, <1>10 DEF Points
  <2>3. \E k \in DOMAIN code[j].ops : Excluded(Arg(j, k)) \/ IsConstant(Arg(j, k))
    BY <1>2, <1>10
  <2>4. j \notin Joins
    BY <1>3, <1>10
  <2>5. r = "Progress" /\ Effect(j) /\ Settled(Result(j))' /\ Done(j)'
    BY <2>1, <2>2, <2>3, <2>4, JoinExcludes
  <2>6. QED
    BY <2>5 DEF Outcomes
<1>11. CASE found = {} /\ out = {} /\ ~\E v \in ins : IsConstant(v)
  <2>1. Visit(j) = Leaves("NoProgress")
    BY <1>1, <1>11 DEF VisitSelect, ins
  <2>2. r = "NoProgress" /\ Effect(j)
    BY <2>1, Leaving
  <2>3. t \in ins
    BY DEF ins
  <2>4. ~AllSettled(j) /\ ~SomeSettled(j)
    BY <1>6, <1>11, <2>3 DEF Settled
  <2>5. QED
    BY <2>2, <2>4 DEF Outcomes
<1>12. QED
  BY <1>7, <1>8, <1>9, <1>10, <1>11

LEMMA VisitPHINodeOutcomes ==
  ASSUME Findings, NEW j \in Listed, NEW r, Visited(j, r), r # "Error",
         code[j].op = "phi"
  PROVE  Outcomes(j, r)
<1> DEFINE ins == {Arg(j, k) : k \in DOMAIN code[j].ops}
           points == {v \in ins : Known(v) /\ ~Excluded(v)}
           agree == \A v, w \in points : state_offset[v] = state_offset[w]
           out == {v \in ins : Excluded(v)}
           consts == {v \in ins \ out : IsConstant(v)}
           found == {v \in ins \ (out \cup consts) : Known(v)}
           q == IF out \cup consts \cup found = ins THEN "Progress" ELSE "Incomplete"
<1>1. j \in DOMAIN code /\ Visit(j) = VisitPHINode(j, ins)
  BY DEF Listed, Arg, Visit
<1>2. \A k \in DOMAIN code[j].ops : Arg(j, k) \in ins
  OBVIOUS
<1>3. j \in Joins
  BY <1>1 DEF Joins
<1>4. Visit(j) # Leaves("Error")
  BY Leaving
<1>5. SomeSettled(j) <=> \E v \in ins : Settled(v)
  BY DEF SomeSettled
<1>6. AllSettled(j) => \A v \in ins : Settled(v)
  BY DEF AllSettled
<1>7. \A v \in ins : Points(v) <=> v \in found
  BY OperandFacts DEF Points
<1>8. \A v \in ins : Points(v) <=> v \in points
  BY DEF Points
<1>9. VisitPHINode(j, ins) = JoinIncoming(j, ins, agree)
  BY DEF VisitPHINode
<1>10. \A v \in ins : Settled(v) <=> v \in out \cup consts \cup found
  BY DEF Settled
<1> HIDE DEF ins, agree
<1>11. CASE ~agree \/ (found # {} /\ out # {})
  BY <1>1, <1>4, <1>9, <1>11 DEF JoinIncoming
<1>12. CASE agree /\ found # {} /\ out = {}
  <2> DEFINE w == CHOOSE v \in found : TRUE
  <2>1. Visit(j) = Finds(q, j, state_offset[w])
    BY <1>1, <1>9, <1>12 DEF JoinIncoming
  <2>2. w \in found
    BY <1>12
  <2>3. w \in ins /\ Points(w)
    BY <1>7, <2>2
  <2>4. \A v \in ins : Points(v) => state_offset[v] = state_offset[w]
    BY <1>8, <1>12, <2>3 DEF agree
  <2> HIDE DEF w
  <2>5. /\ r = q /\ Effect(j) /\ Settled(Result(j))'
        /\ (\A k \in DOMAIN code[j].ops : IsConstant(Arg(j, k)) \/ Points(Arg(j, k)))
             => Done(j)'
    BY <1>2, <2>1, <2>3, <2>4, JoinFinds DEF ins
  <2>6. r = "Progress" => Done(j)'
    <3>1. ASSUME r = "Progress" PROVE \A v \in ins : IsConstant(v) \/ Points(v)
      BY <1>7, <1>12, <2>5, <3>1
    <3>2. QED
      BY <1>2, <2>5, <3>1
  <2>7. AllSettled(j) => r = "Progress"
    BY <1>6, <1>10, <2>5
  <2>8. QED
    BY <2>5, <2>6, <2>7 DEF Outcomes
<1>13. CASE agree /\ found = {} /\ out \cup consts # {}
  <2>1. Visit(j) = Excludes(q, {Result(j)})
    BY <1>1, <1>9, <1>13 DEF JoinIncoming
  <2>2. \A k \in DOMAIN code[j].ops : ~Points(Arg(j, k))
    BY <1>2, <1>7, <1>13
  <2>3. \E k \in DOMAIN code[j].ops : Excluded(Arg(j, k)) \/ IsConstant(Arg(j, k))
    BY <1>13 DEF ins
  <2>4. /\ r = q /\ Effect(j) /\ Settled(Result(j))'
        /\ (\A k \in DOMAIN code[j].ops : IsConstant(Arg(j, k)) \/ Excluded(Arg(j, k)))
             => Done(j)'
    BY <2>1, <2>2, <2>3, JoinExcludes
  <2>5. r = "Progress" => Done(j)'
    <3>1. ASSUME r = "Progress" PROVE \A v \in ins : IsConstant(v) \/ Excluded(v)
      BY <1>13, <2>4, <3>1
    <3>2. QED
      BY <1>2, <2>4, <3>1
  <2>6. AllSettled(j) => r = "Progress"
    BY <1>6, <1>10, <2>4
  <2>7. QED
    BY <2>4, <2>5, <2>6 DEF Outcomes
<1>14. CASE agree /\ found = {} /\ out \cup consts = {}
  <2>1. Visit(j) = Leaves("NoProgress")
    BY <1>1, <1>9, <1>14 DEF JoinIncoming
  <2>2. r = "NoProgress" /\ Effect(j)
    BY <2>1, Leaving
  <2>3. ~SomeSettled(j)
    BY <1>5, <1>10, <1>14
  <2>4. QED
    BY <2>2, <2>3 DEF Outcomes
<1>15. QED
  BY <1>11, <1>12, <1>13, <1>14

LEMMA VisitOutcomes ==
  ASSUME Findings, ConstantArithmetic, NEW j \in Listed, NEW r, Visited(j, r),
         r # "Error"
  PROVE  Outcomes(j, r)
<1>1. /\ j \in DOMAIN code /\ code[j].op \in Opcodes
      /\ code[j].op \notin {"alloca", "call"}
  BY CodeTypes DEF Listed, Findings
<1>2. code[j].op \in {"load", "loadstate", "store", "gep", "cast", "add", "sub",
                      "select", "phi", "other"}
  BY <1>1 DEF Opcodes
<1>3. QED
  BY <1>2, VisitLoadOutcomes, VisitStoreOutcomes, VisitLoadStateOutcomes,
     VisitOtherOutcomes, VisitCastOutcomes, VisitGetElementPtrOutcomes,
     VisitBinaryOpOutcomes, VisitSelectOutcomes, VisitPHINodeOutcomes
-----------------------------------------------------------------------------
(***************************************************************************)
(* The worklists.                                                          *)
(***************************************************************************)
LEMMA AppendElems ==
  ASSUME NEW S, NEW s \in Seq(S), NEW x \in S
  PROVE  Append(s, x) \in Seq(S) /\ Elems(Append(s, x)) = Elems(s) \cup {x}
<1>1. /\ Append(s, x) \in Seq(S) /\ Len(Append(s, x)) = Len(s) + 1
      /\ \A k \in 1..Len(s) : Append(s, x)[k] = s[k]
      /\ Append(s, x)[Len(s) + 1] = x
  OBVIOUS
<1>2. Len(s) \in Nat /\ DOMAIN s = 1..Len(s) /\ DOMAIN Append(s, x) = 1..Len(s) + 1
  BY <1>1, LenProperties
<1> HIDE DEF Elems
<1>3. ASSUME NEW y \in Elems(Append(s, x)) PROVE y \in Elems(s) \cup {x}
  <2>1. PICK k \in 1..Len(s) + 1 : y = Append(s, x)[k]
    BY <1>2, <1>3 DEF Elems
  <2>2. CASE k = Len(s) + 1
    BY <1>1, <2>1, <2>2
  <2>3. CASE k # Len(s) + 1
    <3>1. k \in 1..Len(s)
      BY <1>2, <2>3
    <3>2. QED
      BY <1>1, <1>2, <2>1, <3>1 DEF Elems
  <2>4. QED
    BY <2>2, <2>3
<1>4. ASSUME NEW y \in Elems(s) \cup {x} PROVE y \in Elems(Append(s, x))
  <2>1. CASE y = x
    <3>1. Len(s) + 1 \in 1..Len(s) + 1
      BY <1>2
    <3>2. QED
      BY <1>1, <1>2, <2>1, <3>1 DEF Elems
  <2>2. CASE y \in Elems(s)
    <3>1. PICK k \in 1..Len(s) : y = s[k]
      BY <1>2, <2>2 DEF Elems
    <3>2. k \in 1..Len(s) + 1
      BY <1>2
    <3>3. QED
      BY <1>1, <1>2, <3>1, <3>2 DEF Elems
  <2>3. QED
    BY <1>4, <2>1, <2>2
<1>5. QED
  BY <1>1, <1>3, <1>4

LEMMA ConcatElems ==
  ASSUME NEW S, NEW s \in Seq(S), NEW t \in Seq(S)
  PROVE  s \o t \in Seq(S) /\ Elems(s \o t) = Elems(s) \cup Elems(t)
<1>1. /\ s \o t \in Seq(S) /\ Len(s \o t) = Len(s) + Len(t)
      /\ \A k \in 1..Len(s) + Len(t) :
           (s \o t)[k] = IF k <= Len(s) THEN s[k] ELSE t[k - Len(s)]
  BY ConcatProperties
<1>2. /\ Len(s) \in Nat /\ DOMAIN s = 1..Len(s)
      /\ Len(t) \in Nat /\ DOMAIN t = 1..Len(t)
      /\ DOMAIN (s \o t) = 1..Len(s) + Len(t)
  BY <1>1, LenProperties
<1>3. ASSUME NEW y \in Elems(s \o t) PROVE y \in Elems(s) \cup Elems(t)
  <2>1. PICK k \in 1..Len(s) + Len(t) : y = (s \o t)[k]
    BY <1>2, <1>3 DEF Elems
  <2>2. CASE k <= Len(s)
    <3>1. k \in 1..Len(s) /\ y = s[k]
      BY <1>1, <1>2, <2>1, <2>2
    <3>2. QED
      BY <1>2, <3>1 DEF Elems
  <2>3. CASE ~(k <= Len(s))
    <3>1. k - Len(s) \in 1..Len(t) /\ y = t[k - Len(s)]
      BY <1>1, <1>2, <2>1, <2>3
    <3>2. QED
      BY <1>2, <3>1 DEF Elems
  <2>4. QED
    BY <2>2, <2>3
<1>4. ASSUME NEW y \in Elems(s) PROVE y \in Elems(s \o t)
  <2>1. PICK k \in 1..Len(s) : y = s[k]
    BY <1>2, <1>4 DEF Elems
  <2>2. k \in 1..Len(s) + Len(t) /\ (s \o t)[k] = y
    BY <1>1, <1>2, <2>1
  <2>3. QED
    BY <1>2, <2>2 DEF Elems
<1>5. ASSUME NEW y \in Elems(t) PROVE y \in Elems(s \o t)
  <2>1. PICK k \in 1..Len(t) : y = t[k]
    BY <1>2, <1>5 DEF Elems
  <2>2. k + Len(s) \in 1..Len(s) + Len(t) /\ ~(k + Len(s) <= Len(s))
        /\ k + Len(s) - Len(s) = k
    BY <1>2
  <2>3. (s \o t)[k + Len(s)] = y
    BY <1>1, <2>1, <2>2
  <2>4. QED
    BY <1>2, <2>2, <2>3 DEF Elems
<1>6. QED
  BY <1>1, <1>3, <1>4, <1>5

LEMMA HeadElems ==
  ASSUME NEW S, NEW s \in Seq(S), s # <<>>
  PROVE  /\ Head(s) \in S /\ Tail(s) \in Seq(S)
         /\ Elems(s) = {Head(s)} \cup Elems(Tail(s))
<1>1. /\ Head(s) \in S /\ Tail(s) \in Seq(S) /\ Len(Tail(s)) = Len(s) - 1
      /\ \A k \in 1..Len(Tail(s)) : Tail(s)[k] = s[k + 1]
      /\ Head(s) = s[1] /\ Len(s) \in Nat /\ Len(s) # 0
  BY HeadTailProperties, EmptySeq, LenProperties
<1>2. DOMAIN s = 1..Len(s) /\ DOMAIN Tail(s) = 1..Len(s) - 1
  BY <1>1, LenProperties
<1>3. ASSUME NEW y \in Elems(s) PROVE y \in {Head(s)} \cup Elems(Tail(s))
  <2>1. PICK k \in 1..Len(s) : y = s[k]
    BY <1>2, <1>3 DEF Elems
  <2>2. CASE k = 1
    BY <1>1, <2>1, <2>2
  <2>3. CASE k # 1
    <3>1. k - 1 \in 1..Len(s) - 1 /\ k - 1 + 1 = k
      BY <1>1, <2>3
    <3>2. Tail(s)[k - 1] = y
      BY <1>1, <2>1, <3>1
    <3>3. QED
      BY <1>2, <3>1, <3>2 DEF Elems
  <2>4. QED
    BY <2>2, <2>3
<1>4. ASSUME NEW y \in Elems(Tail(s)) PROVE y \in Elems(s)
  <2>1. PICK k \in 1..Len(s) - 1 : y = Tail(s)[k]
    BY <1>2, <1>4 DEF Elems
  <2>2. k + 1 \in 1..Len(s) /\ y = s[k + 1]
    BY <1>1, <2>1
  <2>3. QED
    BY <1>2, <2>2 DEF Elems
<1>5. Head(s) \in Elems(s)
  BY <1>1, <1>2 DEF Elems
<1>6. QED
  BY <1>1, <1>3, <1>4, <1>5

LEMMA NoElems ==
  ASSUME NEW S, NEW s \in Seq(S)
  PROVE  Elems(s) = {} <=> s = <<>>
<1>1. ASSUME s # <<>> PROVE Elems(s) # {}
  <2>1. Elems(s) = {Head(s)} \cup Elems(Tail(s))
    BY <1>1, HeadElems
  <2>2. QED
    BY <2>1
<1>2. Elems(<<>>) = {}
  BY DEF Elems
<1>3. QED
  BY <1>1, <1>2

\* The first of an increasing list is less than what is behind it.
LEMMA IncreasingTail ==
  ASSUME NEW s \in Seq(Nat), s # <<>>, Increasing(s)
  PROVE  /\ Increasing(Tail(s))
         /\ \A x \in Elems(Tail(s)) : Head(s) < x
<1>1. /\ Len(Tail(s)) = Len(s) - 1 /\ Tail(s) \in Seq(Nat)
      /\ \A k \in 1..Len(Tail(s)) : Tail(s)[k] = s[k + 1]
      /\ Head(s) = s[1] /\ Len(s) \in Nat /\ Len(s) # 0
  BY HeadTailProperties, EmptySeq, LenProperties
<1>2. DOMAIN s = 1..Len(s) /\ DOMAIN Tail(s) = 1..Len(s) - 1
  BY <1>1, LenProperties
<1>3. ASSUME NEW k \in DOMAIN Tail(s), NEW l \in DOMAIN Tail(s), k < l
      PROVE  Tail(s)[k] < Tail(s)[l]
  <2>1. k + 1 \in DOMAIN s /\ l + 1 \in DOMAIN s /\ k + 1 < l + 1
    BY <1>1, <1>2, <1>3
  <2>2. s[k + 1] < s[l + 1]
    BY <2>1 DEF Increasing
  <2>3. QED
    BY <1>1, <1>2, <2>2
<1>4. ASSUME NEW x \in Elems(Tail(s)) PROVE Head(s) < x
  <2>1. PICK k \in DOMAIN Tail(s) : x = Tail(s)[k]
    BY <1>4 DEF Elems
  <2>2. 1 \in DOMAIN s /\ k + 1 \in DOMAIN s /\ 1 < k + 1
    BY <1>1, <1>2
  <2>3. QED
    BY <1>1, <1>2, <2>1, <2>2 DEF Increasing
<1>5. QED
  BY <1>3, <1>4 DEF Increasing
-----------------------------------------------------------------------------
(***************************************************************************)
(* InLayout lists what is to be visited, in increasing order.              *)
(***************************************************************************)
UpTo(i) == {j \in Listed : j <= i}

LEMMA Ranks ==
  ASSUME code \in Functions
  PROVE  /\ IsFiniteSet(Listed) /\ Cardinality(Listed) \in Nat
         /\ \A i \in Listed : /\ i \in Nat
                              /\ Cardinality(UpTo(i)) \in 1..Cardinality(Listed)
         /\ \A i, j \in Listed : Cardinality(UpTo(i)) <= Cardinality(UpTo(j)) <=> i <= j
         /\ \A k \in 1..Cardinality(Listed) : \E i \in Listed : Cardinality(UpTo(i)) = k
<1>1. Listed \subseteq 1..Len(code) /\ Len(code) \in Nat
  BY CodeTypes DEF Listed
<1>2. IsFiniteSet(Listed) /\ Cardinality(Listed) \in Nat
  <2>1. IsFiniteSet(1..Len(code))
    BY <1>1, FS_Interval
  <2>2. IsFiniteSet(Listed)
    BY <1>1, <2>1, FS_Subset
  <2>3. QED
    BY <2>2, FS_CardinalityType
<1>3. ASSUME NEW i \in Listed
      PROVE  /\ IsFiniteSet(UpTo(i)) /\ Cardinality(UpTo(i)) \in Nat
             /\ Cardinality(UpTo(i)) <= Cardinality(Listed)
             /\ Cardinality(UpTo(i)) # 0
  <2>1. UpTo(i) \subseteq Listed /\ i \in UpTo(i)
    BY <1>1 DEF UpTo
  <2>2. IsFiniteSet(UpTo(i)) /\ Cardinality(UpTo(i)) <= Cardinality(Listed)
    BY <1>2, <2>1, FS_Subset
  <2>3. Cardinality(UpTo(i)) \in Nat
    BY <2>2, FS_CardinalityType
  <2>4. Cardinality(UpTo(i)) # 0
    BY <2>1, <2>2, FS_EmptySet
  <2>5. QED
    BY <2>2, <2>3, <2>4
<1>4. ASSUME NEW i \in Listed, NEW j \in Listed, i < j
      PROVE  Cardinality(UpTo(i)) < Cardinality(UpTo(j))
  <2>1. UpTo(i) \subseteq UpTo(j) /\ j \in UpTo(j) /\ j \notin UpTo(i)
    <3>1. \A x \in Listed : x \in Int
      BY <1>1
    <3>2. \A x \in Listed : x <= i => x <= j
      BY <1>4, <3>1
    <3>3. j <= j /\ ~(j <= i)
      BY <1>4, <3>1
    <3>4. QED
      BY <3>2, <3>3 DEF UpTo
  <2>2. /\ Cardinality(UpTo(i)) <= Cardinality(UpTo(j))
        /\ Cardinality(UpTo(j)) = Cardinality(UpTo(i)) => UpTo(j) = UpTo(i)
    BY <1>3, <2>1, FS_Subset
  <2>3. Cardinality(UpTo(i)) \in Nat /\ Cardinality(UpTo(j)) \in Nat
    BY <1>3
  <2>4. QED
    BY <2>1, <2>2, <2>3
<1>5. ASSUME NEW i \in Listed, NEW j \in Listed
      PROVE  Cardinality(UpTo(i)) <= Cardinality(UpTo(j)) <=> i <= j
  <2>1. i \in Nat /\ j \in Nat /\ Cardinality(UpTo(i)) \in Nat /\ Cardinality(UpTo(j)) \in Nat
    BY <1>1, <1>3
  <2>2. CASE i < j
    BY <1>4, <2>1, <2>2
  <2>3. CASE i = j
    BY <2>1, <2>3
  <2>4. CASE j < i
    BY <1>4, <2>1, <2>4
  <2>5. QED
    BY <2>1, <2>2, <2>3, <2>4
<1>6. \A k \in 1..Cardinality(Listed) : \E i \in Listed : Cardinality(UpTo(i)) = k
  <2> DEFINE N == Cardinality(Listed)
             rank == [i \in Listed |-> Cardinality(UpTo(i))]
  <2>1. rank \in [Listed -> 1..N]
    <3>1. \A i \in Listed : Cardinality(UpTo(i)) \in 1..N
      BY <1>2, <1>3
    <3>2. QED
      BY <3>1
  <2>2. \A i, j \in Listed : rank[i] = rank[j] => i = j
    <3>1. ASSUME NEW i \in Listed, NEW j \in Listed, rank[i] = rank[j] PROVE i = j
      <4>1. i \in Nat /\ j \in Nat
        BY <1>1
      <4>2. rank[i] \in Nat
        BY <1>3
      <4>3. i <= j /\ j <= i
        BY <1>5, <3>1, <4>2
      <4>4. QED
        BY <4>1, <4>3
    <3>2. QED
      BY <3>1
  <2>3. rank \in Injection(Listed, 1..N)
    BY <2>1, <2>2 DEF Injection, IsInjective
  <2>4. IsFiniteSet(1..N) /\ Cardinality(1..N) = N
    <3>1. N \in Nat
      BY <1>2
    <3> HIDE DEF N
    <3>2. IsFiniteSet(1..N) /\ Cardinality(1..N) = IF 1 > N THEN 0 ELSE N - 1 + 1
      BY <3>1, FS_Interval
    <3>3. QED
      BY <3>1, <3>2
  <2>5. rank \in Surjection(Listed, 1..N)
    BY <2>3, <2>4, FS_Injection
  <2>6. QED
    BY <2>5 DEF Surjection
<1>7. QED
  BY <1>1, <1>2, <1>3, <1>5, <1>6

LEMMA LayoutIsIncreasing ==
  ASSUME code \in Functions
  PROVE  InLayout \in Seq(Listed) /\ Elems(InLayout) = Listed /\ Increasing(InLayout)
<1> DEFINE N == Cardinality(Listed)
           at(k) == CHOOSE i \in Listed : Cardinality(UpTo(i)) = k
<1>1. N \in Nat
  BY Ranks
<1>2. InLayout = [k \in 1..N |-> at(k)]
  BY DEF InLayout, UpTo
<1>3. \A k \in 1..N : at(k) \in Listed /\ Cardinality(UpTo(at(k))) = k
  BY Ranks
<1>4. \A i \in Listed : Cardinality(UpTo(i)) \in 1..N
  BY Ranks
<1>5. \A i, j \in Listed : i \in Nat /\ (Cardinality(UpTo(i)) <= Cardinality(UpTo(j)) <=> i <= j)
  BY Ranks
<1> HIDE DEF at, N
<1>6. InLayout \in [1..N -> Listed]
  BY <1>2, <1>3
<1>7. InLayout \in Seq(Listed) /\ DOMAIN InLayout = 1..N
  BY <1>1, <1>6, SeqDef
<1>8. Increasing(InLayout)
  <2>1. ASSUME NEW k \in 1..N, NEW l \in 1..N, k < l PROVE at(k) < at(l)
    <3>1. ~(Cardinality(UpTo(at(l))) <= Cardinality(UpTo(at(k))))
      BY <1>1, <1>3, <2>1
    <3>2. ~(at(l) <= at(k)) /\ at(l) \in Nat /\ at(k) \in Nat
      BY <1>3, <1>5, <3>1
    <3>3. QED
      BY <3>2
  <2>2. QED
    BY <1>2, <1>7, <2>1 DEF Increasing
<1>9. ASSUME NEW i \in Listed PROVE i \in Elems(InLayout)
  <2> DEFINE k == Cardinality(UpTo(i))
  <2>1. k \in 1..N
    BY <1>4
  <2>2. at(k) = i
    <3>1. Cardinality(UpTo(at(k))) = Cardinality(UpTo(i)) /\ at(k) \in Listed
      BY <1>3, <2>1
    <3>2. Cardinality(UpTo(i)) \in Int
      BY <1>1, <2>1
    <3>3. at(k) <= i /\ i <= at(k) /\ i \in Nat /\ at(k) \in Nat
      BY <1>5, <3>1, <3>2
    <3>4. QED
      BY <3>3
  <2>3. InLayout[k] = i
    BY <1>2, <2>1, <2>2
  <2> HIDE DEF k
  <2>4. QED
    BY <1>7, <2>1, <2>3 DEF Elems
<1>10. Elems(InLayout) \subseteq Listed
  BY <1>6, <1>7 DEF Elems
<1>11. QED
  BY <1>7, <1>8, <1>9, <1>10
-----------------------------------------------------------------------------
(***************************************************************************)
(* The invariant.                                                          *)
(***************************************************************************)
LEMMA OperandsSettle ==
  ASSUME Findings, NEW j \in DOMAIN code, NEW k \in DOMAIN code[j].ops,
         Arg(j, k).kind = "inst" =>
           \A i \in Values : i = Arg(j, k).n => Settled(Result(i))
  PROVE  Settled(Arg(j, k))
<1> DEFINE v == Arg(j, k)
<1>1. \/ v \in {StatePtr, MemoryPtr} \cup Constants
      \/ v.n \in Values /\ v = Result(v.n)
  BY OperandTypes DEF Findings
<1> HIDE DEF v
<1>2. ASSUME v \in {StatePtr, MemoryPtr} PROVE Settled(v)
  BY <1>2, OperandFacts DEF Settled, Points
<1>3. ASSUME v \in Constants PROVE Settled(v)
  BY <1>3 DEF Settled, Constants
<1>4. ASSUME v.n \in Values /\ v = Result(v.n) PROVE Settled(v)
  <2>1. v.kind = "inst"
    BY <1>4 DEF Result
  <2>2. \A i \in Values : i = v.n => Settled(Result(i))
    BY <2>1 DEF v
  <2>3. QED
    BY <1>4, <2>2
<1>5. Settled(v)
  BY <1>1, <1>2, <1>3, <1>4
<1>6. QED
  BY <1>5 DEF v

LEMMA EarlierIsEnough ==
  ASSUME Findings, InOrder, NEW j \in DOMAIN code,
         \A i \in Values : i < j => Settled(Result(i))
  PROVE  SomeSettled(j)
<1> DEFINE earlier == {k \in DOMAIN code[j].ops :
                         code[j].ops[k].kind = "inst" => code[j].ops[k].n < j}
<1>1. /\ IF code[j].op = "phi" THEN earlier # {} ELSE earlier = DOMAIN code[j].ops
      /\ HasAddress(j)
  BY DEF InOrder, HasAddress
<1>2. ASSUME NEW k \in earlier PROVE Settled(Arg(j, k))
  <2>1. k \in DOMAIN code[j].ops /\ (Arg(j, k).kind = "inst" => Arg(j, k).n < j)
    BY <1>2 DEF Arg
  <2>2. Arg(j, k).kind = "inst" => \A i \in Values : i = Arg(j, k).n => Settled(Result(i))
    BY <2>1
  <2>3. QED
    BY <2>1, <2>2, OperandsSettle
<1>3. earlier \subseteq DOMAIN code[j].ops
  OBVIOUS
<1> HIDE DEF earlier
<1>4. QED
  BY <1>1, <1>2, <1>3 DEF SomeSettled, AllSettled

LEMMA NothingUnsettled ==
  ASSUME Findings, InOrder, Unsettled = {}, NEW j \in DOMAIN code
  PROVE  AllSettled(j) /\ SomeSettled(j)
<1>1. \A i \in Values : Settled(Result(i))
  BY DEF Unsettled
<1>2. \A k \in DOMAIN code[j].ops : Settled(Arg(j, k))
  BY <1>1, OperandsSettle
<1>3. HasAddress(j)
  BY DEF InOrder, HasAddress
<1>4. SomeSettled(j)
  BY <1>1, EarlierIsEnough
<1>5. QED
  BY <1>2, <1>3, <1>4 DEF AllSettled

LEMMA SettledStays ==
  ASSUME Grows
  PROVE  /\ Values' = Values /\ Unsettled' \subseteq Unsettled
         /\ Joins' = Joins /\ (InOrder' <=> InOrder) /\ Listed' = Listed
         /\ (ConstantArithmetic' <=> ConstantArithmetic)
<1>1. code' = code
  BY DEF Grows
<1>2. ASSUME NEW i \in DOMAIN code PROVE Settled(Result(i)) => Settled(Result(i))'
  BY DEF Grows, Settled, Excluded, Result, IsConstant
<1>3. QED
  BY <1>1, <1>2 DEF Values, Unsettled, Joins, InOrder, Listed, ConstantArithmetic,
     IsConstant, Address, Result, Settled

LEMMA VisitStep ==
  ASSUME Progressing, ConstantArithmetic, NEW s, NEW r, VisitNext(s, r), r # "Error"
  PROVE  \E j \in Listed :
           /\ j = Head(todo) /\ Outcomes(j, r) /\ Grows /\ Findings'
           /\ todo # <<>> /\ todo' = Tail(todo) /\ Tail(todo) \in Seq(Listed)
           /\ Elems(todo) = {j} \cup Elems(Tail(todo))
<1>1. todo # <<>> /\ todo \in Seq(Listed)
  BY DEF VisitNext, Progressing, Lists
<1>2. /\ Head(todo) \in Listed /\ Tail(todo) \in Seq(Listed)
      /\ Elems(todo) = {Head(todo)} \cup Elems(Tail(todo))
  BY <1>1, HeadElems
<1>3. PICK j \in Listed : j = Head(todo)
  BY <1>2
<1>4. Visited(j, r) /\ todo' = Tail(todo)
  BY <1>3 DEF VisitNext, Visited
<1>5. Outcomes(j, r)
  BY <1>4, VisitOutcomes DEF Progressing
<1>6. Grows /\ Findings'
  BY <1>5, EffectGrows, EffectFindings DEF Outcomes, Progressing, Listed
<1>7. QED
  BY <1>1, <1>2, <1>3, <1>4, <1>5, <1>6

\* A visit in the rounds keeps what is said of reverse postorders.
LEMMA RoundKeepsOrder ==
  ASSUME Progressing, ConstantArithmetic, NEW r, VisitNext("rounds", r), r # "Error",
         stage' = stage
  PROVE  OneRoundIsEnough'
<1>1. PICK j \in Listed :
        /\ j = Head(todo) /\ Outcomes(j, r) /\ Grows
        /\ todo # <<>> /\ todo' = Tail(todo)
        /\ Elems(todo) = {j} \cup Elems(Tail(todo))
  BY VisitStep
<1>2. stage = "rounds" /\ Unsettled' \subseteq Unsettled /\ (InOrder' <=> InOrder)
  BY <1>1, SettledStays DEF VisitNext
<1>3. CASE ~InOrder
  BY <1>2, <1>3 DEF OneRoundIsEnough
<1>4. CASE InOrder /\ Unsettled = {}
  <2>1. Unsettled' = {}
    BY <1>2, <1>4
  <2>2. QED
    BY <1>2, <2>1 DEF OneRoundIsEnough
<1>5. CASE InOrder /\ Unsettled # {}
  <2>1. Unsettled \subseteq Elems(todo) /\ Increasing(todo)
    BY <1>5 DEF Progressing, OneRoundIsEnough
  <2>2. Listed \subseteq Nat /\ j \in DOMAIN code
    BY <1>1, CodeTypes DEF Listed, Progressing, Findings
  <2>3. todo \in Seq(Nat)
    BY <2>2, SeqMonotonic DEF Progressing, Lists
  <2>4. Increasing(Tail(todo)) /\ \A x \in Elems(Tail(todo)) : j < x
    BY <1>1, <2>1, <2>3, IncreasingTail
  <2>5. \A i \in Values : i < j => Settled(Result(i))
    <3>1. ASSUME NEW i \in Values, i < j, ~Settled(Result(i)) PROVE FALSE
      <4>1. i \in Elems(todo)
        BY <2>1, <3>1 DEF Unsettled
      <4>2. i = j \/ j < i
        BY <1>1, <2>4, <4>1
      <4>3. i \in Nat /\ j \in Nat
        BY <1>1, <2>2, CodeTypes DEF Values, Progressing, Findings
      <4>4. QED
        BY <3>1, <4>2, <4>3
    <3>2. QED
      BY <3>1
  <2>6. SomeSettled(j)
    BY <1>5, <2>2, <2>5, EarlierIsEnough DEF Progressing
  <2>7. code[j].op # "store" => Settled(Result(j))'
    BY <1>1, <2>6 DEF Outcomes
  <2>8. j \notin Unsettled'
    BY <1>1, <2>7 DEF Unsettled, Values, Grows
  <2>9. Unsettled' \subseteq Elems(Tail(todo))
    BY <1>1, <1>2, <2>1, <2>8
  <2>10. Elems(todo)' = Elems(Tail(todo)) /\ (Increasing(todo)' <=> Increasing(Tail(todo)))
    BY <1>1 DEF Elems, Increasing
  <2>11. QED
    BY <1>2, <2>4, <2>9, <2>10 DEF OneRoundIsEnough
<1>6. QED
  BY <1>3, <1>4, <1>5

LEMMA LeftOverElems == LeftOver = Elems(pending_wl) \cup Elems(next_wl)
BY DEF LeftOver, Elems

LEMMA FindingsStay ==
  ASSUME Findings, UNCHANGED <<code, state_offset, exclude, state_access_offset>>
  PROVE  Findings' /\ Grows
<1>1. Grows
  BY DEF Grows, Known, Points, Excluded
<1>2. OffsetsHaveSources' /\ ExclusionsHaveCauses'
  BY DEF Findings, OffsetsHaveSources, ExclusionsHaveCauses, Source, Cause, Points,
     Known, Excluded, Arg, Result, IsConstant
<1>3. AccessesHaveAddresses'
  BY DEF Findings, AccessesHaveAddresses, IsAccess, Address, Known
<1>4. QED
  BY <1>1, <1>2, <1>3 DEF Findings, Pointers, Constants, Known, Excluded, Listed,
     StatePtr, MemoryPtr, Result, IsConstant, Bytes

LEMMA ARoundStep ==
  ASSUME Progressing, ConstantArithmetic,
         MakeProgress \/ PostponeIncomplete \/ PostponeUnknown
  PROVE  Progressing'
<1>1. /\ \/ MakeProgress /\ VisitNext("rounds", "Progress")
         \/ PostponeIncomplete /\ VisitNext("rounds", "Incomplete")
         \/ PostponeUnknown /\ VisitNext("rounds", "NoProgress")
      /\ stage' = stage
  BY DEF MakeProgress, PostponeIncomplete, PostponeUnknown
<1>2. PICK r \in {"Progress", "Incomplete", "NoProgress"} :
        /\ VisitNext("rounds", r)
        /\ r = "Progress" => MakeProgress
        /\ r = "Incomplete" => PostponeIncomplete
        /\ r = "NoProgress" => PostponeUnknown
  BY <1>1
<1>3. r # "Error"
  BY <1>2
<1>4. PICK j \in Listed :
        /\ j = Head(todo) /\ Outcomes(j, r) /\ Grows /\ Findings'
        /\ todo # <<>> /\ todo' = Tail(todo) /\ Tail(todo) \in Seq(Listed)
        /\ Elems(todo) = {j} \cup Elems(Tail(todo))
  BY <1>2, <1>3, VisitStep
<1>5. stage = "rounds" /\ stage' = "rounds" /\ Listed' = Listed
  BY <1>1, <1>4, SettledStays DEF VisitNext
<1>6. /\ todo \in Seq(Listed) /\ pending_wl \in Seq(Listed)
      /\ next_wl \in Seq(Listed) /\ order_of_progress \in Seq(Listed)
      /\ Listed = Elems(todo) \cup LeftOver \cup Elems(order_of_progress)
  BY <1>5 DEF Progressing, Lists, Coverage
<1>7. OneRoundIsEnough'
  BY <1>1, <1>2, <1>3, RoundKeepsOrder
<1>8. /\ pending_wl' \in Seq(Listed) /\ next_wl' \in Seq(Listed)
      /\ order_of_progress' \in Seq(Listed)
      /\ Elems(pending_wl') \cup Elems(next_wl') \cup Elems(order_of_progress') =
           {j} \cup Elems(pending_wl) \cup Elems(next_wl) \cup Elems(order_of_progress)
  <2>1. CASE r = "Progress"
    <3>1. /\ order_of_progress' = Append(order_of_progress, j)
          /\ UNCHANGED <<pending_wl, next_wl>>
      BY <1>2, <1>4, <2>1 DEF MakeProgress
    <3>2. /\ Append(order_of_progress, j) \in Seq(Listed)
          /\ Elems(Append(order_of_progress, j)) = Elems(order_of_progress) \cup {j}
      BY <1>6, AppendElems
    <3>3. QED
      BY <1>6, <3>1, <3>2
  <2>2. CASE r = "Incomplete"
    <3>1. /\ pending_wl' = Append(pending_wl, j)
          /\ UNCHANGED <<order_of_progress, next_wl>>
      BY <1>2, <1>4, <2>2 DEF PostponeIncomplete
    <3>2. /\ Append(pending_wl, j) \in Seq(Listed)
          /\ Elems(Append(pending_wl, j)) = Elems(pending_wl) \cup {j}
      BY <1>6, AppendElems
    <3>3. QED
      BY <1>6, <3>1, <3>2
  <2>3. CASE r = "NoProgress"
    <3>1. /\ next_wl' = Append(next_wl, j)
          /\ UNCHANGED <<order_of_progress, pending_wl>>
      BY <1>2, <1>4, <2>3 DEF PostponeUnknown
    <3>2. /\ Append(next_wl, j) \in Seq(Listed)
          /\ Elems(Append(next_wl, j)) = Elems(next_wl) \cup {j}
      BY <1>6, AppendElems
    <3>3. QED
      BY <1>6, <3>1, <3>2
  <2>4. QED
    BY <2>1, <2>2, <2>3
<1>9. Coverage'
  <2>1. LeftOver' = Elems(pending_wl') \cup Elems(next_wl')
    BY LeftOverElems DEF LeftOver, Elems
  <2>2. Listed = Elems(todo') \cup LeftOver' \cup Elems(order_of_progress')
    BY <1>4, <1>6, <1>8, <2>1, LeftOverElems
  <2>3. /\ Elems(todo)' = Elems(todo')
        /\ Elems(order_of_progress)' = Elems(order_of_progress')
    BY DEF Elems
  <2>4. QED
    BY <1>5, <2>2, <2>3 DEF Coverage
<1>10. Lists'
  BY <1>4, <1>5, <1>8 DEF Lists
<1>11. ArgumentsLooked' /\ (stage' = "true" => todo' = <<>>)
  BY <1>5 DEF ArgumentsLooked
<1>12. QED
  BY <1>4, <1>7, <1>9, <1>10, <1>11 DEF Progressing

\* Where a list is taken up again, everything in a reverse postorder is settled.
LEMMA RoundIsOver ==
  ASSUME Progressing, stage = "rounds", todo = <<>>
  PROVE  InOrder => Unsettled = {}
<1>1. Elems(todo) = {}
  BY DEF Elems
<1>2. QED
  BY <1>1 DEF Progressing, OneRoundIsEnough

LEMMA NextRoundStep ==
  ASSUME Progressing, ConstantArithmetic, NextRound
  PROVE  Progressing'
<1>1. /\ Findings' /\ Grows /\ stage = "rounds" /\ stage' = "rounds"
      /\ todo = <<>> /\ todo' = pending_wl \o next_wl
      /\ pending_wl' = <<>> /\ next_wl' = <<>> /\ order_of_progress' = order_of_progress
  BY FindingsStay DEF NextRound, Progressing
<1>2. Listed' = Listed /\ Unsettled' \subseteq Unsettled /\ (InOrder' <=> InOrder)
  BY <1>1, SettledStays
<1>3. /\ todo \in Seq(Listed) /\ pending_wl \in Seq(Listed)
      /\ next_wl \in Seq(Listed) /\ order_of_progress \in Seq(Listed)
      /\ Listed = Elems(todo) \cup LeftOver \cup Elems(order_of_progress)
  BY <1>1 DEF Progressing, Lists, Coverage
<1>4. /\ todo' \in Seq(Listed)
      /\ Elems(todo') = Elems(pending_wl) \cup Elems(next_wl)
  BY <1>1, <1>3, ConcatElems
<1>5. Lists'
  BY <1>1, <1>2, <1>3, <1>4, EmptySeq DEF Lists
<1>6. Coverage'
  <2>1. LeftOver' = {} /\ Elems(todo) = {}
    BY <1>1 DEF LeftOver, Elems
  <2>2. Listed = Elems(todo') \cup LeftOver' \cup Elems(order_of_progress')
    BY <1>1, <1>3, <1>4, <2>1, LeftOverElems
  <2>3. /\ Elems(todo)' = Elems(todo')
        /\ Elems(order_of_progress)' = Elems(order_of_progress')
    BY DEF Elems
  <2>4. QED
    BY <1>1, <1>2, <2>2, <2>3 DEF Coverage
<1>7. OneRoundIsEnough'
  BY <1>1, <1>2, RoundIsOver DEF OneRoundIsEnough
<1>8. QED
  BY <1>1, <1>5, <1>6, <1>7 DEF Progressing, ArgumentsLooked

LEMMA FinalPassStep ==
  ASSUME Progressing, ConstantArithmetic, FinalPass
  PROVE  Progressing'
<1>1. /\ Findings' /\ Grows /\ stage = "rounds" /\ stage' = "final"
      /\ todo = <<>> /\ curr_wl' = pending_wl \o next_wl
      /\ order_of_progress' = order_of_progress \o curr_wl'
      /\ todo' = order_of_progress'
      /\ pending_wl' = <<>> /\ next_wl' = <<>>
  BY FindingsStay DEF FinalPass, Progressing
<1>2. Listed' = Listed /\ Unsettled' \subseteq Unsettled /\ (InOrder' <=> InOrder)
  BY <1>1, SettledStays
<1>3. /\ todo \in Seq(Listed) /\ pending_wl \in Seq(Listed)
      /\ next_wl \in Seq(Listed) /\ order_of_progress \in Seq(Listed)
      /\ Listed = Elems(todo) \cup LeftOver \cup Elems(order_of_progress)
  BY <1>1 DEF Progressing, Lists, Coverage
<1>4. /\ curr_wl' \in Seq(Listed)
      /\ Elems(curr_wl') = Elems(pending_wl) \cup Elems(next_wl)
  BY <1>1, <1>3, ConcatElems
<1>5. /\ todo' \in Seq(Listed)
      /\ Elems(todo') = Elems(order_of_progress) \cup Elems(curr_wl')
  <2>1. \A t \in Seq(Listed) :
          /\ order_of_progress \o t \in Seq(Listed)
          /\ Elems(order_of_progress \o t) = Elems(order_of_progress) \cup Elems(t)
    BY <1>3, ConcatElems
  <2>2. QED
    BY <1>1, <1>4, <2>1
<1>6. Lists'
  BY <1>1, <1>2, <1>5, EmptySeq DEF Lists
<1>7. LeftOver' = {} /\ Elems(todo) = {} /\ Elems(todo)' = Elems(todo')
  BY <1>1 DEF LeftOver, Elems
<1>8. Coverage'
  <2>1. Listed = Elems(todo')
    BY <1>3, <1>4, <1>5, <1>7, LeftOverElems
  <2>2. QED
    BY <1>1, <1>2, <1>7, <2>1 DEF Coverage
<1>9. OneRoundIsEnough'
  BY <1>1, <1>2, <1>7, RoundIsOver DEF OneRoundIsEnough
<1>10. QED
  BY <1>1, <1>6, <1>8, <1>9 DEF Progressing, ArgumentsLooked

LEMMA VisitAgainStep ==
  ASSUME Progressing, ConstantArithmetic, VisitAgain
  PROVE  Progressing'
<1>1. PICK r \in {"Progress", "Incomplete", "NoProgress"} :
        /\ VisitNext("final", r)
        /\ pending_wl' = IF r = "Incomplete" THEN Append(pending_wl, Head(todo))
                         ELSE pending_wl
        /\ next_wl' = IF r = "NoProgress" THEN Append(next_wl, Head(todo)) ELSE next_wl
  BY DEF VisitAgain
<1>2. r # "Error" /\ stage = "final" /\ stage' = "final"
      /\ order_of_progress' = order_of_progress
  BY <1>1 DEF VisitAgain, VisitNext
<1>3. PICK j \in Listed :
        /\ j = Head(todo) /\ Outcomes(j, r) /\ Grows /\ Findings'
        /\ todo # <<>> /\ todo' = Tail(todo) /\ Tail(todo) \in Seq(Listed)
        /\ Elems(todo) = {j} \cup Elems(Tail(todo))
  BY <1>1, <1>2, VisitStep
<1>4. /\ Listed' = Listed /\ Unsettled' \subseteq Unsettled /\ (InOrder' <=> InOrder)
      /\ Joins' = Joins /\ code' = code
  BY <1>3, SettledStays DEF Grows
<1>5. /\ pending_wl \in Seq(Listed) /\ next_wl \in Seq(Listed)
      /\ order_of_progress \in Seq(Listed)
      /\ \A i \in Listed : i \in Elems(todo) \/ i \in LeftOver \/ Done(i)
      /\ \A i \in LeftOver : code[i].op # "loadstate"
  BY <1>2 DEF Progressing, Lists, Coverage
<1>6. /\ pending_wl' \in Seq(Listed) /\ next_wl' \in Seq(Listed)
      /\ Elems(pending_wl') \cup Elems(next_wl') =
           (IF r = "Progress" THEN {} ELSE {j}) \cup Elems(pending_wl) \cup Elems(next_wl)
  <2>1. CASE r = "Progress"
    BY <1>1, <1>5, <2>1
  <2>2. CASE r = "Incomplete"
    <3>1. pending_wl' = Append(pending_wl, j) /\ next_wl' = next_wl
      BY <1>1, <1>3, <2>2
    <3>2. QED
      BY <1>5, <2>2, <3>1, AppendElems
  <2>3. CASE r = "NoProgress"
    <3>1. next_wl' = Append(next_wl, j) /\ pending_wl' = pending_wl
      BY <1>1, <1>3, <2>3
    <3>2. QED
      BY <1>5, <2>3, <3>1, AppendElems
  <2>4. QED
    BY <2>1, <2>2, <2>3
<1>7. LeftOver' = (IF r = "Progress" THEN {} ELSE {j}) \cup LeftOver
  <2>1. LeftOver' = Elems(pending_wl') \cup Elems(next_wl')
    BY DEF LeftOver, Elems
  <2>2. QED
    BY <1>6, <2>1, LeftOverElems
<1>8. Lists'
  BY <1>2, <1>3, <1>4, <1>5, <1>6 DEF Lists
<1>9. Coverage'
  <2>1. ASSUME NEW i \in Listed PROVE i \in Elems(todo') \/ i \in LeftOver' \/ Done(i)'
    <3>1. i \in Elems(Tail(todo)) \/ i = j \/ i \in LeftOver \/ Done(i)
      BY <1>3, <1>5
    <3>2. Done(i) => Done(i)'
      BY <1>3, DoneStays DEF Listed
    <3>3. i = j => i \in LeftOver' \/ Done(i)'
      BY <1>3, <1>7 DEF Outcomes
    <3>4. QED
      BY <1>3, <1>7, <3>1, <3>2, <3>3
  <2>2. Elems(todo)' = Elems(todo')
    BY DEF Elems
  <2>3. \A i \in LeftOver' : code'[i].op # "loadstate"
    BY <1>3, <1>4, <1>5, <1>7 DEF Outcomes
  <2>4. QED
    BY <1>2, <1>4, <2>1, <2>2, <2>3 DEF Coverage
<1>10. OneRoundIsEnough'
  <2>1. CASE InOrder
    <3>1. /\ Unsettled = {}
          /\ \A i \in LeftOver : code[i].op = "select" /\ i \notin Joins
      BY <1>2, <2>1 DEF Progressing, OneRoundIsEnough
    <3>2. AllSettled(j) /\ SomeSettled(j)
      BY <1>3, <2>1, <3>1, NothingUnsettled DEF Listed, Progressing
    <3>3. r # "Progress" => code[j].op = "select" /\ j \notin Joins
      BY <1>3, <3>2 DEF Outcomes
    <3>4. \A i \in LeftOver' : code'[i].op = "select" /\ i \notin Joins'
      BY <1>4, <1>7, <3>1, <3>3
    <3>5. QED
      BY <1>2, <1>4, <3>1, <3>4 DEF OneRoundIsEnough
  <2>2. CASE ~InOrder
    BY <1>4, <2>2 DEF OneRoundIsEnough
  <2>3. QED
    BY <2>1, <2>2
<1>11. QED
  BY <1>2, <1>3, <1>8, <1>9, <1>10 DEF Progressing, ArgumentsLooked

LEMMA SucceedStep ==
  ASSUME Progressing, ConstantArithmetic, Succeed
  PROVE  Progressing'
<1>1. /\ Findings' /\ Grows /\ stage = "final" /\ stage' = "true"
      /\ todo = <<>> /\ code' = code
      /\ UNCHANGED <<todo, pending_wl, next_wl, order_of_progress, state_offset,
                     exclude, state_access_offset>>
      /\ live_args' = [i \in {j \in DOMAIN code : code[j].op = "call"} |-> LiveArgs(code[i])]
  BY FindingsStay DEF Succeed, Progressing
<1>2. /\ Listed' = Listed /\ Unsettled' \subseteq Unsettled /\ (InOrder' <=> InOrder)
      /\ Joins' = Joins
  BY <1>1, SettledStays
<1>3. Lists' /\ LeftOver' = LeftOver /\ Elems(todo)' = Elems(todo)
  BY <1>1, <1>2 DEF Progressing, Lists, LeftOver, Elems
<1>4. Coverage'
  <2>1. \A i \in Listed : Done(i) => Done(i)'
    BY <1>1, DoneStays DEF Listed
  <2>2. QED
    BY <1>1, <1>2, <1>3, <2>1 DEF Progressing, Coverage
<1>5. OneRoundIsEnough'
  BY <1>1, <1>2, <1>3 DEF Progressing, OneRoundIsEnough
<1>6. ArgumentsLooked'
  <2>1. \A i \in DOMAIN code : LiveArgs(code[i])' = LiveArgs(code[i])
    BY <1>1 DEF LiveArgs, StripCasts, Known, AllSlots
  <2>2. QED
    BY <1>1, <2>1 DEF ArgumentsLooked
<1>7. QED
  BY <1>1, <1>3, <1>4, <1>5, <1>6 DEF Progressing

LEMMA AnalyzeStarts ==
  ASSUME AnalyzeInit
  PROVE  AInv
<1> SUFFICES ASSUME ConstantArithmetic PROVE Progressing
  BY DEF AInv
<1>1. /\ code \in Functions /\ stage = "rounds" /\ todo = InLayout
      /\ state_offset = [v \in {StatePtr} |-> 0]
      /\ exclude = {MemoryPtr} \cup {Result(i) : i \in DOMAIN code \ Listed}
      /\ state_access_offset = [i \in {} |-> 0]
      /\ pending_wl = <<>> /\ next_wl = <<>> /\ order_of_progress = <<>>
  BY DEF AnalyzeInit
<1>2. /\ todo \in Seq(Listed) /\ Elems(todo) = Listed /\ Increasing(todo)
  BY <1>1, LayoutIsIncreasing
<1>3. 0 \in Bytes
  BY EveryByteHasASlot DEF Bytes
<1>4. /\ \A v : Known(v) <=> v = StatePtr
      /\ \A i \in DOMAIN code : Excluded(Result(i)) <=> i \notin Listed
      /\ ~Excluded(StatePtr) /\ Excluded(MemoryPtr)
      /\ \A v \in exclude : v.kind # "int"
  <2>1. \A v : Known(v) <=> v = StatePtr
    BY <1>1 DEF Known
  <2>2. \A v : Excluded(v) <=> v = MemoryPtr \/ \E i \in DOMAIN code \ Listed : v = Result(i)
    BY <1>1 DEF Excluded
  <2>3. /\ \A i : Result(i) # MemoryPtr /\ Result(i) # StatePtr /\ Result(i).kind = "inst"
        /\ \A i, j : Result(i) = Result(j) => i = j
        /\ StatePtr # MemoryPtr /\ MemoryPtr.kind = "arg"
    BY DEF Result, StatePtr, MemoryPtr
  <2>4. \A v \in exclude : v.kind # "int"
    BY <2>2, <2>3 DEF Excluded
  <2>5. QED
    BY <2>1, <2>2, <2>3, <2>4
<1>5. Findings
  <2>1. OffsetsHaveSources
    BY <1>4 DEF OffsetsHaveSources, Result, StatePtr
  <2>2. ExclusionsHaveCauses
    BY <1>4 DEF ExclusionsHaveCauses, Cause, Listed
  <2>3. AccessesHaveAddresses
    BY <1>1 DEF AccessesHaveAddresses
  <2>4. /\ state_offset \in [DOMAIN state_offset -> Bytes]
        /\ DOMAIN state_offset \subseteq Pointers
        /\ Known(StatePtr) /\ state_offset[StatePtr] = 0
    BY <1>1, <1>3, <1>4 DEF Pointers
  <2>5. QED
    BY <1>1, <1>4, <2>1, <2>2, <2>3, <2>4 DEF Findings
<1>6. Lists
  BY <1>1, <1>2, EmptySeq DEF Lists
<1>7. Coverage
  <2>1. LeftOver = {} /\ Elems(order_of_progress) = {}
    BY <1>1 DEF LeftOver, Elems
  <2>2. QED
    BY <1>1, <1>2, <2>1 DEF Coverage
<1>8. OneRoundIsEnough
  <2>1. Unsettled \subseteq Listed
    BY <1>4 DEF Unsettled, Values, Settled
  <2>2. QED
    BY <1>1, <1>2, <2>1 DEF OneRoundIsEnough
<1>9. QED
  BY <1>1, <1>5, <1>6, <1>7, <1>8 DEF Progressing, ArgumentsLooked

LEMMA AnalyzeGoesOn ==
  ASSUME AInv, [AnalyzeNext]_analyzeVars
  PROVE  AInv'
<1>1. CASE \E s \in {"rounds", "final"} : GiveUp(s)
  BY <1>1 DEF AInv, GiveUp
<1>2. CASE UNCHANGED analyzeVars
  <2>1. ASSUME ConstantArithmetic, stage # "false" PROVE Progressing'
    <3>1. Progressing
      BY <2>1 DEF AInv
    <3>2. Findings' /\ Grows
      BY <1>2, <3>1, FindingsStay DEF analyzeVars, Progressing
    <3>3. UNCHANGED <<code, stage, todo, pending_wl, next_wl, order_of_progress,
                      state_offset, exclude, state_access_offset, live_args>>
      BY <1>2 DEF analyzeVars
    <3>4. /\ Listed' = Listed /\ Unsettled' \subseteq Unsettled
          /\ (InOrder' <=> InOrder) /\ Joins' = Joins
      BY <3>2, SettledStays
    <3>5. Lists' /\ LeftOver' = LeftOver /\ Elems(todo)' = Elems(todo)
          /\ Elems(order_of_progress)' = Elems(order_of_progress)
          /\ (Increasing(todo)' <=> Increasing(todo))
      BY <3>1, <3>3, <3>4 DEF Progressing, Lists, LeftOver, Elems, Increasing
    <3>6. \A i \in Listed : Done(i) => Done(i)'
      BY <3>2, DoneStays DEF Listed
    <3>7. Coverage'
      BY <3>1, <3>3, <3>4, <3>5, <3>6 DEF Progressing, Coverage
    <3>8. OneRoundIsEnough'
      BY <3>1, <3>3, <3>4, <3>5 DEF Progressing, OneRoundIsEnough
    <3>9. ArgumentsLooked'
      <4>1. \A i \in DOMAIN code : LiveArgs(code[i])' = LiveArgs(code[i])
        BY <3>3 DEF LiveArgs, StripCasts, Known, AllSlots
      <4>2. QED
        BY <3>1, <3>3, <4>1 DEF Progressing, ArgumentsLooked
    <3>10. QED
      BY <3>1, <3>2, <3>3, <3>5, <3>7, <3>8, <3>9 DEF Progressing
  <2>2. (ConstantArithmetic' <=> ConstantArithmetic) /\ stage' = stage
    BY <1>2 DEF analyzeVars, ConstantArithmetic
  <2>3. QED
    BY <2>1, <2>2 DEF AInv
<1>3. CASE \/ MakeProgress \/ PostponeIncomplete \/ PostponeUnknown \/ NextRound
           \/ FinalPass \/ VisitAgain \/ Succeed
  <2>1. stage # "false" /\ code' = code
    BY <1>3 DEF MakeProgress, PostponeIncomplete, PostponeUnknown, NextRound, FinalPass,
       VisitAgain, Succeed, VisitNext
  <2>2. ConstantArithmetic' <=> ConstantArithmetic
    BY <2>1 DEF ConstantArithmetic
  <2>3. ASSUME ConstantArithmetic PROVE Progressing'
    BY <1>3, <2>1, <2>3, ARoundStep, NextRoundStep, FinalPassStep, VisitAgainStep,
       SucceedStep DEF AInv
  <2>4. QED
    BY <2>2, <2>3 DEF AInv
<1>4. QED
  BY <1>1, <1>2, <1>3 DEF AnalyzeNext

(***************************************************************************)
(* The worklists of Analyze lose no instruction, whatever is postponed,    *)
(* and every offset, exclusion and access that the visit methods record    *)
(* has its reason in an operand, where pointers are moved by constants:    *)
(* the inductive invariant.                                                *)
(***************************************************************************)
THEOREM FindingsAreJustified == AnalyzeSpec => []AInv
<1>1. AnalyzeInit => AInv
  BY AnalyzeStarts
<1>2. AInv /\ [AnalyzeNext]_analyzeVars => AInv'
  BY AnalyzeGoesOn
<1>3. QED
  BY <1>1, <1>2, PTL DEF AnalyzeSpec
-----------------------------------------------------------------------------
(***************************************************************************)
(* What Analyze has found when it returns true is closed under execution.  *)
(***************************************************************************)
Finished ==
  \A i \in Listed :
    \/ Done(i)
    \/ /\ i \notin Joins /\ code[i].op # "loadstate"
       /\ code[i].op = "select" \/ \A k \in DOMAIN code[i].ops : ~Known(Arg(i, k))

LEMMA AnalyzedIsFinished ==
  ASSUME AInv, ConstantArithmetic, Analyzed
  PROVE  Findings /\ Finished /\ ArgumentsLooked /\ stage = "true"
<1>1. Progressing /\ stage = "true" /\ (InOrder \/ Completed)
  BY DEF AInv, Analyzed
<1>2. Elems(todo) = {}
  BY <1>1 DEF Progressing, Elems
<1>3. /\ \A i \in Listed : i \in LeftOver \/ Done(i)
      /\ \A i \in LeftOver : code[i].op # "loadstate"
  BY <1>1, <1>2 DEF Progressing, Coverage
<1>4. CASE InOrder
  <2>1. \A i \in LeftOver : code[i].op = "select" /\ i \notin Joins
    BY <1>1, <1>4 DEF Progressing, OneRoundIsEnough
  <2>2. QED
    BY <1>1, <1>3, <2>1 DEF Finished, Progressing
<1>5. CASE Completed
  BY <1>1, <1>3, <1>5 DEF Finished, Progressing, Completed, Arg
<1>6. QED
  BY <1>1, <1>4, <1>5

LEMMA OffsetsInOperands ==
  ASSUME code \in Functions, NEW i \in DOMAIN code, NEW k \in DOMAIN code[i].ops, NEW X,
         NEW o \in OffsetsIn(X, Arg(i, k))
  PROVE  /\ ~IsConstant(Arg(i, k)) /\ o \in Bytes
         /\ \/ Arg(i, k) = StatePtr /\ o = 0
            \/ \E n \in DOMAIN code : Arg(i, k) = Result(n) /\ <<n, o>> \in X
<1> DEFINE v == Arg(i, k)
<1>1. \/ v = StatePtr /\ o = 0
      \/ v # StatePtr /\ v.kind = "inst" /\ o \in Bytes /\ <<v.n, o>> \in X
  BY DEF OffsetsIn
<1>2. \/ v \in {StatePtr, MemoryPtr} \cup Constants
      \/ v.n \in DOMAIN code /\ v = Result(v.n)
  BY OperandTypes DEF Values
<1> HIDE DEF v
<1>3. 0 \in Bytes
  BY EveryByteHasASlot DEF Bytes
<1>4. v = StatePtr => ~IsConstant(v)
  BY DEF IsConstant, StatePtr
<1>5. v.kind = "inst" => ~IsConstant(v) /\ v \notin Constants /\ v # MemoryPtr
  BY DEF IsConstant, Constants, MemoryPtr
<1>6. /\ ~IsConstant(v) /\ o \in Bytes
      /\ \/ v = StatePtr /\ o = 0
         \/ \E n \in DOMAIN code : v = Result(n) /\ <<n, o>> \in X
  BY <1>1, <1>2, <1>3, <1>4, <1>5
<1>7. QED
  BY <1>6 DEF v

\* How an instruction can come by an offset.
Moves(X, i, o) ==
  \/ code[i].op = "loadstate" /\ o = 0
  \/ /\ code[i].op = "gep" /\ Arg(i, 2).kind = "int"
     /\ \E p \in OffsetsIn(X, Arg(i, 1)) : o = p + Arg(i, 2).n
  \/ /\ code[i].op = "gep" /\ Arg(i, 2).kind # "int"
     /\ \E p \in OffsetsIn(X, Arg(i, 1)) : TRUE
  \/ /\ code[i].op \in {"add", "sub"}
     /\ \E p \in OffsetsIn(X, Arg(i, 1)) : o = p + Sign(code[i].op) * Arg(i, 2).n
  \/ /\ code[i].op \in {"cast", "select", "phi"}
     /\ \E k \in DOMAIN code[i].ops : o \in OffsetsIn(X, Arg(i, k))

LEMMA ExecutedMoves ==
  ASSUME code \in Functions, ConstantArithmetic, NEW i \in DOMAIN code, NEW X,
         NEW o \in Executed(X, code[i])
  PROVE  Moves(X, i, o) /\ o \in Bytes
<1>1. 0 \in Bytes
  BY EveryByteHasASlot DEF Bytes
<1>2. CASE code[i].op = "loadstate"
  BY <1>1, <1>2 DEF Executed, Moves
<1>3. CASE code[i].op = "gep"
  <2>1. o \in Moved(X, Arg(i, 1), Arg(i, 2), 1)
    BY <1>3 DEF Executed, Arg
  <2>2. Arg(i, 2).n \in Int
    BY <1>3, Arities, OperandTypes DEF Operands
  <2>3. CASE Arg(i, 2).kind = "int"
    <3>1. o \in {p + 1 * Arg(i, 2).n : p \in OffsetsIn(X, Arg(i, 1))} /\ o \in Bytes
      BY <2>1, <2>3 DEF Moved
    <3>2. PICK p \in OffsetsIn(X, Arg(i, 1)) : o = p + 1 * Arg(i, 2).n
      BY <3>1
    <3>3. o = p + Arg(i, 2).n
      BY <2>2, <3>2
    <3>4. QED
      BY <1>3, <2>3, <3>1, <3>3 DEF Moves
  <2>4. CASE Arg(i, 2).kind # "int"
    <3>1. OffsetsIn(X, Arg(i, 1)) # {} /\ o \in Bytes
      BY <2>1, <2>4 DEF Moved
    <3>2. QED
      BY <1>3, <2>4, <3>1 DEF Moves
  <2>5. QED
    BY <2>3, <2>4
<1>4. CASE code[i].op \in {"add", "sub"}
  <2> DEFINE a == Arg(i, 1)
             b == Arg(i, 2)
  <2>1. b.kind = "int"
    BY <1>4 DEF ConstantArithmetic, Arg
  <2>2. OffsetsIn(X, b) = {}
    BY <2>1 DEF OffsetsIn, StatePtr
  <2>3. a.kind = "int" => OffsetsIn(X, a) = {}
    BY DEF OffsetsIn, StatePtr
  <2>4. \/ o \in Moved(X, a, b, Sign(code[i].op))
        \/ o \in Moved(X, b, a, 1)
    BY <1>4 DEF Executed, Arg, Sign
  <2> HIDE DEF a, b
  <2>5. Moved(X, b, a, 1) = {}
    BY <2>2 DEF Moved
  <2>6. /\ o \in {p + Sign(code[i].op) * b.n : p \in OffsetsIn(X, a)} /\ o \in Bytes
    BY <2>1, <2>4, <2>5 DEF Moved
  <2>7. QED
    BY <1>4, <2>6 DEF Moves, a, b
<1>5. CASE code[i].op \in {"cast", "select", "phi"}
  <2>1. PICK k \in DOMAIN code[i].ops : o \in OffsetsIn(X, Arg(i, k))
    BY <1>5 DEF Executed, Arg
  <2>2. o \in Bytes
    BY <2>1, OffsetsInOperands
  <2>3. QED
    BY <1>5, <2>1, <2>2 DEF Moves
<1>6. CASE code[i].op \notin {"loadstate", "gep", "add", "sub", "cast", "select", "phi"}
  BY <1>6 DEF Executed
<1>7. QED
  BY <1>2, <1>3, <1>4, <1>5, <1>6

(***************************************************************************)
(* First, without regard to what is excluded: no offset is wrong.          *)
(***************************************************************************)
Truths == {m \in (DOMAIN code) \X Bytes :
             Known(Result(m[1])) => state_offset[Result(m[1])] = m[2]}

LEMMA TrueOperands ==
  ASSUME Findings, NEW X \in SUBSET Truths, NEW i \in DOMAIN code,
         NEW k \in DOMAIN code[i].ops, NEW o \in OffsetsIn(X, Arg(i, k))
  PROVE  /\ ~IsConstant(Arg(i, k))
         /\ Known(Arg(i, k)) => state_offset[Arg(i, k)] = o
<1>1. /\ ~IsConstant(Arg(i, k))
      /\ \/ Arg(i, k) = StatePtr /\ o = 0
         \/ \E n \in DOMAIN code : Arg(i, k) = Result(n) /\ <<n, o>> \in X
  BY OffsetsInOperands DEF Findings
<1>2. CASE Arg(i, k) = StatePtr /\ o = 0
  BY <1>1, <1>2 DEF Findings
<1>3. CASE \E n \in DOMAIN code : Arg(i, k) = Result(n) /\ <<n, o>> \in X
  <2>1. PICK n \in DOMAIN code : Arg(i, k) = Result(n) /\ <<n, o>> \in Truths
    BY <1>3
  <2>2. Known(Result(n)) => state_offset[Result(n)] = o
    BY <2>1 DEF Truths
  <2>3. QED
    BY <1>1, <2>1, <2>2
<1>4. QED
  BY <1>1, <1>2, <1>3

LEMMA TruthsAreClosed ==
  ASSUME Findings, Finished, ConstantArithmetic, NEW X \in SUBSET Truths
  PROVE  Round(X) \subseteq Truths
<1>1. ASSUME NEW i \in DOMAIN code, NEW o \in Executed(X, code[i])
      PROVE  <<i, o>> \in Truths
  <2>1. Moves(X, i, o) /\ o \in Bytes
    BY ExecutedMoves DEF Findings
  <2>2. ASSUME Known(Result(i)) PROVE state_offset[Result(i)] = o
    <3> DEFINE s == state_offset[Result(i)]
    <3>1. Source(i, s) /\ code[i].op \in Movers
      BY <2>2, OperandFacts DEF Findings, OffsetsHaveSources
    <3> HIDE DEF s
    <3>2. \A k \in DOMAIN code[i].ops : \A p \in OffsetsIn(X, Arg(i, k)) :
            /\ ~IsConstant(Arg(i, k))
            /\ Points(Arg(i, k)) => state_offset[Arg(i, k)] = p
      BY TrueOperands DEF Points
    <3>3. code[i].op \in {"cast", "gep", "add", "sub"} => 1 \in DOMAIN code[i].ops
      BY Arities DEF Findings
    <3>4. CASE code[i].op = "loadstate"
      BY <2>1, <3>1, <3>4 DEF Moves, Source, s
    <3>5. CASE code[i].op = "gep"
      <4>1. /\ Points(Arg(i, 1)) /\ Arg(i, 2).kind = "int"
            /\ s = state_offset[Arg(i, 1)] + Arg(i, 2).n
        BY <3>1, <3>5 DEF Source
      <4>2. PICK p \in OffsetsIn(X, Arg(i, 1)) : o = p + Arg(i, 2).n
        BY <2>1, <3>5, <4>1 DEF Moves
      <4>3. QED
        BY <3>2, <3>3, <3>5, <4>1, <4>2 DEF s
    <3>6. CASE code[i].op \in {"add", "sub"}
      <4>1. PICK p \in OffsetsIn(X, Arg(i, 1)) : o = p + Sign(code[i].op) * Arg(i, 2).n
        BY <2>1, <3>6 DEF Moves
      <4>2. Arg(i, 1).kind # "int"
        BY <3>2, <3>3, <3>6 DEF IsConstant
      <4>3. /\ Points(Arg(i, 1))
            /\ s = state_offset[Arg(i, 1)] + Sign(code[i].op) * Arg(i, 2).n
        BY <3>1, <3>6, <4>2 DEF Source
      <4>4. QED
        BY <3>2, <3>3, <3>6, <4>1, <4>3 DEF s
    <3>7. CASE code[i].op = "cast"
      <4>1. Points(Arg(i, 1)) /\ s = state_offset[Arg(i, 1)]
        BY <3>1, <3>7 DEF Source
      <4>2. o \in OffsetsIn(X, Arg(i, 1))
        BY <2>1, <3>7, Arities DEF Moves, Findings
      <4>3. QED
        BY <3>2, <3>3, <3>7, <4>1, <4>2 DEF s
    <3>8. CASE code[i].op \in {"select", "phi"}
      <4>1. PICK k \in DOMAIN code[i].ops : o \in OffsetsIn(X, Arg(i, k))
        BY <2>1, <3>8 DEF Moves
      <4>2. PICK l \in DOMAIN code[i].ops :
              Points(Arg(i, l)) /\ s = state_offset[Arg(i, l)]
        BY <3>1, <3>8 DEF Source
      <4>3. ~IsConstant(Arg(i, k)) /\ ~IsConstant(Arg(i, l))
        BY <3>2, <4>1, <4>2, OperandFacts
      <4>4. CASE i \in Joins
        <5>1. i \in Listed
          BY <3>8 DEF Listed
        <5>2. Agrees(i) \/ Outside(i)
          BY <4>4, <5>1 DEF Finished, Done
        <5>3. Agrees(i)
          BY <4>2, <4>3, <5>2 DEF Outside, Points
        <5>4. Points(Arg(i, k)) /\ state_offset[Arg(i, k)] = s
          BY <4>3, <5>3 DEF Agrees, s
        <5>5. QED
          BY <3>2, <4>1, <5>4 DEF s
      <4>5. CASE i \notin Joins
        <5>1. code[i].op = "select" /\ DOMAIN code[i].ops = {1, 2}
          BY <3>8, <4>5, Arities DEF Joins, Findings
        <5>2. PICK c \in DOMAIN code[i].ops : IsConstant(Arg(i, c))
          BY <4>5, <5>1 DEF Joins, Arg
        <5>3. k = l
          BY <4>3, <5>1, <5>2
        <5>4. QED
          BY <3>2, <4>1, <4>2, <5>3 DEF s
      <4>6. QED
        BY <4>4, <4>5
    <3>9. QED
      BY <3>1, <3>4, <3>5, <3>6, <3>7, <3>8 DEF Movers
  <2>3. QED
    BY <2>1, <2>2 DEF Truths
<1>2. ASSUME NEW m \in Round(X) PROVE m \in Truths
  <2>1. PICK i \in DOMAIN code : m \in {i} \X Executed(X, code[i])
    BY <1>2 DEF Round
  <2>2. m = <<i, m[2]>> /\ m[2] \in Executed(X, code[i])
    BY <2>1
  <2>3. QED
    BY <1>1, <2>2
<1>3. QED
  BY <1>2

LEMMA FunctionsAreFinite ==
  ASSUME code \in Functions
  PROVE  Len(code) * Size \in Nat
<1>1. Len(code) \in Nat /\ Size \in Nat
  BY CodeTypes, EveryByteHasASlot
<1>2. QED
  BY <1>1

LEMMA TrueWhenAnalyzed ==
  ASSUME AInv
  PROVE  OffsetsAreTrue
<1> SUFFICES ASSUME Analyzed, ConstantArithmetic
             PROVE  \A m \in MayBe : Known(Result(m[1])) => state_offset[Result(m[1])] = m[2]
  BY DEF OffsetsAreTrue
<1>1. Findings /\ Finished
  BY AnalyzedIsFinished
<1>2. MayBe \subseteq Truths
  BY <1>1, TruthsAreClosed, FunctionsAreFinite, MayBeIsLeast DEF Findings
<1>3. QED
  BY <1>2 DEF Truths

(***************************************************************************)
(* Then, where nothing selected or joined is constant: all that points into *)
(* State when the function runs is found.                                  *)
(***************************************************************************)
Found == {m \in (DOMAIN code) \X Bytes :
            Points(Result(m[1])) /\ state_offset[Result(m[1])] = m[2]}

LEMMA FoundOperands ==
  ASSUME Findings, NEW X \in SUBSET Found, NEW i \in DOMAIN code,
         NEW k \in DOMAIN code[i].ops, NEW o \in OffsetsIn(X, Arg(i, k))
  PROVE  Points(Arg(i, k)) /\ state_offset[Arg(i, k)] = o
<1>1. \/ Arg(i, k) = StatePtr /\ o = 0
      \/ \E n \in DOMAIN code : Arg(i, k) = Result(n) /\ <<n, o>> \in X
  BY OffsetsInOperands DEF Findings
<1>2. CASE Arg(i, k) = StatePtr /\ o = 0
  BY <1>2, OperandFacts DEF Findings
<1>3. CASE \E n \in DOMAIN code : Arg(i, k) = Result(n) /\ <<n, o>> \in X
  <2>1. PICK n \in DOMAIN code : Arg(i, k) = Result(n) /\ <<n, o>> \in Found
    BY <1>3
  <2>2. Points(Result(n)) /\ state_offset[Result(n)] = o
    BY <2>1 DEF Found
  <2>3. QED
    BY <2>1, <2>2
<1>4. QED
  BY <1>1, <1>2, <1>3

LEMMA FoundIsClosed ==
  ASSUME Findings, Finished, Usual, NEW X \in SUBSET Found
  PROVE  Round(X) \subseteq Found
<1>1. ASSUME NEW i \in DOMAIN code, NEW o \in Executed(X, code[i])
      PROVE  <<i, o>> \in Found
  <2>1. Moves(X, i, o) /\ o \in Bytes
    BY ExecutedMoves DEF Findings, Usual
  <2>2. \A k \in DOMAIN code[i].ops : \A p \in OffsetsIn(X, Arg(i, k)) :
          Points(Arg(i, k)) /\ state_offset[Arg(i, k)] = p
    BY FoundOperands
  <2>3. code[i].op \in {"cast", "gep", "add", "sub"} => 1 \in DOMAIN code[i].ops
    BY Arities DEF Findings
  <2>4. code[i].op \in Movers /\ i \in Listed
    BY <2>1 DEF Moves, Movers, Listed
  <2>5. Known(Result(i)) => Source(i, state_offset[Result(i)])
    BY DEF Findings, OffsetsHaveSources
  <2>6. Excluded(Result(i)) => Cause(i)
    BY DEF Findings, ExclusionsHaveCauses
  <2>7. Points(Result(i)) /\ state_offset[Result(i)] = o
    <3>1. CASE code[i].op = "loadstate"
      <4>1. Known(Result(i))
        BY <2>4, <3>1 DEF Finished, Done
      <4>2. ~Excluded(Result(i))
        BY <2>6, <3>1 DEF Cause
      <4>3. QED
        BY <2>1, <2>5, <3>1, <4>1, <4>2 DEF Source, Moves, Points
    <3>2. CASE code[i].op \in {"gep", "cast", "add", "sub"}
      <4>1. PICK p \in OffsetsIn(X, Arg(i, 1)) :
              \/ code[i].op = "gep" /\ Arg(i, 2).kind = "int" /\ o = p + Arg(i, 2).n
              \/ code[i].op = "gep" /\ Arg(i, 2).kind # "int"
              \/ code[i].op \in {"add", "sub"} /\ o = p + Sign(code[i].op) * Arg(i, 2).n
              \/ code[i].op = "cast" /\ o = p
        BY <2>1, <3>2, Arities DEF Moves, Findings
      <4>2. Points(Arg(i, 1)) /\ state_offset[Arg(i, 1)] = p
        BY <2>2, <2>3, <3>2, <4>1
      <4>3. Done(i)
        BY <2>3, <2>4, <3>2, <4>2 DEF Finished, Points
      <4>4. Known(Result(i))
        BY <3>2, <4>2, <4>3 DEF Done, Points
      <4>5. ~Excluded(Result(i))
        BY <2>6, <3>2, <4>2 DEF Cause, Points
      <4>6. Arg(i, 1).kind # "int"
        BY <4>2, OperandFacts DEF IsConstant
      <4>7. state_offset[Result(i)] = o
        BY <2>5, <3>2, <4>1, <4>2, <4>4, <4>6 DEF Source
      <4>8. QED
        BY <4>4, <4>5, <4>7 DEF Points
    <3>3. CASE code[i].op \in {"select", "phi"}
      <4>1. PICK k \in DOMAIN code[i].ops : o \in OffsetsIn(X, Arg(i, k))
        BY <2>1, <3>3 DEF Moves
      <4>2. Points(Arg(i, k)) /\ state_offset[Arg(i, k)] = o
        BY <2>2, <4>1
      <4>3. /\ i \in Joins
            /\ \A l \in DOMAIN code[i].ops : ~IsConstant(Arg(i, l))
        BY <3>3 DEF Usual, Joins, Arg
      <4>4. Agrees(i) \/ Outside(i)
        BY <2>4, <4>3 DEF Finished, Done
      <4>5. Agrees(i)
        BY <4>1, <4>2, <4>3, <4>4 DEF Outside, Points
      <4>6. /\ Known(Result(i)) /\ state_offset[Result(i)] = o
            /\ \A l \in DOMAIN code[i].ops : Points(Arg(i, l))
        BY <4>1, <4>2, <4>3, <4>5 DEF Agrees
      <4>7. ~Excluded(Result(i))
        BY <2>6, <3>3, <4>3, <4>6 DEF Cause, Points
      <4>8. QED
        BY <4>6, <4>7 DEF Points
    <3>4. QED
      BY <2>4, <3>1, <3>2, <3>3 DEF Movers
  <2>8. QED
    BY <2>1, <2>7 DEF Found
<1>2. ASSUME NEW m \in Round(X) PROVE m \in Found
  <2>1. PICK i \in DOMAIN code : m \in {i} \X Executed(X, code[i])
    BY <1>2 DEF Round
  <2>2. m = <<i, m[2]>> /\ m[2] \in Executed(X, code[i])
    BY <2>1
  <2>3. QED
    BY <1>1, <2>2
<1>3. QED
  BY <1>2

LEMMA AllIsFound ==
  ASSUME Findings, Finished, Usual
  PROVE  MayBe \in SUBSET Found
BY FoundIsClosed, FunctionsAreFinite, MayBeIsLeast DEF Findings

LEMMA AccessesFoundWhenAnalyzed ==
  ASSUME AInv
  PROVE  AccessesAreFound
<1> SUFFICES ASSUME Analyzed, Usual, NEW i \in DOMAIN code, IsAccess(i),
                    NEW o \in OffsetsIn(MayBe, Address(i))
             PROVE  i \in DOMAIN state_access_offset /\ state_access_offset[i] = o
  BY DEF AccessesAreFound
<1>1. Findings /\ Finished
  BY AnalyzedIsFinished DEF Usual
<1>2. MayBe \in SUBSET Found
  BY <1>1, AllIsFound
<1>3. PICK k \in DOMAIN code[i].ops : Address(i) = Arg(i, k)
  BY <1>1, Arities DEF IsAccess, Address, Arg, Findings
<1>4. Points(Address(i)) /\ state_offset[Address(i)] = o
  BY <1>1, <1>2, <1>3, FoundOperands
<1>5. i \in Listed /\ code[i].op # "select"
  BY DEF Listed, IsAccess
<1>6. Done(i)
  BY <1>1, <1>3, <1>4, <1>5 DEF Finished, Points
<1>7. i \in DOMAIN state_access_offset
  BY <1>4, <1>6 DEF Done, Points
<1>8. QED
  BY <1>1, <1>4, <1>7 DEF Findings, AccessesHaveAddresses

LEMMA ArgumentsLiveWhenAnalyzed ==
  ASSUME AInv
  PROVE  ArgumentsAreLive
<1> SUFFICES ASSUME Analyzed, Usual, NEW i \in DOMAIN live_args,
                    NEW k \in DOMAIN code[i].ops, NEW o \in OffsetsIn(MayBe, code[i].ops[k])
             PROVE  (IF o = 0 THEN AllSlots ELSE {SlotOf[o]}) \subseteq live_args[i]
  BY DEF ArgumentsAreLive
<1>1. Findings /\ Finished /\ ArgumentsLooked /\ stage = "true"
  BY AnalyzedIsFinished DEF Usual
<1>2. MayBe \in SUBSET Found
  BY <1>1, AllIsFound
<1>3. i \in DOMAIN code /\ live_args[i] = LiveArgs(code[i])
  BY <1>1 DEF ArgumentsLooked
<1>4. Points(Arg(i, k)) /\ state_offset[Arg(i, k)] = o
  <2>1. o \in OffsetsIn(MayBe, Arg(i, k))
    BY DEF Arg
  <2>2. QED
    BY <1>1, <1>2, <1>3, <2>1, FoundOperands
<1> DEFINE v == StripCasts(Arg(i, k))
<1>5. Known(v) /\ state_offset[v] = o
  <2>1. CASE Arg(i, k).kind = "inst" /\ code[Arg(i, k).n].op = "cast"
    <3>1. PICK n \in DOMAIN code : Arg(i, k) = Result(n) /\ n = Arg(i, k).n
      <4>1. \/ Arg(i, k) \in {StatePtr, MemoryPtr} \cup Constants
            \/ Arg(i, k).n \in Values /\ Arg(i, k) = Result(Arg(i, k).n)
        BY <1>1, <1>3, OperandTypes DEF Findings
      <4>2. QED
        BY <2>1, <4>1 DEF StatePtr, MemoryPtr, Constants, IsConstant, Values
    <3>2. Source(n, state_offset[Result(n)]) /\ code[n].op = "cast"
      BY <1>1, <1>4, <2>1, <3>1 DEF Findings, OffsetsHaveSources, Points
    <3>3. Points(Arg(n, 1)) /\ state_offset[Arg(n, 1)] = o
      BY <1>4, <3>1, <3>2 DEF Source
    <3>4. v = Arg(n, 1)
      BY <2>1, <3>1 DEF StripCasts, Arg
    <3>5. QED
      BY <3>3, <3>4 DEF Points
  <2>2. CASE ~(Arg(i, k).kind = "inst" /\ code[Arg(i, k).n].op = "cast")
    BY <1>4, <2>2 DEF StripCasts, Points
  <2>3. QED
    BY <2>1, <2>2
<1>6. v \in {w \in {StripCasts(code[i].ops[l]) : l \in DOMAIN code[i].ops} : Known(w)}
  BY <1>5 DEF Arg
<1> HIDE DEF v
<1>7. (IF state_offset[v] = 0 THEN AllSlots ELSE {SlotOf[state_offset[v]]})
        \subseteq LiveArgs(code[i])
  BY <1>6 DEF LiveArgs
<1>8. QED
  BY <1>3, <1>5, <1>7

(***************************************************************************)
(* ForwardAliasVisitor takes no pointer for another: where Analyze has     *)
(* returned true, an instruction in state_offset computes that offset, if  *)
(* it points into State at all.                                            *)
(***************************************************************************)
THEOREM OffsetsHold == AnalyzeSpec => []OffsetsAreTrue
BY FindingsAreJustified, TrueWhenAnalyzed, PTL

(***************************************************************************)
(* No load or store of State escapes the analysis: state_access_offset has *)
(* its offset, which is what makes the scan for dead stores see it.        *)
(***************************************************************************)
THEOREM AccessesHold == AnalyzeSpec => []AccessesAreFound
BY FindingsAreJustified, AccessesFoundWhenAnalyzed, PTL

(***************************************************************************)
(* A call reads what GetLiveSetFromArgs says it reads: the slot of every   *)
(* byte of State its arguments point at.                                   *)
(***************************************************************************)
THEOREM ArgumentsHold == AnalyzeSpec => []ArgumentsAreLive
BY FindingsAreJustified, ArgumentsLiveWhenAnalyzed, PTL

-----------------------------------------------------------------------------
(***************************************************************************)
(* The lists keep their length, whatever the functions contain.            *)
(***************************************************************************)
EachOnOneList ==
  /\ Lists
  /\ Listed = Elems(todo) \cup Elems(pending_wl) \cup Elems(next_wl)
              \cup Elems(order_of_progress)
  /\ Cardinality(Listed) = Len(todo) + Len(pending_wl) + Len(next_wl)
                           + Len(order_of_progress)

AllInOrder ==
  /\ order_of_progress \in Seq(Listed)
  /\ Elems(order_of_progress) = Listed
  /\ Cardinality(Listed) = Len(order_of_progress)

Once == /\ code \in Functions
        /\ stage = "rounds" => EachOnOneList
        /\ stage = "final" => AllInOrder

LEMMA HeadCounts ==
  ASSUME EachOnOneList, todo # <<>>
  PROVE  /\ Head(todo) \in Listed /\ Tail(todo) \in Seq(Listed)
         /\ Elems(todo) = {Head(todo)} \cup Elems(Tail(todo))
         /\ Len(todo) = Len(Tail(todo)) + 1 /\ Len(Tail(todo)) \in Nat
<1>1. todo \in Seq(Listed)
  BY DEF EachOnOneList, Lists
<1>2. Len(Tail(todo)) = Len(todo) - 1 /\ Len(todo) \in Nat /\ Tail(todo) \in Seq(Listed)
  BY <1>1
<1>3. QED
  BY <1>1, <1>2, HeadElems

LEMMA AppendCounts ==
  ASSUME NEW S, NEW s \in Seq(S), NEW x \in S
  PROVE  Append(s, x) \in Seq(S) /\ Elems(Append(s, x)) = Elems(s) \cup {x}
         /\ Len(Append(s, x)) = Len(s) + 1 /\ Len(s) \in Nat
<1>1. Len(Append(s, x)) = Len(s) + 1 /\ Len(s) \in Nat
  OBVIOUS
<1>2. QED
  BY <1>1, AppendElems

LEMMA ConcatCounts ==
  ASSUME NEW S, NEW s \in Seq(S), NEW t \in Seq(S)
  PROVE  s \o t \in Seq(S) /\ Elems(s \o t) = Elems(s) \cup Elems(t)
         /\ Len(s \o t) = Len(s) + Len(t)
<1>1. Len(s \o t) = Len(s) + Len(t)
  BY ConcatProperties
<1>2. QED
  BY <1>1, ConcatElems

LEMMA OnceInitially ==
  ASSUME AnalyzeInit
  PROVE  Once
<1>1. /\ code \in Functions /\ stage = "rounds" /\ todo = InLayout
      /\ pending_wl = <<>> /\ next_wl = <<>> /\ order_of_progress = <<>>
  BY DEF AnalyzeInit
<1>2. Cardinality(Listed) \in Nat
  BY <1>1, Ranks
<1>3. todo \in Seq(Listed) /\ Elems(todo) = Listed
  BY <1>1, LayoutIsIncreasing
<1>4. Len(todo) = Cardinality(Listed)
  BY <1>1, <1>2 DEF InLayout
<1>5. Len(<<>>) = 0 /\ Elems(<<>>) = {}
  BY DEF Elems
<1>6. Lists
  BY <1>1, <1>3, EmptySeq DEF Lists
<1>7. EachOnOneList
  BY <1>1, <1>2, <1>3, <1>4, <1>5, <1>6 DEF EachOnOneList
<1>8. QED
  BY <1>1, <1>7 DEF Once

\* What has been visited goes to exactly one of three lists.
LEMMA VisitCounts ==
  ASSUME Once, MakeProgress \/ PostponeIncomplete \/ PostponeUnknown
  PROVE  Once'
<1>1. /\ todo # <<>> /\ todo' = Tail(todo)
      /\ stage = "rounds" /\ stage' = "rounds" /\ code' = code
  BY DEF MakeProgress, PostponeIncomplete, PostponeUnknown, VisitNext
<1>2. /\ EachOnOneList /\ Listed' = Listed
  BY <1>1 DEF Once, Listed
<1>3. PICK j \in Listed :
        /\ j = Head(todo) /\ Tail(todo) \in Seq(Listed)
        /\ Elems(todo) = {j} \cup Elems(Tail(todo))
        /\ Len(todo) = Len(Tail(todo)) + 1 /\ Len(Tail(todo)) \in Nat
  BY <1>1, <1>2, HeadCounts
<1>4. /\ pending_wl \in Seq(Listed) /\ next_wl \in Seq(Listed)
      /\ order_of_progress \in Seq(Listed)
  BY <1>2 DEF EachOnOneList, Lists
<1>5. \A s \in Seq(Listed) :
        /\ Append(s, j) \in Seq(Listed) /\ Elems(Append(s, j)) = Elems(s) \cup {j}
        /\ Len(Append(s, j)) = Len(s) + 1 /\ Len(s) \in Nat
  BY AppendCounts
<1>6. /\ pending_wl' \in Seq(Listed) /\ next_wl' \in Seq(Listed)
      /\ order_of_progress' \in Seq(Listed)
      /\ Elems(pending_wl') \cup Elems(next_wl') \cup Elems(order_of_progress') =
           {j} \cup Elems(pending_wl) \cup Elems(next_wl) \cup Elems(order_of_progress)
      /\ Len(pending_wl') + Len(next_wl') + Len(order_of_progress') =
           Len(pending_wl) + Len(next_wl) + Len(order_of_progress) + 1
  <2>1. CASE MakeProgress
    <3>1. /\ order_of_progress' = Append(order_of_progress, j)
          /\ pending_wl' = pending_wl /\ next_wl' = next_wl
      BY <1>3, <2>1 DEF MakeProgress
    <3>2. QED
      BY <1>4, <1>5, <3>1
  <2>2. CASE PostponeIncomplete
    <3>1. /\ pending_wl' = Append(pending_wl, j)
          /\ order_of_progress' = order_of_progress /\ next_wl' = next_wl
      BY <1>3, <2>2 DEF PostponeIncomplete
    <3>2. QED
      BY <1>4, <1>5, <3>1
  <2>3. CASE PostponeUnknown
    <3>1. /\ next_wl' = Append(next_wl, j)
          /\ order_of_progress' = order_of_progress /\ pending_wl' = pending_wl
      BY <1>3, <2>3 DEF PostponeUnknown
    <3>2. QED
      BY <1>4, <1>5, <3>1
  <2>4. QED
    BY <2>1, <2>2, <2>3
<1>7. Lists'
  BY <1>1, <1>2, <1>3, <1>6 DEF Lists
<1>8. Listed = Elems(todo') \cup Elems(pending_wl') \cup Elems(next_wl')
               \cup Elems(order_of_progress')
  BY <1>1, <1>2, <1>3, <1>6 DEF EachOnOneList
<1>9. Cardinality(Listed) = Len(todo') + Len(pending_wl') + Len(next_wl')
                            + Len(order_of_progress')
  <2>1. /\ Len(pending_wl) \in Nat /\ Len(next_wl) \in Nat
        /\ Len(order_of_progress) \in Nat
        /\ Len(pending_wl') \in Nat /\ Len(next_wl') \in Nat
        /\ Len(order_of_progress') \in Nat
    BY <1>4, <1>6
  <2>2. Cardinality(Listed) = Len(todo) + Len(pending_wl) + Len(next_wl)
                              + Len(order_of_progress)
    BY <1>2 DEF EachOnOneList
  <2>3. /\ Len(pending_wl') + Len(next_wl') + Len(order_of_progress') =
             Len(pending_wl) + Len(next_wl) + Len(order_of_progress) + 1
        /\ Len(todo) = Len(todo') + 1 /\ Len(todo') \in Nat
    BY <1>1, <1>3, <1>6
  <2>4. QED
    BY <2>1, <2>2, <2>3
<1>10. EachOnOneList'
  BY <1>2, <1>7, <1>8, <1>9 DEF EachOnOneList, Elems
<1>11. QED
  BY <1>1, <1>10 DEF Once

\* What has been postponed is taken up again, all of it.
LEMMA RoundEndCounts ==
  ASSUME Once, NextRound \/ FinalPass
  PROVE  Once'
<1>1. /\ todo = <<>> /\ stage = "rounds" /\ code' = code
      /\ pending_wl' = <<>> /\ next_wl' = <<>>
  BY DEF NextRound, FinalPass
<1>2. EachOnOneList /\ Listed' = Listed
  BY <1>1 DEF Once, Listed
<1>3. /\ pending_wl \in Seq(Listed) /\ next_wl \in Seq(Listed)
      /\ order_of_progress \in Seq(Listed)
      /\ Len(pending_wl) \in Nat /\ Len(next_wl) \in Nat
      /\ Len(order_of_progress) \in Nat
  BY <1>2 DEF EachOnOneList, Lists
<1>4. Elems(<<>>) = {} /\ Len(<<>>) = 0
  BY DEF Elems
<1>5. PICK c \in Seq(Listed) :
        /\ c = pending_wl \o next_wl
        /\ Elems(c) = Elems(pending_wl) \cup Elems(next_wl)
        /\ Len(c) = Len(pending_wl) + Len(next_wl)
  BY <1>3, ConcatCounts
<1>6. /\ Listed = Elems(c) \cup Elems(order_of_progress)
      /\ Cardinality(Listed) = Len(order_of_progress) + Len(c)
  BY <1>1, <1>2, <1>3, <1>4, <1>5 DEF EachOnOneList
<1>7. CASE NextRound
  <2>1. /\ stage' = "rounds" /\ todo' = c /\ order_of_progress' = order_of_progress
    BY <1>5, <1>7 DEF NextRound
  <2>2. Lists'
    BY <1>1, <1>2, <1>3, <2>1, EmptySeq DEF Lists
  <2>3. Listed' = Elems(todo') \cup Elems(pending_wl') \cup Elems(next_wl')
                  \cup Elems(order_of_progress')
    BY <1>1, <1>2, <1>4, <1>6, <2>1
  <2>4. Cardinality(Listed)' = Len(todo') + Len(pending_wl') + Len(next_wl')
                              + Len(order_of_progress')
    BY <1>1, <1>2, <1>3, <1>4, <1>5, <1>6, <2>1
  <2>5. EachOnOneList'
    BY <2>2, <2>3, <2>4 DEF EachOnOneList, Elems
  <2>6. QED
    BY <1>1, <2>1, <2>5 DEF Once
<1>8. CASE FinalPass
  <2>1. stage' = "final" /\ order_of_progress' = order_of_progress \o c
    BY <1>5, <1>8 DEF FinalPass
  <2>2. /\ order_of_progress \o c \in Seq(Listed)
        /\ Elems(order_of_progress \o c) = Listed
        /\ Len(order_of_progress \o c) = Cardinality(Listed)
    <3>1. \A s, t \in Seq(Listed) :
            /\ s \o t \in Seq(Listed) /\ Elems(s \o t) = Elems(s) \cup Elems(t)
            /\ Len(s \o t) = Len(s) + Len(t)
      BY ConcatCounts
    <3>2. /\ order_of_progress \o c \in Seq(Listed)
          /\ Elems(order_of_progress \o c) = Elems(order_of_progress) \cup Elems(c)
          /\ Len(order_of_progress \o c) = Len(order_of_progress) + Len(c)
      BY <1>3, <3>1
    <3>3. QED
      BY <1>6, <3>2
  <2>3. /\ order_of_progress' \in Seq(Listed)
        /\ Elems(order_of_progress') = Listed
        /\ Cardinality(Listed) = Len(order_of_progress')
    BY <2>1, <2>2
  <2>4. AllInOrder'
    BY <1>2, <2>3 DEF AllInOrder, Elems
  <2>5. QED
    BY <1>1, <2>1, <2>4 DEF Once
<1>9. QED
  BY <1>7, <1>8

LEMMA OnceAlways == AnalyzeSpec => []Once
<1>1. AnalyzeInit => Once
  BY OnceInitially
<1>2. Once /\ [AnalyzeNext]_analyzeVars => Once'
  <2> SUFFICES ASSUME Once, [AnalyzeNext]_analyzeVars PROVE Once'
    OBVIOUS
  <2>1. CASE MakeProgress \/ PostponeIncomplete \/ PostponeUnknown
    BY <2>1, VisitCounts
  <2>2. CASE NextRound \/ FinalPass
    BY <2>2, RoundEndCounts
  <2>3. CASE VisitAgain
    <3>1. /\ stage = "final" /\ stage' = "final" /\ code' = code
          /\ order_of_progress' = order_of_progress
      BY <2>3 DEF VisitAgain, VisitNext
    <3>2. QED
      BY <3>1 DEF Once, AllInOrder, Elems, Listed
  <2>4. CASE Succeed \/ \E s \in {"rounds", "final"} : GiveUp(s)
    <3>1. stage' \in {"true", "false"} /\ code' = code
      BY <2>4 DEF Succeed, GiveUp, VisitNext
    <3>2. QED
      BY <3>1 DEF Once
  <2>5. CASE UNCHANGED analyzeVars
    BY <2>5 DEF Once, EachOnOneList, AllInOrder, Lists, Elems, Listed, analyzeVars
  <2>6. QED
    BY <2>1, <2>2, <2>3, <2>4, <2>5 DEF AnalyzeNext
<1>3. QED
  BY <1>1, <1>2, PTL DEF AnalyzeSpec

(***************************************************************************)
(* The CHECK before the final pass cannot fail, and the pass visits every  *)
(* instruction once: the swapped and appended worklists of Analyze neither *)
(* lose nor repeat any, however often PHI nodes are postponed.             *)
(***************************************************************************)
THEOREM EachVisitedOnce == AnalyzeSpec => []EveryInstructionOnce
<1>1. Once => EveryInstructionOnce
  <2> SUFFICES ASSUME Once, stage = "final"
               PROVE  /\ \A i, j \in DOMAIN order_of_progress :
                           order_of_progress[i] = order_of_progress[j] => i = j
                      /\ Elems(order_of_progress) = Listed
    BY DEF EveryInstructionOnce, Elems
  <2> DEFINE n == Len(order_of_progress)
  <2>1. /\ order_of_progress \in Seq(Listed) /\ Elems(order_of_progress) = Listed
        /\ Cardinality(Listed) = n
    BY DEF Once, AllInOrder
  <2>2. n \in Nat /\ order_of_progress \in [1..n -> Listed]
        /\ DOMAIN order_of_progress = 1..n
    BY <2>1
  <2> HIDE DEF n
  <2>3. order_of_progress \in Surjection(1..n, Listed)
    BY <2>1, <2>2 DEF Surjection, Elems
  <2>4. IsFiniteSet(1..n) /\ Cardinality(1..n) = n
    BY <2>2, FS_Interval
  <2>5. order_of_progress \in Injection(1..n, Listed)
    BY <2>1, <2>3, <2>4, FS_SurjSameCardinalityImpliesInj
  <2>6. QED
    BY <2>1, <2>2, <2>5 DEF Injection, IsInjective
<1>2. QED
  BY <1>1, OnceAlways, PTL
=============================================================================
