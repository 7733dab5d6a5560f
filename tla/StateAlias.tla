----------------------------- MODULE StateAlias -----------------------------
(***************************************************************************)
(* ForwardAliasVisitor (remill/BC/DeadStoreEliminator.cpp): which byte of  *)
(* State each pointer of a lifted function points at.                      *)
(*                                                                         *)
(* A function is a sequence of instructions in the order of its blocks,    *)
(* which need not be an order of execution.  An instruction is a record    *)
(* with its opcode op and its operands ops, a sequence of operands         *)
(*   [kind |-> "inst",   n |-> i]   the result of instruction i            *)
(*   [kind |-> "arg",    n |-> 0]   the State pointer; n = 1 stands for    *)
(*                                  the memory pointer and the PC          *)
(*   [kind |-> "int",    n |-> c]   an integer constant                    *)
(*   [kind |-> "const",  n |-> 0]   any other constant: null, undef, a     *)
(*                                  global or an expression on one         *)
(* "gep" has a pointer and an offset that is an "int" iff it is constant;  *)
(* "load" has a pointer, "store" a value and a pointer; "loadstate" loads  *)
(* a State pointer, "call" hands its operands to code that is not lifted.  *)
(* "other" is everything the visitor has no case for.                      *)
(***************************************************************************)
EXTENDS Integers, Sequences, FiniteSets

CONSTANTS Functions,   \* the functions a run considers
          Size,        \* the number of bytes of State: offset_to_slot.size()
          SlotOf       \* offset_to_slot: the slot of each byte

ASSUME EveryByteHasASlot == Size \in Nat \ {0} /\ DOMAIN SlotOf = 0..Size - 1

Operands == [kind : {"inst", "arg", "int", "const"}, n : Int]
Opcodes == {"load", "loadstate", "store", "gep", "cast", "add", "sub", "select",
            "phi", "alloca", "call", "other"}
Arity(op) == CASE op \in {"load", "cast"} -> {1}
               [] op \in {"store", "gep", "add", "sub", "select"} -> {2}
               [] OTHER -> Nat

\* What LLVM's verifier checks.  A store has no result.
ASSUME FunctionsAssumption ==
  \A f \in Functions :
    /\ f \in Seq([op : Opcodes, ops : Seq(Operands)])
    /\ \A i \in DOMAIN f :
         /\ Len(f[i].ops) \in Arity(f[i].op)
         /\ \A k \in DOMAIN f[i].ops :
              LET v == f[i].ops[k] IN
              /\ v.kind = "inst" => v.n \in DOMAIN f /\ f[v.n].op # "store"
              /\ v.kind = "arg" => v.n \in {0, 1}

VARIABLES code,                  \* the function that is analysed
          state_offset,          \* operand -> offset into State
          exclude,               \* operands that do not point into State
          state_access_offset,   \* load or store -> offset into State
          curr_wl, pending_wl, next_wl,
          todo,                  \* what is left of curr_wl in this round
          progress, old_exclude_count,
          order_of_progress,
          live_args,             \* call -> slots its arguments point into
          stage                  \* "rounds", "final", or what Analyze returns

analyzeVars ==
  <<code, state_offset, exclude, state_access_offset, curr_wl, pending_wl,
    next_wl, todo, progress, old_exclude_count, order_of_progress, live_args,
    stage>>

Result(i) == [kind |-> "inst", n |-> i]
StatePtr == [kind |-> "arg", n |-> 0]
MemoryPtr == [kind |-> "arg", n |-> 1]

IsConstant(v) == v.kind \in {"int", "const"}
Known(v) == v \in DOMAIN state_offset
Excluded(v) == v \in exclude

\* unordered_map::emplace: the first offset stays.
WithOffset(v, o) == IF Known(v) THEN state_offset
                    ELSE [x \in DOMAIN state_offset \cup {v} |->
                            IF x = v THEN o ELSE state_offset[x]]

InBounds(o) == 0 <= o /\ o < Size

-----------------------------------------------------------------------------
(***************************************************************************)
(* The visit methods.  Each says what visiting instruction i would return  *)
(* and leave in state_offset, exclude and state_access_offset.             *)
(***************************************************************************)
Outcome(r, off, exc, acc) ==
  [result |-> r, offsets |-> off, excluded |-> exc, accesses |-> acc]

Finds(r, i, o) ==
  Outcome(r, WithOffset(Result(i), o), exclude, state_access_offset)
Excludes(r, vs) == Outcome(r, state_offset, exclude \cup vs, state_access_offset)
Leaves(r) == Outcome(r, state_offset, exclude, state_access_offset)
Accesses(i, o, vs) ==
  Outcome("Progress", state_offset, exclude \cup vs,
          IF i \in DOMAIN state_access_offset THEN state_access_offset
          ELSE [x \in DOMAIN state_access_offset \cup {i} |->
                  IF x = i THEN o ELSE state_access_offset[x]])

VisitLoadInst(i, ptr) ==
  CASE Excluded(ptr) -> Excludes("Progress", {Result(i)})
    [] ~Excluded(ptr) /\ ~Known(ptr) -> Leaves("NoProgress")
    [] OTHER -> Accesses(i, state_offset[ptr], {Result(i)})

VisitStoreInst(i, val, ptr) ==
  CASE Known(val) -> Leaves("Error")
    [] ~Known(val) /\ Excluded(ptr) -> Excludes("Progress", {Result(i)})
    [] ~Known(val) /\ ~Excluded(ptr) /\ ~Known(ptr) -> Leaves("NoProgress")
    [] OTHER -> Accesses(i, state_offset[ptr], {})

VisitGetElementPtrInst(i, ptr, index) ==
  CASE Excluded(ptr) -> Excludes("Progress", {Result(i)})
    [] ~Excluded(ptr) /\ ~Known(ptr) -> Leaves("NoProgress")
    [] OTHER -> IF index.kind = "int" /\ InBounds(state_offset[ptr] + index.n)
                THEN Finds("Progress", i, state_offset[ptr] + index.n)
                ELSE Leaves("Error")

VisitCastInst(i, v) ==
  CASE Excluded(v) -> Excludes("Progress", {Result(i)})
    [] ~Excluded(v) /\ ~Known(v) -> Leaves("NoProgress")
    [] OTHER -> Finds("Progress", i, state_offset[v])

\* add and sub.  A constant that is not an integer excludes the left operand,
\* whichever side it is on.
VisitBinaryOp(i, lhs, rhs, sign) ==
  LET isConst(v)   == ~Excluded(v) /\ v.kind = "int"
      isOffset(v)  == ~Excluded(v) /\ ~IsConstant(v) /\ Known(v)
      isOther(v)   == Excluded(v) \/ v.kind = "const"
      isMissing(v) == ~isConst(v) /\ ~isOffset(v) /\ ~isOther(v)
      offset(v)    == IF v.kind = "int" THEN v.n ELSE state_offset[v]
      sum          == offset(lhs) + sign * offset(rhs)
      bad          == IF \E v \in {lhs, rhs} : v.kind = "const" /\ ~Excluded(v)
                      THEN {lhs} ELSE {}
  IN CASE isOther(lhs) \/ isOther(rhs) ->
            Excludes(IF isMissing(lhs) \/ isMissing(rhs)
                     THEN "Incomplete" ELSE "Progress", bad \cup {Result(i)})
       [] ~isOther(lhs) /\ ~isOther(rhs) /\ (isMissing(lhs) \/ isMissing(rhs)) ->
            Leaves("Incomplete")
       [] OTHER ->
            IF (isOffset(lhs) /\ isOffset(rhs)) \/ ~InBounds(sum)
            THEN Leaves("Error")
            ELSE Finds("Progress", i, sum)

VisitSelect(i, t, f) ==
  LET ins == {t, f}
      found == {v \in ins : Known(v)}
      out == {v \in ins : Excluded(v)}
  IN CASE found # {} /\ out # {} -> Leaves("Error")
       [] found # {} /\ out = {} ->
            IF \E v, w \in found : state_offset[v] # state_offset[w]
            THEN Leaves("Error")
            ELSE Finds(IF found = ins THEN "Progress" ELSE "Incomplete",
                       i, state_offset[CHOOSE v \in found : TRUE])
       [] found = {} /\ out # {} ->
            Excludes(IF out = ins THEN "Progress" ELSE "Incomplete", {Result(i)})
       [] OTHER -> IF \E v \in ins : IsConstant(v)
                   THEN Excludes("Progress", {Result(i)})
                   ELSE Leaves("NoProgress")

\* A PHI node goes ahead with what is known of its incoming values, and is
\* complete when all are.
JoinIncoming(i, ins, agree) ==
  LET out == {v \in ins : Excluded(v)}
      consts == {v \in ins \ out : IsConstant(v)}
      found == {v \in ins \ (out \cup consts) : Known(v)}
      result == IF out \cup consts \cup found = ins
                THEN "Progress" ELSE "Incomplete"
  IN CASE ~agree \/ (found # {} /\ out # {}) -> Leaves("Error")
       [] agree /\ found # {} /\ out = {} ->
            Finds(result, i, state_offset[CHOOSE v \in found : TRUE])
       [] agree /\ found = {} /\ out \cup consts # {} -> Excludes(result, {Result(i)})
       [] OTHER -> Leaves("NoProgress")

\* Faulty variants: incoming values are not compared; the node waits for all.
VisitPHIUnchecked(i, ins) == JoinIncoming(i, ins, TRUE)
VisitPHIWhenComplete(i, ins) ==
  IF \A v \in ins : Known(v) \/ Excluded(v)
  THEN JoinIncoming(i, ins, TRUE) ELSE Leaves("NoProgress")

VisitPHINode(i, ins) ==
  LET found == {v \in ins : Known(v) /\ ~Excluded(v)} IN
  JoinIncoming(i, ins, \A v, w \in found : state_offset[v] = state_offset[w])

Visit(i) ==
  LET inst == code[i]
      arg(k) == inst.ops[k] IN
  CASE inst.op = "load"      -> VisitLoadInst(i, arg(1))
    [] inst.op = "loadstate" -> Finds("Progress", i, 0)
    [] inst.op = "store"     -> VisitStoreInst(i, arg(1), arg(2))
    [] inst.op = "gep"       -> VisitGetElementPtrInst(i, arg(1), arg(2))
    [] inst.op = "cast"      -> VisitCastInst(i, arg(1))
    [] inst.op = "add"       -> VisitBinaryOp(i, arg(1), arg(2), 1)
    [] inst.op = "sub"       -> VisitBinaryOp(i, arg(1), arg(2), -1)
    [] inst.op = "select"    -> VisitSelect(i, arg(1), arg(2))
    [] inst.op = "phi"       -> VisitPHINode(i, {arg(k) : k \in DOMAIN inst.ops})
    [] OTHER                 -> Excludes("Progress", {Result(i)})

-----------------------------------------------------------------------------
(* Analyze. *)

\* AddInstruction: what is visited, in the order of the blocks.
Listed == {i \in DOMAIN code : code[i].op \notin {"alloca", "call"}}
InLayout == [k \in 1..Cardinality(Listed) |->
               CHOOSE i \in Listed : Cardinality({j \in Listed : j <= i}) = k]

AnalyzeInit ==
  /\ code \in Functions
  /\ state_offset = [v \in {StatePtr} |-> 0]
  /\ exclude = {MemoryPtr} \cup
               {Result(i) : i \in DOMAIN code \ Listed}
  /\ state_access_offset = [i \in {} |-> 0]
  /\ curr_wl = InLayout
  /\ todo = curr_wl
  /\ pending_wl = <<>> /\ next_wl = <<>> /\ order_of_progress = <<>>
  /\ progress = FALSE
  /\ live_args = [i \in {} |-> {}]
  /\ old_exclude_count = Cardinality(exclude)
  /\ stage = "rounds"

\* Visit the next instruction of the list and take over what it found.
VisitNext(s, result) ==
  /\ stage = s /\ todo # <<>>
  /\ LET v == Visit(Head(todo)) IN
     /\ v.result = result
     /\ state_offset' = v.offsets
     /\ exclude' = v.excluded
     /\ state_access_offset' = v.accesses
  /\ todo' = Tail(todo)
  /\ UNCHANGED <<code, curr_wl, old_exclude_count, live_args>>

MakeProgress ==
  /\ VisitNext("rounds", "Progress")
  /\ order_of_progress' = Append(order_of_progress, Head(todo))
  /\ progress' = TRUE
  /\ UNCHANGED <<pending_wl, next_wl, stage>>

PostponeIncomplete ==
  /\ VisitNext("rounds", "Incomplete")
  /\ pending_wl' = Append(pending_wl, Head(todo))
  /\ UNCHANGED <<next_wl, progress, order_of_progress, stage>>

PostponeUnknown ==
  /\ VisitNext("rounds", "NoProgress")
  /\ next_wl' = Append(next_wl, Head(todo))
  /\ UNCHANGED <<pending_wl, progress, order_of_progress, stage>>

GiveUp(s) ==
  /\ VisitNext(s, "Error")
  /\ stage' = "false"
  /\ UNCHANGED <<pending_wl, next_wl, progress, order_of_progress>>

\* Faulty variant: instructions that are incomplete keep the loop going.
StillPending == progress \/ pending_wl # <<>>
Growing == progress \/ old_exclude_count < Cardinality(exclude)

NextRound ==
  /\ stage = "rounds" /\ todo = <<>>
  /\ pending_wl \o next_wl # <<>> /\ Growing
  /\ curr_wl' = pending_wl \o next_wl
  /\ todo' = curr_wl'
  /\ pending_wl' = <<>> /\ next_wl' = <<>>
  /\ progress' = FALSE
  /\ old_exclude_count' = Cardinality(exclude)
  /\ UNCHANGED <<code, state_offset, exclude, state_access_offset,
                 order_of_progress, live_args, stage>>

\* The loop is left: one more pass over everything, what is left over last.
FinalPass ==
  /\ stage = "rounds" /\ todo = <<>>
  /\ pending_wl \o next_wl = <<>> \/ ~Growing
  /\ curr_wl' = pending_wl \o next_wl
  /\ order_of_progress' = order_of_progress \o curr_wl'
  /\ todo' = order_of_progress'
  /\ pending_wl' = <<>> /\ next_wl' = <<>>
  /\ stage' = "final"
  /\ UNCHANGED <<code, state_offset, exclude, state_access_offset, progress,
                 old_exclude_count, live_args>>

VisitAgain ==
  /\ \E r \in {"Progress", "Incomplete", "NoProgress"} :
       /\ VisitNext("final", r)
       /\ pending_wl' = IF r = "Incomplete" THEN Append(pending_wl, Head(todo))
                        ELSE pending_wl
       /\ next_wl' = IF r = "NoProgress" THEN Append(next_wl, Head(todo))
                     ELSE next_wl
  /\ UNCHANGED <<progress, order_of_progress, stage>>

\* GetLiveSetFromArgs looks through casts.  Offset 0 may be all of State.
StripCasts(v) == IF v.kind = "inst" /\ code[v.n].op = "cast"
                 THEN code[v.n].ops[1] ELSE v
AllSlots == {SlotOf[o] : o \in DOMAIN SlotOf}

\* Faulty variant: the State pointer itself is taken for the first register.
LiveArgsOfFields(call) ==
  {SlotOf[state_offset[v]] :
     v \in {w \in {StripCasts(call.ops[k]) : k \in DOMAIN call.ops} : Known(w)}}

LiveArgs(call) ==
  UNION {IF state_offset[v] = 0 THEN AllSlots ELSE {SlotOf[state_offset[v]]} :
           v \in {w \in {StripCasts(call.ops[k]) : k \in DOMAIN call.ops} : Known(w)}}

\* Last the calls.  What is left over is only reported.
Succeed ==
  /\ stage = "final" /\ todo = <<>>
  /\ live_args' = [i \in {j \in DOMAIN code : code[j].op = "call"} |->
                     LiveArgs(code[i])]
  /\ stage' = "true"
  /\ UNCHANGED <<code, state_offset, exclude, state_access_offset, curr_wl,
                 pending_wl, next_wl, todo, progress, old_exclude_count,
                 order_of_progress>>

AnalyzeNext ==
  \/ MakeProgress \/ PostponeIncomplete \/ PostponeUnknown \/ NextRound
  \/ FinalPass \/ VisitAgain \/ Succeed
  \/ \E s \in {"rounds", "final"} : GiveUp(s)

AnalyzeSpec ==
  AnalyzeInit /\ [][AnalyzeNext]_analyzeVars /\ WF_analyzeVars(AnalyzeNext)

-----------------------------------------------------------------------------
(***************************************************************************)
(* Reference: the offsets a value may have when the function runs, as the  *)
(* least set of pairs <<instruction, offset>> closed under execution.      *)
(* Pointers outside State are undefined behaviour and left out.            *)
(***************************************************************************)
Bytes == 0..Size - 1

OffsetsIn(S, v) == IF v = StatePtr THEN {0}
                   ELSE IF v.kind = "inst" THEN {o \in Bytes : <<v.n, o>> \in S}
                   ELSE {}

Moved(S, ptr, by, sign) ==
  IF by.kind = "int" THEN {o + sign * by.n : o \in OffsetsIn(S, ptr)} \cap Bytes
  ELSE IF OffsetsIn(S, ptr) = {} THEN {} ELSE Bytes

Executed(S, inst) ==
  CASE inst.op = "loadstate" -> {0}
    [] inst.op \in {"gep", "sub"} ->
         Moved(S, inst.ops[1], inst.ops[2], IF inst.op = "gep" THEN 1 ELSE -1)
    [] inst.op = "add" -> Moved(S, inst.ops[1], inst.ops[2], 1)
                          \cup Moved(S, inst.ops[2], inst.ops[1], 1)
    [] inst.op \in {"cast", "select", "phi"} ->
         UNION {OffsetsIn(S, inst.ops[k]) : k \in DOMAIN inst.ops}
    [] OTHER -> {}

MayBe ==
  LET after[n \in Nat] ==
        IF n = 0 THEN {}
        ELSE LET S == after[n - 1] IN
             UNION {{i} \X Executed(S, code[i]) : i \in DOMAIN code}
  IN after[Len(code) * Size]

IsAccess(i) == code[i].op \in {"load", "store"}
Address(i) == code[i].ops[IF code[i].op = "store" THEN 2 ELSE 1]

\* Arithmetic on pointers into State is with integer constants only.
ConstantArithmetic ==
  \A i \in DOMAIN code :
    code[i].op \in {"add", "sub"} => code[i].ops[2].kind = "int"

\* ... and what is selected or joined is never a constant.
Usual ==
  /\ ConstantArithmetic
  /\ \A i \in DOMAIN code : code[i].op \in {"select", "phi"} =>
       \A k \in DOMAIN code[i].ops : ~IsConstant(code[i].ops[k])

\* Blocks are laid out in a reverse postorder: only PHI nodes refer to later
\* instructions, and never with all their incoming values.  No address is a
\* constant.
InOrder ==
  \A i \in DOMAIN code :
    LET earlier == {k \in DOMAIN code[i].ops :
                      code[i].ops[k].kind = "inst" => code[i].ops[k].n < i} IN
    /\ IF code[i].op = "phi" THEN earlier # {} ELSE earlier = DOMAIN code[i].ops
    /\ code[i].op \in {"load", "store", "gep", "cast"} => ~IsConstant(Address(i))

\* What Analyze reports as not completed: it depends on nothing that was found,
\* and no join of two values is among it.
LeftOver == {pending_wl[k] : k \in DOMAIN pending_wl}
            \cup {next_wl[k] : k \in DOMAIN next_wl}
Joins == {i \in DOMAIN code :
            \/ code[i].op = "phi"
            \/ /\ code[i].op = "select"
               /\ \A k \in DOMAIN code[i].ops : ~IsConstant(code[i].ops[k])}
Completed ==
  \A i \in LeftOver :
    /\ i \notin Joins
    /\ code[i].op # "select" => \A k \in DOMAIN code[i].ops : ~Known(code[i].ops[k])

Analyzed == stage = "true" /\ (InOrder \/ Completed)

AnalyzeTypeOK ==
  /\ state_offset \in [DOMAIN state_offset -> Bytes]
  /\ state_access_offset \in [DOMAIN state_access_offset -> Bytes]
  /\ DOMAIN state_access_offset \subseteq {i \in DOMAIN code : IsAccess(i)}
  /\ stage \in {"rounds", "final", "true", "false"}

(***************************************************************************)
(* CHECK(num_insts == order_of_progress.size()), and no instruction is in  *)
(* order_of_progress twice: the rounds neither lose nor repeat any.        *)
(***************************************************************************)
EveryInstructionOnce ==
  stage = "final" =>
    /\ \A i, j \in DOMAIN order_of_progress :
         order_of_progress[i] = order_of_progress[j] => i = j
    /\ {order_of_progress[i] : i \in DOMAIN order_of_progress} =
         Listed

(***************************************************************************)
(* Guesses about PHI nodes are only kept if they turn out right: a value   *)
(* for which the visitor has an offset cannot have another at run time.    *)
(***************************************************************************)
OffsetsAreTrue ==
  (Analyzed /\ ConstantArithmetic) =>
    \A m \in MayBe : Known(Result(m[1])) => state_offset[Result(m[1])] = m[2]

(***************************************************************************)
(* Every load and store of State is known, with its offset, whatever the   *)
(* order of the blocks; the live set analysis and the forwarding of        *)
(* registers take an access they do not know for one of other memory.      *)
(***************************************************************************)
AccessesAreFound ==
  (Analyzed /\ Usual) =>
    \A i \in DOMAIN code : IsAccess(i) =>
      \A o \in OffsetsIn(MayBe, Address(i)) :
        i \in DOMAIN state_access_offset /\ state_access_offset[i] = o

(***************************************************************************)
(* A callee that is handed a pointer to a byte of State is taken to read   *)
(* the slot of that byte, and all of State if the pointer is to its start. *)
(***************************************************************************)
ArgumentsAreLive ==
  (Analyzed /\ Usual) =>
    \A i \in DOMAIN live_args : \A k \in DOMAIN code[i].ops :
      \A o \in OffsetsIn(MayBe, code[i].ops[k]) :
        (IF o = 0 THEN AllSlots ELSE {SlotOf[o]}) \subseteq live_args[i]

\* The rounds end although each may postpone the same PHI nodes again.
Terminates == <>(stage \in {"true", "false"})

(***************************************************************************)
(* "Analysis repeats until the current worklist is empty or until an error *)
(* condition is hit": when the loop ends there is nothing left in the list *)
(* that could make progress.                                               *)
(***************************************************************************)
RepeatsUntilDone ==
  (stage = "rounds" /\ todo = <<>> /\ ~Growing) =>
    \A i \in DOMAIN next_wl : Visit(next_wl[i]).result # "Progress"

(***************************************************************************)
(* visitPHINode: "We unconditionally visit all incoming values in PHI      *)
(* nodes, and repeatedly do so until every such value is resolved, so that *)
(* we can make sure that there are no inconsistencies."                    *)
(***************************************************************************)
NoInconsistencies ==
  stage = "true" =>
    \A i \in DOMAIN code : (code[i].op = "phi" /\ Known(Result(i))) =>
      \A k \in DOMAIN code[i].ops : Known(code[i].ops[k]) =>
        state_offset[code[i].ops[k]] = state_offset[Result(i)]

(***************************************************************************)
(* Where the analysis of a function failed, its accesses must not be known *)
(* by halves: a store that is known while a load that may read it is not   *)
(* looks dead.  For calls VisitBlock allows for this ("Likely due to a     *)
(* more general failure to analyze this particular function").             *)
(***************************************************************************)
FailureIsConservative ==
  stage = "false" =>
    \A i, j \in DOMAIN code :
      (code[i].op = "load" /\ i \notin DOMAIN state_access_offset
         /\ code[j].op = "store" /\ j \in DOMAIN state_access_offset) =>
      state_access_offset[j] \notin OffsetsIn(MayBe, Address(i))
=============================================================================
